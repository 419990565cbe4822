----------------------------- MODULE MCRateLimit -----------------------------
(* Two addresses, four emails for three slots, three days. *)
EXTENDS RateLimit
CONSTANTS e1, e2, e3, e4
=============================================================================
