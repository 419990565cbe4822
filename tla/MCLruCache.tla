----------------------------- MODULE MCLruCache -----------------------------
(* Room for three of four keys, two values. *)
EXTENDS LruCache
=============================================================================
