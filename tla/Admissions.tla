----------------------------- MODULE Admissions -----------------------------
(***************************************************************************)
(* What the rate limit of POST /register promises: on one day, one address *)
(* is admitted with at most three emails, and always with one it was       *)
(* admitted with already.                                                  *)
(***************************************************************************)
EXTENDS Naturals, FiniteSets

CONSTANTS
  IPs,       \* the remote addresses
  Emails,    \* the emails a body may carry
  NoEmail,   \* the empty one
  MaxDay     \* bound: the last day

VARIABLES
  day,       \* today
  admitted,  \* admitted[ip]: the emails ip was admitted with today
  verdict    \* the last request and its answer

admissionVars == <<day, admitted, verdict>>

Limit == 3

NoVerdict == [ip |-> "none", email |-> NoEmail, ok |-> TRUE]

Init ==
  /\ day = 0
  /\ admitted = [ip \in IPs |-> {}]
  /\ verdict = NoVerdict

Allowed(ip, email) ==
  email \in admitted[ip] \/ Cardinality(admitted[ip]) < Limit

Check(ip, email) ==
  /\ verdict' = [ip |-> ip, email |-> email, ok |-> Allowed(ip, email)]
  /\ admitted' = IF Allowed(ip, email)
                 THEN [admitted EXCEPT ![ip] = @ \cup ({email} \ {NoEmail})]
                 ELSE admitted
  /\ UNCHANGED day

Midnight ==
  /\ day < MaxDay
  /\ day' = day + 1
  /\ admitted' = [ip \in IPs |-> {}]
  /\ UNCHANGED verdict

Next == Midnight \/ \E ip \in IPs, email \in Emails \cup {NoEmail} : Check(ip, email)

Spec == Init /\ [][Next]_admissionVars
=============================================================================
