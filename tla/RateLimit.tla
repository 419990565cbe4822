------------------------------ MODULE RateLimit ------------------------------
(***************************************************************************)
(* The rate limit of POST /register (src/CROW_ROUTEs/register.cpp): a map  *)
(* from the remote address to three slots for emails, emptied by the first *)
(* check of a day.  check_rate_limit holds its mutex from start to end, so *)
(* a check is one step.                                                    *)
(***************************************************************************)
EXTENDS Naturals, FiniteSetsExt

CONSTANTS
  IPs,       \* the remote addresses
  Emails,    \* the emails a body may carry
  NoEmail,   \* the empty string: an email of a body, and a free slot
  MaxDay     \* bound: the last day of the clock

ASSUME NoEmailAssumption == NoEmail \notin Emails
ASSUME MaxDayAssumption == MaxDay \in Nat

VARIABLES
  day,             \* the system clock, in days
  lastCleanupDay,  \* last_cleanup_day
  rateLimit,       \* rateLimit[ip]: the slots of ip, for the ips it has
  verdict          \* the last check and what it returned

limitVars == <<day, lastCleanupDay, rateLimit, verdict>>

Slots == 1 .. 3

NoVerdict == [ip |-> "none", email |-> NoEmail, ok |-> TRUE]

NoEntries == [ip \in {} |-> [i \in Slots |-> NoEmail]]

Init ==
  /\ day = 0
  /\ lastCleanupDay = day
  /\ rateLimit = NoEntries
  /\ verdict = NoVerdict

\* A mistake: room for a fourth email.
IPrateLimitFour(email) == [i \in 1 .. 4 |-> IF i = 1 THEN email ELSE NoEmail]

\* IPrateLimit's constructor.
IPrateLimit(email) == [i \in Slots |-> IF i = 1 THEN email ELSE NoEmail]

\* A mistake: keeping yesterday's slots.
NeverCleaned == rateLimit

\* The map after cleanup().
Cleaned == IF day # lastCleanupDay THEN NoEntries ELSE rateLimit

\* The slots the loop stops at: one that holds the email, or a free one.
Stops(slots, email) == {i \in Slots : slots[i] \in {email, NoEmail}}

\* A mistake: the last free slot instead of the first.
FillLast(slots, email) == [slots EXCEPT ![Max(Stops(slots, email))] = email]

\* The slots after the loop, when it stops.
Fill(slots, email) == [slots EXCEPT ![Min(Stops(slots, email))] = email]

check_rate_limit(ip, email) ==
  /\ lastCleanupDay' = day
  /\ \/ /\ ip \notin DOMAIN Cleaned
        /\ rateLimit' = [p \in DOMAIN Cleaned \cup {ip} |->
                           IF p = ip THEN IPrateLimit(email) ELSE Cleaned[p]]
        /\ verdict' = [ip |-> ip, email |-> email, ok |-> TRUE]
     \/ /\ ip \in DOMAIN Cleaned
        /\ Stops(Cleaned[ip], email) # {}
        /\ rateLimit' = [Cleaned EXCEPT ![ip] = Fill(@, email)]
        /\ verdict' = [ip |-> ip, email |-> email, ok |-> TRUE]
     \/ /\ ip \in DOMAIN Cleaned
        /\ Stops(Cleaned[ip], email) = {}
        /\ rateLimit' = Cleaned
        /\ verdict' = [ip |-> ip, email |-> email, ok |-> FALSE]
  /\ UNCHANGED day

\* UTC midnight passes; the clock of the server is not set back.
Midnight ==
  /\ day < MaxDay
  /\ day' = day + 1
  /\ UNCHANGED <<lastCleanupDay, rateLimit, verdict>>

Next ==
  \/ Midnight
  \/ \E ip \in IPs, email \in Emails \cup {NoEmail} : check_rate_limit(ip, email)

Spec == Init /\ [][Next]_limitVars

-----------------------------------------------------------------------------
\* Every address has three slots, and the last cleanup is not in the future.
TypeOK ==
  /\ day \in 0 .. MaxDay
  /\ lastCleanupDay \in 0 .. day
  /\ \E ips \in SUBSET IPs :
       rateLimit \in [ips -> [Slots -> Emails \cup {NoEmail}]]

\* The slots of an address fill from the front and hold each email once: the
\* loop of check_rate_limit, which stops at the first free slot, would miss
\* an email behind a free slot and give it a second one.
SlotsPacked ==
  \A ip \in DOMAIN rateLimit : \A i, j \in Slots :
    (i < j /\ rateLimit[ip][j] # NoEmail)
      => /\ rateLimit[ip][i] # NoEmail
         /\ rateLimit[ip][i] # rateLimit[ip][j]

\* The emails of a map's slots count for today only if it was cleaned today.
Admitted ==
  [ip \in IPs |->
     IF ip \in DOMAIN Cleaned
     THEN {Cleaned[ip][i] : i \in Slots} \ {NoEmail} ELSE {}]

Adm == INSTANCE Admissions WITH admitted <- Admitted

\* The slots and the lazy cleanup implement Admissions: each check answers
\* as if all the emails of the day had been remembered, and the first check
\* after midnight sees none of the day before.
LimitSpec == Adm!Spec
=============================================================================
