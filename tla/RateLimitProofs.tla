--------------------------- MODULE RateLimitProofs ---------------------------
(***************************************************************************)
(* The rate limit implements Admissions, for any addresses and emails.     *)
(***************************************************************************)
EXTENDS RateLimit, FiniteSetTheorems, TLAPS

SlotValues == Emails \cup {NoEmail}

SlotArrays == [Slots -> SlotValues]

\* SlotsPacked, of one address.
Packed(slots) ==
  \A i, j \in Slots :
    (i < j /\ slots[j] # NoEmail) => slots[i] # NoEmail /\ slots[i] # slots[j]

Held(slots) == {slots[i] : i \in Slots} \ {NoEmail}

\* The types of the map, and of the map after a cleanup.
MapOK(map) ==
  /\ DOMAIN map \subseteq IPs
  /\ map = [ip \in DOMAIN map |-> map[ip]]
  /\ \A ip \in DOMAIN map : map[ip] \in SlotArrays /\ Packed(map[ip])

LimitInv ==
  /\ day \in 0 .. MaxDay
  /\ lastCleanupDay \in 0 .. day
  /\ MapOK(rateLimit)

-----------------------------------------------------------------------------
\* Three emails in packed slots are three different ones; fewer leave the
\* last slot free.
LEMMA HeldCount ==
  ASSUME NEW slots \in SlotArrays, Packed(slots)
  PROVE  /\ IsFiniteSet(Held(slots))
         /\ slots[3] = NoEmail => Cardinality(Held(slots)) < 3
         /\ slots[3] # NoEmail => Cardinality(Held(slots)) = 3
  <1>1. CASE slots[3] = NoEmail
    <2>1. Held(slots) \subseteq {slots[1], slots[2]}
      BY <1>1 DEF Held, Slots
    <2>2. IsFiniteSet({slots[1]}) /\ Cardinality({slots[1]}) = 1
      BY FS_Singleton
    <2>3. {slots[1]} \cup {slots[2]} = {slots[1], slots[2]}
      OBVIOUS
    <2>4. /\ IsFiniteSet({slots[1], slots[2]})
          /\ Cardinality({slots[1], slots[2]}) <= 2
      BY <2>2, <2>3, FS_AddElement
    <2>5. /\ IsFiniteSet(Held(slots))
          /\ Cardinality(Held(slots)) <= Cardinality({slots[1], slots[2]})
      BY <2>1, <2>4, FS_Subset
    <2>6. /\ Cardinality(Held(slots)) \in Nat
          /\ Cardinality({slots[1], slots[2]}) \in Nat
      BY <2>4, <2>5, FS_CardinalityType
    <2> QED BY <1>1, <2>4, <2>5, <2>6
  <1>2. CASE slots[3] # NoEmail
    <2>1. slots[1] # slots[2] /\ slots[1] # slots[3] /\ slots[2] # slots[3]
      BY <1>2 DEF Packed, Slots
    <2>2. slots[1] # NoEmail /\ slots[2] # NoEmail
      BY <1>2 DEF Packed, Slots
    <2>3. Held(slots) = ({slots[1]} \cup {slots[2]}) \cup {slots[3]}
      BY <1>2, <2>2 DEF Held, Slots
    <2>4. IsFiniteSet({slots[1]}) /\ Cardinality({slots[1]}) = 1
      BY FS_Singleton
    <2>5. /\ IsFiniteSet({slots[1]} \cup {slots[2]})
          /\ Cardinality({slots[1]} \cup {slots[2]}) = 2
      BY <2>1, <2>4, FS_AddElement
    <2>6. slots[3] \notin {slots[1]} \cup {slots[2]}
      BY <2>1
    <2>7. IsFiniteSet(Held(slots)) /\ Cardinality(Held(slots)) = 3
      BY <2>3, <2>5, <2>6, FS_AddElement
    <2> QED BY <1>2, <2>7
  <1> QED BY <1>1, <1>2

\* The loop stops exactly when the promise admits the email.
LEMMA StopsIffAllowed ==
  ASSUME NEW slots \in SlotArrays, Packed(slots), NEW email \in SlotValues
  PROVE  Stops(slots, email) # {}
           <=> email \in Held(slots) \/ Cardinality(Held(slots)) < 3
  <1>1. CASE slots[3] = NoEmail
    <2>1. 3 \in Stops(slots, email)
      BY <1>1 DEF Stops, Slots
    <2> QED BY <1>1, <2>1, HeldCount
  <1>2. CASE slots[3] # NoEmail
    <2>1. \A i \in Slots : slots[i] # NoEmail
      BY <1>2 DEF Packed, Slots
    <2>2. Stops(slots, email) # {} <=> email \in Held(slots)
      BY <2>1 DEF Stops, Held
    <2>3. Cardinality(Held(slots)) = 3
      BY <1>2, HeldCount
    <2> QED BY <2>2, <2>3
  <1> QED BY <1>1, <1>2

\* Filling keeps slots packed and adds the email to those held.
LEMMA FillKeeps ==
  ASSUME NEW slots \in SlotArrays, Packed(slots), NEW email \in SlotValues,
         Stops(slots, email) # {}
  PROVE  /\ Fill(slots, email) \in SlotArrays
         /\ Packed(Fill(slots, email))
         /\ Held(Fill(slots, email)) = Held(slots) \cup ({email} \ {NoEmail})
  <1> DEFINE k == Min(Stops(slots, email))
             new == Fill(slots, email)
  <1>1. k \in Stops(slots, email) /\ \A j \in Stops(slots, email) : k <= j
    <2>1. \E i \in Stops(slots, email) : \A j \in Stops(slots, email) : i <= j
      <3>1. Stops(slots, email) \subseteq {1, 2, 3}
        BY DEF Stops, Slots
      <3>2. CASE 1 \in Stops(slots, email)
        BY <3>1, <3>2
      <3>3. CASE 1 \notin Stops(slots, email) /\ 2 \in Stops(slots, email)
        BY <3>1, <3>3
      <3>4. CASE 1 \notin Stops(slots, email) /\ 2 \notin Stops(slots, email)
        BY <3>1, <3>4
      <3> QED BY <3>2, <3>3, <3>4
    <2> QED BY <2>1 DEF Min
  <1>2. /\ k \in Slots
        /\ slots[k] \in {email, NoEmail}
        /\ \A j \in Slots : j < k => slots[j] # email /\ slots[j] # NoEmail
    BY <1>1 DEF Stops, Slots
  <1>3. new = [i \in Slots |-> IF i = k THEN email ELSE slots[i]]
    BY DEF Fill, SlotArrays
  <1> HIDE DEF k, new
  <1>4. new \in SlotArrays
    BY <1>3 DEF SlotArrays
  <1>5. Packed(new)
    <2> SUFFICES ASSUME NEW i \in Slots, NEW j \in Slots,
                        i < j, new[j] # NoEmail
                 PROVE  new[i] # NoEmail /\ new[i] # new[j]
      BY DEF Packed
    <2>1. CASE slots[k] = email
      <3>1. \A l \in Slots : new[l] = slots[l]
        BY <1>3, <2>1
      <3> QED BY <3>1 DEF Packed
    <2>2. CASE slots[k] = NoEmail /\ slots[k] # email
      <3>1. \A l \in Slots : k < l => slots[l] = NoEmail
        BY <1>2, <2>2 DEF Packed
      <3>2. j <= k
        BY <1>2, <1>3, <3>1 DEF Slots
      <3>3. i < k
        BY <1>2, <3>2 DEF Slots
      <3>4. new[i] = slots[i] /\ slots[i] # email /\ slots[i] # NoEmail
        BY <1>2, <1>3, <3>3 DEF Slots
      <3>5. CASE j = k
        BY <1>3, <3>4, <3>5
      <3>6. CASE j # k
        <4>1. new[j] = slots[j]
          BY <1>3, <3>6
        <4> QED BY <3>4, <4>1 DEF Packed
      <3> QED BY <3>5, <3>6
    <2> QED BY <1>2, <2>1, <2>2
  <1>6. Held(new) = Held(slots) \cup ({email} \ {NoEmail})
    <2>1. ASSUME NEW e, e \in Held(new)
          PROVE  e \in Held(slots) \cup ({email} \ {NoEmail})
      BY <1>3, <2>1 DEF Held
    <2>2. ASSUME NEW e, e \in Held(slots)
          PROVE  e \in Held(new)
      <3>1. PICK l \in Slots : e = slots[l] /\ e # NoEmail
        BY <2>2 DEF Held
      <3>2. new[l] = e
        BY <1>2, <1>3, <3>1
      <3> QED BY <3>1, <3>2 DEF Held
    <2>3. ASSUME email # NoEmail
          PROVE  email \in Held(new)
      <3>1. new[k] = email
        BY <1>2, <1>3
      <3> QED BY <1>2, <2>3, <3>1 DEF Held
    <2> QED BY <2>1, <2>2, <2>3
  <1> QED BY <1>4, <1>5, <1>6 DEF new

-----------------------------------------------------------------------------
LEMMA CleanedOK ==
  ASSUME LimitInv
  PROVE  MapOK(Cleaned)
  <1>1. CASE day # lastCleanupDay
    <2>1. Cleaned = NoEntries
      BY <1>1 DEF Cleaned
    <2> QED BY <2>1 DEF NoEntries, MapOK
  <1>2. CASE day = lastCleanupDay
    BY <1>2 DEF Cleaned, LimitInv
  <1> QED BY <1>1, <1>2

LEMMA InitInv == Init => LimitInv
  BY MaxDayAssumption DEF Init, LimitInv, MapOK, NoEntries

\* What a check does to the slots of its address and of the others.
LEMMA CheckEffect ==
  ASSUME LimitInv, NEW ip \in IPs, NEW email \in SlotValues,
         check_rate_limit(ip, email)
  PROVE  /\ MapOK(rateLimit')
         /\ LET slots == IF ip \in DOMAIN Cleaned
                         THEN Held(Cleaned[ip]) ELSE {}
                ok == email \in slots \/ Cardinality(slots) < 3
            IN  /\ verdict' = [ip |-> ip, email |-> email, ok |-> ok]
                /\ ip \in DOMAIN rateLimit'
                /\ Held(rateLimit'[ip]) =
                     IF ok THEN slots \cup ({email} \ {NoEmail}) ELSE slots
         /\ DOMAIN rateLimit' = DOMAIN Cleaned \cup {ip}
         /\ \A p \in DOMAIN Cleaned \ {ip} : rateLimit'[p] = Cleaned[p]
  <1> DEFINE slots == IF ip \in DOMAIN Cleaned THEN Held(Cleaned[ip]) ELSE {}
             ok == email \in slots \/ Cardinality(slots) < 3
  <1>1. MapOK(Cleaned)
    BY CleanedOK
  <1> SUFFICES
        /\ MapOK(rateLimit')
        /\ verdict' = [ip |-> ip, email |-> email, ok |-> ok]
        /\ Held(rateLimit'[ip]) =
             IF ok THEN slots \cup ({email} \ {NoEmail}) ELSE slots
        /\ DOMAIN rateLimit' = DOMAIN Cleaned \cup {ip}
        /\ \A p \in DOMAIN Cleaned \ {ip} : rateLimit'[p] = Cleaned[p]
    OBVIOUS
  <1>2. CASE ip \notin DOMAIN Cleaned
    <2>1. /\ rateLimit' = [p \in DOMAIN Cleaned \cup {ip} |->
                             IF p = ip THEN IPrateLimit(email) ELSE Cleaned[p]]
          /\ verdict' = [ip |-> ip, email |-> email, ok |-> TRUE]
      BY <1>2 DEF check_rate_limit
    <2>2. slots = {} /\ ok
      BY <1>2, FS_EmptySet
    <2>3. /\ IPrateLimit(email) \in SlotArrays
          /\ Packed(IPrateLimit(email))
          /\ Held(IPrateLimit(email)) = {email} \ {NoEmail}
      BY DEF IPrateLimit, SlotArrays, SlotValues, Packed, Held, Slots
    <2>4. rateLimit'[ip] = IPrateLimit(email)
      BY <2>1
    <2>5. MapOK(rateLimit')
      BY <1>1, <2>1, <2>3 DEF MapOK
    <2> QED BY <2>1, <2>2, <2>3, <2>4, <2>5
  <1>3. CASE ip \in DOMAIN Cleaned
    <2>1. Cleaned[ip] \in SlotArrays /\ Packed(Cleaned[ip])
      BY <1>1, <1>3 DEF MapOK
    <2>2. Stops(Cleaned[ip], email) # {} <=> ok
      BY <1>3, <2>1, StopsIffAllowed
    <2>3. CASE Stops(Cleaned[ip], email) # {}
      <3>1. /\ rateLimit' = [Cleaned EXCEPT ![ip] = Fill(Cleaned[ip], email)]
            /\ verdict' = [ip |-> ip, email |-> email, ok |-> TRUE]
        BY <1>3, <2>3 DEF check_rate_limit
      <3>2. /\ Fill(Cleaned[ip], email) \in SlotArrays
            /\ Packed(Fill(Cleaned[ip], email))
            /\ Held(Fill(Cleaned[ip], email)) = slots \cup ({email} \ {NoEmail})
        BY <1>3, <2>1, <2>3, FillKeeps
      <3>3. /\ DOMAIN rateLimit' = DOMAIN Cleaned
            /\ rateLimit'[ip] = Fill(Cleaned[ip], email)
            /\ \A p \in DOMAIN Cleaned \ {ip} : rateLimit'[p] = Cleaned[p]
        BY <1>3, <3>1
      <3>4. MapOK(rateLimit')
        BY <1>1, <3>1, <3>2, <3>3 DEF MapOK
      <3> QED BY <1>3, <2>2, <2>3, <3>1, <3>2, <3>3, <3>4
    <2>4. CASE Stops(Cleaned[ip], email) = {}
      <3>1. /\ rateLimit' = Cleaned
            /\ verdict' = [ip |-> ip, email |-> email, ok |-> FALSE]
        BY <1>3, <2>4 DEF check_rate_limit
      <3> QED BY <1>1, <1>3, <2>2, <2>4, <3>1
    <2> QED BY <2>3, <2>4
  <1> QED BY <1>2, <1>3

LEMMA NextInv == LimitInv /\ [Next]_limitVars => LimitInv'
  <1> SUFFICES ASSUME LimitInv, [Next]_limitVars
               PROVE  LimitInv'
    OBVIOUS
  <1> USE MaxDayAssumption
  <1>1. CASE Midnight
    BY <1>1 DEF Midnight, LimitInv
  <1>2. CASE \E ip \in IPs, email \in Emails \cup {NoEmail} :
               check_rate_limit(ip, email)
    <2>1. PICK ip \in IPs, email \in SlotValues : check_rate_limit(ip, email)
      BY <1>2 DEF SlotValues
    <2>2. MapOK(rateLimit')
      BY <2>1, CheckEffect
    <2>3. lastCleanupDay' = day /\ day' = day
      BY <2>1 DEF check_rate_limit
    <2> QED BY <2>2, <2>3 DEF LimitInv
  <1>3. CASE UNCHANGED limitVars
    BY <1>3 DEF limitVars, LimitInv
  <1> QED BY <1>1, <1>2, <1>3 DEF Next

LEMMA Invariance == Spec => []LimitInv
  BY InitInv, NextInv, PTL DEF Spec

\* The map of slots keeps its type, and the last cleanup is never in the
\* future (RateLimit).
THEOREM LimitTypes == Spec => []TypeOK
  <1>1. LimitInv => TypeOK
    <2> SUFFICES ASSUME LimitInv PROVE TypeOK
      OBVIOUS
    <2>1. /\ DOMAIN rateLimit \in SUBSET IPs
          /\ rateLimit \in [DOMAIN rateLimit -> [Slots -> SlotValues]]
      BY DEF LimitInv, MapOK, SlotArrays
    <2> QED BY <2>1 DEF LimitInv, TypeOK, SlotValues
  <1> QED BY <1>1, Invariance, PTL

\* The slots of an address fill from the front and hold each email once
\* (check_rate_limit stops at the first free slot).
THEOREM PackedSlots == Spec => []SlotsPacked
  <1>1. LimitInv => SlotsPacked
    BY DEF LimitInv, MapOK, Packed, SlotsPacked
  <1> QED BY <1>1, Invariance, PTL

-----------------------------------------------------------------------------
\* The emails admitted today, by address.
LEMMA AdmittedAt ==
  ASSUME NEW ip \in IPs
  PROVE  Admitted[ip] = IF ip \in DOMAIN Cleaned
                        THEN Held(Cleaned[ip]) ELSE {}
  BY DEF Admitted, Held

LEMMA RefinesInit == Init => Adm!Init
  <1> SUFFICES ASSUME Init PROVE Adm!Init
    OBVIOUS
  <1>1. Cleaned = NoEntries
    BY DEF Init, Cleaned
  <1>2. Admitted = [ip \in IPs |-> {}]
    BY <1>1 DEF Admitted, NoEntries
  <1> QED BY <1>2 DEF Init, Adm!Init, NoVerdict, Adm!NoVerdict

LEMMA RefinesCheck ==
  ASSUME LimitInv, NEW ip \in IPs, NEW email \in SlotValues,
         check_rate_limit(ip, email)
  PROVE  Adm!Check(ip, email)
  <1> DEFINE slots == IF ip \in DOMAIN Cleaned THEN Held(Cleaned[ip]) ELSE {}
             ok == email \in slots \/ Cardinality(slots) < 3
             new == IF ok THEN slots \cup ({email} \ {NoEmail}) ELSE slots
  <1>1. /\ verdict' = [ip |-> ip, email |-> email, ok |-> ok]
        /\ ip \in DOMAIN rateLimit'
        /\ Held(rateLimit'[ip]) = new
        /\ DOMAIN rateLimit' = DOMAIN Cleaned \cup {ip}
        /\ \A p \in DOMAIN Cleaned \ {ip} : rateLimit'[p] = Cleaned[p]
    BY CheckEffect
  <1>2. Cleaned' = rateLimit' /\ day' = day
    BY DEF check_rate_limit, Cleaned
  <1>3. Admitted[ip] = slots
    BY AdmittedAt
  <1>4. Adm!Allowed(ip, email) = ok
    BY <1>3 DEF Adm!Allowed, Adm!Limit, Adm!Cardinality, Cardinality
  <1>5. Admitted' = [p \in IPs |-> IF p \in DOMAIN rateLimit'
                                   THEN Held(rateLimit'[p]) ELSE {}]
    BY <1>2 DEF Admitted, Held
  <1>6. Admitted' = [Admitted EXCEPT ![ip] = new]
    <2>1. ASSUME NEW p \in IPs
          PROVE  Admitted'[p] = [Admitted EXCEPT ![ip] = new][p]
      <3>1. CASE p = ip
        BY <1>1, <1>5, <3>1 DEF Admitted
      <3>2. CASE p # ip
        BY <1>1, <1>5, <3>2, AdmittedAt DEF Admitted
      <3> QED BY <3>1, <3>2
    <2>2. /\ Admitted' = [p \in IPs |-> Admitted'[p]]
          /\ Admitted = [p \in IPs |-> Admitted[p]]
      BY <1>5 DEF Admitted
    <2> QED BY <2>1, <2>2
  <1>7. Admitted' = IF ok
                    THEN [Admitted EXCEPT ![ip] = @ \cup ({email} \ {NoEmail})]
                    ELSE Admitted
    <2>1. Admitted = [p \in IPs |-> Admitted[p]]
      BY DEF Admitted
    <2> QED BY <1>3, <1>6, <2>1
  <1>8. verdict' = [ip |-> ip, email |-> email, ok |-> Adm!Allowed(ip, email)]
    BY <1>1, <1>4
  <1>9. Admitted' = IF Adm!Allowed(ip, email)
                    THEN [Admitted EXCEPT ![ip] = @ \cup ({email} \ {NoEmail})]
                    ELSE Admitted
    BY <1>4, <1>7
  <1> HIDE DEF slots, ok, new
  <1> QED BY <1>2, <1>8, <1>9 DEF Adm!Check

LEMMA RefinesNext ==
  LimitInv /\ [Next]_limitVars => [Adm!Next]_(Adm!admissionVars)
  <1> SUFFICES ASSUME LimitInv, [Next]_limitVars
               PROVE  [Adm!Next]_(Adm!admissionVars)
    OBVIOUS
  <1>1. CASE Midnight
    <2>1. Cleaned' = NoEntries
      BY <1>1, MaxDayAssumption DEF Midnight, Cleaned, LimitInv
    <2>2. Admitted' = [ip \in IPs |-> {}]
      BY <2>1 DEF Admitted, NoEntries
    <2>3. Adm!Midnight
      BY <1>1, <2>2 DEF Midnight, Adm!Midnight
    <2> QED BY <2>3 DEF Adm!Next
  <1>2. CASE \E ip \in IPs, email \in Emails \cup {NoEmail} :
               check_rate_limit(ip, email)
    <2>1. PICK ip \in IPs, email \in SlotValues : check_rate_limit(ip, email)
      BY <1>2 DEF SlotValues
    <2>2. Adm!Check(ip, email)
      BY <2>1, RefinesCheck
    <2> QED BY <2>2 DEF Adm!Next, SlotValues
  <1>3. CASE UNCHANGED limitVars
    BY <1>3 DEF limitVars, Adm!admissionVars, Admitted, Cleaned
  <1> QED BY <1>1, <1>2, <1>3 DEF Next

\* The map of slots, emptied lazily, admits exactly what Admissions admits:
\* three emails an address and day (check_rate_limit and cleanup).
THEOREM ImplementsAdmissions == Spec => LimitSpec
  BY RefinesInit, RefinesNext, Invariance, PTL DEF Spec, LimitSpec, Adm!Spec
=============================================================================
