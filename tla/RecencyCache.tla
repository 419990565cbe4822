---------------------------- MODULE RecencyCache ----------------------------
(***************************************************************************)
(* What an LRU cache promises: it maps at most MaxSize keys to the values  *)
(* last put under them, and when one too many is put it forgets the key    *)
(* that was put or got the longest time ago.                               *)
(***************************************************************************)
EXTENDS Naturals, FiniteSets, Functions

CONSTANTS
  Keys, Values,
  MaxSize,     \* how many keys it may hold
  NoValue      \* what a get of an absent key yields

VARIABLES
  content,     \* the values, by key
  before,      \* the pairs <<a, b>> with a used less recently than b
  got          \* what the last get yielded

cacheVars == <<content, before, got>>

Init ==
  /\ content = [k \in {} |-> NoValue]
  /\ before = {}
  /\ got = NoValue

\* The order of use when k, one of the keys in ks, has just been used.
Used(k, ks) ==
  {p \in before : k \notin {p[1], p[2]}} \cup {<<a, k>> : a \in ks \ {k}}

Stored(k, v) ==
  [j \in DOMAIN content \cup {k} |-> IF j = k THEN v ELSE content[j]]

Put(k, v) ==
  LET ks == DOMAIN content \cup {k} IN
  /\ \/ /\ Cardinality(ks) <= MaxSize
        /\ content' = Stored(k, v)
        /\ before' = Used(k, ks)
     \/ /\ Cardinality(ks) > MaxSize
        /\ \E oldest \in ks :
             /\ \A a \in ks : <<a, oldest>> \notin Used(k, ks)
             /\ content' = Restrict(Stored(k, v), ks \ {oldest})
             /\ before' = {p \in Used(k, ks) : oldest \notin {p[1], p[2]}}
  /\ UNCHANGED got

Get(k) ==
  \/ /\ k \in DOMAIN content
     /\ before' = Used(k, DOMAIN content)
     /\ got' = content[k]
     /\ UNCHANGED content
  \/ /\ k \notin DOMAIN content
     /\ got' = NoValue
     /\ UNCHANGED <<content, before>>

Next == \E k \in Keys : Get(k) \/ \E v \in Values : Put(k, v)

Spec == Init /\ [][Next]_cacheVars
=============================================================================
