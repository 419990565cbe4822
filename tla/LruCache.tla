------------------------------ MODULE LruCache ------------------------------
(***************************************************************************)
(* cache::lru_cache (src/include/lrucache.hpp): a list of key-value pairs, *)
(* the most recently used in front, and a hash map from keys to the list's *)
(* nodes.  Each member function holds the cache's mutex from start to end, *)
(* so it is one step.  A list node has an identity, because the map and    *)
(* the references get returns point to nodes.                              *)
(***************************************************************************)
EXTENDS Naturals, SequencesExt

CONSTANTS
  Keys, Values,
  Nodes,       \* the memory the list's nodes live in
  MaxSize,     \* the constructor's max_size
  NoValue      \* what a get that throws yields

ASSUME MaxSizeAssumption == MaxSize \in Nat

VARIABLES
  list,        \* _cache_items_list
  map,         \* _cache_items_map: the node of each key
  got          \* the value the last get returned, NoValue if it threw

lruVars == <<list, map, got>>

Item == [node : Nodes, key : Keys, value : Values]

Init ==
  /\ list = <<>>
  /\ map = [k \in {} |-> NoValue]
  /\ got = NoValue

Live(n) == \E i \in DOMAIN list : list[i].node = n

Place(s, n) == CHOOSE i \in DOMAIN s : s[i].node = n

\* A mistake: leaving the old node of the key in the list.
EraseNothing(s, n) == s

\* list.erase of the node n.
Erase(s, n) == RemoveAt(s, Place(s, n))

\* A mistake: looking at the size before the new key is in the map.
TooManyBefore(m) == Cardinality(DOMAIN m) > MaxSize + 1

TooMany(m) == Cardinality(DOMAIN m) > MaxSize

put(k, v) ==
  \E n \in Nodes :
    /\ ~ Live(n)
    /\ LET pushed == <<[node |-> n, key |-> k, value |-> v]>> \o list
           s == IF k \in DOMAIN map THEN Erase(pushed, map[k]) ELSE pushed
           m == [j \in DOMAIN map \cup {k} |-> IF j = k THEN n ELSE map[j]]
       IN  \/ /\ ~ TooMany(m)
              /\ list' = s
              /\ map' = m
           \/ /\ TooMany(m)
              /\ list' = Front(s)
              /\ map' = Restrict(m, DOMAIN m \ {Last(s).key})

\* A mistake: not moving the node to the front.
NotSpliced(n) == list

\* list.splice of the node n to the front.
Spliced(n) == <<list[Place(list, n)]>> \o Erase(list, n)

\* get of a key that is there; the reference it returns is to map[k].
hit(k) ==
  /\ k \in DOMAIN map
  /\ list' = Spliced(map[k])
  /\ UNCHANGED map

\* get of a key that is not there throws std::range_error.
miss(k) ==
  /\ k \notin DOMAIN map
  /\ UNCHANGED <<list, map>>

Put(k, v) == put(k, v) /\ UNCHANGED got

Get(k) ==
  \/ hit(k) /\ got' = list[Place(list, map[k])].value
  \/ miss(k) /\ got' = NoValue

Next == \E k \in Keys : Get(k) \/ \E v \in Values : Put(k, v)

Spec == Init /\ [][Next]_lruVars

-----------------------------------------------------------------------------
\* The list and the map agree, although put and get change one and then the
\* other: the list holds each key of the map exactly once, at the node the
\* map has for it, and nothing else.
Agree ==
  /\ \A i, j \in DOMAIN list :
       i # j => /\ list[i].key # list[j].key
                /\ list[i].node # list[j].node
  /\ \A i \in DOMAIN list : /\ list[i].key \in DOMAIN map
                            /\ map[list[i].key] = list[i].node
  /\ \A k \in DOMAIN map : \E i \in DOMAIN list : list[i].key = k

\* "holds a fixed number of key-value pairs" (lrucache.hpp:6): the list, not
\* only the map whose size put looks at, is never longer than max_size.
Bounded == Len(list) <= MaxSize

-----------------------------------------------------------------------------
Content == [k \in DOMAIN map |-> list[Place(list, map[k])].value]

Before ==
  {p \in (DOMAIN map) \X (DOMAIN map) :
     \E i, j \in DOMAIN list :
       i < j /\ list[j].key = p[1] /\ list[i].key = p[2]}

Recency == INSTANCE RecencyCache WITH content <- Content, before <- Before

\* The list and the map implement RecencyCache: what is evicted is the key
\* that was put or got the longest time ago, and a get yields the value last
\* put.
RecencySpec == Recency!Spec
=============================================================================
