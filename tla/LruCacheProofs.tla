--------------------------- MODULE LruCacheProofs ---------------------------
(***************************************************************************)
(* The list and the map of the LRU cache agree, are bounded, and implement *)
(* RecencyCache, for any keys, values, nodes and size.                     *)
(***************************************************************************)
EXTENDS LruCache, FiniteSetTheorems, SequenceTheorems, TLAPS

\* Agree, of one list and one map.
Agrees(s, m) ==
  /\ \A i, j \in 1 .. Len(s) :
       i # j => s[i].key # s[j].key /\ s[i].node # s[j].node
  /\ \A i \in 1 .. Len(s) :
       s[i].key \in DOMAIN m /\ m[s[i].key] = s[i].node
  /\ \A k \in DOMAIN m : \E i \in 1 .. Len(s) : s[i].key = k

\* The types of a list and a map that agree.
CacheOK(s, m) ==
  /\ s \in Seq(Item)
  /\ DOMAIN m \subseteq Keys
  /\ m \in [DOMAIN m -> Nodes]
  /\ IsFiniteSet(DOMAIN m)
  /\ Agrees(s, m)

CacheInv ==
  /\ CacheOK(list, map)
  /\ Cardinality(DOMAIN map) <= MaxSize
  /\ got \in Values \cup {NoValue}

-----------------------------------------------------------------------------
\* The list without its i-th element.
LEMMA RemoveAtElements ==
  ASSUME NEW s \in Seq(Item), NEW i \in 1 .. Len(s)
  PROVE  /\ RemoveAt(s, i) \in Seq(Item)
         /\ Len(RemoveAt(s, i)) = Len(s) - 1
         /\ \A j \in 1 .. Len(s) - 1 :
              RemoveAt(s, i)[j] = IF j < i THEN s[j] ELSE s[j + 1]
  <1> DEFINE a == SubSeq(s, 1, i - 1)
             b == SubSeq(s, i + 1, Len(s))
  <1>0. Len(s) \in Nat /\ \A j \in 1 .. Len(s) : s[j] \in Item
    BY ElementOfSeq, LenProperties
  <1>1. /\ a \in Seq(Item)
        /\ Len(a) = i - 1
        /\ \A j \in 1 .. i - 1 : a[j] = s[j]
    <2>1. \A j \in 1 .. i - 1 : s[j] \in Item
      BY <1>0
    <2> QED BY <1>0, <2>1, SubSeqProperties
  <1>2. /\ b \in Seq(Item)
        /\ Len(b) = Len(s) - i
        /\ \A j \in 1 .. Len(s) - i : b[j] = s[i + j]
    <2>1. \A j \in i + 1 .. Len(s) : s[j] \in Item
      BY <1>0
    <2>2. /\ b \in Seq(Item)
          /\ Len(b) = IF i + 1 <= Len(s) THEN Len(s) - (i + 1) + 1 ELSE 0
          /\ \A j \in 1 .. Len(s) - (i + 1) + 1 : b[j] = s[(i + 1) + j - 1]
      BY <1>0, <2>1, SubSeqProperties
    <2> QED BY <1>0, <2>2
  <1> HIDE DEF a, b
  <1>3. RemoveAt(s, i) = a \o b
    BY DEF RemoveAt, a, b
  <1>4. /\ a \o b \in Seq(Item)
        /\ Len(a \o b) = Len(s) - 1
        /\ \A j \in 1 .. Len(s) - 1 :
             (a \o b)[j] = IF j <= i - 1 THEN a[j] ELSE b[j - (i - 1)]
    <2>1. /\ a \o b \in Seq(Item)
          /\ Len(a \o b) = Len(a) + Len(b)
          /\ \A j \in 1 .. Len(a) + Len(b) :
               (a \o b)[j] = IF j <= Len(a) THEN a[j] ELSE b[j - Len(a)]
      BY <1>1, <1>2, ConcatProperties
    <2>2. Len(a) = i - 1 /\ Len(a) + Len(b) = Len(s) - 1
      BY <1>0, <1>1, <1>2
    <2> QED BY <2>1, <2>2
  <1>5. ASSUME NEW j \in 1 .. Len(s) - 1
        PROVE  (a \o b)[j] = IF j < i THEN s[j] ELSE s[j + 1]
    <2>1. CASE j < i
      BY <1>0, <1>1, <1>4, <2>1
    <2>2. CASE ~ (j < i)
      <3>1. j - (i - 1) \in 1 .. Len(s) - i /\ i + (j - (i - 1)) = j + 1
        BY <1>0, <2>2
      <3> QED BY <1>0, <1>2, <1>4, <2>2, <3>1
    <2> QED BY <2>1, <2>2
  <1> QED BY <1>3, <1>4, <1>5

\* Front removes the last element.
LEMMA FrontRemoves ==
  ASSUME NEW s \in Seq(Item), Len(s) \in 1 .. Len(s)
  PROVE  Front(s) = RemoveAt(s, Len(s))
  <1> DEFINE l == Len(s)
             a == SubSeq(s, 1, l - 1)
  <1>1. l \in Nat /\ l >= 1 /\ \A j \in 1 .. l : s[j] \in Item
    BY ElementOfSeq, LenProperties
  <1>2. /\ RemoveAt(s, l) \in Seq(Item)
        /\ Len(RemoveAt(s, l)) = l - 1
        /\ \A j \in 1 .. l - 1 :
             RemoveAt(s, l)[j] = IF j < l THEN s[j] ELSE s[j + 1]
    BY RemoveAtElements
  <1>3. /\ a \in Seq(Item)
        /\ Len(a) = l - 1
        /\ \A j \in 1 .. l - 1 : a[j] = s[j]
    <2>1. \A j \in 1 .. l - 1 : s[j] \in Item
      BY <1>1
    <2>2. /\ a \in Seq(Item)
          /\ Len(a) = IF 1 <= l - 1 THEN (l - 1) - 1 + 1 ELSE 0
          /\ \A j \in 1 .. (l - 1) - 1 + 1 : a[j] = s[1 + j - 1]
      <3>1. \A j \in 1 .. l - 1 : j \in 1 .. Len(s)
        BY <1>1
      <3>2. 1 \in 1 .. (l - 1) + 1 /\ l - 1 \in Int /\ 1 \in Int
        BY <1>1
      <3> HIDE DEF l
      <3> QED BY <2>1, <3>1, <3>2, SubSeqProperties
    <2> HIDE DEF l, a
    <2>3. Len(a) = l - 1
      BY <1>1, <2>2
    <2>4. \A j \in 1 .. l - 1 : a[j] = s[j]
      BY <1>1, <2>2
    <2> QED BY <2>2, <2>3, <2>4
  <1> HIDE DEF l, a
  <1>4. \A j \in 1 .. l - 1 : a[j] = RemoveAt(s, l)[j]
    BY <1>1, <1>2, <1>3
  <1>5. a = RemoveAt(s, l)
    BY <1>2, <1>3, <1>4, SeqEqual
  <1> QED BY <1>5 DEF Front, l, a

\* The list with an element in front.
LEMMA PushElements ==
  ASSUME NEW s \in Seq(Item), NEW x \in Item
  PROVE  /\ <<x>> \o s \in Seq(Item)
         /\ Len(<<x>> \o s) = Len(s) + 1
         /\ (<<x>> \o s)[1] = x
         /\ \A j \in 2 .. Len(s) + 1 : (<<x>> \o s)[j] = s[j - 1]
  <1>1. <<x>> \in Seq(Item) /\ Len(<<x>>) = 1 /\ <<x>>[1] = x
    OBVIOUS
  <1>2. /\ <<x>> \o s \in Seq(Item)
        /\ Len(<<x>> \o s) = 1 + Len(s)
        /\ \A j \in 1 .. 1 + Len(s) :
             (<<x>> \o s)[j] = IF j <= 1 THEN <<x>>[j] ELSE s[j - 1]
    BY <1>1, ConcatProperties
  <1>3. Len(s) \in Nat
    BY LenProperties
  <1> QED BY <1>1, <1>2, <1>3

\* The node the map has for a key is the place of that key in the list.
LEMMA PlaceOfKey ==
  ASSUME NEW s \in Seq(Item), NEW m, Agrees(s, m), NEW k \in DOMAIN m
  PROVE  /\ Place(s, m[k]) \in 1 .. Len(s)
         /\ s[Place(s, m[k])].node = m[k]
         /\ s[Place(s, m[k])].key = k
  <1>1. DOMAIN s = 1 .. Len(s)
    BY LenProperties
  <1>2. PICK i \in 1 .. Len(s) : s[i].key = k
    BY DEF Agrees
  <1>3. s[i].node = m[k]
    BY <1>2 DEF Agrees
  <1>4. /\ Place(s, m[k]) \in 1 .. Len(s)
        /\ s[Place(s, m[k])].node = m[k]
    BY <1>1, <1>2, <1>3 DEF Place
  <1>5. Place(s, m[k]) = i
    BY <1>2, <1>3, <1>4 DEF Agrees
  <1> QED BY <1>2, <1>4, <1>5

-----------------------------------------------------------------------------
(* A put: a new node in front, the old one of the key erased.              *)

\* The map of the new node in front.
Mapped(m, x) ==
  [j \in DOMAIN m \cup {x.key} |-> IF j = x.key THEN x.node ELSE m[j]]

\* A key that is not there.
LEMMA PushNew ==
  ASSUME NEW s, NEW m, CacheOK(s, m),
         NEW x \in Item, x.key \notin DOMAIN m,
         \A i \in 1 .. Len(s) : s[i].node # x.node
  PROVE  CacheOK(<<x>> \o s, Mapped(m, x))
  <1> DEFINE t == <<x>> \o s
             ks == DOMAIN m \cup {x.key}
             n == [j \in ks |-> IF j = x.key THEN x.node ELSE m[j]]
  <1>1. /\ t \in Seq(Item)
        /\ Len(t) = Len(s) + 1
        /\ t[1] = x
        /\ \A j \in 2 .. Len(s) + 1 : t[j] = s[j - 1]
        /\ Len(s) \in Nat
    BY PushElements, LenProperties DEF CacheOK
  <1>2. x.key \in Keys /\ x.node \in Nodes
    BY DEF Item
  <1>3. /\ DOMAIN n = ks
        /\ ks \subseteq Keys
        /\ n \in [ks -> Nodes]
        /\ IsFiniteSet(ks)
    BY <1>2, FS_AddElement DEF CacheOK
  <1> HIDE DEF t, n
  <1>4. Agrees(t, n)
    <2>1. ASSUME NEW i \in 2 .. Len(t)
          PROVE  /\ i - 1 \in 1 .. Len(s)
                 /\ t[i] = s[i - 1]
                 /\ t[i].key \in DOMAIN m
                 /\ t[i].key # x.key
                 /\ t[i].node # x.node
                 /\ m[t[i].key] = t[i].node
      BY <1>1 DEF CacheOK, Agrees
    <2>2. ASSUME NEW i \in 1 .. Len(t), NEW j \in 1 .. Len(t), i # j
          PROVE  t[i].key # t[j].key /\ t[i].node # t[j].node
      <3>1. CASE i = 1
        <4>1. j \in 2 .. Len(t)
          BY <1>1, <2>2, <3>1
        <4> QED BY <1>1, <2>1, <3>1, <4>1
      <3>2. CASE j = 1
        <4>1. i \in 2 .. Len(t)
          BY <1>1, <2>2, <3>2
        <4> QED BY <1>1, <2>1, <3>2, <4>1
      <3>3. CASE i # 1 /\ j # 1
        <4>1. i \in 2 .. Len(t) /\ j \in 2 .. Len(t) /\ i - 1 # j - 1
          BY <1>1, <2>2, <3>3
        <4>2. /\ i - 1 \in 1 .. Len(s) /\ t[i] = s[i - 1]
              /\ j - 1 \in 1 .. Len(s) /\ t[j] = s[j - 1]
          BY <2>1, <4>1
        <4>3. /\ s[i - 1].key # s[j - 1].key
              /\ s[i - 1].node # s[j - 1].node
          BY <4>1, <4>2 DEF CacheOK, Agrees
        <4> QED BY <4>2, <4>3
      <3> QED BY <3>1, <3>2, <3>3
    <2>3. ASSUME NEW i \in 1 .. Len(t)
          PROVE  t[i].key \in DOMAIN n /\ n[t[i].key] = t[i].node
      <3>1. CASE i = 1
        BY <1>1, <1>3, <3>1 DEF n
      <3>2. CASE i # 1
        <4>1. i \in 2 .. Len(t)
          BY <1>1, <3>2
        <4> QED BY <1>3, <2>1, <4>1 DEF n
      <3> QED BY <3>1, <3>2
    <2>4. ASSUME NEW k \in DOMAIN n
          PROVE  \E i \in 1 .. Len(t) : t[i].key = k
      <3>1. CASE k = x.key
        BY <1>1, <3>1
      <3>2. CASE k # x.key
        <4>1. PICK i \in 1 .. Len(s) : s[i].key = k
          BY <1>3, <3>2 DEF CacheOK, Agrees
        <4>2. i + 1 \in 1 .. Len(t) /\ t[i + 1] = s[i]
          BY <1>1, <4>1
        <4> QED BY <4>1, <4>2
      <3> QED BY <3>1, <3>2
    <2> QED BY <2>2, <2>3, <2>4 DEF Agrees
  <1> QED BY <1>1, <1>3, <1>4 DEF CacheOK, Mapped, t, n

\* Erasing the node of a key, from the list and from the map.
LEMMA DropKey ==
  ASSUME NEW s, NEW m, CacheOK(s, m), NEW p \in 1 .. Len(s)
  PROVE  CacheOK(RemoveAt(s, p), Restrict(m, DOMAIN m \ {s[p].key}))
  <1> DEFINE t == RemoveAt(s, p)
             ks == DOMAIN m \ {s[p].key}
             n == Restrict(m, ks)
             From(j) == IF j < p THEN j ELSE j + 1
  <1>1. /\ t \in Seq(Item)
        /\ Len(t) = Len(s) - 1
        /\ Len(s) \in Nat
        /\ \A j \in 1 .. Len(s) - 1 : t[j] = IF j < p THEN s[j] ELSE s[j + 1]
    BY RemoveAtElements, LenProperties DEF CacheOK
  <1>2. /\ DOMAIN n = ks
        /\ ks \subseteq Keys
        /\ n \in [ks -> Nodes]
        /\ \A k \in ks : n[k] = m[k]
        /\ IsFiniteSet(ks)
    BY FS_RemoveElement DEF CacheOK, Restrict
  <1> HIDE DEF t, n
  <1>3. \A j \in 1 .. Len(t) :
          /\ From(j) \in 1 .. Len(s)
          /\ From(j) # p
          /\ t[j] = s[From(j)]
    BY <1>1
  <1>4. \A i, j \in 1 .. Len(t) : i # j => From(i) # From(j)
    BY <1>1
  <1>5. \A i \in 1 .. Len(s) :
          i # p => \E j \in 1 .. Len(t) : From(j) = i
    <2> SUFFICES ASSUME NEW i \in 1 .. Len(s), i # p
                 PROVE  \E j \in 1 .. Len(t) : From(j) = i
      OBVIOUS
    <2>1. CASE i < p
      BY <1>1, <2>1
    <2>2. CASE i > p
      <3>1. i - 1 \in 1 .. Len(t) /\ From(i - 1) = i
        BY <1>1, <2>2
      <3> QED BY <3>1
    <2> QED BY <2>1, <2>2
  <1> HIDE DEF From
  <1>6. Agrees(t, n)
    <2>1. \A i, j \in 1 .. Len(t) :
            i # j => t[i].key # t[j].key /\ t[i].node # t[j].node
      <3> SUFFICES ASSUME NEW i \in 1 .. Len(t), NEW j \in 1 .. Len(t), i # j
                   PROVE  t[i].key # t[j].key /\ t[i].node # t[j].node
        OBVIOUS
      <3>1. From(i) \in 1 .. Len(s) /\ From(j) \in 1 .. Len(s)
        BY <1>3
      <3>2. From(i) # From(j)
        BY <1>4
      <3>3. /\ s[From(i)].key # s[From(j)].key
            /\ s[From(i)].node # s[From(j)].node
        BY <3>1, <3>2 DEF CacheOK, Agrees
      <3> QED BY <1>3, <3>3
    <2>2. \A i \in 1 .. Len(t) :
            t[i].key \in DOMAIN n /\ n[t[i].key] = t[i].node
      BY <1>2, <1>3 DEF CacheOK, Agrees
    <2>3. ASSUME NEW k \in DOMAIN n
          PROVE  \E j \in 1 .. Len(t) : t[j].key = k
      <3>1. PICK i \in 1 .. Len(s) : s[i].key = k
        BY <1>2 DEF CacheOK, Agrees
      <3>2. i # p
        BY <1>2, <3>1
      <3>3. PICK j \in 1 .. Len(t) : From(j) = i
        BY <1>5, <3>2
      <3> QED BY <1>3, <3>1, <3>3
    <2> QED BY <2>1, <2>2, <2>3 DEF Agrees
  <1> QED BY <1>1, <1>2, <1>6 DEF CacheOK, t, n, From

\* Pushing x and then erasing a node behind it is erasing it and then pushing x.
LEMMA RemoveBehind ==
  ASSUME NEW s \in Seq(Item), NEW x \in Item, NEW p \in 1 .. Len(s)
  PROVE  RemoveAt(<<x>> \o s, p + 1) = <<x>> \o RemoveAt(s, p)
  <1> DEFINE pushed == <<x>> \o s
             rest == RemoveAt(s, p)
             left == RemoveAt(pushed, p + 1)
             right == <<x>> \o rest
  <1>1. /\ pushed \in Seq(Item)
        /\ Len(pushed) = Len(s) + 1
        /\ pushed[1] = x
        /\ \A j \in 2 .. Len(s) + 1 : pushed[j] = s[j - 1]
    BY PushElements
  <1>2. Len(s) \in Nat
    BY LenProperties
  <1>3. /\ rest \in Seq(Item)
        /\ Len(rest) = Len(s) - 1
        /\ \A j \in 1 .. Len(s) - 1 : rest[j] = IF j < p THEN s[j] ELSE s[j + 1]
    BY RemoveAtElements
  <1> HIDE DEF pushed, rest
  <1>4. p + 1 \in 1 .. Len(pushed)
    BY <1>1, <1>2
  <1>5. /\ left \in Seq(Item)
        /\ Len(left) = Len(s)
        /\ \A j \in 1 .. Len(s) :
             left[j] = IF j < p + 1 THEN pushed[j] ELSE pushed[j + 1]
    <2>1. /\ left \in Seq(Item)
          /\ Len(left) = Len(pushed) - 1
          /\ \A j \in 1 .. Len(pushed) - 1 :
               left[j] = IF j < p + 1 THEN pushed[j] ELSE pushed[j + 1]
      BY <1>1, <1>4, RemoveAtElements
    <2> QED BY <1>1, <1>2, <2>1
  <1>6. /\ right \in Seq(Item)
        /\ Len(right) = Len(s)
        /\ right[1] = x
        /\ \A j \in 2 .. Len(s) : right[j] = rest[j - 1]
    <2>1. /\ right \in Seq(Item)
          /\ Len(right) = Len(rest) + 1
          /\ right[1] = x
          /\ \A j \in 2 .. Len(rest) + 1 : right[j] = rest[j - 1]
      BY <1>3, PushElements
    <2> QED BY <1>2, <1>3, <2>1
  <1> HIDE DEF left, right
  <1>7. ASSUME NEW j \in 1 .. Len(s)
        PROVE  left[j] = right[j]
    <2>1. CASE j = 1
      BY <1>1, <1>2, <1>5, <1>6, <2>1
    <2>2. CASE j # 1 /\ j < p + 1
      BY <1>1, <1>2, <1>3, <1>5, <1>6, <2>2
    <2>3. CASE ~ (j < p + 1)
      <3>1. /\ j + 1 \in 2 .. Len(s) + 1
            /\ j \in 2 .. Len(s)
            /\ j - 1 \in 1 .. Len(s) - 1
            /\ ~ (j - 1 < p)
            /\ (j + 1) - 1 = j /\ (j - 1) + 1 = j
        BY <1>2, <2>3
      <3>2. left[j] = s[j]
        BY <1>1, <1>5, <2>3, <3>1
      <3>3. right[j] = s[j]
        BY <1>3, <1>6, <3>1
      <3> QED BY <3>2, <3>3
    <2> QED BY <2>1, <2>2, <2>3
  <1>8. left = right
    BY <1>5, <1>6, <1>7, SeqEqual
  <1> QED BY <1>8 DEF left, right, pushed, rest

\* Without the element at p, no node of the list is x's.
LEMMA RemainingNodes ==
  ASSUME NEW s \in Seq(Item), NEW p \in 1 .. Len(s), NEW x,
         \A i \in 1 .. Len(s) : i # p => s[i].node # x.node
  PROVE  \A i \in 1 .. Len(RemoveAt(s, p)) : RemoveAt(s, p)[i].node # x.node
  <1> DEFINE t == RemoveAt(s, p)
  <1> SUFFICES ASSUME NEW i \in 1 .. Len(t)
               PROVE  t[i].node # x.node
    OBVIOUS
  <1>1. /\ Len(s) \in Nat
        /\ Len(t) = Len(s) - 1
        /\ \A j \in 1 .. Len(s) - 1 :
             t[j] = IF j < p THEN s[j] ELSE s[j + 1]
    BY RemoveAtElements, LenProperties
  <1> HIDE DEF t
  <1>2. CASE i < p
    BY <1>1, <1>2
  <1>3. CASE ~ (i < p)
    <2>1. i + 1 \in 1 .. Len(s) /\ i + 1 # p /\ t[i] = s[i + 1]
      BY <1>1, <1>3
    <2> QED BY <2>1
  <1> QED BY <1>2, <1>3

\* A new node for a key that is there: the old one is erased behind it.
LEMMA MoveKey ==
  ASSUME NEW s, NEW m, CacheOK(s, m), NEW p \in 1 .. Len(s),
         NEW x \in Item, x.key = s[p].key,
         \A i \in 1 .. Len(s) : i # p => s[i].node # x.node
  PROVE  CacheOK(<<x>> \o RemoveAt(s, p), Mapped(m, x))
  <1> DEFINE t == RemoveAt(s, p)
             n == Restrict(m, DOMAIN m \ {x.key})
  <1>1. CacheOK(t, n)
    BY DropKey
  <1>2. x.key \notin DOMAIN n
    BY DEF Restrict
  <1>3. \A i \in 1 .. Len(t) : t[i].node # x.node
    BY RemainingNodes DEF CacheOK
  <1>4. CacheOK(<<x>> \o t, Mapped(n, x))
    <2> HIDE DEF t, n
    <2> QED BY <1>1, <1>2, <1>3, PushNew DEF Mapped
  <1>5. x.key \in DOMAIN m
    BY DEF CacheOK, Agrees
  <1>6. Mapped(n, x) = Mapped(m, x)
    BY <1>5 DEF Mapped, Restrict
  <1> QED BY <1>4, <1>6

\* The list is as long as the map has keys.
LEMMA AsLong ==
  ASSUME NEW s, NEW m, CacheOK(s, m)
  PROVE  Len(s) = Cardinality(DOMAIN m)
  <1> DEFINE key == [i \in 1 .. Len(s) |-> s[i].key]
  <1>1. Len(s) \in Nat
    BY LenProperties DEF CacheOK
  <1>2. key \in Bijection(1 .. Len(s), DOMAIN m)
    BY DEF CacheOK, Agrees, Bijection, Injection, Surjection, IsInjective
  <1>3. ExistsBijection(1 .. Len(s), DOMAIN m)
    BY <1>2 DEF ExistsBijection
  <1>4. /\ IsFiniteSet(1 .. Len(s))
        /\ Cardinality(1 .. Len(s)) = Len(s)
    <2>1. /\ IsFiniteSet(1 .. Len(s))
          /\ Cardinality(1 .. Len(s)) =
               IF 1 > Len(s) THEN 0 ELSE Len(s) - 1 + 1
      <3>1. 1 \in Int /\ Len(s) \in Int
        BY <1>1
      <3> QED BY ONLY <3>1, FS_Interval
    <2> QED BY <1>1, <2>1
  <1> QED BY <1>3, <1>4, FS_Bijection
-----------------------------------------------------------------------------
(* The steps of the cache.                                                 *)

LEMMA InitInv == Init => CacheInv
  <1> SUFFICES ASSUME Init PROVE CacheInv
    OBVIOUS
  <1>1. /\ list \in Seq(Item) /\ Len(list) = 0
        /\ DOMAIN map = {}
        /\ map \in [{} -> Nodes]
        /\ got = NoValue
    BY EmptySeq DEF Init
  <1>2. IsFiniteSet(DOMAIN map) /\ Cardinality(DOMAIN map) = 0
    BY <1>1, FS_EmptySet
  <1>3. Agrees(list, map)
    BY <1>1 DEF Agrees
  <1> QED BY <1>1, <1>2, <1>3, MaxSizeAssumption DEF CacheInv, CacheOK

\* put of a key that is there: the old node is erased behind the new one.
LEMMA ErasedBehind ==
  ASSUME CacheInv, NEW x \in Item, ~ Live(x.node), x.key \in DOMAIN map
  PROVE  \E p \in 1 .. Len(list) :
           /\ list[p].key = x.key
           /\ Erase(<<x>> \o list, map[x.key]) = <<x>> \o RemoveAt(list, p)
  <1> DEFINE pushed == <<x>> \o list
             p == Place(list, map[x.key])
             q == Place(pushed, map[x.key])
  <1>1. /\ list \in Seq(Item)
        /\ Len(list) \in Nat
        /\ DOMAIN list = 1 .. Len(list)
        /\ \A i \in 1 .. Len(list) : list[i].node # x.node
    BY LenProperties DEF CacheInv, CacheOK, Live
  <1>2. /\ p \in 1 .. Len(list)
        /\ list[p].node = map[x.key]
        /\ list[p].key = x.key
    BY PlaceOfKey DEF CacheInv, CacheOK
  <1>3. /\ Len(pushed) = Len(list) + 1
        /\ pushed[1] = x
        /\ \A j \in 2 .. Len(list) + 1 : pushed[j] = list[j - 1]
        /\ DOMAIN pushed = 1 .. Len(pushed)
    BY <1>1, PushElements, LenProperties
  <1> HIDE DEF p, pushed
  <1>4. p + 1 \in DOMAIN pushed /\ pushed[p + 1] = list[p]
    BY <1>1, <1>2, <1>3
  <1>5. q \in DOMAIN pushed /\ pushed[q].node = map[x.key]
    BY <1>2, <1>4 DEF Place
  <1> HIDE DEF q
  <1>6. q = p + 1
    <2>1. q # 1
      BY <1>1, <1>2, <1>3, <1>5
    <2>2. q - 1 \in 1 .. Len(list) /\ pushed[q] = list[q - 1]
      BY <1>1, <1>3, <1>5, <2>1
    <2>3. q - 1 = p
      BY <1>2, <1>5, <2>2 DEF CacheInv, CacheOK, Agrees
    <2> QED BY <1>1, <1>2, <1>3, <1>5, <2>3
  <1>7. Erase(pushed, map[x.key]) = <<x>> \o RemoveAt(list, p)
    BY <1>1, <1>2, <1>6, RemoveBehind DEF Erase, q, pushed
  <1> QED BY <1>2, <1>7 DEF pushed

\* put, before it looks at the size.
LEMMA Pushed ==
  ASSUME CacheInv, NEW x \in Item, ~ Live(x.node)
  PROVE  LET pushed == <<x>> \o list
             s == IF x.key \in DOMAIN map THEN Erase(pushed, map[x.key])
                  ELSE pushed
         IN  CacheOK(s, Mapped(map, x))
  <1>1. \A i \in 1 .. Len(list) : list[i].node # x.node
    BY LenProperties DEF CacheInv, CacheOK, Live
  <1>2. CASE x.key \notin DOMAIN map
    BY <1>1, <1>2, PushNew DEF CacheInv
  <1>3. CASE x.key \in DOMAIN map
    <2>1. PICK p \in 1 .. Len(list) :
            /\ list[p].key = x.key
            /\ Erase(<<x>> \o list, map[x.key]) = <<x>> \o RemoveAt(list, p)
      BY <1>3, ErasedBehind
    <2>2. CacheOK(<<x>> \o RemoveAt(list, p), Mapped(map, x))
      BY <1>1, <2>1, MoveKey DEF CacheInv
    <2> QED BY <1>3, <2>1, <2>2
  <1> QED BY <1>2, <1>3

LEMMA PutInv ==
  ASSUME CacheInv, NEW k \in Keys, NEW v \in Values, Put(k, v)
  PROVE  CacheInv'
  <1>1. PICK n \in Nodes :
          /\ ~ Live(n)
          /\ LET pushed == <<[node |-> n, key |-> k, value |-> v]>> \o list
                 s == IF k \in DOMAIN map THEN Erase(pushed, map[k]) ELSE pushed
                 m == [j \in DOMAIN map \cup {k} |-> IF j = k THEN n ELSE map[j]]
             IN  \/ /\ ~ TooMany(m)
                    /\ list' = s
                    /\ map' = m
                 \/ /\ TooMany(m)
                    /\ list' = Front(s)
                    /\ map' = Restrict(m, DOMAIN m \ {Last(s).key})
    BY DEF Put, put
  <1> DEFINE x == [node |-> n, key |-> k, value |-> v]
             pushed == <<x>> \o list
             s == IF k \in DOMAIN map THEN Erase(pushed, map[k]) ELSE pushed
             m == [j \in DOMAIN map \cup {k} |-> IF j = k THEN n ELSE map[j]]
  <1>2. x \in Item /\ x.node = n /\ x.key = k
    BY DEF Item
  <1>3. m = Mapped(map, x)
    BY DEF Mapped
  <1>4. CacheOK(s, m)
    <2> HIDE DEF x, m
    <2> QED BY <1>1, <1>2, <1>3, Pushed
  <1>5. /\ IsFiniteSet(DOMAIN m)
        /\ Cardinality(DOMAIN m) \in Nat
        /\ Cardinality(DOMAIN m) <= MaxSize + 1
    <2>1. /\ IsFiniteSet(DOMAIN map)
          /\ Cardinality(DOMAIN map) <= MaxSize
          /\ Cardinality(DOMAIN map) \in Nat
      BY FS_CardinalityType DEF CacheInv, CacheOK
    <2>2. DOMAIN m = DOMAIN map \cup {k}
      OBVIOUS
    <2> HIDE DEF m
    <2>3. /\ IsFiniteSet(DOMAIN m)
          /\ Cardinality(DOMAIN m) =
               IF k \in DOMAIN map THEN Cardinality(DOMAIN map)
               ELSE Cardinality(DOMAIN map) + 1
      BY <2>1, <2>2, FS_AddElement
    <2> QED BY <2>1, <2>3, MaxSizeAssumption
  <1>6. got' \in Values \cup {NoValue}
    BY DEF Put, CacheInv
  <1>7. \/ ~ TooMany(m) /\ list' = s /\ map' = m
        \/ /\ TooMany(m)
           /\ list' = Front(s)
           /\ map' = Restrict(m, DOMAIN m \ {Last(s).key})
    BY <1>1
  <1> HIDE DEF s, m
  <1>8. CASE ~ TooMany(m) /\ list' = s /\ map' = m
    BY <1>4, <1>5, <1>6, <1>8, MaxSizeAssumption DEF TooMany, CacheInv
  <1>9. CASE /\ TooMany(m)
             /\ list' = Front(s)
             /\ map' = Restrict(m, DOMAIN m \ {Last(s).key})
    <2>1. /\ Len(s) = Cardinality(DOMAIN m)
          /\ Len(s) \in 1 .. Len(s)
      BY <1>4, <1>5, <1>9, AsLong, MaxSizeAssumption DEF TooMany
    <2>2. Front(s) = RemoveAt(s, Len(s))
      BY <1>4, <2>1, FrontRemoves DEF CacheOK
    <2>3. Last(s).key \in DOMAIN m
      BY <1>4, <2>1 DEF Last, CacheOK, Agrees
    <2>4. CacheOK(list', map')
      BY <1>4, <1>9, <2>1, <2>2, DropKey DEF Last
    <2>5. Cardinality(DOMAIN map') <= MaxSize
      <3>1. DOMAIN map' = DOMAIN m \ {Last(s).key}
        BY <1>9 DEF Restrict
      <3>2. Cardinality(DOMAIN map') = Cardinality(DOMAIN m) - 1
        BY <1>5, <2>3, <3>1, FS_RemoveElement
      <3> QED BY <1>5, <3>2, MaxSizeAssumption
    <2> QED BY <1>6, <2>4, <2>5 DEF CacheInv
  <1> QED BY <1>7, <1>8, <1>9

LEMMA HitOK ==
  ASSUME CacheInv, NEW k \in Keys, hit(k)
  PROVE  /\ CacheOK(list', map') /\ map' = map
         /\ list[Place(list, map[k])].value \in Values
  <1> DEFINE p == Place(list, map[k])
  <1>1. /\ list \in Seq(Item)
        /\ Len(list) \in Nat
        /\ p \in 1 .. Len(list)
        /\ list[p].node = map[k]
        /\ list[p].key = k
    BY PlaceOfKey, LenProperties DEF hit, CacheInv, CacheOK
  <1>2. list[p] \in Item
    BY <1>1, ElementOfSeq
  <1>3. list[p].value \in Values
    BY <1>2 DEF Item
  <1> HIDE DEF p
  <1>4. \A i \in 1 .. Len(list) : i # p => list[i].node # list[p].node
    BY <1>1 DEF CacheInv, CacheOK, Agrees
  <1>5. CacheOK(<<list[p]>> \o RemoveAt(list, p), Mapped(map, list[p]))
    BY <1>1, <1>2, <1>4, MoveKey DEF CacheInv
  <1>6. Mapped(map, list[p]) = map
    <2>1. k \in DOMAIN map /\ map \in [DOMAIN map -> Nodes]
      BY DEF hit, CacheInv, CacheOK
    <2> QED BY <1>1, <2>1 DEF Mapped
  <1>7. list' = <<list[p]>> \o RemoveAt(list, p) /\ map' = map
    BY DEF hit, Spliced, Erase, p
  <1> QED BY <1>3, <1>5, <1>6, <1>7 DEF p

LEMMA GetInv ==
  ASSUME CacheInv, NEW k \in Keys, Get(k)
  PROVE  CacheInv'
  <1>1. CASE hit(k) /\ got' = list[Place(list, map[k])].value
    BY <1>1, HitOK DEF CacheInv
  <1>2. CASE miss(k) /\ got' = NoValue
    BY <1>2 DEF miss, CacheInv
  <1> QED BY <1>1, <1>2 DEF Get

\* For a module that uses the cache: put and a get that hits keep the
\* invariant, and neither leaves the cache empty.
LEMMA PutKeeps ==
  \A k \in Keys, v \in Values :
    CacheInv /\ put(k, v) /\ UNCHANGED got => CacheInv'
  BY PutInv DEF Put

LEMMA PutFills ==
  \A k \in Keys, v \in Values :
    MaxSize > 0 /\ CacheInv /\ put(k, v) => DOMAIN map' # {}
  <1> SUFFICES ASSUME NEW k \in Keys, NEW v \in Values,
                      MaxSize > 0, CacheInv, put(k, v), DOMAIN map' = {}
               PROVE  FALSE
    OBVIOUS
  <1>1. PICK n \in Nodes :
          LET m == [j \in DOMAIN map \cup {k} |-> IF j = k THEN n ELSE map[j]]
          IN  \/ map' = m
              \/ TooMany(m) /\ \E x : map' = Restrict(m, DOMAIN m \ {x})
    BY DEF put
  <1> DEFINE m == [j \in DOMAIN map \cup {k} |-> IF j = k THEN n ELSE map[j]]
  <1>2. DOMAIN m = DOMAIN map \cup {k}
    OBVIOUS
  <1>3. PICK x : TooMany(m) /\ map' = Restrict(m, DOMAIN m \ {x})
    BY <1>1, <1>2
  <1>4. DOMAIN m \subseteq {x}
    BY <1>3 DEF Restrict
  <1>5. DOMAIN m = {x}
    BY <1>2, <1>4
  <1>6. Cardinality(DOMAIN m) = 1
    BY <1>5, FS_Singleton
  <1> QED BY <1>3, <1>6, MaxSizeAssumption DEF TooMany

LEMMA HitKeeps ==
  \A k \in Keys :
    CacheInv /\ hit(k) /\ UNCHANGED got
      => CacheInv' /\ list[Place(list, map[k])].value \in Values
  BY HitOK DEF CacheInv

\* Every pair of the list t is x or one of the list s.
FromOr(t, x, s) ==
  \A i \in 1 .. Len(t) : t[i] = x \/ \E j \in 1 .. Len(s) : t[i] = s[j]

LEMMA PushFrom ==
  ASSUME NEW s \in Seq(Item), NEW x \in Item, NEW t \in Seq(Item), FromOr(t, x, s)
  PROVE  FromOr(<<x>> \o t, x, s)
  <1>1. /\ Len(<<x>> \o t) = Len(t) + 1 /\ (<<x>> \o t)[1] = x
        /\ \A j \in 2 .. Len(t) + 1 : (<<x>> \o t)[j] = t[j - 1]
    BY PushElements
  <1>2. Len(t) \in Nat
    BY LenProperties
  <1> DEFINE u == <<x>> \o t
  <1> HIDE DEF u
  <1>3. ASSUME NEW i \in 1 .. Len(u)
        PROVE  u[i] = x \/ \E j \in 1 .. Len(s) : u[i] = s[j]
    <2>1. CASE i = 1
      BY <1>1, <2>1 DEF u
    <2>2. CASE i # 1
      <3>1. i \in 2 .. Len(t) + 1 /\ i - 1 \in 1 .. Len(t)
        BY <1>1, <1>2, <2>2 DEF u
      <3>2. u[i] = t[i - 1]
        BY <1>1, <3>1 DEF u
      <3> QED BY <3>1, <3>2 DEF FromOr
    <2> QED BY <2>1, <2>2
  <1> QED BY <1>3 DEF FromOr, u

LEMMA RemoveFrom ==
  ASSUME NEW s, NEW x, NEW t \in Seq(Item), FromOr(t, x, s),
         NEW p \in 1 .. Len(t)
  PROVE  FromOr(RemoveAt(t, p), x, s)
  <1>1. /\ Len(RemoveAt(t, p)) = Len(t) - 1
        /\ \A j \in 1 .. Len(t) - 1 :
             RemoveAt(t, p)[j] = IF j < p THEN t[j] ELSE t[j + 1]
    BY RemoveAtElements
  <1>2. Len(t) \in Nat
    BY LenProperties
  <1>3. \A j \in 1 .. Len(t) - 1 : j \in 1 .. Len(t) /\ j + 1 \in 1 .. Len(t)
    BY <1>2
  <1> QED BY <1>1, <1>3 DEF FromOr

LEMMA PutItems ==
  \A k \in Keys, v \in Values :
    CacheInv /\ put(k, v)
      => \E n \in Nodes :
           FromOr(list', [node |-> n, key |-> k, value |-> v], list)
  <1> SUFFICES ASSUME NEW k \in Keys, NEW v \in Values, CacheInv, put(k, v)
               PROVE  \E n \in Nodes :
                        FromOr(list', [node |-> n, key |-> k, value |-> v], list)
    OBVIOUS
  <1>1. PICK n \in Nodes :
          /\ ~ Live(n)
          /\ LET pushed == <<[node |-> n, key |-> k, value |-> v]>> \o list
                 s == IF k \in DOMAIN map THEN Erase(pushed, map[k]) ELSE pushed
                 m == [j \in DOMAIN map \cup {k} |-> IF j = k THEN n ELSE map[j]]
             IN  (~ TooMany(m) /\ list' = s) \/ (TooMany(m) /\ list' = Front(s))
    BY DEF put
  <1> DEFINE x == [node |-> n, key |-> k, value |-> v]
             pushed == <<x>> \o list
             s == IF k \in DOMAIN map THEN Erase(pushed, map[k]) ELSE pushed
  <1>2. x \in Item /\ x.node = n /\ x.key = k
    BY DEF Item
  <1>3. list' = s \/ list' = Front(s)
    BY <1>1
  <1>4. list \in Seq(Item) /\ FromOr(list, x, list)
    BY DEF CacheInv, CacheOK, FromOr
  <1> HIDE DEF x
  <1>5. s \in Seq(Item) /\ FromOr(s, x, list) /\ Len(s) >= 1
    <2>1. CASE k \notin DOMAIN map
      <3>1. s = pushed
        BY <2>1
      <3>2. pushed \in Seq(Item) /\ Len(pushed) = Len(list) + 1 /\ Len(list) \in Nat
        BY <1>2, <1>4, PushElements, LenProperties
      <3>3. FromOr(pushed, x, list)
        BY <1>2, <1>4, PushFrom
      <3> HIDE DEF pushed, s
      <3> QED BY <3>1, <3>2, <3>3
    <2>2. CASE k \in DOMAIN map
      <3>1. PICK p \in 1 .. Len(list) :
              Erase(<<x>> \o list, map[x.key]) = <<x>> \o RemoveAt(list, p)
        BY <1>1, <1>2, <2>2, ErasedBehind
      <3> DEFINE rest == RemoveAt(list, p)
      <3>2. s = <<x>> \o rest
        BY <1>2, <2>2, <3>1
      <3>3. rest \in Seq(Item)
        BY <1>4, RemoveAtElements
      <3>4. FromOr(rest, x, list)
        BY <1>4, RemoveFrom
      <3> HIDE DEF rest, s
      <3>5. /\ <<x>> \o rest \in Seq(Item) /\ Len(<<x>> \o rest) = Len(rest) + 1
            /\ Len(rest) \in Nat
        BY <1>2, <3>3, PushElements, LenProperties
      <3>6. FromOr(<<x>> \o rest, x, list)
        BY <1>2, <1>4, <3>3, <3>4, PushFrom
      <3> QED BY <3>2, <3>5, <3>6
    <2> QED BY <2>1, <2>2
  <1> HIDE DEF s
  <1>6. FromOr(Front(s), x, list)
    <2>1. Len(s) \in 1 .. Len(s)
      BY <1>5, LenProperties
    <2> QED BY <1>5, <2>1, FrontRemoves, RemoveFrom
  <1>7. FromOr(list', x, list)
    BY <1>3, <1>5, <1>6
  <1> QED BY <1>7 DEF x

\* A get that hits moves the pair of its key to the front.
LEMMA HitItems ==
  \A k \in Keys :
    CacheInv /\ hit(k)
      => /\ Place(list, map[k]) \in 1 .. Len(list)
         /\ list[Place(list, map[k])].key = k
         /\ FromOr(list', list[Place(list, map[k])], list)
  <1> SUFFICES ASSUME NEW k \in Keys, CacheInv, hit(k)
               PROVE  /\ Place(list, map[k]) \in 1 .. Len(list)
                      /\ list[Place(list, map[k])].key = k
                      /\ FromOr(list', list[Place(list, map[k])], list)
    OBVIOUS
  <1> DEFINE p == Place(list, map[k])
             x == list[p]
  <1>1. /\ list \in Seq(Item)
        /\ p \in 1 .. Len(list)
        /\ list[p].key = k
    BY PlaceOfKey DEF hit, CacheInv, CacheOK
  <1>2. list' = <<x>> \o RemoveAt(list, p)
    BY DEF hit, Spliced, Erase
  <1> HIDE DEF p
  <1>3. x \in Item
    BY <1>1, ElementOfSeq
  <1> HIDE DEF x
  <1>4. FromOr(list, x, list)
    BY DEF FromOr
  <1>5. RemoveAt(list, p) \in Seq(Item) /\ FromOr(RemoveAt(list, p), x, list)
    BY <1>1, <1>4, RemoveAtElements, RemoveFrom
  <1>6. FromOr(list', x, list)
    BY <1>1, <1>2, <1>3, <1>5, PushFrom
  <1> QED BY <1>1, <1>6 DEF p, x

\* A cache whose map is not empty has a list that is not.
LEMMA FilledList == CacheInv /\ DOMAIN map # {} => list # <<>>
  <1> SUFFICES ASSUME CacheInv, NEW k \in DOMAIN map PROVE list # <<>>
    OBVIOUS
  <1>1. PICK i \in 1 .. Len(list) : list[i].key = k
    BY DEF CacheInv, CacheOK, Agrees
  <1> QED BY <1>1, EmptySeq

LEMMA CacheInvariant == Spec => []CacheInv
  <1>1. CacheInv /\ [Next]_lruVars => CacheInv'
    <2> SUFFICES ASSUME CacheInv, [Next]_lruVars PROVE CacheInv'
      OBVIOUS
    <2>1. CASE Next
      BY <2>1, PutInv, GetInv DEF Next
    <2>2. CASE UNCHANGED lruVars
      BY <2>2 DEF lruVars, CacheInv
    <2> QED BY <2>1, <2>2
  <1> QED BY InitInv, <1>1, PTL DEF Spec

-----------------------------------------------------------------------------
\* Every step of put and get leaves the list and the map in agreement: each
\* key once, at the node the map has for it.
THEOREM CacheAgrees == Spec => []Agree
  <1>1. CacheInv => Agree
    <2> SUFFICES ASSUME CacheInv PROVE Agree
      OBVIOUS
    <2>1. DOMAIN list = 1 .. Len(list)
      BY LenProperties DEF CacheInv, CacheOK
    <2> QED BY <2>1 DEF CacheInv, CacheOK, Agrees, Agree
  <1> QED BY <1>1, CacheInvariant, PTL

\* The list never holds more pairs than the constructor was told.
THEOREM CacheBounded == Spec => []Bounded
  <1>1. CacheInv => Bounded
    BY AsLong DEF CacheInv, Bounded
  <1> QED BY <1>1, CacheInvariant, PTL
-----------------------------------------------------------------------------
(* The list and the map implement RecencyCache.                            *)

\* Content and Before, of one list and one map.
ContentOf(s, m) == [k \in DOMAIN m |-> s[Place(s, m[k])].value]

OrderOf(s, m) ==
  {p \in (DOMAIN m) \X (DOMAIN m) :
     \E i, j \in 1 .. Len(s) : i < j /\ s[j].key = p[1] /\ s[i].key = p[2]}

\* The content with a pair put.
Storing(c, x) ==
  [k \in DOMAIN c \cup {x.key} |-> IF k = x.key THEN x.value ELSE c[k]]

\* The order without a key; the pairs of a key used after those of ks; the
\* order of ks when one of them has just been used.
Without(o, k) == {q \in o : k \notin {q[1], q[2]}}

After(k, ks) == {<<a, k>> : a \in ks}

Using(o, k, ks) == Without(o, k) \cup After(k, ks \ {k})

\* What is known of the pair at a place of the list.
LEMMA AtPlace ==
  ASSUME NEW s, NEW m, CacheOK(s, m), NEW i \in 1 .. Len(s)
  PROVE  /\ s[i].key \in DOMAIN m
         /\ ContentOf(s, m)[s[i].key] = s[i].value
         /\ \A j \in 1 .. Len(s) :
              /\ s[j].key = s[i].key => j = i
              /\ <<s[j].key, s[i].key>> \in OrderOf(s, m) <=> i < j
  <1>1. s[i].key \in DOMAIN m
    BY DEF CacheOK, Agrees
  <1>2. \A a, b \in 1 .. Len(s) : s[a].key = s[b].key => a = b
    BY DEF CacheOK, Agrees
  <1>3. Place(s, m[s[i].key]) = i
    <2>1. /\ Place(s, m[s[i].key]) \in 1 .. Len(s)
          /\ s[Place(s, m[s[i].key])].key = s[i].key
      BY <1>1, PlaceOfKey DEF CacheOK
    <2> QED BY <1>2, <2>1
  <1>4. ContentOf(s, m)[s[i].key] = s[i].value
    BY <1>1, <1>3 DEF ContentOf
  <1>5. ASSUME NEW j \in 1 .. Len(s)
        PROVE  <<s[j].key, s[i].key>> \in OrderOf(s, m) <=> i < j
    <2>1. s[j].key \in DOMAIN m
      BY DEF CacheOK, Agrees
    <2>2. <<s[j].key, s[i].key>> \in OrderOf(s, m) <=>
            \E a, b \in 1 .. Len(s) :
              a < b /\ s[b].key = s[j].key /\ s[a].key = s[i].key
      BY <1>1, <2>1 DEF OrderOf
    <2> QED BY <1>2, <2>2
  <1> QED BY <1>1, <1>2, <1>4, <1>5

\* The keys of the map are the keys of the list.
LEMMA KeysOfList ==
  ASSUME NEW s, NEW m, CacheOK(s, m), NEW k \in DOMAIN m
  PROVE  \E i \in 1 .. Len(s) : s[i].key = k
  BY DEF CacheOK, Agrees

\* The new pair in front is the one used last.
LEMMA PushView ==
  ASSUME NEW s, NEW m, CacheOK(s, m),
         NEW x \in Item, x.key \notin DOMAIN m,
         \A i \in 1 .. Len(s) : s[i].node # x.node
  PROVE  /\ ContentOf(<<x>> \o s, Mapped(m, x)) = Storing(ContentOf(s, m), x)
         /\ OrderOf(<<x>> \o s, Mapped(m, x)) =
              OrderOf(s, m) \cup After(x.key, DOMAIN m)
  <1> DEFINE t == <<x>> \o s
             n == Mapped(m, x)
  <1>1. /\ Len(t) = Len(s) + 1
        /\ t[1] = x
        /\ \A j \in 2 .. Len(s) + 1 : t[j] = s[j - 1]
        /\ Len(s) \in Nat
    BY PushElements, LenProperties DEF CacheOK
  <1>2. CacheOK(t, n)
    BY PushNew
  <1>3. DOMAIN n = DOMAIN m \cup {x.key}
    BY DEF Mapped
  <1> HIDE DEF t, n
  <1>4. \A i \in 1 .. Len(s) : i + 1 \in 1 .. Len(t) /\ t[i + 1] = s[i]
    BY <1>1
  <1>5. 1 \in 1 .. Len(t)
    BY <1>1
  <1>6. ASSUME NEW k \in DOMAIN n
        PROVE  ContentOf(t, n)[k] =
                 IF k = x.key THEN x.value ELSE ContentOf(s, m)[k]
    <2>1. CASE k = x.key
      BY <1>1, <1>2, <1>5, <2>1, AtPlace
    <2>2. CASE k # x.key
      <3>1. PICK i \in 1 .. Len(s) : s[i].key = k
        BY <1>3, <2>2, KeysOfList
      <3>2. ContentOf(s, m)[k] = s[i].value
        BY <3>1, AtPlace
      <3>3. ContentOf(t, n)[t[i + 1].key] = t[i + 1].value
        BY <1>2, <1>4, AtPlace
      <3> QED BY <1>4, <2>2, <3>1, <3>2, <3>3
    <2> QED BY <2>1, <2>2
  <1>7. ContentOf(t, n) = Storing(ContentOf(s, m), x)
    <2>1. DOMAIN ContentOf(s, m) = DOMAIN m
      BY DEF ContentOf
    <2>2. ContentOf(t, n) =
            [k \in DOMAIN m \cup {x.key} |->
               IF k = x.key THEN x.value ELSE ContentOf(s, m)[k]]
      BY <1>3, <1>6 DEF ContentOf
    <2> QED BY <2>1, <2>2 DEF Storing
  <1>8. ASSUME NEW a \in DOMAIN n, NEW b \in DOMAIN n
        PROVE  <<a, b>> \in OrderOf(t, n) <=>
                 \/ <<a, b>> \in OrderOf(s, m)
                 \/ a \in DOMAIN m /\ b = x.key
    <2>1. PICK i \in 1 .. Len(t) : t[i].key = b
      BY <1>2, KeysOfList
    <2>2. PICK j \in 1 .. Len(t) : t[j].key = a
      BY <1>2, KeysOfList
    <2>3. <<a, b>> \in OrderOf(t, n) <=> i < j
      BY <1>2, <2>1, <2>2, AtPlace
    <2>4. <<a, b>> \in OrderOf(s, m) => a \in DOMAIN m /\ b \in DOMAIN m
      BY DEF OrderOf
    <2>5. CASE i = 1
      <3>1. b = x.key
        BY <1>1, <2>1, <2>5
      <3>2. i < j <=> a # x.key
        <4>1. t[j].key = t[1].key => j = 1
          BY <1>2, <1>5, AtPlace
        <4>2. t[1].key = x.key
          BY <1>1
        <4> QED BY <1>1, <2>2, <2>5, <4>1, <4>2
      <3> QED BY <1>3, <2>3, <2>4, <3>1, <3>2
    <2>6. CASE i # 1 /\ j = 1
      <3>1. a = x.key /\ ~ (i < j)
        BY <1>1, <2>1, <2>2, <2>6
      <3> QED BY <2>3, <2>4, <3>1
    <2>7. CASE i # 1 /\ j # 1
      <3>1. /\ i - 1 \in 1 .. Len(s) /\ j - 1 \in 1 .. Len(s)
            /\ t[i] = s[i - 1] /\ t[j] = s[j - 1]
            /\ (i < j <=> i - 1 < j - 1)
        BY <1>1, <2>7
      <3>2. b \in DOMAIN m /\ (<<a, b>> \in OrderOf(s, m) <=> i - 1 < j - 1)
        BY <2>1, <2>2, <3>1, AtPlace
      <3> QED BY <2>3, <3>1, <3>2
    <2> QED BY <2>5, <2>6, <2>7
  <1>9. OrderOf(t, n) = OrderOf(s, m) \cup After(x.key, DOMAIN m)
    <2>1. OrderOf(t, n) \subseteq (DOMAIN n) \X (DOMAIN n)
      BY DEF OrderOf
    <2>2. OrderOf(s, m) \subseteq (DOMAIN m) \X (DOMAIN m)
      BY DEF OrderOf
    <2>3. OrderOf(s, m) \cup After(x.key, DOMAIN m)
            \subseteq (DOMAIN n) \X (DOMAIN n)
      BY <1>3, <2>2 DEF After
    <2> QED BY <1>8, <2>1, <2>3 DEF After
  <1> QED BY <1>7, <1>9 DEF t, n

\* Without a pair, the order of the others stays.
LEMMA DropView ==
  ASSUME NEW s, NEW m, CacheOK(s, m), NEW p \in 1 .. Len(s),
         NEW k, k = s[p].key
  PROVE  LET ks == DOMAIN m \ {k} IN
         /\ ContentOf(RemoveAt(s, p), Restrict(m, ks)) =
              Restrict(ContentOf(s, m), ks)
         /\ OrderOf(RemoveAt(s, p), Restrict(m, ks)) =
              Without(OrderOf(s, m), k)
  <1> DEFINE ks == DOMAIN m \ {k}
             t == RemoveAt(s, p)
             n == Restrict(m, ks)
             From(j) == IF j < p THEN j ELSE j + 1
  <1>1. /\ Len(t) = Len(s) - 1
        /\ Len(s) \in Nat
        /\ \A j \in 1 .. Len(s) - 1 : t[j] = IF j < p THEN s[j] ELSE s[j + 1]
    BY RemoveAtElements, LenProperties DEF CacheOK
  <1>2. CacheOK(t, n)
    BY DropKey
  <1>3. DOMAIN n = ks
    BY DEF Restrict
  <1> HIDE DEF t, n
  <1>4. \A i \in 1 .. Len(t) : From(i) \in 1 .. Len(s) /\ t[i] = s[From(i)]
    BY <1>1
  <1>5. \A i, j \in 1 .. Len(t) : From(i) < From(j) <=> i < j
    BY <1>1
  <1> HIDE DEF From
  <1>6. ASSUME NEW h \in ks
        PROVE  ContentOf(t, n)[h] = ContentOf(s, m)[h]
    <2>1. PICK i \in 1 .. Len(t) : t[i].key = h
      BY <1>2, <1>3, KeysOfList
    <2>2. ContentOf(t, n)[h] = t[i].value
      BY <1>2, <2>1, AtPlace
    <2>3. ContentOf(s, m)[s[From(i)].key] = s[From(i)].value
      BY <1>4, AtPlace
    <2> QED BY <1>4, <2>1, <2>2, <2>3
  <1>7. ContentOf(t, n) = Restrict(ContentOf(s, m), ks)
    <2> HIDE DEF ks
    <2> QED BY <1>3, <1>6 DEF ContentOf, Restrict
  <1>8. ASSUME NEW a \in ks, NEW b \in ks
        PROVE  <<a, b>> \in OrderOf(t, n) <=> <<a, b>> \in OrderOf(s, m)
    <2>1. PICK i \in 1 .. Len(t) : t[i].key = b
      BY <1>2, <1>3, KeysOfList
    <2>2. PICK j \in 1 .. Len(t) : t[j].key = a
      BY <1>2, <1>3, KeysOfList
    <2>3. <<a, b>> \in OrderOf(t, n) <=> i < j
      BY <1>2, <2>1, <2>2, AtPlace
    <2>4. s[From(i)].key = b /\ s[From(j)].key = a
      BY <1>4, <2>1, <2>2
    <2>5. <<a, b>> \in OrderOf(s, m) <=> From(i) < From(j)
      BY <1>4, <2>4, AtPlace
    <2> QED BY <1>5, <2>3, <2>5
  <1>9. OrderOf(t, n) = Without(OrderOf(s, m), k)
    <2> DEFINE rest == Without(OrderOf(s, m), k)
    <2>1. OrderOf(t, n) \subseteq ks \X ks
      BY <1>3 DEF OrderOf
    <2>2. rest \subseteq ks \X ks
      BY DEF OrderOf, Without
    <2>3. \A a, b \in ks : <<a, b>> \in rest <=> <<a, b>> \in OrderOf(s, m)
      BY DEF Without
    <2> HIDE DEF rest, ks
    <2>4. ASSUME NEW q \in ks \X ks
          PROVE  q \in OrderOf(t, n) <=> q \in rest
      <3>1. PICK a \in ks, b \in ks : q = <<a, b>>
        OBVIOUS
      <3> QED BY <1>8, <2>3, <3>1
    <2>5. OrderOf(t, n) = rest
      BY <2>1, <2>2, <2>4
    <2> QED BY <2>5 DEF rest
  <1> QED BY <1>7, <1>9 DEF t, n

\* What list s and map m show after x, at its new place in front.
Shows(s, m, t, x) ==
  /\ ContentOf(t, Mapped(m, x)) = Storing(ContentOf(s, m), x)
  /\ OrderOf(t, Mapped(m, x)) =
       Using(OrderOf(s, m), x.key, DOMAIN m \cup {x.key})

LEMMA PushShows ==
  ASSUME NEW s, NEW m, CacheOK(s, m),
         NEW x \in Item, x.key \notin DOMAIN m,
         \A i \in 1 .. Len(s) : s[i].node # x.node
  PROVE  Shows(s, m, <<x>> \o s, x)
  <1>1. OrderOf(s, m) = Without(OrderOf(s, m), x.key)
    BY DEF OrderOf, Without
  <1>2. DOMAIN m = (DOMAIN m \cup {x.key}) \ {x.key}
    OBVIOUS
  <1> QED BY <1>1, <1>2, PushView DEF Shows, Using

LEMMA MoveShows ==
  ASSUME NEW s, NEW m, CacheOK(s, m), NEW p \in 1 .. Len(s),
         NEW x \in Item, x.key = s[p].key,
         \A i \in 1 .. Len(s) : i # p => s[i].node # x.node
  PROVE  Shows(s, m, <<x>> \o RemoveAt(s, p), x)
  <1> DEFINE ks == DOMAIN m \ {x.key}
             t == RemoveAt(s, p)
             n == Restrict(m, ks)
  <1>1. CacheOK(t, n)
    BY DropKey
  <1>2. DOMAIN n = ks /\ DOMAIN ContentOf(s, m) = DOMAIN m
    BY DEF Restrict, ContentOf
  <1>3. /\ ContentOf(t, n) = Restrict(ContentOf(s, m), ks)
        /\ OrderOf(t, n) = Without(OrderOf(s, m), x.key)
    BY DropView
  <1>4. \A i \in 1 .. Len(t) : t[i].node # x.node
    BY RemainingNodes DEF CacheOK
  <1>5. Mapped(n, x) = Mapped(m, x)
    <2>1. x.key \in DOMAIN m
      BY DEF CacheOK, Agrees
    <2> QED BY <2>1 DEF Mapped, Restrict
  <1>6. Storing(Restrict(ContentOf(s, m), ks), x) = Storing(ContentOf(s, m), x)
    BY <1>2 DEF Storing, Restrict
  <1>7. ks = (DOMAIN m \cup {x.key}) \ {x.key} /\ x.key \notin ks
    OBVIOUS
  <1> HIDE DEF t, n, ks
  <1>8. /\ ContentOf(<<x>> \o t, Mapped(n, x)) = Storing(ContentOf(t, n), x)
        /\ OrderOf(<<x>> \o t, Mapped(n, x)) =
             OrderOf(t, n) \cup After(x.key, DOMAIN n)
    BY <1>1, <1>2, <1>4, <1>7, PushView
  <1> QED BY <1>2, <1>3, <1>5, <1>6, <1>7, <1>8 DEF Shows, Using, t

-----------------------------------------------------------------------------
(* The steps of the cache are steps of RecencyCache.                       *)

\* The views of the state are those of its list and map.
LEMMA Views ==
  /\ Content = ContentOf(list, map)
  /\ Content' = ContentOf(list', map')
  /\ CacheInv => Before = OrderOf(list, map)
  /\ CacheInv' => Before' = OrderOf(list', map')
  <1>1. ASSUME CacheInv PROVE DOMAIN list = 1 .. Len(list)
    BY <1>1, LenProperties DEF CacheInv, CacheOK
  <1>2. ASSUME CacheInv' PROVE DOMAIN list' = 1 .. Len(list')
    BY <1>2, LenProperties DEF CacheInv, CacheOK
  <1> QED BY <1>1, <1>2 DEF Content, Before, ContentOf, OrderOf, Place

\* The library operators of RecencyCache are those of this module.
LEMMA SameOperators ==
  /\ \A S : Recency!Cardinality(S) = Cardinality(S)
  /\ \A f, S : Recency!Restrict(f, S) = Restrict(f, S)
  BY DEF Cardinality, Recency!Cardinality, Restrict, Recency!Restrict

LEMMA InitImplements == Init => Recency!Init
  BY DEF Init, Recency!Init, Content, Before

LEMMA GetImplements ==
  ASSUME CacheInv, NEW k \in Keys, Get(k)
  PROVE  Recency!Get(k)
  <1>1. CacheInv'
    BY GetInv
  <1>2. DOMAIN Content = DOMAIN map
    BY DEF Content
  <1>3. CASE hit(k) /\ got' = list[Place(list, map[k])].value
    <2> DEFINE p == Place(list, map[k])
    <2>1. /\ k \in DOMAIN map
          /\ p \in 1 .. Len(list)
          /\ list[p].node = map[k]
          /\ list[p].key = k
      BY <1>3, PlaceOfKey DEF hit, CacheInv, CacheOK
    <2>2. list' = <<list[p]>> \o RemoveAt(list, p) /\ map' = map
      BY <1>3 DEF hit, Spliced, Erase
    <2>3. got' = Content[k]
      BY <1>3, <2>1 DEF Content
    <2> HIDE DEF p
    <2>4. list \in Seq(Item) /\ list[p] \in Item
      BY <2>1, ElementOfSeq DEF CacheInv, CacheOK
    <2>5. \A i \in 1 .. Len(list) : i # p => list[i].node # list[p].node
      BY <2>1 DEF CacheInv, CacheOK, Agrees
    <2>6. Shows(list, map, list', list[p])
      BY <2>1, <2>2, <2>4, <2>5, MoveShows DEF CacheInv
    <2>7. Mapped(map, list[p]) = map
      BY <2>1 DEF Mapped, CacheInv, CacheOK
    <2>8. ContentOf(list, map)[k] = list[p].value
      BY <2>1, AtPlace DEF CacheInv
    <2>9. Storing(Content, list[p]) = Content
      BY <1>2, <2>1, <2>8, Views DEF Storing, Content
    <2>10. Content' = Content
      BY <2>2, <2>6, <2>7, <2>9, Views DEF Shows
    <2>11. DOMAIN map \cup {k} = DOMAIN map
      BY <2>1
    <2>12. Before' = Using(Before, k, DOMAIN map)
      BY <1>1, <2>1, <2>2, <2>6, <2>7, <2>11, Views DEF Shows
    <2> QED
      BY <1>2, <2>1, <2>3, <2>10, <2>12
      DEF Recency!Get, Recency!Used, Using, Without, After
  <1>4. CASE miss(k) /\ got' = NoValue
    <2>1. UNCHANGED <<Content, Before>>
      BY <1>4 DEF miss, Content, Before, Place
    <2> QED BY <1>2, <1>4, <2>1 DEF miss, Recency!Get
  <1> QED BY <1>3, <1>4 DEF Get

\* put, before it looks at the size: the key is the one used last.
LEMMA PushedShows ==
  ASSUME CacheInv, NEW x \in Item, ~ Live(x.node)
  PROVE  LET pushed == <<x>> \o list
             s == IF x.key \in DOMAIN map THEN Erase(pushed, map[x.key])
                  ELSE pushed
         IN  Shows(list, map, s, x)
  <1>1. \A i \in 1 .. Len(list) : list[i].node # x.node
    BY LenProperties DEF CacheInv, CacheOK, Live
  <1>2. CASE x.key \notin DOMAIN map
    BY <1>1, <1>2, PushShows DEF CacheInv
  <1>3. CASE x.key \in DOMAIN map
    <2>1. PICK p \in 1 .. Len(list) :
            /\ list[p].key = x.key
            /\ Erase(<<x>> \o list, map[x.key]) = <<x>> \o RemoveAt(list, p)
      BY <1>3, ErasedBehind
    <2>2. Shows(list, map, <<x>> \o RemoveAt(list, p), x)
      BY <1>1, <2>1, MoveShows DEF CacheInv
    <2> QED BY <1>3, <2>1, <2>2
  <1> QED BY <1>2, <1>3

\* The last pair of a list is the one used the longest time ago, and what is
\* left without it is the rest.
LEMMA LastIsOldest ==
  ASSUME NEW s, NEW m, CacheOK(s, m), Len(s) \in 1 .. Len(s)
  PROVE  LET old == Last(s).key
             ks == DOMAIN m \ {old}
         IN  /\ old \in DOMAIN m
             /\ \A a \in DOMAIN m : <<a, old>> \notin OrderOf(s, m)
             /\ ContentOf(Front(s), Restrict(m, ks)) =
                  Restrict(ContentOf(s, m), ks)
             /\ OrderOf(Front(s), Restrict(m, ks)) =
                  Without(OrderOf(s, m), old)
  <1> DEFINE old == Last(s).key
  <1>1. old = s[Len(s)].key
    BY DEF Last
  <1>2. Front(s) = RemoveAt(s, Len(s))
    BY FrontRemoves DEF CacheOK
  <1> HIDE DEF old
  <1>3. old \in DOMAIN m
    BY <1>1, AtPlace
  <1>4. ASSUME NEW a \in DOMAIN m
        PROVE  <<a, old>> \notin OrderOf(s, m)
    <2>1. PICK j \in 1 .. Len(s) : s[j].key = a
      BY KeysOfList
    <2>2. <<a, old>> \in OrderOf(s, m) <=> Len(s) < j
      BY <1>1, <2>1, AtPlace
    <2> QED BY <2>2
  <1>5. LET ks == DOMAIN m \ {old} IN
        /\ ContentOf(Front(s), Restrict(m, ks)) = Restrict(ContentOf(s, m), ks)
        /\ OrderOf(Front(s), Restrict(m, ks)) = Without(OrderOf(s, m), old)
    BY <1>1, <1>2, DropView
  <1> QED BY <1>3, <1>4, <1>5 DEF old

LEMMA PutImplements ==
  ASSUME CacheInv, NEW k \in Keys, NEW v \in Values, Put(k, v)
  PROVE  Recency!Put(k, v)
  <1>1. PICK n \in Nodes :
          /\ ~ Live(n)
          /\ LET pushed == <<[node |-> n, key |-> k, value |-> v]>> \o list
                 s == IF k \in DOMAIN map THEN Erase(pushed, map[k]) ELSE pushed
                 m == [j \in DOMAIN map \cup {k} |-> IF j = k THEN n ELSE map[j]]
             IN  \/ /\ ~ TooMany(m)
                    /\ list' = s
                    /\ map' = m
                 \/ /\ TooMany(m)
                    /\ list' = Front(s)
                    /\ map' = Restrict(m, DOMAIN m \ {Last(s).key})
    BY DEF Put, put
  <1> DEFINE x == [node |-> n, key |-> k, value |-> v]
             pushed == <<x>> \o list
             s == IF k \in DOMAIN map THEN Erase(pushed, map[k]) ELSE pushed
             m == [j \in DOMAIN map \cup {k} |-> IF j = k THEN n ELSE map[j]]
             ks == DOMAIN map \cup {k}
  <1>2. x \in Item /\ x.node = n /\ x.key = k /\ x.value = v
    BY DEF Item
  <1>3. m = Mapped(map, x) /\ DOMAIN m = ks
    BY DEF Mapped
  <1>4. CacheOK(s, m) /\ Shows(list, map, s, x)
    <2> HIDE DEF x, m
    <2> QED BY <1>1, <1>2, <1>3, Pushed, PushedShows
  <1>5. CacheInv' /\ UNCHANGED got
    BY PutInv DEF Put
  <1>6. \/ ~ TooMany(m) /\ list' = s /\ map' = m
        \/ /\ TooMany(m)
           /\ list' = Front(s)
           /\ map' = Restrict(m, DOMAIN m \ {Last(s).key})
    BY <1>1
  <1>7. DOMAIN Content = DOMAIN map
    BY DEF Content
  <1>8. Storing(Content, x) = Recency!Stored(k, v)
    BY <1>2 DEF Storing, Recency!Stored
  <1>9. Using(Before, k, ks) = Recency!Used(k, ks)
    BY DEF Using, Without, After, Recency!Used
  <1>10. TooMany(m) <=> Cardinality(ks) > MaxSize
    BY <1>3 DEF TooMany
  <1>11. Cardinality(ks) \in Nat
    BY <1>3, <1>4, FS_CardinalityType DEF CacheOK
  <1> HIDE DEF s, m, x, ks
  <1>12. /\ ContentOf(s, m) = Recency!Stored(k, v)
         /\ OrderOf(s, m) = Recency!Used(k, ks)
    BY <1>2, <1>3, <1>4, <1>8, <1>9, Views DEF Shows, ks
  <1>13. CASE ~ TooMany(m) /\ list' = s /\ map' = m
    <2>1. /\ Content' = Recency!Stored(k, v)
          /\ Before' = Recency!Used(k, ks)
      BY <1>5, <1>12, <1>13, Views
    <2>2. Cardinality(ks) <= MaxSize
      BY <1>10, <1>11, <1>13, MaxSizeAssumption
    <2> QED BY <1>5, <1>7, <2>1, <2>2, SameOperators DEF Recency!Put, ks
  <1>14. CASE /\ TooMany(m)
              /\ list' = Front(s)
              /\ map' = Restrict(m, DOMAIN m \ {Last(s).key})
    <2> DEFINE old == Last(s).key
    <2>1. Cardinality(ks) > MaxSize
      BY <1>10, <1>14
    <2>2. Len(s) \in 1 .. Len(s)
      BY <1>3, <1>4, <1>11, <2>1, AsLong, MaxSizeAssumption
    <2> HIDE DEF old
    <2>3. /\ old \in ks
          /\ \A a \in ks : <<a, old>> \notin Recency!Used(k, ks)
          /\ ContentOf(list', map') = Restrict(Recency!Stored(k, v), ks \ {old})
          /\ OrderOf(list', map') = Without(Recency!Used(k, ks), old)
      BY <1>3, <1>4, <1>12, <1>14, <2>2, LastIsOldest DEF old
    <2>4. Before' = {q \in Recency!Used(k, ks) : old \notin {q[1], q[2]}}
      BY <1>5, <2>3, Views DEF Without
    <2>5. Content' = Restrict(Recency!Stored(k, v), ks \ {old})
      BY <2>3, Views
    <2> QED
      BY <1>5, <1>7, <2>1, <2>3, <2>4, <2>5, SameOperators
      DEF Recency!Put, ks
  <1> QED BY <1>6, <1>13, <1>14

\* The list and the map do what an LRU cache promises: what is evicted is
\* the key that was put or got the longest time ago, and a get yields the
\* value last put under its key.
THEOREM CacheImplementsRecency == Spec => RecencySpec
  <1>1. CacheInv /\ [Next]_lruVars => [Recency!Next]_(Recency!cacheVars)
    <2> SUFFICES ASSUME CacheInv, [Next]_lruVars
                 PROVE  [Recency!Next]_(Recency!cacheVars)
      OBVIOUS
    <2>1. ASSUME NEW k \in Keys, Get(k) PROVE Recency!Next
      BY <2>1, GetImplements DEF Recency!Next
    <2>2. ASSUME NEW k \in Keys, NEW v \in Values, Put(k, v)
          PROVE  Recency!Next
      BY <2>2, PutImplements DEF Recency!Next
    <2>3. CASE UNCHANGED lruVars
      BY <2>3 DEF lruVars, Recency!cacheVars, Content, Before, Place
    <2> QED BY <2>1, <2>2, <2>3 DEF Next
  <1> QED
    BY InitImplements, CacheInvariant, <1>1, PTL
    DEF Spec, RecencySpec, Recency!Spec
=============================================================================
