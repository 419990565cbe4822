-------------------------- MODULE ProblemListProofs --------------------------
(***************************************************************************)
(* What the public list answers, whatever the problems, roles, requests,   *)
(* cache size and width of an unsigned integer: the cache holds problems   *)
(* for everyone, a page holds problems its reader may see and no public    *)
(* page one of them twice, and the flag stands for a cache that was filled.*)
(***************************************************************************)
EXTENDS ProblemList, FiniteSetTheorems, SequenceTheorems, TLAPS

\* The problems for everyone.
Open == {p \in Problems : "everyone" \in ProblemRoles[p]}

\* The cache of those: that the list's values are among them is part of the
\* invariant of the cache.
P == INSTANCE LruCacheProofs
  WITH Keys <- -128 .. 127, Values <- Open, NoValue <- Garbage, got <- Garbage

Entries == [node : Nodes \cup {"none"}, value : Open \cup {Garbage}]

Locals == [problems : Seq(Open \cup {Garbage}), i : Int, from : Entries]

Labels == {"idle", "countPrepare", "count", "size", "flag", "flagAgain",
           "queryPrepare", "query", "fillPrepare", "fill", "setFlag", "put",
           "loop", "copy"}

\* Where a request has been found to have no role but "everyone".
PublicLabels == {"size", "flag", "flagAgain", "fillPrepare", "fill", "setFlag",
                 "put", "loop", "copy"}

WorkersOK ==
  /\ stored \subseteq Problems
  /\ cur \in [Threads -> Requests \cup {NoRequest}]
  /\ pc \in [Threads -> Labels]
  /\ local \in [Threads -> Locals]

\* The page that a worker puts into the cache.
FillsOpen(t) ==
  /\ local[t].problems \in Seq(Open)
  /\ local[t].i \in 1 .. Len(local[t].problems)

WorkerOK(t) ==
  /\ pc[t] # "idle" => cur[t] \in Requests
  /\ pc[t] \in PublicLabels => Single(cur[t])
  /\ pc[t] \notin {"setFlag", "put", "loop", "copy"} => local[t] = NoLocal
  /\ pc[t] \in {"setFlag", "put"} => FillsOpen(t)

FlagOK == (cacheHit /\ \A t \in Threads : pc[t] # "put") => DOMAIN map # {}

Workers ==
  /\ WorkersOK
  /\ \A t \in Threads : WorkerOK(t)

IInv ==
  /\ P!CacheInv
  /\ Workers
  /\ OnlyVisible
  /\ FlagOK

-----------------------------------------------------------------------------
\* The operators of the cache, as this module and as the proofs name them.
LEMMA SamePut ==
  ASSUME NEW k, NEW v, Cache!put(k, v)
  PROVE  P!put(k, v) /\ UNCHANGED Garbage
  BY DEF P!put, Cache!put, P!Live, Cache!Live, P!Erase, Cache!Erase, P!Place,
    Cache!Place, P!TooMany, Cache!TooMany, P!RemoveAt, Cache!RemoveAt, P!Front,
    Cache!Front, P!Last, Cache!Last, P!Restrict, Cache!Restrict, Garbage,
    P!Cardinality, Cache!Cardinality

LEMMA SameHit ==
  ASSUME NEW k, Cache!hit(k)
  PROVE  /\ P!hit(k) /\ UNCHANGED Garbage
         /\ Cache!Place(list, map[k]) = P!Place(list, map[k])
  BY DEF P!hit, Cache!hit, P!Spliced, Cache!Spliced, P!Erase, Cache!Erase,
    P!Place, Cache!Place, P!RemoveAt, Cache!RemoveAt, Garbage

LEMMA CacheRoom == P!MaxSizeAssumption /\ MaxSize > 0
  BY RoomAssumption DEF P!MaxSizeAssumption

LEMMA CachePut ==
  ASSUME P!CacheInv, NEW k \in -128 .. 127, NEW v \in Open, Cache!put(k, v)
  PROVE  P!CacheInv' /\ DOMAIN map' # {}
  <1>1. P!put(k, v) /\ UNCHANGED Garbage
    BY SamePut
  <1>2. P!CacheInv'
    BY <1>1, P!PutKeeps, CacheRoom DEF P!PutKeeps
  <1>3. DOMAIN map' # {}
    BY <1>1, P!PutFills, CacheRoom DEF P!PutFills
  <1> QED BY <1>2, <1>3

LEMMA CacheHit ==
  ASSUME P!CacheInv, NEW k \in -128 .. 127, Cache!hit(k)
  PROVE  /\ P!CacheInv' /\ map' = map /\ map[k] \in Nodes
         /\ list[Cache!Place(list, map[k])].value \in Open
  <1>1. /\ P!hit(k) /\ UNCHANGED Garbage
        /\ Cache!Place(list, map[k]) = P!Place(list, map[k])
    BY SameHit
  <1>2. P!CacheInv' /\ list[P!Place(list, map[k])].value \in Open
    BY <1>1, P!HitKeeps, CacheRoom DEF P!HitKeeps
  <1>3. k \in DOMAIN map /\ map' = map
    BY DEF Cache!hit
  <1>4. map[k] \in Nodes
    BY <1>3 DEF P!CacheInv, P!CacheOK
  <1> QED BY <1>1, <1>2, <1>3, <1>4

-----------------------------------------------------------------------------
(* Roles and pages.                                                        *)

LEMMA FirstOf ==
  ASSUME NEW S, NEW x \in S, NEW g \in Seq(S)
  PROVE  /\ <<x>> \o g \in Seq(S) /\ Len(<<x>> \o g) = 1 + Len(g)
         /\ (<<x>> \o g)[1] = x
         /\ <<x>> \in Seq(S) /\ Len(<<x>>) = 1 /\ <<x>>[1] = x
  <1>1. <<x>> \in Seq(S) /\ Len(<<x>>) = 1 /\ <<x>>[1] = x
    OBVIOUS
  <1> QED BY <1>1, ConcatProperties, LenProperties

LEMMA TokenEveryone ==
  ASSUME NEW r \in Requests
  PROVE  /\ "everyone" \in ToSet(TokenRoles(r))
         /\ Single(r) => ToSet(TokenRoles(r)) = {"everyone"}
         /\ IsFiniteSet(ToSet(TokenRoles(r)))
  <1> DEFINE Roles == STRING \cup {"everyone"}
             g == r.granted
             s == TokenRoles(r)
  <1>1. g \in Seq(Roles)
    BY RequestsAssumption DEF Request
  <1>2. s = <<"everyone">> \o g \/ s = <<"everyone">>
    BY Zenon DEF TokenRoles
  <1>3. "everyone" \in Roles
    OBVIOUS
  <1> HIDE DEF g, s, Roles
  <1>4. s \in Seq(Roles) /\ Len(s) \in Nat /\ Len(s) >= 1 /\ s[1] = "everyone"
        /\ DOMAIN s = 1 .. Len(s)
    <2>1. CASE s = <<"everyone">> \o g
      <3>1. /\ s \in Seq(Roles) /\ Len(s) = 1 + Len(g) /\ s[1] = "everyone"
        BY <1>1, <1>3, <2>1, FirstOf
      <3> QED BY <1>1, <3>1, LenProperties
    <2>2. CASE s = <<"everyone">>
      <3>1. s \in Seq(Roles) /\ Len(s) = 1 /\ s[1] = "everyone"
        BY <1>1, <1>3, <2>2, FirstOf
      <3> QED BY <3>1, LenProperties
    <2> QED BY <1>2, <2>1, <2>2
  <1>5. "everyone" \in ToSet(s)
    BY <1>4 DEF ToSet
  <1>6. ASSUME Single(r) PROVE ToSet(s) = {"everyone"}
    <2>1. Len(s) = 1
      BY <1>4, <1>6 DEF Single, s
    <2> QED BY <1>4, <2>1 DEF ToSet
  <1>7. IsFiniteSet(ToSet(s))
    <2>1. \A i \in 1 .. Len(s) : s[i] \in ToSet(s)
      BY <1>4 DEF ToSet
    <2>2. s \in Seq(ToSet(s))
      BY <1>4, <2>1
    <2>3. \A x \in ToSet(s) : \E n \in 1 .. Len(s) : s[n] = x
      BY <1>4 DEF ToSet
    <2> QED BY <2>2, <2>3 DEF IsFiniteSet
  <1> QED BY <1>5, <1>6, <1>7 DEF s

\* The bounds of a page, where MySQL takes them.
LEMMA BoundsType ==
  ASSUME NEW r \in Requests, ~ BadBounds(r)
  PROVE  /\ Signed(Unsigned(r.perPage)) \in Int /\ Signed(Offset(r)) \in Int
         /\ Signed(Unsigned(r.perPage)) >= 0 /\ Signed(Offset(r)) >= 0
  <1>1. r.page \in Int /\ r.perPage \in Int
    BY RequestsAssumption DEF Request
  <1>2. \A x \in Int : Unsigned(x) \in Int /\ Signed(x) \in Int
    BY WordAssumption DEF Unsigned, Signed
  <1>3. Offset(r) \in Int
    BY <1>1, <1>2 DEF Offset
  <1> QED BY <1>1, <1>2, <1>3 DEF BadBounds

LEMMA RowsFinite ==
  ASSUME NEW r \in Requests, stored \subseteq Problems
  PROVE  IsFiniteSet(Rows(r))
  <1>1. IsFiniteSet(Visible(r))
    BY ProblemsAssumption, FS_Subset DEF Visible, Seen
  <1>2. IsFiniteSet(Visible(r) \X ToSet(TokenRoles(r)))
    BY <1>1, TokenEveryone, FS_Product
  <1> QED BY <1>2, FS_Subset DEF Rows

\* A page holds problems the request may see.
LEMMA PageVisible ==
  ASSUME NEW r \in Requests, stored \subseteq Problems, ~ BadBounds(r),
         NEW page \in Pages(r)
  PROVE  page \in Seq(Visible(r))
  <1> DEFINE limit == Signed(Unsigned(r.perPage))
             offset == Signed(Offset(r))
             n == Cardinality(Rows(r))
  <1>2. limit \in Int /\ offset \in Int /\ limit >= 0 /\ offset >= 0
    BY BoundsType
  <1>3. n \in Nat
    BY RowsFinite, FS_CardinalityType
  <1>4. PICK ids \in Ids(r) : page = Page(ids, limit, offset)
    BY DEF Pages
  <1>5. ids \in [1 .. n -> Matched(r)]
    BY <1>4 DEF Ids
  <1>6. Matched(r) \subseteq Visible(r)
    BY DEF Matched, Rows
  <1>7. Len(ids) = n
    BY <1>3, <1>5
  <1> DEFINE last == IF offset + limit < n THEN offset + limit ELSE n
  <1> HIDE DEF n, limit, offset
  <1>8. last \in Int /\ last <= n
    BY <1>2, <1>3
  <1>9. page = SubSeq(ids, offset + 1, last)
    BY <1>4, <1>7 DEF Page
  <1> HIDE DEF last
  <1>10. \A i \in offset + 1 .. last : ids[i] \in Visible(r)
    BY <1>2, <1>3, <1>5, <1>6, <1>8
  <1> QED BY <1>2, <1>8, <1>9, <1>10, SubSeqProperties

\* A page for a request without a role of its own holds problems for everyone.
LEMMA PageOpen ==
  ASSUME NEW r \in Requests, stored \subseteq Problems, ~ BadBounds(r),
         Single(r), NEW page \in Pages(r)
  PROVE  page \in Seq(Open)
  <1>1. Visible(r) \subseteq Open
    BY TokenEveryone DEF Visible, Seen, Open
  <1>2. page \in Seq(Visible(r))
    BY PageVisible
  <1> QED BY <1>1, <1>2

-----------------------------------------------------------------------------
(* One worker moves.                                                       *)

LEMMA NoLocalType == NoLocal \in Locals
  <1>1. <<>> \in Seq(Open \cup {Garbage})
    BY EmptySeq
  <1>2. NoNode \in Entries
    BY DEF NoNode, Entries
  <1> QED BY <1>1, <1>2 DEF NoLocal, Locals

LEMMA OneMoves ==
  ASSUME Workers, NEW t \in Threads, stored' \subseteq Problems,
         cur' \in [Threads -> Requests \cup {NoRequest}],
         pc' \in [Threads -> Labels], local' \in [Threads -> Locals],
         \A u \in Threads \ {t} :
           cur'[u] = cur[u] /\ pc'[u] = pc[u] /\ local'[u] = local[u],
         WorkerOK(t)'
  PROVE  Workers'
  <1>1. ASSUME NEW u \in Threads \ {t} PROVE WorkerOK(u)'
    BY <1>1 DEF Workers, WorkerOK, FillsOpen, Single, TokenRoles
  <1>2. WorkersOK'
    BY DEF WorkersOK
  <1> QED BY <1>1, <1>2 DEF Workers

\* A worker that only moves on.
LEMMA MovesOn ==
  ASSUME Workers, NEW t \in Threads, NEW l \in Labels, Goto(t, l),
         UNCHANGED <<stored, cur, local>>,
         l # "idle", cur[t] \in Requests,
         l \in PublicLabels => Single(cur[t]),
         l \notin {"setFlag", "put", "loop", "copy"} => local[t] = NoLocal,
         l \in {"setFlag", "put"} => FillsOpen(t)
  PROVE  Workers'
  <1>1. pc' \in [Threads -> Labels] /\ pc'[t] = l
        /\ \A u \in Threads \ {t} : pc'[u] = pc[u]
    BY DEF Workers, WorkersOK, Goto
  <1>2. WorkerOK(t)'
    BY <1>1 DEF WorkerOK, FillsOpen, Single, TokenRoles
  <1> QED BY <1>1, <1>2, OneMoves DEF Workers, WorkersOK

LEMMA AnswerMoves ==
  ASSUME Workers, NEW t \in Threads, NEW status, NEW problems,
         Answer(t, status, problems), UNCHANGED stored
  PROVE  Workers'
  <1>1. /\ cur' \in [Threads -> Requests \cup {NoRequest}]
        /\ pc' \in [Threads -> Labels]
        /\ local' \in [Threads -> Locals]
        /\ \A u \in Threads \ {t} :
             cur'[u] = cur[u] /\ pc'[u] = pc[u] /\ local'[u] = local[u]
    BY NoLocalType DEF Workers, WorkersOK, Answer, Goto, Labels
  <1>2. pc'[t] = "idle" /\ local'[t] = NoLocal
    BY DEF Workers, WorkersOK, Answer, Goto
  <1>3. WorkerOK(t)'
    BY <1>2 DEF WorkerOK, PublicLabels
  <1> QED BY <1>1, <1>3, OneMoves DEF Workers, WorkersOK

LEMMA SilentSent == Silent => OnlyVisible'
  <1> SUFFICES ASSUME Silent PROVE OnlyVisible'
    OBVIOUS
  <1>1. sent'.problems = <<>> /\ sent'.status = 0
    BY DEF Silent, NoAnswer
  <1>2. ToSet(<<>>) = {}
    BY DEF ToSet
  <1> QED BY <1>1, <1>2 DEF OnlyVisible

LEMMA AnswerSent ==
  ASSUME NEW r, NEW status, NEW problems,
         sent' = [to |-> r, status |-> status, problems |-> problems],
         \A p \in ToSet(problems) \ {Garbage} :
           ProblemRoles[p] \cap ToSet(TokenRoles(r)) # {}
  PROVE  OnlyVisible'
  <1>1. sent'.to = r /\ sent'.problems = problems
    OBVIOUS
  <1> QED BY <1>1 DEF OnlyVisible

LEMMA NoPage == ToSet(<<>>) = {}
  BY DEF ToSet

\* What is for everyone is for whoever asks.
LEMMA OpenToAll ==
  ASSUME NEW r \in Requests, NEW problems \in Seq(Open \cup {Garbage}),
         NEW p \in ToSet(problems) \ {Garbage}
  PROVE  ProblemRoles[p] \cap ToSet(TokenRoles(r)) # {}
  <1>1. PICK i \in 1 .. Len(problems) : p = problems[i]
    BY LenProperties DEF ToSet
  <1>2. p \in Open
    BY <1>1, ElementOfSeq
  <1> QED BY <1>2, TokenEveryone DEF Open

LEMMA FlagSame ==
  ASSUME FlagOK, UNCHANGED <<cacheHit, map>>,
         \A t \in Threads : pc[t] = "put" => pc'[t] = "put"
  PROVE  FlagOK'
  BY DEF FlagOK

-----------------------------------------------------------------------------
(* Every step keeps the invariant.                                         *)

LEMMA CacheSame ==
  ASSUME P!CacheInv, UNCHANGED <<list, map>>
  PROVE  P!CacheInv'
  BY DEF P!CacheInv, P!CacheOK, P!Agrees, P!Item, Garbage

LEMMA InitOK == Init => IInv
  <1> SUFFICES ASSUME Init PROVE IInv
    OBVIOUS
  <1>1. P!CacheInv
    <2>1. P!Init
      BY DEF Init, P!Init, Cache!Init, Garbage
    <2> QED BY <2>1, P!InitInv, CacheRoom DEF P!InitInv
  <1>2. Workers
    <2>1. /\ \A t \in Threads : cur[t] = NoRequest /\ pc[t] = "idle"
                               /\ local[t] = NoLocal
          /\ WorkersOK
      BY ProblemsAssumption, NoLocalType DEF Init, WorkersOK, Labels
    <2> QED BY <2>1 DEF Workers, WorkerOK, PublicLabels
  <1>3. OnlyVisible
    BY NoPage DEF Init, NoAnswer, OnlyVisible
  <1>4. FlagOK
    BY DEF Init, FlagOK
  <1> QED BY <1>1, <1>2, <1>3, <1>4 DEF IInv

LEMMA DispatchKeeps ==
  ASSUME IInv, NEW t \in Threads, Dispatch(t) \/ DispatchNull(t)
  PROVE  IInv'
  <1>1. P!CacheInv' /\ UNCHANGED <<stored, local, cacheHit, map>>
    BY CacheSame DEF IInv, Dispatch, DispatchNull, dbVars, cacheVars
  <1>2. CASE Dispatch(t)
    <2>1. PICK r \in Requests : cur' = [cur EXCEPT ![t] = r]
      BY <1>2 DEF Dispatch
    <2>2. pc[t] = "idle" /\ pc' = [pc EXCEPT ![t] = "countPrepare"]
      BY <1>2 DEF Dispatch, Goto
    <2>3. /\ cur' \in [Threads -> Requests \cup {NoRequest}]
          /\ pc' \in [Threads -> Labels]
          /\ \A u \in Threads \ {t} : cur'[u] = cur[u] /\ pc'[u] = pc[u]
          /\ cur'[t] = r /\ pc'[t] = "countPrepare"
      BY <2>1, <2>2 DEF IInv, Workers, WorkersOK, Labels
    <2>4. WorkerOK(t)'
      BY <1>1, <2>2, <2>3 DEF IInv, Workers, WorkerOK, PublicLabels
    <2>5. Workers'
      BY <1>1, <2>3, <2>4, OneMoves DEF IInv, Workers, WorkersOK
    <2>6. OnlyVisible'
      BY <1>2, SilentSent DEF Dispatch
    <2>7. FlagOK'
      BY <1>1, <2>2, <2>3, FlagSame DEF IInv, Workers, WorkersOK
    <2> QED BY <1>1, <2>5, <2>6, <2>7 DEF IInv
  <1>3. CASE DispatchNull(t)
    <2>1. UNCHANGED <<stored, cur, pc, local>>
      BY <1>3 DEF DispatchNull, dbVars
    <2>2. Workers'
      BY <2>1 DEF IInv, Workers, WorkersOK, WorkerOK, FillsOpen, Single,
        TokenRoles
    <2>3. OnlyVisible'
      <3>1. PICK r \in Requests :
              sent' = [to |-> r, status |-> 500, problems |-> <<>>]
        BY <1>3 DEF DispatchNull
      <3> QED BY <2>1, <3>1, NoPage, AnswerSent
    <2>4. FlagOK'
      BY <1>1, <2>1, FlagSame DEF IInv
    <2> QED BY <1>1, <2>2, <2>3, <2>4 DEF IInv
  <1> QED BY <1>2, <1>3

\* An answer with a page that the asker may see, which leaves the cache alone.
LEMMA AnswerKeeps ==
  ASSUME IInv, NEW t \in Threads, pc[t] # "put", NEW status, NEW problems,
         Answer(t, status, problems), UNCHANGED <<stored, cacheVars>>,
         \A p \in ToSet(problems) \ {Garbage} :
           ProblemRoles[p] \cap ToSet(TokenRoles(cur[t])) # {}
  PROVE  IInv'
  <1>1. P!CacheInv'
    BY CacheSame DEF IInv, dbVars, cacheVars
  <1>2. Workers'
    BY AnswerMoves DEF IInv
  <1>3. OnlyVisible'
    BY AnswerSent DEF Answer
  <1>4. FlagOK'
    BY FlagSame DEF IInv, Answer, Goto, dbVars, cacheVars, Workers, WorkersOK
  <1> QED BY <1>1, <1>2, <1>3, <1>4 DEF IInv

LEMMA RefusalsKeep ==
  ASSUME IInv, NEW t \in Threads,
         QueryThrows(t) \/ CountNone(t) \/ BadParameter(t) \/ GetMiss(t)
  PROVE  IInv'
  <1>1. cur[t] \in Requests /\ pc[t] # "put"
    BY DEF IInv, Workers, WorkerOK, QueryThrows, CountNone, BadParameter,
      GetMiss, Prepares
  <1>2. CASE QueryThrows(t) \/ BadParameter(t) \/ CountNone(t)
    BY <1>1, <1>2, NoPage, AnswerKeeps
    DEF QueryThrows, BadParameter, CountNone, dbVars
  <1>3. CASE GetMiss(t)
    BY <1>1, <1>3, NoPage, AnswerKeeps DEF GetMiss, Cache!miss, dbVars, cacheVars
  <1> QED BY <1>2, <1>3

LEMMA PagesKeep ==
  ASSUME IInv, NEW t \in Threads,
         Query(t) \/ FillQueryEmpty(t) \/ LoopEnd(t)
  PROVE  IInv'
  <1>1. cur[t] \in Requests /\ pc[t] # "put" /\ stored \subseteq Problems
    BY DEF IInv, Workers, WorkersOK, WorkerOK, Query, FillQueryEmpty, LoopEnd
  <1>2. CASE Query(t)
    <2>1. PICK page \in Pages(cur[t]) : Answer(t, 200, page)
      BY <1>2 DEF Query
    <2>2. page \in Seq(Visible(cur[t]))
      BY <1>1, <1>2, PageVisible DEF Query
    <2>3. \A p \in ToSet(page) : p \in Visible(cur[t])
      BY <2>2, LenProperties, ElementOfSeq DEF ToSet
    <2> QED BY <1>1, <1>2, <2>1, <2>3, AnswerKeeps
      DEF Query, Visible, dbVars
  <1>3. CASE FillQueryEmpty(t)
    BY <1>1, <1>3, NoPage, AnswerKeeps DEF FillQueryEmpty, dbVars
  <1>4. CASE LoopEnd(t)
    <2>1. local[t].problems \in Seq(Open \cup {Garbage})
      BY DEF IInv, Workers, WorkersOK, Locals
    <2>2. \A p \in ToSet(local[t].problems) \ {Garbage} :
            ProblemRoles[p] \cap ToSet(TokenRoles(cur[t])) # {}
      BY <1>1, <2>1, OpenToAll
    <2> QED BY <1>1, <1>4, <2>2, AnswerKeeps DEF LoopEnd, dbVars
  <1> QED BY <1>2, <1>3, <1>4

\* A move that leaves the cache alone, or only sets the flag.
LEMMA MoveKeeps ==
  ASSUME IInv, NEW t \in Threads, NEW l \in Labels \ {"idle"}, Goto(t, l),
         Silent, UNCHANGED <<stored, list, map, cur, local>>,
         pc[t] \notin {"idle", "put"},
         cacheHit' = cacheHit \/ l = "put",
         l \in PublicLabels => Single(cur[t]),
         l \notin {"setFlag", "put", "loop", "copy"} => local[t] = NoLocal,
         l \in {"setFlag", "put"} => FillsOpen(t)
  PROVE  IInv'
  <1>1. P!CacheInv'
    BY CacheSame DEF IInv
  <1>2. cur[t] \in Requests
    BY DEF IInv, Workers, WorkerOK
  <1>3. Workers'
    BY <1>2, MovesOn DEF IInv
  <1>4. OnlyVisible'
    BY SilentSent
  <1>5. pc'[t] = l /\ \A u \in Threads \ {t} : pc'[u] = pc[u]
    BY DEF Goto, IInv, Workers, WorkersOK
  <1>6. FlagOK'
    <2>1. CASE l = "put"
      BY <1>5, <2>1 DEF FlagOK
    <2>2. CASE cacheHit' = cacheHit
      BY <1>5, <2>2, FlagSame DEF IInv
    <2> QED BY <2>1, <2>2
  <1> QED BY <1>1, <1>3, <1>4, <1>6 DEF IInv

LEMMA ReadsKeep ==
  ASSUME IInv, NEW t \in Threads,
         Prepare(t) \/ Count(t) \/ ReadSize(t) \/ ReadFlag(t) \/ SetFlag(t)
  PROVE  IInv'
  <1>1. WorkerOK(t)
    BY DEF IInv, Workers
  <1>2. CASE Count(t)
    BY <1>1, <1>2, MoveKeeps
    DEF Count, dbVars, cacheVars, Labels, PublicLabels, WorkerOK
  <1>3. CASE ReadSize(t)
    BY <1>1, <1>3, MoveKeeps
    DEF ReadSize, dbVars, cacheVars, Labels, PublicLabels, WorkerOK
  <1>4. CASE ReadFlag(t)
    BY <1>1, <1>4, MoveKeeps
    DEF ReadFlag, dbVars, cacheVars, Labels, PublicLabels, WorkerOK
  <1>5. CASE SetFlag(t)
    BY <1>1, <1>5, MoveKeeps DEF SetFlag, dbVars, Labels, PublicLabels, WorkerOK
  <1>6. CASE Prepare(t)
    <2>1. \/ pc[t] = "countPrepare" /\ Goto(t, "count")
          \/ pc[t] = "queryPrepare" /\ Goto(t, "query")
          \/ pc[t] = "fillPrepare" /\ Goto(t, "fill")
      BY <1>6 DEF Prepare, Prepares
    <2>2. Silent /\ UNCHANGED <<stored, list, map, cacheHit, cur, local>>
      BY <1>6 DEF Prepare, dbVars, cacheVars
    <2> QED BY <1>1, <2>1, <2>2, MoveKeeps DEF Labels, PublicLabels, WorkerOK
  <1> QED BY <1>2, <1>3, <1>4, <1>5, <1>6

\* A move that changes only the worker's locals.
LEMMA LocalKeeps ==
  ASSUME IInv, NEW t \in Threads, NEW l \in {"setFlag", "put", "loop", "copy"},
         NEW v \in Locals, pc' = [pc EXCEPT ![t] = l],
         local' = [local EXCEPT ![t] = v],
         Silent, UNCHANGED <<stored, cur>>, P!CacheInv', FlagOK',
         pc[t] # "idle", Single(cur[t]),
         l \in {"setFlag", "put"} =>
           v.problems \in Seq(Open) /\ v.i \in 1 .. Len(v.problems)
  PROVE  IInv'
  <1>1. /\ pc' \in [Threads -> Labels] /\ local' \in [Threads -> Locals]
        /\ pc'[t] = l /\ local'[t] = v
        /\ \A u \in Threads \ {t} : pc'[u] = pc[u] /\ local'[u] = local[u]
    BY DEF IInv, Workers, WorkersOK, Labels
  <1>2. WorkerOK(t)'
    BY <1>1 DEF IInv, Workers, WorkerOK, FillsOpen, Single, TokenRoles
  <1>3. Workers'
    BY <1>1, <1>2, OneMoves DEF IInv, Workers, WorkersOK
  <1> QED BY <1>3, SilentSent DEF IInv

LEMMA SignedType ==
  ASSUME NEW r \in Requests
  PROVE  Signed(Offset(r)) \in Int
  <1>1. r.page \in Int /\ r.perPage \in Int
    BY RequestsAssumption DEF Request
  <1>2. \A x \in Int : Unsigned(x) \in Int /\ Signed(x) \in Int
    BY WordAssumption DEF Unsigned, Signed
  <1>3. Offset(r) \in Int
    BY <1>1, <1>2 DEF Offset
  <1> QED BY <1>2, <1>3

LEMMA ReadFlagAgainKeeps ==
  ASSUME IInv, NEW t \in Threads, ReadFlagAgain(t)
  PROVE  IInv'
  <1>1. /\ WorkerOK(t) /\ local[t] \in Locals /\ cur[t] \in Requests
        /\ Single(cur[t]) /\ pc[t] = "flagAgain" /\ local[t] = NoLocal
    BY DEF IInv, Workers, WorkersOK, WorkerOK, ReadFlagAgain, PublicLabels
  <1>2. CASE ~ cacheHit
    BY <1>1, <1>2, MoveKeeps
    DEF ReadFlagAgain, dbVars, cacheVars, Labels, PublicLabels
  <1>3. CASE cacheHit
    <2> DEFINE v == [local[t] EXCEPT !.i = Signed(Offset(cur[t]))]
    <2>1. v \in Locals
      BY <1>1, SignedType DEF Locals
    <2>2. /\ local' = [local EXCEPT ![t] = v]
          /\ pc' = [pc EXCEPT ![t] = "loop"]
          /\ Silent /\ UNCHANGED <<stored, cur, list, map, cacheHit>>
      BY <1>3 DEF ReadFlagAgain, Goto, dbVars, cacheVars
    <2>3. P!CacheInv'
      BY <2>2, CacheSame DEF IInv
    <2>4. FlagOK'
      BY <1>1, <2>2, FlagSame DEF IInv, Workers, WorkersOK
    <2> HIDE DEF v
    <2> QED BY <1>1, <2>1, <2>2, <2>3, <2>4, LocalKeeps
  <1> QED BY <1>2, <1>3

LEMMA FillKeeps ==
  ASSUME IInv, NEW t \in Threads, FillQuery(t)
  PROVE  IInv'
  <1>1. /\ local[t] = NoLocal /\ cur[t] \in Requests /\ stored \subseteq Problems
        /\ Single(cur[t]) /\ pc[t] = "fill" /\ ~ BadBounds(cur[t])
    BY DEF IInv, Workers, WorkersOK, WorkerOK, FillQuery, PublicLabels
  <1>2. PICK page \in Pages(cur[t]) \ {<<>>} :
          local' = [local EXCEPT ![t].problems = page]
    BY DEF FillQuery
  <1>3. page \in Seq(Open)
    BY <1>1, PageOpen
  <1>4. Len(page) \in Nat \ {0} /\ page \in Seq(Open \cup {Garbage})
    <2>1. Len(page) \in Nat \ {0}
      BY <1>2, <1>3, EmptySeq
    <2>2. page \in Seq(Open \cup {Garbage})
      BY <1>3
    <2> QED BY <2>1, <2>2
  <1> DEFINE v == [local[t] EXCEPT !.problems = page]
  <1>5. v \in Locals /\ v.problems = page /\ v.i = 1
    BY <1>1, <1>4, NoLocalType DEF Locals, NoLocal
  <1>6. /\ local' = [local EXCEPT ![t] = v]
        /\ pc' = [pc EXCEPT ![t] = "setFlag"]
        /\ Silent /\ UNCHANGED <<stored, cur, list, map, cacheHit>>
    BY <1>2 DEF FillQuery, Goto, dbVars, cacheVars
  <1>7. P!CacheInv'
    BY <1>6, CacheSame DEF IInv
  <1>8. FlagOK'
    BY <1>1, <1>6, FlagSame DEF IInv, Workers, WorkersOK
  <1> HIDE DEF v
  <1>9. v.problems \in Seq(Open) /\ v.i \in 1 .. Len(v.problems)
    BY <1>3, <1>4, <1>5
  <1> QED BY <1>1, <1>5, <1>6, <1>7, <1>8, <1>9, LocalKeeps

LEMMA NarrowType == \A n \in Int : Narrow(n) \in -128 .. 127
  BY DEF Narrow

LEMMA PutKeeps ==
  ASSUME IInv, NEW t \in Threads, Put(t)
  PROVE  IInv'
  <1> DEFINE ids == local[t].problems
             i == local[t].i
             v == [local[t] EXCEPT !.i = i + 1]
  <1>1. /\ pc[t] = "put" /\ cur[t] \in Requests /\ Single(cur[t])
        /\ ids \in Seq(Open) /\ i \in 1 .. Len(ids) /\ local[t] \in Locals
    BY DEF IInv, Workers, WorkersOK, WorkerOK, FillsOpen, Put, PublicLabels
  <1>2. ids[i] \in Open /\ ids[i] \in Nat
    BY <1>1, ElementOfSeq, ProblemsAssumption DEF Open
  <1>3. Cache!put(Narrow(ids[i]), ids[i])
    BY DEF Put
  <1>4. P!CacheInv' /\ DOMAIN map' # {}
    <2>1. Narrow(ids[i]) \in -128 .. 127
      BY <1>2, NarrowType
    <2> QED BY <1>2, <1>3, <2>1, CachePut DEF IInv
  <1>5. FlagOK'
    BY <1>4 DEF FlagOK
  <1>6. CASE /\ i < Len(ids)
             /\ local' = [local EXCEPT ![t].i = i + 1]
             /\ Silent
             /\ UNCHANGED <<cur, pc>>
    <2>1. v \in Locals
      BY <1>1 DEF Locals
    <2>2. v.problems \in Seq(Open) /\ v.i \in 1 .. Len(v.problems)
      BY <1>1, <1>6, LenProperties DEF Locals
    <2>3. local' = [local EXCEPT ![t] = v] /\ pc' = [pc EXCEPT ![t] = "put"]
      BY <1>1, <1>6 DEF IInv, Workers, WorkersOK
    <2>4. UNCHANGED <<stored, cur>>
      BY <1>6 DEF Put, dbVars
    <2> HIDE DEF v
    <2> QED BY <1>1, <1>4, <1>5, <1>6, <2>1, <2>2, <2>3, <2>4, LocalKeeps
  <1>7. CASE i = Len(ids) /\ Answer(t, 200, ids)
    <2>1. UNCHANGED stored
      BY DEF Put, dbVars
    <2>2. Workers'
      BY <1>7, <2>1, AnswerMoves DEF IInv
    <2>3. ids \in Seq(Open \cup {Garbage})
      BY <1>1
    <2>4. \A p \in ToSet(ids) \ {Garbage} :
            ProblemRoles[p] \cap ToSet(TokenRoles(cur[t])) # {}
      BY <1>1, <2>3, OpenToAll
    <2> HIDE DEF ids
    <2>5. OnlyVisible'
      BY <1>7, <2>1, <2>4, AnswerSent DEF Answer
    <2> QED BY <1>4, <1>5, <2>2, <2>5 DEF IInv
  <1> QED BY <1>6, <1>7 DEF Put

LEMMA GetHitKeeps ==
  ASSUME IInv, NEW t \in Threads, GetHit(t)
  PROVE  IInv'
  <1> DEFINE key == Narrow(local[t].i)
             from == [node |-> map[key],
                      value |-> list[Cache!Place(list, map[key])].value]
             v == [local[t] EXCEPT !.from = from]
  <1>1. /\ pc[t] = "loop" /\ local[t] \in Locals /\ Single(cur[t])
    BY DEF IInv, Workers, WorkersOK, WorkerOK, GetHit, PublicLabels
  <1>2. key \in -128 .. 127 /\ Cache!hit(key)
    BY <1>1, NarrowType DEF GetHit, Locals
  <1> HIDE DEF key
  <1>3. /\ P!CacheInv' /\ map' = map /\ map[key] \in Nodes
        /\ list[Cache!Place(list, map[key])].value \in Open
    BY <1>2, CacheHit DEF IInv
  <1>4. v \in Locals
    BY <1>1, <1>3 DEF Locals, Entries
  <1>5. /\ local' = [local EXCEPT ![t] = v]
        /\ pc' = [pc EXCEPT ![t] = "copy"]
        /\ Silent /\ UNCHANGED <<stored, cur, cacheHit>>
    BY DEF GetHit, Goto, dbVars, key
  <1>6. FlagOK'
    BY <1>1, <1>3, <1>5, FlagSame DEF IInv, Workers, WorkersOK
  <1> HIDE DEF v
  <1> QED BY <1>1, <1>3, <1>4, <1>5, <1>6, LocalKeeps

LEMMA CopyKeeps ==
  ASSUME IInv, NEW t \in Threads, Copy(t)
  PROVE  IInv'
  <1> DEFINE x == IF ReferenceLive(t) THEN local[t].from.value ELSE Garbage
             ps == Append(local[t].problems, x)
             v == [local[t] EXCEPT !.problems = ps, !.i = Advanced(t),
                                   !.from = NoNode]
  <1>1. /\ pc[t] = "copy" /\ local[t] \in Locals /\ Single(cur[t])
    BY DEF IInv, Workers, WorkersOK, WorkerOK, Copy, PublicLabels
  <1>2. x \in Open \cup {Garbage}
    BY <1>1 DEF Locals, Entries
  <1>3. local[t].problems \in Seq(Open \cup {Garbage})
    BY <1>1 DEF Locals
  <1>4. local' = [local EXCEPT ![t] = v]
    BY DEF Copy
  <1> HIDE DEF x
  <1>5. ps \in Seq(Open \cup {Garbage})
    BY <1>2, <1>3, AppendProperties
  <1> HIDE DEF ps
  <1>6. Advanced(t) \in Int /\ NoNode \in Entries
    BY <1>1 DEF Advanced, Locals, NoNode, Entries
  <1>7. v \in Locals
    BY <1>1, <1>5, <1>6 DEF Locals
  <1>8. /\ pc' = [pc EXCEPT ![t] = "loop"]
        /\ Silent /\ UNCHANGED <<stored, cur, list, map, cacheHit>>
    BY DEF Copy, Goto, dbVars, cacheVars
  <1>9. P!CacheInv'
    BY <1>8, CacheSame DEF IInv
  <1>10. FlagOK'
    BY <1>1, <1>8, FlagSame DEF IInv, Workers, WorkersOK
  <1> HIDE DEF v
  <1> QED BY <1>1, <1>4, <1>7, <1>8, <1>9, <1>10, LocalKeeps

LEMMA PanelKeeps ==
  ASSUME IInv, (\E p \in Problems : PanelCreates(p)) \/ PanelBegins \/ PanelGoesOn
  PROVE  IInv'
  <1>1. /\ Silent /\ UNCHANGED <<list, map, cacheHit, cur, pc, local>>
        /\ stored' \subseteq stored \cup Problems
    BY DEF PanelCreates, PanelBegins, PanelGoesOn, PanelRemoves, PanelCommits,
      PanelRollsBack, Panel, dbVars, cacheVars
  <1>2. P!CacheInv'
    BY <1>1, CacheSame DEF IInv
  <1>3. Workers'
    BY <1>1 DEF IInv, Workers, WorkersOK, WorkerOK, FillsOpen, Single, TokenRoles
  <1>4. OnlyVisible' /\ FlagOK'
    BY <1>1, SilentSent, FlagSame DEF IInv
  <1> QED BY <1>2, <1>3, <1>4 DEF IInv

LEMMA StepKeeps ==
  ASSUME IInv, NEW t \in Threads, DispatchNull(t) \/ Dispatch(t) \/ Serve(t)
  PROVE  IInv'
  BY DispatchKeeps, RefusalsKeep, PagesKeep, ReadsKeep, ReadFlagAgainKeeps,
    FillKeeps, PutKeeps, GetHitKeeps, CopyKeeps DEF Serve

LEMMA Invariant == Spec => []IInv
  <1>1. IInv /\ [Next]_vars => IInv'
    <2> SUFFICES ASSUME IInv, [Next]_vars PROVE IInv'
      OBVIOUS
    <2>1. CASE Next
      BY <2>1, StepKeeps, PanelKeeps DEF Next
    <2>2. CASE UNCHANGED vars
      <3>1. UNCHANGED <<stored, list, map, cacheHit, cur, pc, local, sent>>
        BY <2>2 DEF vars, dbVars, cacheVars
      <3>2. P!CacheInv'
        BY <3>1, CacheSame DEF IInv
      <3>3. Workers'
        BY <3>1 DEF IInv, Workers, WorkersOK, WorkerOK, FillsOpen, Single,
          TokenRoles
      <3>4. OnlyVisible'
        BY <3>1 DEF IInv, OnlyVisible
      <3>5. FlagOK'
        BY <3>1, FlagSame DEF IInv
      <3> QED BY <3>2, <3>3, <3>4, <3>5 DEF IInv
    <2> QED BY <2>1, <2>2
  <1> QED BY InitOK, <1>1, PTL DEF Spec

-----------------------------------------------------------------------------
(* No public page shows a problem twice.                                   *)

Distinct(s) == \A i, j \in 1 .. Len(s) : i < j => s[i] # s[j]

\* Each element of s that was read from the cache before offset i was found
\* under the key of its own offset.
ReadUpTo(s, i) ==
  \A j \in 1 .. Len(s) :
    s[j] # Garbage => Narrow(s[j]) = Narrow(i - Len(s) + j - 1)

\* A key is the low byte of the id it leads to.
KeysOK == \A i \in 1 .. Len(list) : list[i].key = Narrow(list[i].value)

PageOK(t) ==
  /\ pc[t] \in {"setFlag", "put"} => Distinct(local[t].problems)
  /\ pc[t] \in {"loop", "copy"} => ReadUpTo(local[t].problems, local[t].i)
  /\ pc[t] = "copy" => Narrow(local[t].from.value) = Narrow(local[t].i)

SentOnce == Len(sent.problems) <= 256 => NoRepeats

KInv ==
  /\ KeysOK
  /\ \A t \in Threads : PageOK(t)
  /\ SentOnce

\* Offsets less than 256 apart have different keys.
LEMMA NarrowApart ==
  ASSUME NEW a \in Int, NEW b \in Int, a < b, b - a < 256
  PROVE  Narrow(a) # Narrow(b)
  BY DEF Narrow

LEMMA SubSeqDistinct ==
  ASSUME NEW S, NEW n \in Nat, NEW s \in [1 .. n -> S], Distinct(s),
         NEW from \in Int, NEW to \in Int, 1 <= from, to <= n
  PROVE  Distinct(SubSeq(s, from, to))
  <1>1. Len(s) = n
    OBVIOUS
  <1>2. \A i \in from .. to : s[i] \in S
    OBVIOUS
  <1> DEFINE q == SubSeq(s, from, to)
  <1>3. /\ Len(q) = IF from <= to THEN to - from + 1 ELSE 0
        /\ \A i \in 1 .. to - from + 1 : q[i] = s[from + i - 1]
    BY <1>2, SubSeqProperties
  <1> HIDE DEF q
  <1>4. ASSUME NEW i \in 1 .. Len(q), NEW j \in 1 .. Len(q), i < j
        PROVE  q[i] # q[j]
    <2>1. i \in 1 .. to - from + 1 /\ j \in 1 .. to - from + 1
      BY <1>3
    <2>2. /\ from + i - 1 \in 1 .. n /\ from + j - 1 \in 1 .. n
          /\ from + i - 1 < from + j - 1
      BY <1>4, <2>1
    <2>3. s[from + i - 1] # s[from + j - 1]
      BY <1>1, <2>2 DEF Distinct
    <2> QED BY <1>3, <2>1, <2>3
  <1> QED BY <1>4 DEF Distinct, q

\* The join has one row for each problem when there is one role.
LEMMA IdsDistinct ==
  ASSUME NEW r \in Requests, Single(r), NEW n \in Nat,
         n = Cardinality(Rows(r)), NEW ids \in Ids(r)
  PROVE  ids \in [1 .. n -> Matched(r)] /\ Distinct(ids)
  <1>1. /\ ids \in [1 .. n -> Matched(r)]
        /\ \A p \in Matched(r) :
             Cardinality({i \in DOMAIN ids : ids[i] = p})
               = Cardinality({row \in Rows(r) : row[1] = p})
    BY DEF Ids
  <1>2. ToSet(TokenRoles(r)) = {"everyone"}
    BY TokenEveryone
  <1>3. ASSUME NEW i \in 1 .. n, NEW j \in 1 .. n, i < j, ids[i] = ids[j]
        PROVE  FALSE
    <2> DEFINE p == ids[i]
               at == {k \in DOMAIN ids : ids[k] = p}
               rows == {row \in Rows(r) : row[1] = p}
    <2>1. p \in Matched(r)
      BY <1>1
    <2>2. rows = {<<p, "everyone">>}
      <3>1. PICK row \in Rows(r) : row[1] = p
        BY <2>1 DEF Matched
      <3>2. \A x \in Rows(r) : x = <<x[1], "everyone">>
        BY <1>2 DEF Rows
      <3> QED BY <3>1, <3>2
    <2>3. IsFiniteSet(at) /\ i \in at /\ j \in at
      <3>1. IsFiniteSet(1 .. n)
        BY FS_Interval
      <3>2. at \subseteq 1 .. n
        BY <1>1
      <3>3. i \in at /\ j \in at
        BY <1>1, <1>3
      <3> QED BY <3>1, <3>2, <3>3, FS_Subset
    <2>4. Cardinality(at) = Cardinality(rows)
      BY <1>1, <2>1
    <2> HIDE DEF at, rows
    <2>5. Cardinality(at) = 1
      BY <2>2, <2>4, FS_Singleton
    <2>6. PICK x : at = {x}
      BY <2>3, <2>5, FS_Singleton
    <2> QED BY <1>3, <2>3, <2>6
  <1>4. Len(ids) = n
    BY <1>1
  <1> QED BY <1>1, <1>3, <1>4 DEF Distinct

LEMMA PageDistinct ==
  ASSUME NEW r \in Requests, stored \subseteq Problems, ~ BadBounds(r),
         Single(r), NEW page \in Pages(r)
  PROVE  Distinct(page)
  <1> DEFINE limit == Signed(Unsigned(r.perPage))
             offset == Signed(Offset(r))
             n == Cardinality(Rows(r))
  <1>1. limit \in Int /\ offset \in Int /\ limit >= 0 /\ offset >= 0
    BY BoundsType
  <1>2. n \in Nat
    BY RowsFinite, FS_CardinalityType
  <1>3. PICK ids \in Ids(r) : page = Page(ids, limit, offset)
    BY DEF Pages
  <1> HIDE DEF n, limit, offset
  <1>4. ids \in [1 .. n -> Matched(r)] /\ Distinct(ids)
    BY <1>2, <1>3, IdsDistinct DEF n
  <1> DEFINE last == IF offset + limit < n THEN offset + limit ELSE n
  <1>5. last \in Int /\ last <= n
    BY <1>1, <1>2
  <1>6. page = SubSeq(ids, offset + 1, last)
    <2>1. Len(ids) = n
      BY <1>2, <1>4
    <2> QED BY <1>3, <2>1 DEF Page
  <1> HIDE DEF last
  <1> DEFINE first == offset + 1
  <1>7. first \in Int /\ 1 <= first
    BY <1>1
  <1>8. page = SubSeq(ids, first, last)
    BY <1>6
  <1> HIDE DEF first
  <1> QED BY <1>2, <1>4, <1>5, <1>7, <1>8, SubSeqDistinct

LEMMA OneSent ==
  ASSUME NEW r, NEW status, NEW problems,
         sent' = [to |-> r, status |-> status, problems |-> problems],
         \A i, j \in 1 .. Len(problems) :
           (Len(problems) <= 256 /\ Single(r) /\ i < j
              /\ problems[i] = problems[j]) => problems[i] = Garbage,
         DOMAIN problems = 1 .. Len(problems)
  PROVE  SentOnce'
  <1>1. sent'.to = r /\ sent'.problems = problems
    OBVIOUS
  <1> QED BY <1>1 DEF SentOnce, NoRepeats, Single, TokenRoles

LEMMA NothingSent ==
  ASSUME NEW r, NEW status, sent' = [to |-> r, status |-> status, problems |-> <<>>]
  PROVE  SentOnce'
  BY OneSent

\* A worker moves and leaves the cache's pairs alone.
LEMMA OneReads ==
  ASSUME KInv, NEW t \in Threads, UNCHANGED list,
         \A u \in Threads \ {t} : pc'[u] = pc[u] /\ local'[u] = local[u],
         PageOK(t)', SentOnce'
  PROVE  KInv'
  <1>1. ASSUME NEW u \in Threads \ {t} PROVE PageOK(u)'
    <2>1. PageOK(u)
      BY DEF KInv
    <2> QED BY <2>1 DEF PageOK, Distinct, ReadUpTo, Narrow, Garbage
  <1>2. KeysOK'
    BY DEF KInv, KeysOK, Narrow
  <1> QED BY <1>1, <1>2 DEF KInv

\* ... to where it holds no part of a page.
LEMMA ReadsNothing ==
  ASSUME IInv, KInv, NEW t \in Threads, UNCHANGED list,
         NEW l \in Labels \ {"setFlag", "put", "loop", "copy"},
         pc' = [pc EXCEPT ![t] = l],
         \A u \in Threads \ {t} : local'[u] = local[u],
         SentOnce'
  PROVE  KInv'
  <1>1. pc'[t] = l /\ \A u \in Threads \ {t} : pc'[u] = pc[u]
    BY DEF IInv, Workers, WorkersOK
  <1>2. PageOK(t)'
    BY <1>1 DEF PageOK
  <1> QED BY <1>1, <1>2, OneReads

LEMMA AnswerReads ==
  ASSUME IInv, KInv, NEW t \in Threads, UNCHANGED list, NEW status, NEW problems,
         Answer(t, status, problems), SentOnce'
  PROVE  KInv'
  <1>1. /\ pc' = [pc EXCEPT ![t] = "idle"] /\ "idle" \in Labels
        /\ \A u \in Threads \ {t} : local'[u] = local[u]
    BY DEF Answer, Goto, Labels, IInv, Workers, WorkersOK
  <1> QED BY <1>1, ReadsNothing

LEMMA EmptyAnswers ==
  ASSUME IInv, KInv, NEW t \in Threads,
         \/ QueryThrows(t) \/ CountNone(t) \/ BadParameter(t) \/ GetMiss(t)
         \/ FillQueryEmpty(t)
  PROVE  KInv'
  <1>1. PICK status : Answer(t, status, <<>>)
    BY DEF QueryThrows, CountNone, BadParameter, GetMiss, FillQueryEmpty
  <1>2. SentOnce'
    BY <1>1, NothingSent DEF Answer
  <1>3. UNCHANGED list
    BY DEF QueryThrows, CountNone, BadParameter, GetMiss, FillQueryEmpty,
      Cache!miss, cacheVars
  <1> QED BY <1>1, <1>2, <1>3, AnswerReads

LEMMA SilentOnce == Silent => SentOnce'
  BY NothingSent DEF Silent, NoAnswer

LEMMA SilentMoves ==
  ASSUME IInv, KInv, NEW t \in Threads,
         \/ Dispatch(t) \/ DispatchNull(t) \/ Prepare(t) \/ Count(t)
         \/ ReadSize(t) \/ ReadFlag(t)
  PROVE  KInv'
  <1>1. UNCHANGED <<list, local>>
    BY DEF Dispatch, DispatchNull, Prepare, Count, ReadSize, ReadFlag, cacheVars
  <1>2. CASE DispatchNull(t)
    <2>1. SentOnce'
      BY <1>2, NothingSent DEF DispatchNull
    <2>2. UNCHANGED pc
      BY <1>2 DEF DispatchNull
    <2>3. PageOK(t)'
      BY <1>1, <2>2 DEF KInv, PageOK, Distinct, ReadUpTo, Narrow, Garbage
    <2> QED BY <1>1, <2>1, <2>2, <2>3, OneReads
  <1>3. CASE ~ DispatchNull(t)
    <2>1. SentOnce'
      BY <1>3, SilentOnce DEF Dispatch, Prepare, Count, ReadSize, ReadFlag
    <2>2. \E l \in Labels \ {"setFlag", "put", "loop", "copy"} :
            pc' = [pc EXCEPT ![t] = l]
      BY <1>3
      DEF Dispatch, Prepare, Prepares, Count, ReadSize, ReadFlag, Goto, Labels
    <2> QED BY <1>1, <2>1, <2>2, ReadsNothing
  <1> QED BY <1>2, <1>3

LEMMA QueryOnce ==
  ASSUME IInv, KInv, NEW t \in Threads, Query(t)
  PROVE  KInv'
  <1>1. cur[t] \in Requests /\ stored \subseteq Problems /\ ~ BadBounds(cur[t])
    BY DEF IInv, Workers, WorkersOK, WorkerOK, Query
  <1>2. PICK page \in Pages(cur[t]) : Answer(t, 200, page)
    BY DEF Query
  <1>3. page \in Seq(Visible(cur[t]))
    BY <1>1, PageVisible
  <1>4. DOMAIN page = 1 .. Len(page)
    BY <1>3, LenProperties
  <1>5. Single(cur[t]) => Distinct(page)
    BY <1>1, PageDistinct
  <1>6. SentOnce'
    BY <1>2, <1>4, <1>5, OneSent DEF Answer, Distinct
  <1>7. UNCHANGED list
    BY DEF Query, cacheVars
  <1> QED BY <1>2, <1>6, <1>7, AnswerReads

\* A page read from the cache, each element under a lock of its own.
LEMMA LoopOnce ==
  ASSUME IInv, KInv, NEW t \in Threads, LoopEnd(t)
  PROVE  KInv'
  <1> DEFINE s == local[t].problems
             k == local[t].i - Len(s) - 1
  <1>1. /\ s \in Seq(Open \cup {Garbage}) /\ local[t].i \in Int
        /\ pc[t] = "loop"
    BY DEF IInv, Workers, WorkersOK, Locals, LoopEnd
  <1>2. Len(s) \in Nat /\ DOMAIN s = 1 .. Len(s)
    BY <1>1, LenProperties
  <1>3. \A j \in 1 .. Len(s) : s[j] # Garbage => Narrow(s[j]) = Narrow(k + j)
    <2>1. \A j \in 1 .. Len(s) : k + j = local[t].i - Len(s) + j - 1
      BY <1>1, <1>2
    <2> QED BY <1>1, <2>1 DEF KInv, PageOK, ReadUpTo
  <1>4. k \in Int
    BY <1>1, <1>2
  <1>5. Answer(t, 200, s) /\ UNCHANGED list
    BY DEF LoopEnd, cacheVars
  <1> HIDE DEF s, k
  <1>6. ASSUME NEW i \in 1 .. Len(s), NEW j \in 1 .. Len(s), Len(s) <= 256,
               i < j, s[i] = s[j], s[i] # Garbage
        PROVE  FALSE
    <2>1. Narrow(k + i) = Narrow(k + j)
      BY <1>3, <1>6
    <2>2. k + i \in Int /\ k + j \in Int /\ k + i < k + j /\ (k + j) - (k + i) < 256
      BY <1>2, <1>4, <1>6
    <2> QED BY <2>1, <2>2, NarrowApart
  <1>7. SentOnce'
    BY <1>2, <1>5, <1>6, OneSent DEF Answer
  <1> QED BY <1>5, <1>7, AnswerReads

\* A move that changes only where the worker is and its locals.
LEMMA LocalReads ==
  ASSUME IInv, KInv, NEW t \in Threads, UNCHANGED list, Silent,
         NEW l \in Labels, pc' = [pc EXCEPT ![t] = l],
         NEW v, local' = [local EXCEPT ![t] = v],
         l \in {"setFlag", "put"} => Distinct(v.problems),
         l \in {"loop", "copy"} => ReadUpTo(v.problems, v.i),
         l = "copy" => Narrow(v.from.value) = Narrow(v.i)
  PROVE  KInv'
  <1>1. /\ pc'[t] = l /\ local'[t] = v
        /\ \A u \in Threads \ {t} : pc'[u] = pc[u] /\ local'[u] = local[u]
    BY DEF IInv, Workers, WorkersOK
  <1>2. PageOK(t)'
    BY <1>1 DEF PageOK, Distinct, ReadUpTo, Narrow, Garbage
  <1> QED BY <1>1, <1>2, OneReads, SilentOnce

LEMMA ReadFlagAgainOnce ==
  ASSUME IInv, KInv, NEW t \in Threads, ReadFlagAgain(t)
  PROVE  KInv'
  <1>1. local[t] = NoLocal /\ UNCHANGED list /\ Silent
    BY DEF IInv, Workers, WorkerOK, ReadFlagAgain, cacheVars
  <1>2. CASE ~ cacheHit
    <2>1. pc' = [pc EXCEPT ![t] = "fillPrepare"] /\ UNCHANGED local
      BY <1>2 DEF ReadFlagAgain, Goto
    <2> QED BY <1>1, <2>1, SilentOnce, ReadsNothing DEF Labels
  <1>3. CASE cacheHit
    <2> DEFINE v == [local[t] EXCEPT !.i = Signed(Offset(cur[t]))]
    <2>1. local' = [local EXCEPT ![t] = v] /\ pc' = [pc EXCEPT ![t] = "loop"]
      BY <1>3 DEF ReadFlagAgain, Goto
    <2>2. v.problems = <<>>
      BY <1>1 DEF NoLocal
    <2> HIDE DEF v
    <2>3. ReadUpTo(v.problems, v.i)
      BY <2>2 DEF ReadUpTo
    <2> QED BY <1>1, <2>1, <2>3, LocalReads DEF Labels
  <1> QED BY <1>2, <1>3

LEMMA FillOnce ==
  ASSUME IInv, KInv, NEW t \in Threads, FillQuery(t)
  PROVE  KInv'
  <1>1. /\ local[t] = NoLocal /\ cur[t] \in Requests /\ stored \subseteq Problems
        /\ Single(cur[t]) /\ ~ BadBounds(cur[t])
    BY DEF IInv, Workers, WorkersOK, WorkerOK, FillQuery, PublicLabels
  <1>2. PICK page \in Pages(cur[t]) : local' = [local EXCEPT ![t].problems = page]
    BY DEF FillQuery
  <1>3. Distinct(page)
    BY <1>1, PageDistinct
  <1> DEFINE v == [local[t] EXCEPT !.problems = page]
  <1>4. v.problems = page
    BY <1>1 DEF NoLocal
  <1>5. /\ local' = [local EXCEPT ![t] = v] /\ pc' = [pc EXCEPT ![t] = "setFlag"]
        /\ Silent /\ UNCHANGED list
    BY <1>2 DEF FillQuery, Goto, cacheVars
  <1> HIDE DEF v
  <1> QED BY <1>3, <1>4, <1>5, LocalReads DEF Labels

LEMMA SetFlagOnce ==
  ASSUME IInv, KInv, NEW t \in Threads, SetFlag(t)
  PROVE  KInv'
  <1>1. /\ pc[t] = "setFlag" /\ pc' = [pc EXCEPT ![t] = "put"]
        /\ Silent /\ UNCHANGED <<list, local>>
    BY DEF SetFlag, Goto
  <1>2. /\ pc'[t] = "put" /\ \A u \in Threads \ {t} : pc'[u] = pc[u]
    BY <1>1 DEF IInv, Workers, WorkersOK
  <1>3. PageOK(t)'
    BY <1>1, <1>2 DEF KInv, PageOK, Distinct
  <1> QED BY <1>1, <1>2, <1>3, OneReads, SilentOnce

LEMMA PutOnce ==
  ASSUME IInv, KInv, NEW t \in Threads, Put(t)
  PROVE  KInv'
  <1> DEFINE ids == local[t].problems
             i == local[t].i
             v == [local[t] EXCEPT !.i = i + 1]
  <1>1. /\ pc[t] = "put" /\ local[t] \in Locals
        /\ ids \in Seq(Open) /\ i \in 1 .. Len(ids) /\ Distinct(ids)
    BY DEF IInv, KInv, Workers, WorkersOK, WorkerOK, FillsOpen, Put, PageOK
  <1>2. ids[i] \in Open /\ ids[i] \in Nat
    BY <1>1, ElementOfSeq, ProblemsAssumption DEF Open
  <1>3. KeysOK'
    <2> DEFINE key == Narrow(ids[i])
    <2>1. key \in -128 .. 127
      BY <1>2, NarrowType
    <2>2. P!put(key, ids[i])
      BY SamePut DEF Put
    <2> HIDE DEF ids, i, key
    <2>3. PICK n \in Nodes :
            P!FromOr(list', [node |-> n, key |-> key, value |-> ids[i]], list)
      BY <1>2, <2>1, <2>2, P!PutItems, CacheRoom DEF P!PutItems, IInv
    <2>4. ASSUME NEW j \in 1 .. Len(list')
          PROVE  list'[j].key = Narrow(list'[j].value)
      <3>1. CASE list'[j] = [node |-> n, key |-> key, value |-> ids[i]]
        BY <3>1 DEF key
      <3>2. CASE \E k \in 1 .. Len(list) : list'[j] = list[k]
        BY <3>2 DEF KInv, KeysOK
      <3> QED BY <2>3, <3>1, <3>2 DEF P!FromOr
    <2> QED BY <2>4 DEF KeysOK, Narrow
  <1>4. ASSUME NEW u \in Threads \ {t}, pc'[u] = pc[u], local'[u] = local[u]
        PROVE  PageOK(u)'
    <2>1. PageOK(u)
      BY DEF KInv
    <2> QED BY <1>4, <2>1 DEF PageOK, Distinct, ReadUpTo, Narrow, Garbage
  <1>5. CASE /\ local' = [local EXCEPT ![t].i = i + 1]
             /\ Silent
             /\ UNCHANGED pc
    <2>1. \A u \in Threads \ {t} : local'[u] = local[u] /\ pc'[u] = pc[u]
      BY <1>5 DEF IInv, Workers, WorkersOK
    <2>2. local'[t].problems = ids /\ pc'[t] = "put"
      BY <1>1, <1>5 DEF IInv, Workers, WorkersOK, Locals
    <2>3. PageOK(t)'
      BY <1>1, <2>2 DEF PageOK, Distinct
    <2> QED BY <1>3, <1>4, <1>5, <2>1, <2>3, SilentOnce DEF KInv
  <1>6. CASE Answer(t, 200, ids)
    <2>1. \A u \in Threads \ {t} : local'[u] = local[u] /\ pc'[u] = pc[u]
      BY <1>6 DEF Answer, Goto, IInv, Workers, WorkersOK
    <2>2. pc'[t] = "idle"
      BY <1>6 DEF Answer, Goto, IInv, Workers, WorkersOK
    <2>3. PageOK(t)'
      BY <2>2 DEF PageOK
    <2>4. DOMAIN ids = 1 .. Len(ids)
      BY <1>1, LenProperties
    <2>5. SentOnce'
      BY <1>1, <1>6, <2>4, OneSent DEF Answer, Distinct
    <2> QED BY <1>3, <1>4, <2>1, <2>3, <2>5 DEF KInv
  <1> QED BY <1>5, <1>6 DEF Put

LEMMA GetHitOnce ==
  ASSUME IInv, KInv, NEW t \in Threads, GetHit(t)
  PROVE  KInv'
  <1> DEFINE key == Narrow(local[t].i)
             p == Cache!Place(list, map[key])
             from == [node |-> map[key], value |-> list[p].value]
             v == [local[t] EXCEPT !.from = from]
  <1>1. pc[t] = "loop" /\ local[t] \in Locals
    BY DEF IInv, Workers, WorkersOK, GetHit
  <1>2. key \in -128 .. 127 /\ Cache!hit(key)
    BY <1>1, NarrowType DEF GetHit, Locals
  <1>3. /\ local' = [local EXCEPT ![t] = v] /\ pc' = [pc EXCEPT ![t] = "copy"]
        /\ Silent
    BY DEF GetHit, Goto
  <1>4. v.problems = local[t].problems /\ v.i = local[t].i /\ v.from = from
    BY <1>1 DEF Locals
  <1>5. ReadUpTo(v.problems, v.i)
    BY <1>1, <1>4 DEF KInv, PageOK
  <1> HIDE DEF v
  <1>6. /\ p \in 1 .. Len(list) /\ list[p].key = key /\ P!FromOr(list', list[p], list)
    <2> HIDE DEF key
    <2>1. P!hit(key) /\ p = P!Place(list, map[key])
      BY <1>2, SameHit
    <2> QED BY <1>2, <2>1, P!HitItems, CacheRoom DEF P!HitItems, IInv
  <1>7. Narrow(v.from.value) = Narrow(v.i)
    <2>1. v.from.value = list[p].value
      BY <1>4
    <2>2. list[p].key = Narrow(list[p].value)
      BY <1>6 DEF KInv, KeysOK
    <2> QED BY <1>4, <1>6, <2>1, <2>2
  <1> HIDE DEF key, p, from
  <1>8. KeysOK'
    <2>1. ASSUME NEW j \in 1 .. Len(list')
          PROVE  list'[j].key = Narrow(list'[j].value)
      BY <1>6 DEF P!FromOr, KInv, KeysOK
    <2> QED BY <2>1 DEF KeysOK, Narrow
  <1>9. /\ pc'[t] = "copy" /\ local'[t] = v
        /\ \A u \in Threads \ {t} : pc'[u] = pc[u] /\ local'[u] = local[u]
    BY <1>3 DEF IInv, Workers, WorkersOK
  <1>10. PageOK(t)'
    BY <1>5, <1>7, <1>9 DEF PageOK, Distinct, ReadUpTo, Narrow, Garbage
  <1>11. ASSUME NEW u \in Threads \ {t} PROVE PageOK(u)'
    <2>1. PageOK(u)
      BY DEF KInv
    <2> QED BY <1>9, <2>1 DEF PageOK, Distinct, ReadUpTo, Narrow, Garbage
  <1> QED BY <1>3, <1>8, <1>10, <1>11, SilentOnce DEF KInv

LEMMA CopyOnce ==
  ASSUME IInv, KInv, NEW t \in Threads, Copy(t)
  PROVE  KInv'
  <1> DEFINE s == local[t].problems
             i == local[t].i
             x == IF ReferenceLive(t) THEN local[t].from.value ELSE Garbage
             q == Append(s, x)
             v == [local[t] EXCEPT !.problems = q, !.i = i + 1, !.from = NoNode]
  <1>1. /\ pc[t] = "copy" /\ local[t] \in Locals /\ i \in Int
        /\ s \in Seq(Open \cup {Garbage})
    BY DEF IInv, Workers, WorkersOK, Copy, Locals
  <1>2. x \in Open \cup {Garbage} /\ (x # Garbage => Narrow(x) = Narrow(i))
    <2>1. Narrow(local[t].from.value) = Narrow(i)
      BY <1>1 DEF KInv, PageOK
    <2> QED BY <1>1, <2>1 DEF Locals, Entries
  <1>3. ReadUpTo(s, i)
    BY <1>1 DEF KInv, PageOK
  <1>4. /\ local' = [local EXCEPT ![t] = v] /\ pc' = [pc EXCEPT ![t] = "loop"]
        /\ Silent /\ UNCHANGED list
    BY DEF Copy, Advanced, Goto, cacheVars
  <1>5. v.problems = q /\ v.i = i + 1
    BY <1>1 DEF Locals
  <1> HIDE DEF v, x
  <1>6. /\ Len(q) = Len(s) + 1 /\ \A j \in 1 .. Len(s) : q[j] = s[j]
        /\ q[Len(s) + 1] = x
    BY <1>1, <1>2, AppendProperties
  <1>7. Len(s) \in Nat
    BY <1>1, LenProperties
  <1> HIDE DEF q, s, i
  <1>8. ReadUpTo(q, i + 1)
    <2>1. ASSUME NEW j \in 1 .. Len(q), q[j] # Garbage
          PROVE  Narrow(q[j]) = Narrow((i + 1) - Len(q) + j - 1)
      <3>1. CASE j \in 1 .. Len(s)
        <4>1. (i + 1) - Len(q) + j - 1 = i - Len(s) + j - 1
          BY <1>1, <1>6, <1>7, <3>1
        <4> QED BY <1>3, <1>6, <2>1, <3>1, <4>1 DEF ReadUpTo
      <3>2. CASE j = Len(s) + 1
        <4>1. (i + 1) - Len(q) + j - 1 = i
          BY <1>1, <1>6, <1>7, <3>2
        <4> QED BY <1>2, <1>6, <2>1, <3>2, <4>1
      <3> QED BY <1>6, <1>7, <3>1, <3>2
    <2> QED BY <2>1 DEF ReadUpTo
  <1> QED BY <1>4, <1>5, <1>8, LocalReads DEF Labels

LEMMA PanelOnce ==
  ASSUME IInv, KInv,
         (\E p \in Problems : PanelCreates(p)) \/ PanelBegins \/ PanelGoesOn
  PROVE  KInv'
  <1>1. Silent /\ UNCHANGED <<list, pc, local>>
    BY DEF PanelCreates, PanelBegins, PanelGoesOn, PanelRemoves, PanelCommits,
      PanelRollsBack, Panel, cacheVars
  <1>2. SentOnce'
    BY <1>1, SilentOnce
  <1> QED BY <1>1, <1>2
    DEF KInv, KeysOK, PageOK, Distinct, ReadUpTo, Narrow, Garbage

LEMMA StepOnce ==
  ASSUME IInv, KInv, NEW t \in Threads, DispatchNull(t) \/ Dispatch(t) \/ Serve(t)
  PROVE  KInv'
  BY EmptyAnswers, SilentMoves, QueryOnce, LoopOnce, ReadFlagAgainOnce, FillOnce,
    SetFlagOnce, PutOnce, GetHitOnce, CopyOnce DEF Serve

LEMMA OnceInvariant == Spec => []KInv
  <1>1. Init => KInv
    <2> SUFFICES ASSUME Init PROVE KInv
      OBVIOUS
    <2>1. KeysOK
      BY DEF Init, Cache!Init, KeysOK
    <2>2. \A t \in Threads : PageOK(t)
      BY DEF Init, PageOK
    <2>3. SentOnce
      BY DEF Init, NoAnswer, SentOnce, NoRepeats
    <2> QED BY <2>1, <2>2, <2>3 DEF KInv
  <1>2. IInv /\ KInv /\ [Next]_vars => KInv'
    <2> SUFFICES ASSUME IInv, KInv, [Next]_vars PROVE KInv'
      OBVIOUS
    <2>1. CASE Next
      BY <2>1, StepOnce, PanelOnce DEF Next
    <2>2. CASE UNCHANGED vars
      <3>1. UNCHANGED <<list, pc, local, sent>>
        BY <2>2 DEF vars, cacheVars
      <3>2. SentOnce'
        BY <3>1 DEF KInv, SentOnce, NoRepeats, Single, TokenRoles, Garbage
      <3> QED BY <3>1, <3>2
        DEF KInv, KeysOK, PageOK, Distinct, ReadUpTo, Narrow, Garbage
    <2> QED BY <2>1, <2>2
  <1> QED BY <1>1, <1>2, Invariant, PTL DEF Spec

-----------------------------------------------------------------------------
\* The cache never holds a problem that is not for everyone, whatever mix of
\* requests fills it: only a token with a single role reaches the filling,
\* and that role is "everyone".
THEOREM CacheIsOpen == Spec => []CacheForEveryone
  <1>1. IInv => CacheForEveryone
    <2> SUFFICES ASSUME IInv, NEW i \in DOMAIN list
                 PROVE  "everyone" \in ProblemRoles[list[i].value]
      BY DEF CacheForEveryone
    <2>1. list \in Seq(P!Item)
      BY DEF IInv, P!CacheInv, P!CacheOK
    <2>2. list[i] \in P!Item
      BY <2>1, LenProperties, ElementOfSeq
    <2> QED BY <2>2 DEF P!Item, Open
  <1> QED BY <1>1, Invariant, PTL

\* No page, from the database or from the cache, shows a reader a problem
\* none of the roles of its token is for.
THEOREM PagesVisible == Spec => []OnlyVisible
  <1>1. IInv => OnlyVisible
    BY DEF IInv, OnlyVisible
  <1> QED BY <1>1, Invariant, PTL

\* No public page shows a problem twice, if it is not longer than the 256
\* different keys an int8_t has: the elements a page takes from the cache one
\* lock at a time were put there under the low byte of their ids, whatever
\* other workers did in between.
THEOREM PagesOnce == Spec => [](Len(sent.problems) <= 256 => NoRepeats)
  <1>1. KInv => (Len(sent.problems) <= 256 => NoRepeats)
    BY DEF KInv, SentOnce
  <1> QED BY <1>1, OnceInvariant, PTL

\* Once no worker is filling the cache, the flag stands for a cache that has
\* something in it, evictions or not.
THEOREM FlagIsTrue == Spec => []FlagMeansFilled
  <1>1. IInv => FlagMeansFilled
    <2> SUFFICES ASSUME IInv, cacheHit, \A t \in Threads : pc[t] # "put"
                 PROVE  list # <<>>
      BY DEF FlagMeansFilled
    <2>1. DOMAIN map # {}
      BY DEF IInv, FlagOK
    <2> QED BY <2>1, P!FilledList, CacheRoom DEF IInv, P!FilledList
  <1> QED BY <1>1, Invariant, PTL
=============================================================================
