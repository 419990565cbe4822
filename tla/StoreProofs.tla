----------------------------- MODULE StoreProofs -----------------------------
(***************************************************************************)
(* The panel implements ProblemStore: whatever is interleaved, lost or     *)
(* restarted, the stored rows change only by whole requests.  What holds   *)
(* of ProblemStore then holds of the panel's rows.                         *)
(***************************************************************************)
EXTENDS IsolationProofs

-----------------------------------------------------------------------------
(* The inductive invariant of the locks and ids.                           *)

\* What is pending on a connection is locked by it.
PendingLocked ==
  \A c \in Conns : \A row \in ins[c] \cup del[c] :
    <<row.table, row.pid>> \in locks[c]

\* No two connections hold one lock.
LocksApart ==
  \A c, d \in Conns : c # d => locks[c] \cap locks[d] = {}

\* The ids of the stored rows, and of the problems that replacements will
\* write to, have been given.
IdsGiven ==
  /\ nextId >= FirstNewId
  /\ \A row \in db : row.pid < nextId
  /\ \A t \in Threads :
       (cur[t] # NoRequest /\ cur[t].op = "replace"
          /\ pc[t] \notin {"permission", "permissionRead"})
         => cur[t].pid < nextId

-----------------------------------------------------------------------------
(* How far the transaction of each worker has come.                        *)

\* The worker is in a transaction whose connection lives.
In(t, labels) == pc[t] \in labels /\ Conn(t) \notin lost

Starting(t) ==
  In(t, {"insertProblem", "wipe"})
    => NothingPending(Conn(t)) /\ local[t].i = 1

LabelFits(t) ==
  /\ pc[t] = "purge" => cur[t].op = "delete"
  /\ pc[t] = "commit" => cur[t].op \in {"create", "replace", "delete"}

\* A deletion has removed what it found in the first n tables, and keeps
\* others from adding to them.
Removed(r, n) ==
  /\ \A row \in del["api"] : row.table \notin Registries /\ row.pid = r.pid
  /\ \A k \in 1 .. n :
       /\ <<DeleteTables[k], r.pid>> \in locks["api"]
       /\ RowsOf(db, DeleteTables[k], r.pid) \subseteq del["api"]

Deleting(t) ==
  /\ In(t, {"purge"}) => Removed(cur[t], local[t].i - 1)
  /\ (In(t, {"commit"}) /\ cur[t].op = "delete")
       => Removed(cur[t], Len(DeleteTables))

\* The n-th element of a registry section is new: neither stored nor an
\* earlier element.
Fresh(r, s, k) ==
  LET es == Elements(r, s) IN
  /\ \A row \in db : row.table = s => row.name # es[k].name
  /\ \A j \in 1 .. k - 1 : es[j].name # es[k].name

\* The rows of the first n elements of a section.
Written(r, s, p, n) ==
  {RowFor(r, s, p, k, Elements(r, s)[k]) :
     k \in {j \in 1 .. n : s \in Registries => Fresh(r, s, j)}}

\* The elements a section must have to get past them.
Accepted(r, s, n) ==
  \A k \in 1 .. n :
    /\ Elements(r, s)[k] # Malformed
    /\ s = "problem_test_cases" /\ r.op = "create"
         => Elements(r, s)[k].val >= 0

\* A replacement has removed the stored test cases, and added the first n of
\* its own.
Replaced(r, c, n) ==
  LET s == "problem_test_cases" IN
  /\ \A row \in del[c] : row.table = s /\ row.pid = r.pid
  /\ RowsOf(db, s, r.pid) \subseteq del[c] \cup ins[c]
  /\ ins[c] = Written(r, s, r.pid, n)
  /\ Accepted(r, s, n)
  /\ n <= Len(Elements(r, s))

Replacing(t) ==
  /\ In(t, {"insertCase"}) => Replaced(cur[t], Conn(t), local[t].i - 1)
  /\ (In(t, {"commit"}) /\ cur[t].op = "replace")
       => Replaced(cur[t], Conn(t), Len(Cases(cur[t])))

\* A problem that is being created is the only one with its id and title.
Inserted(t, p) ==
  /\ p \in 0 .. nextId - 1
  /\ \A row \in db : row.pid # p
  /\ del[Conn(t)] = {}

\* How many elements of section k a creation has gone through.
Reached(t, k) ==
  IF k < local[t].sec THEN Len(Elements(cur[t], Sections[k]))
  ELSE IF k = local[t].sec THEN local[t].i - 1 ELSE 0

\* A creation has written the problem and the elements it has gone through,
\* and has looked at them.
Filled(t, p) ==
  LET r == cur[t]
      c == Conn(t)
  IN  /\ ins[c] = {ProblemRow(r, p)} \cup
                    UNION {Written(r, Sections[k], p, Reached(t, k)) :
                             k \in DOMAIN Sections}
      /\ \A k \in DOMAIN Sections :
           /\ Reached(t, k) <= Len(Elements(r, Sections[k]))
           /\ Accepted(r, Sections[k], Reached(t, k))
      /\ \A k \in DOMAIN Sections :
           Sections[k] \in Registries =>
             \A j \in 1 .. Reached(t, k) :
               Named(View(c), Sections[k], Elements(r, Sections[k])[j].name)
                 # {}
      /\ local[t].sec > 4
           => Total(Elements(r, "problem_test_cases")) = FullScore

Creating(t) ==
  /\ In(t, {"selectId"}) =>
       \E p \in 0 .. nextId - 1 :
         /\ Inserted(t, p)
         /\ ins[Conn(t)] = {ProblemRow(cur[t], p)}
         /\ SameTitle(t) = {ProblemRow(cur[t], p)}
  /\ (In(t, {"section", "commit"}) /\ cur[t].op = "create") =>
       /\ Inserted(t, local[t].problem_id)
       /\ Filled(t, local[t].problem_id)
       /\ pc[t] = "commit" => local[t].sec = Len(Sections) + 1

\* What is pending on the connection of t is what its request has done so far.
Stage(t) ==
  LabelFits(t) /\ Starting(t) /\ Deleting(t) /\ Replacing(t) /\ Creating(t)

StoreInv ==
  /\ PendingLocked
  /\ LocksApart
  /\ IdsGiven
  /\ \A t \in Threads : Stage(t)

-----------------------------------------------------------------------------
(* What a step of one worker does to the others.                           *)

LEMMA TwoConns ==
  ASSUME NEW t \in Threads
  PROVE  /\ Conn(t) \in Conns
         /\ Conn(t) \in {"api", "modify_api"}
         /\ Conn(t) = "modify_api" <=> cur[t].op \in {"create", "replace"}
  BY DEF Conn, ConnOf, Conns

\* A worker that is about to commit commits, or throws.
LEMMA AtCommit ==
  ASSUME IInv, NEW t \in Threads, Step(t), pc[t] = "commit"
  PROVE  Commit(t) \/ CommitThrows(t)
<1>1. CASE WorkerStep(t)
  BY <1>1
  DEF WorkerStep, DispatchUnauthorized, Dispatch, PreparePermission,
      PermissionGranted, PermissionDenied, Begin, Committed, RolledBack,
      Rollback, BeginThrows, RollbackThrows
<1>2. CASE CreateStep(t)
  BY <1>2
  DEF CreateStep, ParseProblem, InsertProblem, InsertProblemFails, SelectId,
      SelectIdEmpty, SelectIdThrows, InsertElement, InsertElementFails,
      AtElement, NextSection, RefuseTotal
<1>3. CASE EditStep(t)
  BY <1>3
  DEF EditStep, Update, Purge, PurgeThrows, Wipe, InsertCase, ReplaceFails,
      CasesInserted, PrepareGet, Get, GetThrows
<1>4. CASE ReadStep(t)
  BY <1>4
  DEF ReadStep, ListRefused, ListReady, ListPrepare, ListRead, ListCount,
      ListThrows, PagePrepare, PageRefused, PageThrows
<1> QED BY <1>1, <1>2, <1>3, <1>4 DEF Step

\* Only a commit changes the stored rows, and records its request.
LEMMA StoresAtCommit ==
  ASSUME IInv, TxInv, Orderly, ServedInv, NEW t \in Threads, Step(t),
         ~ Commit(t)
  PROVE  UNCHANGED <<db, applied>>
<1>1. TxMove(t)
  BY StepMoves
<1>2. ~ (pc[t] = "commit" /\ pc'[t] = "committed")
  <2>1. CASE CommitThrows(t)
    BY <2>1 DEF CommitThrows, Abort, Fail, Goto, IInv, WorkersOK, WorkersTypeOK
  <2> QED BY <2>1, AtCommit
<1>3. UNCHANGED applied
  BY <1>2, StepServes DEF Keeps, Commits, Takes, TurnsAway, Answers
<1>4. CASE Executes(t)
  BY <1>3, <1>4 DEF Executes, Execute, TxInv, Isolated
<1>5. CASE EndsWork(t)
  BY <1>2, <1>3, <1>5 DEF EndsWork, RollbackWork, Discard
<1>6. CASE Finishes(t)
  <2>1. NothingPending(Conn(t))
    BY <1>6 DEF Finishes, FinishTransaction, TxInv, EndedClean
  <2> QED
    BY <1>3, <1>6, <2>1
    DEF Finishes, FinishTransaction, Publish, View, NothingPending
<1>7. CASE Outside(t) \/ Begins(t) \/ Computes(t) \/ OnLost(t)
  BY <1>3, <1>7
  DEF Outside, Begins, Computes, OnLost, BeginTransaction, workVars, apiVars
<1> QED BY <1>1, <1>3, <1>4, <1>5, <1>6, <1>7 DEF TxMove

\* A worker that is in a transaction is the only one to touch its pending
\* work.
LEMMA WorkElsewhere ==
  ASSUME IInv, TxInv, Orderly, NEW t \in Threads, Step(t),
         NEW u \in Threads, u # t, InTx(u), Conn(u) \notin lost
  PROVE  /\ ins'[Conn(u)] = ins[Conn(u)]
         /\ del'[Conn(u)] = del[Conn(u)]
         /\ locks'[Conn(u)] = locks[Conn(u)]
<1>1. TxMove(t)
  BY StepMoves
<1>2. Conn(t) \in Conns /\ Conn(u) \in Conns
  BY TwoConns
<1>3. /\ ins \in [Conns -> SUBSET Row]
      /\ del \in [Conns -> SUBSET Row]
      /\ locks \in [Conns -> SUBSET (Tables \X Nat)]
  BY DEF IInv, ApisOK, ApisTypeOK
<1>4. InTx(t) /\ Conn(t) \notin lost => Conn(t) # Conn(u)
  BY AloneInTx
<1>5. CASE Executes(t)
  <2>1. InTx(t) /\ Conn(t) \notin lost
    BY <1>5 DEF Executes, Execute
  <2> QED BY <1>2, <1>3, <1>4, <1>5, <2>1 DEF Executes, Execute
<1>6. CASE EndsWork(t)
  <2>1. InTx(t) /\ Conn(t) \notin lost
    BY <1>6 DEF EndsWork, CommitWork, RollbackWork
  <2> QED
    BY <1>2, <1>3, <1>4, <1>6, <2>1
    DEF EndsWork, CommitWork, RollbackWork, Publish, Discard, EndWork
<1>7. CASE Finishes(t)
  <2>1. InTx(t) /\ Conn(t) \notin lost
    BY <1>7 DEF Finishes, FinishTransaction, InTx, TxLabels
  <2> QED
    BY <1>2, <1>3, <1>4, <1>7, <2>1
    DEF Finishes, FinishTransaction, Publish, EndWork
<1>8. CASE Outside(t) \/ Begins(t) \/ Computes(t) \/ OnLost(t)
  BY <1>8
  DEF Outside, Begins, Computes, OnLost, BeginTransaction, workVars, apiVars
<1> QED BY <1>1, <1>5, <1>6, <1>7, <1>8 DEF TxMove

\* The locals of a worker are its own, and ids only go up.
LEMMA LocalsElsewhere ==
  ASSUME IInv, NEW t \in Threads, Step(t)
  PROVE  /\ \A u \in Threads : u # t => local'[u] = local[u]
         /\ nextId' >= nextId
<1> USE DEF IInv, WorkersOK, WorkersTypeOK
<1>1. CASE \E status \in Statuses : Answer(t, status)
  BY <1>1 DEF Answer
<1>2. CASE \E status \in {400, 500} : Abort(t, status)
  BY <1>2 DEF Abort, Fail
<1>3. CASE WorkerStep(t)
  <2>1. CASE Committed(t) \/ RolledBack(t) \/ PermissionDenied(t)
             \/ RollbackThrows(t)
    BY <2>1
    DEF Committed, RolledBack, PermissionDenied, RollbackThrows, Answer
  <2>2. CASE Dispatch(t) \/ DispatchUnauthorized(t) \/ PreparePermission(t)
             \/ PermissionGranted(t) \/ Begin(t) \/ Commit(t) \/ Rollback(t)
    BY <2>2 DEF Dispatch, DispatchUnauthorized, PreparePermission,
                PermissionGranted, Begin, Commit, Rollback
  <2>3. CASE BeginThrows(t) \/ CommitThrows(t)
    BY <2>3 DEF BeginThrows, CommitThrows, Abort, Fail
  <2> QED BY <1>3, <2>1, <2>2, <2>3 DEF WorkerStep
<1>4. CASE CreateStep(t)
  <2>1. CASE SelectIdEmpty(t) \/ SelectIdThrows(t) \/ InsertElementFails(t)
             \/ RefuseTotal(t) \/ InsertProblemFails(t)
    BY <1>1, <1>2, <2>1
    DEF SelectIdEmpty, SelectIdThrows, InsertElementFails, RefuseTotal,
        InsertProblemFails, Statuses
  <2>2. CASE ParseProblem(t)
    BY <1>2, <2>2 DEF ParseProblem
  <2>3. CASE InsertProblem(t) \/ SelectId(t) \/ InsertElement(t)
             \/ NextSection(t)
    BY <2>3 DEF InsertProblem, SelectId, InsertElement, NextSection
  <2> QED BY <1>4, <2>1, <2>2, <2>3 DEF CreateStep
<1>5. CASE EditStep(t)
  <2>1. CASE PurgeThrows(t) \/ ReplaceFails(t) \/ GetThrows(t)
    BY <1>2, <2>1 DEF PurgeThrows, ReplaceFails, GetThrows
  <2>2. CASE Update(t) \/ Get(t)
    BY <2>2 DEF Update, Get, Answer
  <2>3. CASE Purge(t) \/ Wipe(t) \/ InsertCase(t) \/ CasesInserted(t)
             \/ PrepareGet(t)
    BY <2>3 DEF Purge, Wipe, InsertCase, CasesInserted, PrepareGet
  <2> QED BY <1>5, <2>1, <2>2, <2>3 DEF EditStep
<1>6. CASE ReadStep(t)
  <2>1. CASE ListRefused(t) \/ ListCount(t) \/ ListThrows(t)
             \/ PageRefused(t) \/ PageThrows(t)
    BY <2>1
    DEF ListRefused, ListCount, ListThrows, PageRefused, PageThrows, Answer
  <2>2. CASE ListPrepare(t) \/ ListRead(t) \/ PagePrepare(t)
    BY <2>2 DEF ListPrepare, ListRead, PagePrepare
  <2> QED BY <1>6, <2>1, <2>2 DEF ReadStep
<1> QED BY <1>3, <1>4, <1>5, <1>6 DEF Step

-----------------------------------------------------------------------------
(* The locks.                                                              *)

\* A statement of an open transaction that locks all it touches.
Locking(c, gone, new, scope) ==
  /\ Execute(c, gone, new, scope)
  /\ \A row \in gone \cup new : <<row.table, row.pid>> \in scope

LEMMA LockingOK ==
  ASSUME IInv, PendingLocked, LocksApart, NEW c \in Conns, ~ autocommit[c],
         NEW gone, NEW new, NEW scope, Locking(c, gone, new, scope)
  PROVE  PendingLocked' /\ LocksApart'
<1>1. /\ ins \in [Conns -> SUBSET Row]
      /\ del \in [Conns -> SUBSET Row]
      /\ locks \in [Conns -> SUBSET (Tables \X Nat)]
  BY DEF IInv, ApisOK, ApisTypeOK
<1>2. /\ ins'[c] = (ins[c] \ gone) \cup new
      /\ del'[c] = (del[c] \ new) \cup gone
      /\ locks'[c] = locks[c] \cup scope
      /\ \A d \in Conns : d # c => /\ ins'[d] = ins[d]
                                   /\ del'[d] = del[d]
                                   /\ locks'[d] = locks[d]
                                   /\ locks[d] \cap scope = {}
  BY <1>1 DEF Locking, Execute, Blocked
<1>3. PendingLocked'
  BY <1>2 DEF Locking, PendingLocked
<1>4. LocksApart'
  BY <1>2 DEF LocksApart
<1> QED BY <1>3, <1>4

LEMMA UnlockingOK ==
  ASSUME IInv, PendingLocked, LocksApart, NEW c \in Conns, EndWork(c)
  PROVE  PendingLocked' /\ LocksApart'
<1>1. /\ ins \in [Conns -> SUBSET Row]
      /\ del \in [Conns -> SUBSET Row]
      /\ locks \in [Conns -> SUBSET (Tables \X Nat)]
  BY DEF IInv, ApisOK, ApisTypeOK
<1>2. /\ ins'[c] = {} /\ del'[c] = {} /\ locks'[c] = {}
      /\ \A d \in Conns : d # c => /\ ins'[d] = ins[d]
                                   /\ del'[d] = del[d]
                                   /\ locks'[d] = locks[d]
  BY <1>1 DEF EndWork
<1>3. PendingLocked'
  BY <1>2 DEF PendingLocked
<1>4. LocksApart'
  BY <1>2 DEF LocksApart
<1> QED BY <1>3, <1>4

\* The statements of a transaction lock what they touch.
LEMMA InsertProblemLocks ==
  ASSUME NEW t \in Threads, InsertProblem(t)
  PROVE  Locking(Conn(t), {}, {ProblemRow(cur[t], nextId)},
                 {<<"problems", nextId>>})
  BY DEF InsertProblem, Locking, ProblemRow

LEMMA InsertElementLocks ==
  ASSUME NEW t \in Threads, InsertElement(t)
  PROVE  Locking(Conn(t), {}, NewRows(t), SectionScope(t))
  BY DEF InsertElement, Locking, NewRows, RowFor, SectionScope

LEMMA PurgeLocks ==
  ASSUME NEW t \in Threads, Purge(t)
  PROVE  LET table == DeleteTables[local[t].i] IN
         Locking(Conn(t), RowsOf(View(Conn(t)), table, cur[t].pid), {},
                 {<<table, cur[t].pid>>})
  BY DEF Purge, Locking, RowsOf

LEMMA WipeLocks ==
  ASSUME NEW t \in Threads, Wipe(t)
  PROVE  Locking(Conn(t),
                 RowsOf(View(Conn(t)), "problem_test_cases", cur[t].pid), {},
                 CaseScope(t))
  BY DEF Wipe, Locking, RowsOf, CaseScope

LEMMA InsertCaseLocks ==
  ASSUME NEW t \in Threads, InsertCase(t)
  PROVE  Locking(Conn(t), {},
                 {RowFor(cur[t], "problem_test_cases", cur[t].pid,
                         local[t].i, Cases(cur[t])[local[t].i])},
                 CaseScope(t))
  BY DEF InsertCase, Locking, RowFor, CaseScope, Registries

LEMMA LocksStep ==
  ASSUME IInv, TxInv, Orderly, PendingLocked, LocksApart,
         NEW t \in Threads, Step(t)
  PROVE  PendingLocked' /\ LocksApart'
<1>1. Conn(t) \in Conns
  BY TwoConns
<1>2. CASE UNCHANGED <<ins, del, locks>>
  BY <1>2 DEF PendingLocked, LocksApart
<1>3. ASSUME NEW gone, NEW new, NEW scope, InTx(t),
             Locking(Conn(t), gone, new, scope)
      PROVE  PendingLocked' /\ LocksApart'
  <2>1. ~ autocommit[Conn(t)]
    BY <1>3 DEF Locking, Execute, TxInv, Isolated
  <2> QED BY <1>1, <1>3, <2>1, LockingOK
<1>4. CASE Outside(t) \/ Begins(t) \/ Computes(t) \/ OnLost(t)
  BY <1>2, <1>4
  DEF Outside, Begins, Computes, OnLost, BeginTransaction, workVars, apiVars
<1>5. CASE WorkerStep(t)
  BY <1>1, <1>4, <1>5, WorkerMoves, UnlockingOK
  DEF EndsWork, Finishes, CommitWork, RollbackWork, FinishTransaction,
      Publish, Discard
<1>6. CASE CreateStep(t)
  <2>1. CASE InsertProblem(t)
    <3>1. InTx(t)
      BY <2>1 DEF InsertProblem, InTx, TxLabels
    <3> QED BY <1>3, <2>1, <3>1, InsertProblemLocks
  <2>2. CASE InsertElement(t)
    <3>1. InTx(t)
      BY <2>2 DEF InsertElement, AtElement, InTx, TxLabels
    <3> QED BY <1>3, <2>2, <3>1, InsertElementLocks
  <2>3. CASE \/ ParseProblem(t) \/ InsertProblemFails(t) \/ SelectId(t)
             \/ SelectIdEmpty(t) \/ SelectIdThrows(t)
             \/ InsertElementFails(t) \/ NextSection(t) \/ RefuseTotal(t)
    BY <1>2, <2>3
    DEF ParseProblem, InsertProblemFails, SelectId, SelectIdEmpty,
        SelectIdThrows, InsertElementFails, NextSection, RefuseTotal, Abort,
        apiVars
  <2> QED BY <1>6, <2>1, <2>2, <2>3 DEF CreateStep
<1>7. CASE EditStep(t)
  <2>1. CASE Purge(t)
    <3>1. InTx(t)
      BY <2>1 DEF Purge, InTx, TxLabels
    <3> QED BY <1>3, <2>1, <3>1, PurgeLocks
  <2>2. CASE Wipe(t)
    <3>1. InTx(t)
      BY <2>2 DEF Wipe, InTx, TxLabels
    <3> QED BY <1>3, <2>2, <3>1, WipeLocks
  <2>3. CASE InsertCase(t)
    <3>1. InTx(t)
      BY <2>3 DEF InsertCase, InTx, TxLabels
    <3> QED BY <1>3, <2>3, <3>1, InsertCaseLocks
  <2>4. CASE \/ Update(t) \/ PurgeThrows(t) \/ ReplaceFails(t)
             \/ CasesInserted(t) \/ PrepareGet(t) \/ Get(t) \/ GetThrows(t)
    BY <1>2, <2>4
    DEF Update, PurgeThrows, ReplaceFails, CasesInserted, PrepareGet, Get,
        GetThrows, Abort, apiVars
  <2> QED BY <1>7, <2>1, <2>2, <2>3, <2>4 DEF EditStep
<1>8. CASE ReadStep(t)
  BY <1>4, <1>8, ReadMoves
<1> QED BY <1>5, <1>6, <1>7, <1>8 DEF Step

-----------------------------------------------------------------------------
(* The ids.                                                                *)

LEMMA AtStart ==
  ASSUME IInv, NEW t \in Threads, Step(t),
         pc[t] \in {"idle", "permission", "permissionRead"}
  PROVE  \/ Dispatch(t) \/ DispatchUnauthorized(t) \/ PreparePermission(t)
         \/ PermissionGranted(t) \/ PermissionDenied(t)
<1>1. CASE WorkerStep(t)
  BY <1>1
  DEF WorkerStep, Begin, Commit, CommitThrows, Committed, RolledBack,
      Rollback, BeginThrows, RollbackThrows
<1>2. CASE CreateStep(t)
  BY <1>2
  DEF CreateStep, ParseProblem, InsertProblem, InsertProblemFails, SelectId,
      SelectIdEmpty, SelectIdThrows, InsertElement, InsertElementFails,
      AtElement, NextSection, RefuseTotal
<1>3. CASE EditStep(t)
  BY <1>3
  DEF EditStep, Update, Purge, PurgeThrows, Wipe, InsertCase, ReplaceFails,
      CasesInserted, PrepareGet, Get, GetThrows
<1>4. CASE ReadStep(t)
  BY <1>4
  DEF ReadStep, ListRefused, ListReady, ListPrepare, ListRead, ListCount,
      ListThrows, PagePrepare, PageRefused, PageThrows
<1> QED BY <1>1, <1>2, <1>3, <1>4 DEF Step

LEMMA WrittenRows ==
  ASSUME NEW r, NEW s, NEW p, NEW n, NEW row \in Written(r, s, p, n)
  PROVE  /\ row.table = s
         /\ row.by = r.id
         /\ row.pid = IF s \in Registries THEN 0 ELSE p
  BY DEF Written, RowFor

\* The rows a worker is about to commit.
LEMMA CommitRows ==
  ASSUME IInv, StoreInv, NEW t \in Threads, Commit(t)
  PROVE  /\ cur[t].op = "create" =>
              \A row \in ins[Conn(t)] :
                /\ row.pid \in {0, local[t].problem_id}
                /\ local[t].problem_id \in 0 .. nextId - 1
         /\ cur[t].op = "replace" =>
              \A row \in ins[Conn(t)] :
                row.pid = cur[t].pid /\ row.table = "problem_test_cases"
<1>1. In(t, {"section", "commit"}) /\ In(t, {"commit"})
  BY DEF In, Commit, CommitWork
<1>2. ASSUME cur[t].op = "create", NEW row \in ins[Conn(t)]
      PROVE  /\ row.pid \in {0, local[t].problem_id}
             /\ local[t].problem_id \in 0 .. nextId - 1
  <2> DEFINE p == local[t].problem_id
  <2>1. Inserted(t, p) /\ Filled(t, p)
    BY <1>1, <1>2 DEF StoreInv, Stage, Creating
  <2>2. \/ row = ProblemRow(cur[t], p)
        \/ \E k \in DOMAIN Sections :
             row \in Written(cur[t], Sections[k], p, Reached(t, k))
    BY <1>2, <2>1 DEF Filled
  <2>3. row.pid \in {0, p}
    BY <2>2, WrittenRows DEF ProblemRow
  <2> QED BY <2>1, <2>3 DEF Inserted
<1>3. ASSUME cur[t].op = "replace", NEW row \in ins[Conn(t)]
      PROVE  row.pid = cur[t].pid /\ row.table = "problem_test_cases"
  <2>1. row \in Written(cur[t], "problem_test_cases", cur[t].pid,
                        Len(Cases(cur[t])))
    BY <1>1, <1>3 DEF StoreInv, Stage, Replacing, Replaced
  <2>2. "problem_test_cases" \notin Registries
    BY DEF Registries
  <2> QED BY <2>1, <2>2, WrittenRows
<1> QED BY <1>2, <1>3

LEMMA IdsStep ==
  ASSUME IInv, TxInv, Orderly, ServedInv, ApiInsertsNothing, StoreInv,
         ReplacesGivenIds, NEW t \in Threads, Step(t)
  PROVE  IdsGiven'
<1>1. /\ nextId \in Nat /\ nextId' \in Nat /\ nextId' >= nextId
      /\ FirstNewId \in Int
      /\ IdsGiven
      /\ \A r \in Requests : r.pid \in Nat
      /\ \A row \in db : row.pid \in Nat
  <2>1. IInv'
    BY NextOK DEF Next
  <2> QED
    BY <2>1, FirstIdAssumption, LocalsElsewhere, RequestsAssumption
    DEF IInv, WorkersOK, WorkersTypeOK, ApisOK, ApisTypeOK, StoreInv, Request,
        Row
<1>2. \A row \in db' : row.pid < nextId'
  <2>1. CASE ~ Commit(t)
    BY <1>1, <2>1, StoresAtCommit DEF IdsGiven
  <2>2. CASE Commit(t)
    <3>1. /\ pc[t] = "commit" /\ cur[t] # NoRequest /\ nextId' = nextId
          /\ cur[t] \in Requests /\ LabelFits(t)
          /\ \A row \in db' : row \in db \/ row \in ins[Conn(t)]
      BY <2>2, BusyFacts
      DEF Commit, CommitWork, Publish, View, IInv, WorkersOK, ControlOK,
          StoreInv, Stage
    <3>2. CASE cur[t].op = "create"
      BY <1>1, <2>2, <3>1, <3>2, CommitRows DEF IdsGiven
    <3>3. CASE cur[t].op = "replace"
      BY <1>1, <2>2, <3>1, <3>3, CommitRows DEF IdsGiven
    <3>4. CASE cur[t].op = "delete"
      BY <1>1, <3>1, <3>4
      DEF IdsGiven, ApiInsertsNothing, Conn, ConnOf
    <3> QED BY <3>1, <3>2, <3>3, <3>4 DEF LabelFits
  <2> QED BY <2>1, <2>2
<1>3. ASSUME NEW u \in Threads, cur'[u] # NoRequest, cur'[u].op = "replace",
             pc'[u] \notin {"permission", "permissionRead"}
      PROVE  cur'[u].pid < nextId'
  <2>1. CASE u # t
    BY <1>1, <1>3, <2>1, MovesElsewhere, BusyFacts
    DEF Elsewhere, IdsGiven, IInv, WorkersOK, WorkersTypeOK
  <2>2. CASE u = t /\ Dispatch(t)
    <3>1. PICK r \in todo :
            /\ cur'[t] = r
            /\ pc'[t] = IF NeedsPermission(r)
                        THEN "permission" ELSE FirstLabel(r)
      BY <2>2 DEF Dispatch, Goto, IInv, WorkersOK, WorkersTypeOK
    <3>2. r \in Requests /\ r.admin
      BY <1>3, <2>2, <3>1 DEF NeedsPermission, IInv, WorkersOK, WorkersTypeOK
    <3> QED
      BY <1>1, <1>3, <2>2, <3>1, <3>2 DEF ReplacesGivenIds, IdsGiven
  <2>3. CASE u = t /\ PermissionGranted(t)
    <3>1. /\ cur'[t] = cur[t] /\ cur[t] \in Requests
          /\ \E row \in View("api") : row.pid = cur[t].pid
      BY <2>3, BusyFacts DEF PermissionGranted, Permitted, RowsOf, IInv
    <3>2. PICK row \in db : row.pid = cur[t].pid
      BY <3>1 DEF View, ApiInsertsNothing
    <3> QED BY <1>1, <2>3, <3>1, <3>2 DEF IdsGiven
  <2>4. CASE u = t /\ pc[t] \in {"idle", "permission", "permissionRead"}
             /\ ~ Dispatch(t) /\ ~ PermissionGranted(t)
    <3>1. CASE DispatchUnauthorized(t)
      BY <1>3, <2>4, <3>1
      DEF DispatchUnauthorized, IInv, WorkersOK, ControlOK
    <3>2. CASE PreparePermission(t)
      BY <1>3, <2>4, <3>2
      DEF PreparePermission, Goto, IInv, WorkersOK, WorkersTypeOK
    <3>3. CASE PermissionDenied(t)
      BY <1>3, <2>4, <3>3
      DEF PermissionDenied, Answer, IInv, WorkersOK, WorkersTypeOK
    <3> QED BY <2>4, <3>1, <3>2, <3>3, AtStart
  <2>5. CASE u = t /\ pc[t] \notin {"idle", "permission", "permissionRead"}
    <3>1. cur[t] # NoRequest /\ cur[t] \in Requests
      BY <2>5, BusyFacts, NoRequestAssumption DEF IInv
    <3>2. cur'[t] = cur[t]
      BY <1>3, <2>5, <3>1, StepServes
      DEF Keeps, Commits, Takes, TurnsAway, Answers, IInv, WorkersOK,
          WorkersTypeOK
    <3> QED BY <1>1, <1>3, <2>5, <3>1, <3>2 DEF IdsGiven
  <2> QED BY <2>1, <2>2, <2>3, <2>4, <2>5
<1> QED BY <1>1, <1>2, <1>3 DEF IdsGiven

-----------------------------------------------------------------------------
(* What a step of one worker does to the progress of the others.           *)

\* A deletion commits what it has removed and nothing else.
LEMMA DeletionCommits ==
  ASSUME IInv, StoreInv, ApiInsertsNothing, NEW t \in Threads, Commit(t),
         Conn(t) = "api"
  PROVE  /\ cur[t].op = "delete"
         /\ Removed(cur[t], Len(DeleteTables))
         /\ db' = db \ del["api"]
<1>1. In(t, {"commit"}) /\ LabelFits(t) /\ Deleting(t)
  BY DEF In, Commit, CommitWork, StoreInv, Stage
<1>2. cur[t].op = "delete"
  BY <1>1, TwoConns DEF LabelFits, In
<1>3. db' = db \ del["api"]
  BY DEF Commit, CommitWork, Publish, View, ApiInsertsNothing
<1> QED BY <1>1, <1>2, <1>3 DEF Deleting

\* What is stored has changed, if at all, as another connection's commit
\* changes it: what a transaction on modify_api has looked at is not added to,
\* and no registry row goes; a deletion sees only what modify_api had pending
\* come.
StoredAside(c) ==
  /\ c = "modify_api" => /\ \A row \in db' : row \in db
                         /\ \A row \in db : row.table \in Registries => row \in db'
  /\ c = "api" => \A row \in db' : row \in db \/ row \in ins["modify_api"]

LEMMA StoredElsewhere ==
  ASSUME IInv, TxInv, Orderly, ServedInv, ApiInsertsNothing, StoreInv,
         NEW t \in Threads, Step(t),
         NEW u \in Threads, u # t, InTx(u), Conn(u) \notin lost
  PROVE  StoredAside(Conn(u))
<1> USE DEF StoredAside
<1>1. CASE ~ Commit(t)
  BY <1>1, StoresAtCommit
<1>2. CASE Commit(t)
  <2>1. Conn(t) # Conn(u)
    BY <1>2, AloneInTx DEF Commit, CommitWork, InTx, TxLabels
  <2>2. CASE Conn(t) = "api"
    <3>1. \A row \in del["api"] : row.table \notin Registries
      BY <1>2, <2>2, DeletionCommits DEF Removed
    <3> QED BY <1>2, <2>1, <2>2, <3>1, DeletionCommits
  <2>3. CASE Conn(t) = "modify_api"
    BY <1>2, <2>1, <2>3 DEF Commit, CommitWork, Publish, View
  <2> QED BY <2>2, <2>3, TwoConns
<1> QED BY <1>1, <1>2

\* When the registries stay, so do the rows a section writes.
LEMMA RegistriesStay ==
  ASSUME \A row \in db' : row \in db,
         \A row \in db : row.table \in Registries => row \in db'
  PROVE  \A r, s, p, n : Written(r, s, p, n)' = Written(r, s, p, n)
<1>1. \A r, s, k : s \in Registries => (Fresh(r, s, k)' <=> Fresh(r, s, k))
  BY DEF Fresh, Elements, PartOf, Registries
<1> QED BY <1>1 DEF Written, RowFor, Elements, PartOf

LEMMA RemovedElsewhere ==
  ASSUME PendingLocked, LocksApart, NEW r, NEW n, Removed(r, n),
         del'["api"] = del["api"], locks'["api"] = locks["api"],
         \A row \in db' : row \in db \/ row \in ins["modify_api"]
  PROVE  Removed(r, n)'
<1>1. ASSUME NEW k \in 1 .. n, NEW row \in db',
             row.table = DeleteTables[k], row.pid = r.pid
      PROVE  row \in del["api"]
  <2>1. <<DeleteTables[k], r.pid>> \in locks["api"]
    BY DEF Removed
  <2>2. "api" \in Conns /\ "modify_api" \in Conns /\ "api" # "modify_api"
    BY DEF Conns
  <2>3. row \notin ins["modify_api"]
    BY <1>1, <2>1, <2>2 DEF PendingLocked, LocksApart
  <2> QED BY <1>1, <2>3 DEF Removed, RowsOf
<1> QED BY <1>1 DEF Removed, RowsOf, DeleteTables

LEMMA ReplacedElsewhere ==
  ASSUME NEW r, NEW c, NEW n, Replaced(r, c, n),
         ins'[c] = ins[c], del'[c] = del[c],
         \A row \in db' : row \in db,
         \A row \in db : row.table \in Registries => row \in db'
  PROVE  Replaced(r, c, n)'
<1>1. \A x, s, p, m : Written(x, s, p, m)' = Written(x, s, p, m)
  BY RegistriesStay
<1> QED BY <1>1 DEF Replaced, RowsOf, Accepted, Elements, PartOf

LEMMA FilledElsewhere ==
  ASSUME NEW u \in Threads, NEW p, Filled(u, p),
         cur'[u] = cur[u], local'[u] = local[u],
         ins'[Conn(u)] = ins[Conn(u)], del'[Conn(u)] = del[Conn(u)],
         \A row \in db' : row \in db,
         \A row \in db : row.table \in Registries => row \in db'
  PROVE  Filled(u, p)'
<1>1. \A r, s, q, n : Written(r, s, q, n)' = Written(r, s, q, n)
  BY RegistriesStay
<1>2. Conn(u)' = Conn(u)
  BY DEF Conn
<1>3. \A k : Reached(u, k)' = Reached(u, k)
  BY DEF Reached, Elements, PartOf, Sections
<1>4. ins'[Conn(u)] = {ProblemRow(cur[u], p)} \cup
                        UNION {Written(cur[u], Sections[k], p, Reached(u, k)) :
                                 k \in DOMAIN Sections}
  BY DEF Filled
<1>5. ASSUME NEW k \in DOMAIN Sections, Sections[k] \in Registries,
             NEW j \in 1 .. Reached(u, k)
      PROVE  Named(View(Conn(u)), Sections[k],
                   Elements(cur[u], Sections[k])[j].name)' # {}
  <2>1. PICK row \in View(Conn(u)) :
          /\ row.table = Sections[k]
          /\ row.name = Elements(cur[u], Sections[k])[j].name
    BY <1>5 DEF Filled, Named
  <2>2. row \in View(Conn(u))'
    BY <1>2, <1>5, <2>1 DEF View
  <2> QED BY <2>1, <2>2 DEF Named, Elements, PartOf, Sections
<1> QED BY <1>1, <1>2, <1>3, <1>4, <1>5 DEF Filled

\* A worker that does not move stays as far as it has come, while its
\* pending work does.
LEMMA StageStays ==
  ASSUME IInv, StoreInv, NEW u \in Threads,
         pc'[u] = pc[u], cur'[u] = cur[u], local'[u] = local[u],
         \A p \in 0 .. nextId - 1 : p \in 0 .. nextId' - 1,
         Conn(u) \notin lost' => Conn(u) \notin lost,
         InTx(u) /\ Conn(u) \notin lost'
           => /\ ins'[Conn(u)] = ins[Conn(u)]
              /\ del'[Conn(u)] = del[Conn(u)]
              /\ locks'[Conn(u)] = locks[Conn(u)]
              /\ StoredAside(Conn(u))
  PROVE  Stage(u)'
<1>1. Conn(u)' = Conn(u)
  BY DEF Conn
<1>2. \A labels : In(u, labels)' => In(u, labels)
  BY <1>1 DEF In
<1>3. LabelFits(u) /\ Starting(u) /\ Deleting(u) /\ Replacing(u) /\ Creating(u)
  BY DEF StoreInv, Stage
<1>4. LabelFits(u)'
  BY <1>3 DEF LabelFits
<1>5. CASE ~ InTx(u) \/ Conn(u) \in lost'
  <2>1. \A labels : labels \subseteq TxLabels => ~ In(u, labels)'
    BY <1>1, <1>5 DEF In, InTx
  <2>2. /\ ~ In(u, {"insertProblem", "wipe"})'
        /\ ~ In(u, {"purge"})' /\ ~ In(u, {"commit"})'
        /\ ~ In(u, {"insertCase"})' /\ ~ In(u, {"selectId"})'
        /\ ~ In(u, {"section", "commit"})'
    BY <2>1 DEF TxLabels
  <2> QED
    BY <1>4, <2>2 DEF Stage, Starting, Deleting, Replacing, Creating
<1>6. CASE InTx(u) /\ Conn(u) \notin lost'
  <2>1. /\ ins'[Conn(u)] = ins[Conn(u)]
        /\ del'[Conn(u)] = del[Conn(u)]
        /\ locks'[Conn(u)] = locks[Conn(u)]
    BY <1>6
  <2>2. /\ Conn(u) = "modify_api" =>
             /\ \A row \in db' : row \in db
             /\ \A row \in db : row.table \in Registries => row \in db'
        /\ Conn(u) = "api" =>
             \A row \in db' : row \in db \/ row \in ins["modify_api"]
    BY <1>6 DEF StoredAside
  <2>3. Starting(u)'
    BY <1>1, <1>2, <1>3, <2>1 DEF Starting, NothingPending
  <2>4. Deleting(u)'
    <3>1. ASSUME NEW r, NEW n, Conn(u) = "api", Removed(r, n)
          PROVE  Removed(r, n)'
      BY <2>1, <2>2, <3>1, RemovedElsewhere DEF StoreInv
    <3>2. In(u, {"purge"}) => Conn(u) = "api"
      BY <1>3 DEF In, LabelFits, Conn, ConnOf
    <3>3. cur[u].op = "delete" => Conn(u) = "api"
      BY DEF Conn, ConnOf
    <3> QED BY <1>2, <1>3, <3>1, <3>2, <3>3 DEF Deleting, DeleteTables
  <2>5. Replacing(u)'
    <3>1. ASSUME NEW r, NEW c, NEW n, c = Conn(u), c = "modify_api",
                 Replaced(r, c, n)
          PROVE  Replaced(r, c, n)'
      BY <2>1, <2>2, <3>1, ReplacedElsewhere
    <3>2. In(u, {"insertCase"}) => Conn(u) = "modify_api"
      BY DEF In, IInv, WorkersOK, ControlOK, Conn, ConnOf
    <3>3. cur[u].op = "replace" => Conn(u) = "modify_api"
      BY DEF Conn, ConnOf
    <3> QED
      BY <1>1, <1>2, <1>3, <3>1, <3>2, <3>3 DEF Replacing, Cases
  <2>6. Creating(u)'
    <3>1. ASSUME NEW p, Conn(u) = "modify_api", Inserted(u, p)
          PROVE  Inserted(u, p)'
      BY <1>1, <2>1, <2>2, <3>1 DEF Inserted
    <3>2. ASSUME In(u, {"selectId"})
          PROVE  \E p \in 0 .. nextId' - 1 :
                   /\ Inserted(u, p)'
                   /\ ins'[Conn(u)] = {ProblemRow(cur[u], p)}
                   /\ SameTitle(u)' = {ProblemRow(cur[u], p)}
      <4>1. PICK p \in 0 .. nextId - 1 :
              /\ Inserted(u, p)
              /\ ins[Conn(u)] = {ProblemRow(cur[u], p)}
              /\ SameTitle(u) = {ProblemRow(cur[u], p)}
        BY <1>3, <3>2 DEF Creating
      <4>2. Conn(u) = "modify_api"
        BY <3>2 DEF In, IInv, WorkersOK, ControlOK, Conn, ConnOf
      <4>3. p \in 0 .. nextId' - 1
        BY <4>1
      <4>4. \A row : row \in SameTitle(u)' <=> row = ProblemRow(cur[u], p)
        <5>1. del[Conn(u)] = {} /\ del'[Conn(u)] = {}
          BY <2>1, <4>1 DEF Inserted
        <5>2. /\ ProblemRow(cur[u], p).table = "problems"
              /\ ProblemRow(cur[u], p).name = cur[u].title
          BY DEF ProblemRow
        <5>3. \A row \in db : (row.table = "problems" /\ row.name = cur[u].title)
                => row = ProblemRow(cur[u], p)
          BY <4>1, <5>1 DEF SameTitle, Named, View
        <5> QED
          BY <1>1, <2>1, <2>2, <4>1, <4>2, <5>1, <5>2, <5>3
          DEF SameTitle, Named, View
      <4>5. SameTitle(u)' = {ProblemRow(cur[u], p)}
        <5>1. \A row \in SameTitle(u)' : row = ProblemRow(cur[u], p)
          BY <4>4
        <5>2. ProblemRow(cur[u], p) \in SameTitle(u)'
          BY <4>4
        <5> QED BY <5>1, <5>2
      <4> QED BY <2>1, <3>1, <4>1, <4>2, <4>3, <4>5
    <3>3. ASSUME NEW p, Conn(u) = "modify_api", Filled(u, p)
          PROVE  Filled(u, p)'
      BY <2>1, <2>2, <3>3, FilledElsewhere
    <3>4. cur[u].op = "create" => Conn(u) = "modify_api"
      BY DEF Conn, ConnOf
    <3>5. ASSUME In(u, {"section", "commit"}), cur[u].op = "create",
                 NEW p, p = local[u].problem_id
          PROVE  /\ Inserted(u, p)' /\ Filled(u, p)'
                 /\ pc[u] = "commit" => local[u].sec = Len(Sections) + 1
      BY <1>3, <3>1, <3>3, <3>4, <3>5 DEF Creating
    <3> QED
      BY <1>1, <1>2, <3>2, <3>5 DEF Creating, ProblemRow, Sections
  <2> QED BY <1>4, <2>3, <2>4, <2>5, <2>6 DEF Stage
<1> QED BY <1>5, <1>6

LEMMA StageElsewhere ==
  ASSUME IInv, TxInv, Orderly, ServedInv, ApiInsertsNothing, StoreInv,
         NEW t \in Threads, Step(t), NEW u \in Threads, u # t
  PROVE  Stage(u)'
<1>1. /\ pc'[u] = pc[u] /\ cur'[u] = cur[u] /\ local'[u] = local[u]
      /\ UNCHANGED lost
  BY LocalsElsewhere, MovesElsewhere, StepKeepsLost DEF Elsewhere
<1>2. \A p \in 0 .. nextId - 1 : p \in 0 .. nextId' - 1
  <2>1. nextId \in Nat /\ nextId' \in Nat /\ nextId' >= nextId
    <3>1. IInv'
      BY NextOK DEF Next
    <3> QED BY <3>1, LocalsElsewhere DEF IInv, WorkersOK, WorkersTypeOK
  <2>2. ASSUME NEW m \in Nat, NEW n \in Nat, n >= m, NEW p \in 0 .. m - 1
        PROVE  p \in 0 .. n - 1
    BY <2>2
  <2> QED BY <2>1, <2>2
<1>3. InTx(u) /\ Conn(u) \notin lost
        => /\ ins'[Conn(u)] = ins[Conn(u)]
           /\ del'[Conn(u)] = del[Conn(u)]
           /\ locks'[Conn(u)] = locks[Conn(u)]
           /\ StoredAside(Conn(u))
  BY WorkElsewhere, StoredElsewhere
<1> QED BY <1>1, <1>2, <1>3, StageStays

-----------------------------------------------------------------------------
(* What a step of a worker does to its own progress.                       *)

\* The labels at which a transaction has something to keep.
Busy ==
  {"insertProblem", "wipe", "purge", "selectId", "section", "insertCase",
   "commit"}

LEMMA StageQuiet ==
  ASSUME NEW t \in Threads, pc'[t] \notin Busy
  PROVE  Stage(t)'
<1>1. \A labels : labels \subseteq Busy => ~ In(t, labels)'
  BY DEF In
<1>2. /\ ~ In(t, {"insertProblem", "wipe"})'
      /\ ~ In(t, {"purge"})' /\ ~ In(t, {"commit"})'
      /\ ~ In(t, {"insertCase"})' /\ ~ In(t, {"selectId"})'
      /\ ~ In(t, {"section", "commit"})'
  BY <1>1 DEF Busy
<1> QED
  BY <1>2
  DEF Stage, LabelFits, Starting, Deleting, Replacing, Creating, Busy

LEMMA BusySteps ==
  ASSUME IInv, NEW t \in Threads, Step(t), pc'[t] \in Busy
  PROVE  \/ Begin(t)
         \/ InsertProblem(t) \/ SelectId(t) \/ InsertElement(t)
         \/ NextSection(t)
         \/ Purge(t)
         \/ Wipe(t) \/ InsertCase(t) \/ CasesInserted(t)
<1> USE DEF IInv, WorkersOK, WorkersTypeOK, Goto, Busy
<1>1. CASE \E status \in Statuses : Answer(t, status)
  BY <1>1 DEF Answer
<1>2. CASE \E status \in {400, 500} : Abort(t, status)
  BY <1>2 DEF Abort, Fail
<1>3. CASE WorkerStep(t)
  <2>1. CASE Committed(t) \/ RolledBack(t) \/ PermissionDenied(t)
             \/ RollbackThrows(t)
    BY <2>1
    DEF Committed, RolledBack, PermissionDenied, RollbackThrows, Answer
  <2>2. CASE Dispatch(t)
    <3>1. PICK r \in Request :
            pc' = [pc EXCEPT ![t] = IF NeedsPermission(r)
                                    THEN "permission" ELSE FirstLabel(r)]
      BY <2>2, RequestsAssumption DEF Dispatch
    <3>2. pc'[t] \in FirstSet \cup {"permission"}
      BY <3>1, FirstLabels
    <3> QED BY <3>2 DEF FirstSet
  <2>3. CASE DispatchUnauthorized(t)
    BY <2>3 DEF DispatchUnauthorized
  <2>4. CASE PermissionGranted(t)
    <3>1. pc'[t] \in FirstSet
      BY <2>4, BusyFacts, FirstLabels DEF PermissionGranted
    <3> QED BY <3>1 DEF FirstSet
  <2>5. CASE PreparePermission(t) \/ Commit(t) \/ Rollback(t)
    BY <2>5 DEF PreparePermission, Commit, Rollback
  <2>6. CASE BeginThrows(t) \/ CommitThrows(t)
    BY <2>6 DEF BeginThrows, CommitThrows, Abort, Fail
  <2> QED BY <1>3, <2>1, <2>2, <2>3, <2>4, <2>5, <2>6 DEF WorkerStep
<1>4. CASE CreateStep(t)
  <2>1. CASE SelectIdEmpty(t) \/ SelectIdThrows(t) \/ InsertElementFails(t)
             \/ RefuseTotal(t) \/ InsertProblemFails(t)
    BY <1>1, <1>2, <2>1
    DEF SelectIdEmpty, SelectIdThrows, InsertElementFails, RefuseTotal,
        InsertProblemFails, Statuses
  <2>2. CASE ParseProblem(t)
    BY <1>2, <2>2 DEF ParseProblem
  <2> QED BY <1>4, <2>1, <2>2 DEF CreateStep
<1>5. CASE EditStep(t)
  <2>1. CASE PurgeThrows(t) \/ ReplaceFails(t) \/ GetThrows(t)
    BY <1>2, <2>1 DEF PurgeThrows, ReplaceFails, GetThrows
  <2>2. CASE Update(t) \/ Get(t)
    BY <2>2 DEF Update, Get, Answer
  <2>3. CASE PrepareGet(t)
    BY <2>3 DEF PrepareGet
  <2> QED BY <1>5, <2>1, <2>2, <2>3 DEF EditStep
<1>6. CASE ReadStep(t)
  <2>1. CASE ListRefused(t) \/ ListCount(t) \/ ListThrows(t)
             \/ PageRefused(t) \/ PageThrows(t)
    BY <2>1
    DEF ListRefused, ListCount, ListThrows, PageRefused, PageThrows, Answer
  <2>2. CASE ListPrepare(t) \/ ListRead(t) \/ PagePrepare(t)
    BY <2>2 DEF ListPrepare, ListRead, PagePrepare
  <2> QED BY <1>6, <2>1, <2>2 DEF ReadStep
<1> QED BY <1>3, <1>4, <1>5, <1>6 DEF Step

LEMMA OwnExecute ==
  ASSUME IInv, TxInv, NEW t \in Threads, InTx(t), NEW gone, NEW new,
         NEW scope, Execute(Conn(t), gone, new, scope)
  PROVE  /\ ins'[Conn(t)] = (ins[Conn(t)] \ gone) \cup new
         /\ del'[Conn(t)] = (del[Conn(t)] \ new) \cup gone
         /\ locks'[Conn(t)] = locks[Conn(t)] \cup scope
         /\ Conn(t) \notin lost
         /\ UNCHANGED <<db, lost>>
<1>1. Conn(t) \in Conns /\ ~ autocommit[Conn(t)]
  BY TwoConns DEF TxInv, Isolated, Execute
<1>2. /\ ins \in [Conns -> SUBSET Row]
      /\ del \in [Conns -> SUBSET Row]
      /\ locks \in [Conns -> SUBSET (Tables \X Nat)]
  BY DEF IInv, ApisOK, ApisTypeOK
<1> QED BY <1>1, <1>2 DEF Execute

\* A transaction begins with nothing pending.
LEMMA BeginStage ==
  ASSUME IInv, TxInv, NEW t \in Threads, Begin(t)
  PROVE  Stage(t)'
<1> DEFINE c == Conn(t)
<1>1. /\ c \in Conns /\ c \notin lost
      /\ pc[t] = "begin" /\ local[t] = NoLocal
      /\ cur[t].op \in {"create", "replace", "delete"}
  BY TwoConns
  DEF Begin, BeginTransaction, IInv, WorkersOK, ControlOK
<1>2. NothingPending(c)
  <2>1. owner[c] = NoThread
    <3>1. ~ InTx(t)
      BY <1>1 DEF InTx, TxLabels
    <3> QED
      BY <1>1, <3>1
      DEF Begin, BeginTransaction, Lock, Free, TxInv, OwnersInTx
  <2> QED BY <1>1, <2>1 DEF IInv, ApisOK, NoStrayWork
<1>3. /\ UNCHANGED <<ins, del, locks, db, lost, cur, local, nextId>>
      /\ pc'[t] = FirstStatement(cur[t])
  BY DEF Begin, BeginTransaction, workVars, Goto, IInv, WorkersOK,
         WorkersTypeOK
<1>4. /\ pc'[t] \in {"insertProblem", "wipe", "purge"}
      /\ pc'[t] = "purge" => cur[t].op = "delete"
  BY <1>1, <1>3 DEF FirstStatement
<1>5. Conn(t)' = c
  BY <1>3 DEF Conn
<1>6. LabelFits(t)'
  BY <1>3, <1>4 DEF LabelFits
<1>7. Starting(t)'
  BY <1>1, <1>2, <1>3, <1>5 DEF Starting, NothingPending, NoLocal
<1>8. Deleting(t)'
  <2>1. ASSUME pc'[t] = "purge"
        PROVE  Removed(cur[t], 0)'
    <3>1. del'["api"] = {}
      BY <1>2, <1>3, <1>4, <2>1 DEF NothingPending, Conn, ConnOf
    <3> QED BY <3>1 DEF Removed
  <2>2. local'[t].i - 1 = 0
    BY <1>1, <1>3 DEF NoLocal
  <2>3. ~ In(t, {"commit"})'
    BY <1>4 DEF In
  <2> QED BY <2>1, <2>2, <2>3 DEF Deleting, In
<1>9. Replacing(t)' /\ Creating(t)'
  BY <1>4 DEF Replacing, Creating, In
<1> QED BY <1>6, <1>7, <1>8, <1>9 DEF Stage

-----------------------------------------------------------------------------
(* A deletion.                                                             *)

LEMMA PurgeStage ==
  ASSUME IInv, TxInv, ApiInsertsNothing, StoreInv, NEW t \in Threads, Purge(t)
  PROVE  Stage(t)'
<1> DEFINE r == cur[t]
           n == local[t].i
           gone == RowsOf(View("api"), DeleteTables[n], r.pid)
<1>1. /\ InTx(t) /\ pc[t] = "purge" /\ r.op = "delete" /\ Conn(t) = "api"
      /\ n \in 1 .. 9
  BY DeleteTablesFacts
  DEF Purge, InTx, TxLabels, StoreInv, Stage, LabelFits, Conn, ConnOf, IInv,
      WorkersOK, WorkersTypeOK, ControlOK, Local
<1>2. Execute("api", gone, {}, {<<DeleteTables[n], r.pid>>})
  BY <1>1 DEF Purge
<1>3. /\ del'["api"] = del["api"] \cup gone
      /\ locks'["api"] = locks["api"] \cup {<<DeleteTables[n], r.pid>>}
      /\ "api" \notin lost
      /\ UNCHANGED <<db, lost>>
  BY <1>1, <1>2, OwnExecute
<1>4. /\ cur' = cur /\ local'[t].i = n + 1
      /\ pc'[t] = IF n = 9 THEN "commit" ELSE "purge"
  BY <1>1, DeleteTablesFacts
  DEF Purge, Goto, IInv, WorkersOK, WorkersTypeOK, Local
<1>5. Removed(r, n - 1)
  BY <1>1, <1>3 DEF StoreInv, Stage, Deleting, In
<1>6. DeleteTables[n] \notin Registries
  BY <1>1 DEF DeleteTables, Registries
<1>7. ASSUME NEW q, q = r, NEW m, m = n
      PROVE  Removed(q, m)'
  <2>1. \A row \in del'["api"] : row.table \notin Registries /\ row.pid = q.pid
    BY <1>3, <1>5, <1>6, <1>7 DEF Removed, RowsOf
  <2>2. ASSUME NEW k \in 1 .. m
        PROVE  /\ <<DeleteTables[k], q.pid>> \in locks'["api"]
               /\ RowsOf(db', DeleteTables[k], q.pid) \subseteq del'["api"]
    <3>1. CASE k = n
      BY <1>3, <1>7, <3>1 DEF RowsOf, View
    <3>2. CASE k # n
      <4>1. k \in 1 .. n - 1
        BY <1>1, <1>7, <2>2, <3>2
      <4> QED BY <1>3, <1>5, <1>7, <4>1 DEF Removed, RowsOf
    <3> QED BY <3>1, <3>2
  <2> QED BY <2>1, <2>2 DEF Removed, RowsOf, DeleteTables
<1>8. LabelFits(t)'
  BY <1>1, <1>4 DEF LabelFits
<1>9. Deleting(t)'
  <2>1. local'[t].i - 1 = n
    BY <1>1, <1>4
  <2>2. In(t, {"commit"})' => n = Len(DeleteTables)
    BY <1>1, <1>4, DeleteTablesFacts DEF In
  <2>3. \A q, m : q = cur'[t] /\ m = n => Removed(q, m)'
    BY <1>4, <1>7
  <2> QED BY <2>1, <2>2, <2>3 DEF Deleting, DeleteTables
<1>10. Starting(t)' /\ Replacing(t)' /\ Creating(t)'
  BY <1>1, <1>4 DEF Starting, Replacing, Creating, In
<1> QED BY <1>8, <1>9, <1>10 DEF Stage

-----------------------------------------------------------------------------
(* A replacement.                                                          *)

LEMMA WrittenNone ==
  \A r, s, p : Written(r, s, p, 0) = {}
  BY DEF Written

\* The row of the k-th element, if there is one.
Added(r, s, p, k) ==
  IF s \in Registries => Fresh(r, s, k)
  THEN {RowFor(r, s, p, k, Elements(r, s)[k])} ELSE {}

LEMMA WrittenNext ==
  \A r, s, p : \A n \in Nat :
    Written(r, s, p, n + 1) = Written(r, s, p, n) \cup Added(r, s, p, n + 1)
<1> SUFFICES ASSUME NEW r, NEW s, NEW p, NEW n \in Nat
             PROVE  Written(r, s, p, n + 1) =
                      Written(r, s, p, n) \cup Added(r, s, p, n + 1)
  OBVIOUS
<1>1. 1 .. n + 1 = (1 .. n) \cup {n + 1}
  OBVIOUS
<1> QED BY <1>1 DEF Written, Added

LEMMA WipeStage ==
  ASSUME IInv, TxInv, StoreInv, NEW t \in Threads, Wipe(t)
  PROVE  Stage(t)'
<1> DEFINE r == cur[t]
           s == "problem_test_cases"
           c == Conn(t)
           gone == RowsOf(View(c), s, r.pid)
<1>1. InTx(t) /\ pc[t] = "wipe" /\ r.op = "replace"
  BY DEF Wipe, InTx, TxLabels, IInv, WorkersOK, ControlOK
<1>2. Execute(c, gone, {}, CaseScope(t))
  BY DEF Wipe
<1>3. /\ ins'[c] = ins[c] \ gone /\ del'[c] = del[c] \cup gone
      /\ c \notin lost /\ UNCHANGED <<db, lost>>
  BY <1>1, <1>2, OwnExecute
<1>4. NothingPending(c) /\ local[t].i = 1
  BY <1>1, <1>3 DEF StoreInv, Stage, Starting, In
<1>5. cur' = cur /\ Conn(t)' = c
  BY DEF Wipe, Conn
<1>6. CASE pc'[t] \notin Busy
  BY <1>6, StageQuiet
<1>7. CASE pc'[t] = "insertCase" /\ local' = local
  <2>1. ASSUME NEW q, q = r, NEW d, d = c
        PROVE  Replaced(q, d, 0)'
    <3>1. ins'[d] = {} /\ del'[d] = RowsOf(db, s, q.pid)
      BY <1>3, <1>4, <2>1 DEF NothingPending, View, RowsOf
    <3>2. Written(q, s, q.pid, 0)' = {}
      BY DEF Written
    <3>3. Accepted(q, s, 0)' /\ 0 <= Len(Elements(q, s))
      <4>1. Elements(q, s) \in Seq(Element \cup {Malformed})
        BY <1>1, <2>1, BusyFacts
        DEF Elements, PartOf, Request, Parts, Registries, IInv
      <4> QED BY <4>1 DEF Accepted
    <3> QED
      BY <1>3, <3>1, <3>2, <3>3 DEF Replaced, RowsOf, Elements, PartOf
  <2>2. \A q, d : q = cur'[t] /\ d = c => Replaced(q, d, 0)'
    BY <1>5, <2>1
  <2>3. Replacing(t)'
    BY <1>4, <1>5, <1>7, <2>2 DEF Replacing, In
  <2> QED
    BY <1>7, <2>3
    DEF Stage, LabelFits, Starting, Deleting, Creating, In
<1> QED
  BY <1>6, <1>7
  DEF Wipe, Goto, Busy, IInv, WorkersOK, WorkersTypeOK

LEMMA InsertCaseStage ==
  ASSUME IInv, TxInv, StoreInv, NEW t \in Threads, InsertCase(t)
  PROVE  Stage(t)'
<1> DEFINE r == cur[t]
           s == "problem_test_cases"
           c == Conn(t)
           n == local[t].i
           row == RowFor(r, s, r.pid, n, Cases(r)[n])
<1>1. /\ InTx(t) /\ pc[t] = "insertCase" /\ n \in Nat \ {0}
      /\ n <= Len(Cases(r)) /\ Cases(r)[n] # Malformed
      /\ r.op = "replace"
  BY DEF InsertCase, InTx, TxLabels, IInv, WorkersOK, WorkersTypeOK, Local,
         ControlOK
<1>2. Execute(c, {}, {row}, CaseScope(t))
  BY DEF InsertCase
<1>3. /\ ins'[c] = ins[c] \cup {row} /\ del'[c] = del[c] \ {row}
      /\ c \notin lost /\ UNCHANGED <<db, lost>>
  <2> HIDE DEF row
  <2> QED BY <1>1, <1>2, OwnExecute
<1>4. /\ cur' = cur /\ Conn(t)' = c /\ pc'[t] = "insertCase"
      /\ local'[t].i = n + 1
  BY <1>1 DEF InsertCase, Conn, IInv, WorkersOK, WorkersTypeOK, Local
<1>5. Replaced(r, c, n - 1)
  BY <1>1, <1>3 DEF StoreInv, Stage, Replacing, In
<1>6. Cases(r) = Elements(r, s) /\ s \notin Registries
  BY DEF Cases, Elements, PartOf, Registries
<1>7. ASSUME NEW q, q = r, NEW d, d = c, NEW m, m = n
      PROVE  Replaced(q, d, m)'
  <2>1. m - 1 \in Nat /\ (m - 1) + 1 = m
    BY <1>1, <1>7
  <2>2. Written(q, s, q.pid, m) = Written(q, s, q.pid, m - 1) \cup {row}
    <3>1. Added(q, s, q.pid, m) = {row}
      BY <1>6, <1>7 DEF Added
    <3>2. ASSUME NEW z \in Nat, z + 1 = m
          PROVE  Written(q, s, q.pid, m) =
                   Written(q, s, q.pid, z) \cup Added(q, s, q.pid, m)
      BY <3>2, WrittenNext
    <3> QED BY <2>1, <3>1, <3>2
  <2>3. ins'[d] = Written(q, s, q.pid, m)
    BY <1>3, <1>5, <1>7, <2>2 DEF Replaced
  <2>4. Written(q, s, q.pid, m)' = Written(q, s, q.pid, m)
    BY <1>3 DEF Written, Fresh, Registries
  <2>5. \A x \in del'[d] : x.table = s /\ x.pid = q.pid
    BY <1>3, <1>5, <1>7 DEF Replaced
  <2>6. RowsOf(db, s, q.pid) \subseteq del'[d] \cup ins'[d]
    BY <1>3, <1>5, <1>7 DEF Replaced
  <2>7. Accepted(q, s, m) /\ m <= Len(Elements(q, s))
    <3>1. \A k \in 1 .. m : k \in 1 .. m - 1 \/ k = m
      BY <1>1, <1>7
    <3> QED BY <1>1, <1>5, <1>6, <1>7, <3>1 DEF Replaced, Accepted
  <2> QED
    BY <1>3, <2>3, <2>4, <2>5, <2>6, <2>7
    DEF Replaced, RowsOf, Accepted, Elements, PartOf
<1>8. Replacing(t)'
  <2>1. local'[t].i - 1 = n
    BY <1>1, <1>4
  <2>2. \A q, d, m : q = cur'[t] /\ d = c /\ m = n => Replaced(q, d, m)'
    BY <1>4, <1>7
  <2> QED BY <1>4, <2>1, <2>2 DEF Replacing, In
<1> QED
  BY <1>4, <1>8
  DEF Stage, LabelFits, Starting, Deleting, Creating, In

LEMMA CasesInsertedStage ==
  ASSUME IInv, TxInv, StoreInv, NEW t \in Threads, CasesInserted(t)
  PROVE  Stage(t)'
<1> DEFINE r == cur[t]
           c == Conn(t)
           n == Len(Cases(r))
<1>1. /\ pc[t] = "insertCase" /\ pc'[t] = "commit" /\ r.op = "replace"
      /\ local[t].i > n
      /\ UNCHANGED <<ins, del, db, lost, cur>>
      /\ local[t].i \in Nat
  BY DEF CasesInserted, Goto, apiVars, IInv, WorkersOK, WorkersTypeOK, Local,
         ControlOK
<1>2. Conn(t)' = c
  BY <1>1 DEF Conn
<1>3. n \in Nat
  BY <1>1, BusyFacts DEF Cases, Request, Parts, IInv
<1>4. ASSUME c \notin lost, NEW q, q = r, NEW d, d = c, NEW m, m = n
      PROVE  Replaced(q, d, m)'
  <2>1. Replaced(q, d, local[t].i - 1) /\ Cases(r) = Elements(r, "problem_test_cases")
    BY <1>1, <1>4 DEF StoreInv, Stage, Replacing, In, Cases, Elements, PartOf, Registries
  <2>2. local[t].i - 1 = m
    BY <1>1, <1>3, <1>4, <2>1 DEF Replaced
  <2> QED
    BY <1>1, <2>1, <2>2
    DEF Replaced, RowsOf, Written, Fresh, Accepted, Elements, PartOf
<1>5. Replacing(t)'
  <2>1. \A q, d, m : /\ q = cur'[t] /\ d = c /\ m = Len(Cases(q))
                     /\ c \notin lost
                     => Replaced(q, d, m)'
    BY <1>1, <1>4
  <2>2. \A q, d, m : /\ q = cur'[t] /\ d = Conn(t)' /\ m = Len(Cases(q))'
                     /\ Conn(t)' \notin lost'
                     => Replaced(q, d, m)'
    BY <1>1, <1>2, <2>1 DEF Cases
  <2> QED BY <1>1, <2>2 DEF Replacing, In, Cases
<1> QED
  BY <1>1, <1>5
  DEF Stage, LabelFits, Starting, Deleting, Creating, In

-----------------------------------------------------------------------------
(* A creation.                                                             *)

LEMMA SectionsDomain == DOMAIN Sections = 1 .. 6
  BY DEF Sections

LEMMA ElementsSeq ==
  ASSUME NEW r \in Request, NEW k \in DOMAIN Sections
  PROVE  /\ Elements(r, Sections[k]) \in Seq(Element \cup {Malformed})
         /\ Len(Elements(r, Sections[k])) \in Nat
         /\ DOMAIN Elements(r, Sections[k]) =
              1 .. Len(Elements(r, Sections[k]))
<1>1. PartOf(Sections[k]) \in Parts
  BY SectionsDomain, SectionsFacts
<1>2. Elements(r, Sections[k]) \in Seq(Element \cup {Malformed})
  BY <1>1 DEF Elements, Request
<1> QED BY <1>2

LEMMA InsertProblemStage ==
  ASSUME IInv, TxInv, StoreInv, UniqueTitles,
         NEW t \in Threads, InsertProblem(t)
  PROVE  Stage(t)'
<1> DEFINE r == cur[t]
           c == Conn(t)
           row == ProblemRow(r, nextId)
<1>1. InTx(t) /\ pc[t] = "insertProblem" /\ r.op = "create" /\ nextId \in Nat
  BY DEF InsertProblem, InTx, TxLabels, IInv, WorkersOK, WorkersTypeOK,
         ControlOK
<1>2. Execute(c, {}, {row}, {<<"problems", nextId>>})
  BY DEF InsertProblem
<1>3. /\ ins'[c] = ins[c] \cup {row} /\ del'[c] = del[c] \ {row}
      /\ c \notin lost /\ UNCHANGED <<db, lost>>
  <2> HIDE DEF row
  <2> QED BY <1>1, <1>2, OwnExecute
<1>4. ins[c] = {} /\ del[c] = {}
  BY <1>1, <1>3 DEF StoreInv, Stage, Starting, In, NothingPending
<1>5. /\ cur' = cur /\ Conn(t)' = c /\ pc'[t] = "selectId"
      /\ nextId' = nextId + 1
  BY DEF InsertProblem, Goto, Conn, IInv, WorkersOK, WorkersTypeOK
<1>6. \A x \in db : ~ (x.table = "problems" /\ x.name = r.title)
  BY <1>4 DEF InsertProblem, SameTitle, Named, View
<1>7. row.table = "problems" /\ row.name = r.title
  BY DEF ProblemRow
<1>8. SameTitle(t)' = {row}
  <2> HIDE DEF row
  <2>1. View(c)' = db \cup {row}
    BY <1>3, <1>4, <1>5 DEF View
  <2>2. \A x : x \in SameTitle(t)' <=> x = row
    BY <1>5, <1>6, <1>7, <2>1 DEF SameTitle, Named
  <2>3. \A x \in SameTitle(t)' : x = row
    BY <2>2
  <2>4. row \in SameTitle(t)'
    BY <2>2
  <2> QED BY <2>3, <2>4
<1>9. ASSUME NEW p, p = nextId
      PROVE  /\ p \in 0 .. nextId' - 1
             /\ Inserted(t, p)'
             /\ ins'[c] = {ProblemRow(cur'[t], p)}
             /\ SameTitle(t)' = {ProblemRow(cur'[t], p)}
  <2>1. p \in 0 .. nextId' - 1
    BY <1>1, <1>5, <1>9
  <2>2. \A x \in db' : x.pid # p
    BY <1>1, <1>3, <1>9 DEF StoreInv, IdsGiven, IInv, ApisOK, ApisTypeOK, Row
  <2>3. Inserted(t, p)'
    BY <1>3, <1>4, <1>5, <2>1, <2>2 DEF Inserted
  <2> QED BY <1>3, <1>4, <1>5, <1>8, <1>9, <2>1, <2>3
<1>10. Creating(t)'
  <2>1. \E p \in 0 .. nextId' - 1 :
          /\ Inserted(t, p)'
          /\ ins'[c] = {ProblemRow(cur'[t], p)}
          /\ SameTitle(t)' = {ProblemRow(cur'[t], p)}
    BY <1>9
  <2> QED BY <1>5, <2>1 DEF Creating, In, ProblemRow
<1> QED
  BY <1>5, <1>10 DEF Stage, LabelFits, Starting, Deleting, Replacing, In

LEMMA SelectIdStage ==
  ASSUME IInv, TxInv, StoreInv, NEW t \in Threads, SelectId(t)
  PROVE  Stage(t)'
<1> DEFINE r == cur[t]
           c == Conn(t)
<1>1. pc[t] = "selectId" /\ c \notin lost /\ local[t] = NoLocal
  BY DEF SelectId, IInv, WorkersOK, ControlOK
<1>2. PICK p \in 0 .. nextId - 1 :
        /\ Inserted(t, p)
        /\ ins[c] = {ProblemRow(r, p)}
        /\ SameTitle(t) = {ProblemRow(r, p)}
  BY <1>1 DEF StoreInv, Stage, Creating, In
<1>3. /\ UNCHANGED <<ins, del, db, lost, cur, nextId>>
      /\ pc'[t] = "section"
      /\ local'[t] = [NoLocal EXCEPT !.problem_id = p]
  <2>1. \A row \in SameTitle(t) : row.pid = p
    BY <1>2 DEF ProblemRow
  <2> QED
    BY <1>1, <2>1
    DEF SelectId, Goto, apiVars, IInv, WorkersOK, WorkersTypeOK
<1>4. Conn(t)' = c
  BY <1>3 DEF Conn
<1>5. /\ local'[t].problem_id = p /\ local'[t].sec = 1 /\ local'[t].i = 1
  BY <1>3 DEF NoLocal
<1>6. Inserted(t, p)'
  BY <1>2, <1>3, <1>4 DEF Inserted
<1>7. Filled(t, p)'
  <2>1. \A k \in DOMAIN Sections : Reached(t, k)' = 0
    <3>1. \A k \in DOMAIN Sections : ~ (k < 1)
      BY DEF Sections
    <3> QED BY <1>5, <3>1 DEF Reached
  <2>2. \A q, s, m : Written(q, s, m, 0)' = {}
    BY DEF Written
  <2>3. ins'[c] = {ProblemRow(r, p)}
    BY <1>2, <1>3
  <2>4. \A k \in DOMAIN Sections : 0 <= Len(Elements(r, Sections[k]))
    BY <1>1, BusyFacts, ElementsSeq DEF IInv
  <2> HIDE DEF r, c
  <2>5. (ins[Conn(t)] = {ProblemRow(cur[t], p)} \cup
           UNION {Written(cur[t], Sections[k], p, Reached(t, k)) :
                    k \in DOMAIN Sections})'
    BY <1>3, <1>4, <2>1, <2>2, <2>3 DEF r, c, ProblemRow
  <2> QED
    BY <1>3, <1>4, <1>5, <2>1, <2>4, <2>5
    DEF Filled, Accepted, Elements, PartOf, Sections, r
<1> QED
  BY <1>3, <1>5, <1>6, <1>7
  DEF Stage, LabelFits, Starting, Deleting, Replacing, Creating, In

LEMMA RegistrySections ==
  /\ \A j, k \in DOMAIN Sections : Sections[j] = Sections[k] => j = k
  /\ \A k \in DOMAIN Sections : Sections[k] # "problems"
<1>1. \A k \in 1 .. 6 : \/ k = 1 /\ Sections[k] = "problem_sample_IO"
                        \/ k = 2 /\ Sections[k] = "tags"
                        \/ k = 3 /\ Sections[k] = "problem_tags"
                        \/ k = 4 /\ Sections[k] = "problem_test_cases"
                        \/ k = 5 /\ Sections[k] = "roles"
                        \/ k = 6 /\ Sections[k] = "problem_role"
  BY DEF Sections
<1> QED BY <1>1, SectionsDomain

\* A registry name that the transaction does not see is new: neither stored
\* nor an earlier element.
LEMMA UnseenIsFresh ==
  ASSUME NEW t \in Threads, NEW p, Inserted(t, p), Filled(t, p),
         NEW k \in DOMAIN Sections, k = local[t].sec,
         Sections[k] \in Registries, NEW n \in Nat \ {0}, n = local[t].i
  PROVE  Fresh(cur[t], Sections[k], n) <=>
           Named(View(Conn(t)), Sections[k],
                 Elements(cur[t], Sections[k])[n].name) = {}
<1> DEFINE r == cur[t]
           c == Conn(t)
           s == Sections[k]
           es == Elements(r, s)
<1>1. View(c) = db \cup ins[c]
  BY DEF Inserted, View
<1>2. Reached(t, k) = n - 1
  BY SectionsDomain DEF Reached
<1>3. ASSUME Fresh(r, s, n), NEW row \in View(c), row.table = s,
             row.name = es[n].name
      PROVE  FALSE
  <2>1. row \in ins[c]
    BY <1>1, <1>3 DEF Fresh
  <2>2. row # ProblemRow(r, p)
    BY <1>3, RegistrySections DEF ProblemRow
  <2>3. PICK j \in DOMAIN Sections :
          row \in Written(r, Sections[j], p, Reached(t, j))
    BY <2>1, <2>2 DEF Filled
  <2>4. j = k
    BY <1>3, <2>3, WrittenRows, RegistrySections
  <2>5. PICK m \in 1 .. n - 1 : row.name = es[m].name
    BY <1>2, <2>3, <2>4 DEF Written, RowFor
  <2> QED BY <1>3, <2>5 DEF Fresh
<1>4. ASSUME Named(View(c), s, es[n].name) = {}
      PROVE  Fresh(r, s, n)
  <2>1. \A row \in db : row.table = s => row.name # es[n].name
    BY <1>1, <1>4 DEF Named
  <2>2. \A j \in 1 .. n - 1 : Named(View(c), s, es[j].name) # {}
    BY <1>2 DEF Filled
  <2> QED BY <1>4, <2>1, <2>2 DEF Fresh
<1> HIDE DEF r, c, s, es
<1>5. Fresh(r, s, n) => Named(View(c), s, es[n].name) = {}
  BY <1>3 DEF Named
<1> QED BY <1>4, <1>5 DEF r, c, s, es

LEMMA InsertElementStage ==
  ASSUME IInv, TxInv, StoreInv, NEW t \in Threads, InsertElement(t)
  PROVE  Stage(t)'
<1> DEFINE r == cur[t]
           c == Conn(t)
           p == local[t].problem_id
           k == local[t].sec
           n == local[t].i
           s == Sections[k]
           e == Elements(r, s)[n]
<1>1. /\ InTx(t) /\ pc[t] = "section" /\ r.op = "create" /\ r \in Request
      /\ n \in Nat \ {0} /\ k \in DOMAIN Sections
      /\ n <= Len(Elements(r, s))
  BY SectionsDomain, SectionsFacts, BusyFacts
  DEF InsertElement, AtElement, SectionElements, Section, InTx, TxLabels,
      IInv, WorkersOK, WorkersTypeOK, ControlOK, Local
<1>2. Execute(c, {}, NewRows(t), SectionScope(t))
  BY DEF InsertElement
<1>3. /\ ins'[c] = ins[c] \cup NewRows(t) /\ del'[c] = del[c] \ NewRows(t)
      /\ c \notin lost /\ UNCHANGED <<db, lost>>
  BY <1>1, <1>2, OwnExecute
<1>4. /\ cur' = cur /\ Conn(t)' = c /\ pc' = pc /\ nextId' = nextId
      /\ local'[t].problem_id = p /\ local'[t].sec = k
      /\ local'[t].i = n + 1
  BY <1>1
  DEF InsertElement, Conn, IInv, WorkersOK, WorkersTypeOK, Local
<1>5. Inserted(t, p) /\ Filled(t, p)
  BY <1>1, <1>3 DEF StoreInv, Stage, Creating, In
<1>6. NewRows(t) = IF s \in Registries => Fresh(r, s, n)
                   THEN {RowFor(r, s, p, n, e)} ELSE {}
  <2>1. s \in Registries =>
          (Fresh(r, s, n) <=> Named(View(c), s, e.name) = {})
    BY <1>1, <1>5, UnseenIsFresh
  <2> QED
    BY <2>1 DEF NewRows, Section, SectionElements
<1>7. /\ e # Malformed
      /\ s = "problem_test_cases" => e.val >= 0
  <2>1. e # Malformed
    BY DEF InsertElement, Refused, Section, SectionElements
  <2>2. e \in Element \cup {Malformed}
    BY <1>1, ElementsSeq
  <2>3. e.val \in Int
    BY <2>1, <2>2 DEF Element
  <2>4. s = "problem_test_cases" => ~ (e.val < 0)
    BY <2>1 DEF InsertElement, Refused, Section, SectionElements
  <2> QED BY <2>1, <2>3, <2>4
<1>8. ASSUME NEW j \in DOMAIN Sections
      PROVE  /\ j = k => Reached(t, j) = n - 1 /\ Reached(t, j)' = n
             /\ j # k => Reached(t, j)' = Reached(t, j)
  <2>1. j \in 1 .. 6 /\ (n + 1) - 1 = n
    BY <1>1, SectionsDomain
  <2>2. Len(Elements(cur[t], Sections[j]))' = Len(Elements(r, Sections[j]))
    BY <1>4 DEF Elements
  <2> QED BY <1>4, <2>1, <2>2 DEF Reached
<1>9. Inserted(t, p) => \A q : q = p => Inserted(t, q)'
  BY <1>3, <1>4, <1>5 DEF Inserted
<1>10. ASSUME NEW q, q = p
       PROVE  Filled(t, q)'
  <2>1. \A x, z, y, m : Written(x, z, y, m)' = Written(x, z, y, m)
    BY <1>3 DEF Written, Fresh, RowFor, Elements, PartOf
  <2>2. n - 1 \in Nat /\ (n - 1) + 1 = n
    BY <1>1
  <2>3. Written(r, s, q, n) = Written(r, s, q, n - 1) \cup NewRows(t)
    <3>1. Added(r, s, q, n) = NewRows(t)
      BY <1>6, <1>10 DEF Added
    <3>2. ASSUME NEW m \in Nat, m + 1 = n
          PROVE  Written(r, s, q, n) =
                   Written(r, s, q, m) \cup Added(r, s, q, n)
      BY <3>2, WrittenNext
    <3> QED BY <2>2, <3>1, <3>2
  <2>4. ASSUME NEW j \in DOMAIN Sections
        PROVE  Written(r, Sections[j], q, Reached(t, j)') =
                 Written(r, Sections[j], q, Reached(t, j)) \cup
                   (IF j = k THEN NewRows(t) ELSE {})
    BY <1>8, <2>3
  <2>5. ins'[c] = {ProblemRow(r, q)} \cup
                    UNION {Written(r, Sections[j], q, Reached(t, j)') :
                             j \in DOMAIN Sections}
    <3>1. ins[c] = {ProblemRow(r, q)} \cup
                     UNION {Written(r, Sections[j], q, Reached(t, j)) :
                              j \in DOMAIN Sections}
      BY <1>5, <1>10 DEF Filled
    <3> DEFINE old(j) == Written(r, Sections[j], q, Reached(t, j))
               new(j) == Written(r, Sections[j], q, Reached(t, j)')
    <3>2. \A j \in DOMAIN Sections :
            new(j) = old(j) \cup (IF j = k THEN NewRows(t) ELSE {})
      BY <2>4
    <3>3. ins[c] = {ProblemRow(r, q)} \cup UNION {old(j) : j \in DOMAIN Sections}
      BY <3>1
    <3> HIDE DEF old, new
    <3>4. ins'[c] = {ProblemRow(r, q)} \cup UNION {new(j) : j \in DOMAIN Sections}
      BY <1>1, <1>3, <3>2, <3>3
    <3> QED BY <3>4 DEF new
  <2>6. ASSUME NEW j \in DOMAIN Sections
        PROVE  /\ Reached(t, j)' <= Len(Elements(r, Sections[j]))
               /\ Accepted(r, Sections[j], Reached(t, j)')
    <3>1. CASE j = k
      <4>1. Accepted(r, s, n - 1)
        BY <1>1, <1>5, <1>8 DEF Filled
      <4>2. \A m \in 1 .. n : m \in 1 .. n - 1 \/ m = n
        BY <1>1
      <4>3. Accepted(r, s, n)
        BY <1>7, <4>1, <4>2 DEF Accepted
      <4> QED BY <1>1, <1>8, <3>1, <4>3
    <3>2. CASE j # k
      BY <1>5, <1>8, <3>2 DEF Filled
    <3> QED BY <3>1, <3>2
  <2>7. ASSUME NEW j \in DOMAIN Sections, Sections[j] \in Registries,
               NEW m \in 1 .. Reached(t, j)'
        PROVE  Named(View(c)', Sections[j], Elements(r, Sections[j])[m].name)
                 # {}
    <3>1. View(c)' = View(c) \cup NewRows(t)
      BY <1>3, <1>4, <1>5 DEF View, Inserted
    <3>2. CASE j = k /\ m = n
      <4>1. CASE Fresh(r, s, n)
        <5>1. RowFor(r, s, p, n, e) \in View(c)'
          BY <1>6, <3>1, <4>1
        <5> QED BY <3>2, <5>1 DEF Named, RowFor
      <4>2. CASE ~ Fresh(r, s, n)
        <5>1. Named(View(c), s, e.name) # {}
          BY <1>1, <1>5, <2>7, <3>2, <4>2, UnseenIsFresh
        <5> QED BY <3>1, <3>2, <5>1 DEF Named
      <4> QED BY <4>1, <4>2
    <3>3. CASE ~ (j = k /\ m = n)
      <4>1. m \in 1 .. Reached(t, j)
        BY <1>1, <1>8, <2>7, <3>3
      <4>2. Named(View(c), Sections[j], Elements(r, Sections[j])[m].name) # {}
        BY <1>5, <2>7, <4>1 DEF Filled
      <4> QED BY <3>1, <4>2 DEF Named
    <3> QED BY <3>2, <3>3
  <2> HIDE DEF r, c, s, e, k, n
  <2>8. local'[t].sec > 4 => Total(Elements(r, "problem_test_cases")) = FullScore
    BY <1>4, <1>5 DEF Filled, r, k
  <2>9. /\ (ins[Conn(t)])' = ins'[c]
        /\ cur'[t] = r
        /\ View(Conn(t))' = View(c)'
    BY <1>4 DEF r, c
  <2>10. (ins[Conn(t)] = {ProblemRow(cur[t], q)} \cup
            UNION {Written(cur[t], Sections[j], q, Reached(t, j)) :
                     j \in DOMAIN Sections})'
    BY <2>1, <2>5, <2>9 DEF ProblemRow
  <2>11. (\A j \in DOMAIN Sections :
            /\ Reached(t, j) <= Len(Elements(cur[t], Sections[j]))
            /\ Accepted(cur[t], Sections[j], Reached(t, j)))'
    BY <2>6, <2>9 DEF Accepted, Elements
  <2>12. (\A j \in DOMAIN Sections : Sections[j] \in Registries =>
            \A m \in 1 .. Reached(t, j) :
              Named(View(Conn(t)), Sections[j],
                    Elements(cur[t], Sections[j])[m].name) # {})'
    <3> DEFINE seen == View(Conn(t))
    <3>1. seen' = View(c)' /\ cur'[t] = r
      BY <2>9
    <3> HIDE DEF seen
    <3>2. (\A j \in DOMAIN Sections : Sections[j] \in Registries =>
             \A m \in 1 .. Reached(t, j) :
               Named(seen, Sections[j], Elements(cur[t], Sections[j])[m].name)
                 # {})'
      BY <2>7, <3>1 DEF Named, Elements
    <3> QED BY <3>2 DEF seen
  <2>13. (local[t].sec > 4
            => Total(Elements(cur[t], "problem_test_cases")) = FullScore)'
    BY <2>8, <2>9 DEF Elements
  <2> QED BY <2>10, <2>11, <2>12, <2>13 DEF Filled
<1>11. Creating(t)'
  BY <1>1, <1>4, <1>5, <1>9, <1>10 DEF Creating, In
<1> QED
  BY <1>1, <1>4, <1>11
  DEF Stage, LabelFits, Starting, Deleting, Replacing, In

LEMMA NextSectionStage ==
  ASSUME IInv, TxInv, StoreInv, NEW t \in Threads, NextSection(t),
         Conn(t) \notin lost
  PROVE  Stage(t)'
<1> DEFINE r == cur[t]
           c == Conn(t)
           p == local[t].problem_id
           k == local[t].sec
           n == local[t].i
<1>1. /\ pc[t] = "section" /\ r.op = "create" /\ r \in Request
      /\ n \in Nat \ {0} /\ k \in DOMAIN Sections /\ k \in 1 .. 6
      /\ n - 1 <= Len(Elements(r, Sections[k])) => n - 1 = Len(Elements(r, Sections[k]))
  <2>1. /\ pc[t] = "section" /\ r.op = "create" /\ r \in Request
        /\ n \in Nat \ {0} /\ k \in DOMAIN Sections /\ k \in 1 .. 6
    BY SectionsDomain, SectionsFacts, BusyFacts
    DEF NextSection, IInv, WorkersOK, WorkersTypeOK, ControlOK, Local
  <2>2. ~ (n <= Len(Elements(r, Sections[k])))
    BY <2>1 DEF NextSection, AtElement, SectionElements, Section
  <2>3. Len(Elements(r, Sections[k])) \in Nat
    BY <2>1, ElementsSeq
  <2> QED BY <2>1, <2>2, <2>3
<1>2. /\ UNCHANGED <<ins, del, db, lost, cur, nextId>>
      /\ local'[t].problem_id = p /\ local'[t].sec = k + 1
      /\ local'[t].i = 1
      /\ pc'[t] = IF k = 6 THEN "commit" ELSE "section"
  BY <1>1, SectionsFacts
  DEF NextSection, Goto, apiVars, IInv, WorkersOK, WorkersTypeOK, Local
<1>3. Conn(t)' = c
  BY <1>2 DEF Conn
<1>4. Inserted(t, p) /\ Filled(t, p)
  BY <1>1 DEF StoreInv, Stage, Creating, In
<1>5. ASSUME NEW j \in DOMAIN Sections
      PROVE  Reached(t, j)' = Reached(t, j)
  <2>1. j \in 1 .. 6
    BY SectionsDomain
  <2>2. Reached(t, k) = Len(Elements(r, Sections[k]))
    <3>1. Reached(t, k) = n - 1
      BY <1>1 DEF Reached
    <3> QED BY <1>1, <1>4, <3>1 DEF Filled
  <2>3. Len(Elements(cur[t], Sections[j]))' = Len(Elements(r, Sections[j]))
    BY <1>2 DEF Elements
  <2>4. CASE j < k
    <3>1. j < k + 1
      BY <1>1, <2>1, <2>4
    <3> QED BY <1>2, <2>3, <2>4, <3>1 DEF Reached
  <2>5. CASE j = k
    <3>1. j < k + 1
      BY <1>1, <2>1, <2>5
    <3> QED BY <1>2, <2>2, <2>3, <2>5, <3>1 DEF Reached
  <2>6. CASE j > k
    <3>1. ~ (j < k + 1) /\ ~ (j < k) /\ j # k
      BY <1>1, <2>1, <2>6
    <3> QED BY <1>2, <3>1 DEF Reached
  <2> QED BY <1>1, <2>1, <2>4, <2>5, <2>6
<1>6. k + 1 > 4 => Total(Elements(r, "problem_test_cases")) = FullScore
  <2>1. CASE k = 4
    <3>1. Section(t) = "problem_test_cases"
      BY <2>1 DEF Section, Sections
    <3> QED BY <3>1 DEF NextSection, WrongTotal, SectionElements
  <2>2. CASE k # 4
    <3>1. k + 1 > 4 => k > 4
      BY <1>1, <2>2
    <3> QED BY <1>4, <3>1 DEF Filled
  <2> QED BY <2>1, <2>2
<1>7. ASSUME NEW q, q = p
      PROVE  Inserted(t, q)' /\ Filled(t, q)'
  <2>1. \A x, z, y, m : Written(x, z, y, m)' = Written(x, z, y, m)
    BY <1>2 DEF Written, Fresh, RowFor, Elements, PartOf
  <2>2. Inserted(t, q)'
    BY <1>2, <1>3, <1>4, <1>7 DEF Inserted
  <2> HIDE DEF r, c, k, n
  <2>3. (ins[Conn(t)])' = ins[Conn(t)] /\ View(Conn(t))' = View(Conn(t))
    BY <1>2, <1>3 DEF View, r, c
  <2>4. (ins[Conn(t)] = {ProblemRow(cur[t], q)} \cup
           UNION {Written(cur[t], Sections[j], q, Reached(t, j)) :
                    j \in DOMAIN Sections})'
    BY <1>2, <1>4, <1>5, <1>7, <2>1, <2>3 DEF Filled, ProblemRow
  <2>5. (\A j \in DOMAIN Sections :
           /\ Reached(t, j) <= Len(Elements(cur[t], Sections[j]))
           /\ Accepted(cur[t], Sections[j], Reached(t, j)))'
    BY <1>2, <1>4, <1>5 DEF Filled, Accepted, Elements
  <2>6. (\A j \in DOMAIN Sections : Sections[j] \in Registries =>
           \A m \in 1 .. Reached(t, j) :
             Named(View(Conn(t)), Sections[j],
                   Elements(cur[t], Sections[j])[m].name) # {})'
    <3> DEFINE seen == View(Conn(t))
    <3>1. seen' = seen
      BY <2>3
    <3>2. \A j \in DOMAIN Sections : Sections[j] \in Registries =>
            \A m \in 1 .. Reached(t, j) :
              Named(seen, Sections[j], Elements(cur[t], Sections[j])[m].name)
                # {}
      BY <1>4 DEF Filled
    <3> HIDE DEF seen
    <3>3. (\A j \in DOMAIN Sections : Sections[j] \in Registries =>
             \A m \in 1 .. Reached(t, j) :
               Named(seen, Sections[j], Elements(cur[t], Sections[j])[m].name)
                 # {})'
      BY <1>2, <1>5, <3>1, <3>2 DEF Named, Elements
    <3> QED BY <3>3 DEF seen
  <2>7. (local[t].sec > 4
           => Total(Elements(cur[t], "problem_test_cases")) = FullScore)'
    BY <1>2, <1>6 DEF Elements, r, k
  <2> QED BY <2>2, <2>4, <2>5, <2>6, <2>7 DEF Filled
<1>8. pc'[t] = "commit" => local'[t].sec = Len(Sections) + 1
  BY <1>2, SectionsFacts
<1>9. Creating(t)'
  BY <1>2, <1>7, <1>8 DEF Creating, In
<1> QED
  BY <1>1, <1>2, <1>9
  DEF Stage, LabelFits, Starting, Deleting, Replacing, In

LEMMA StageOwn ==
  ASSUME IInv, TxInv, ApiInsertsNothing, StoreInv, UniqueTitles,
         NEW t \in Threads, Step(t)
  PROVE  Stage(t)'
<1>1. CASE pc'[t] \notin Busy
  BY <1>1, StageQuiet
<1>2. CASE pc'[t] \in Busy
  <2>1. CASE NextSection(t)
    <3>1. CASE Conn(t) \notin lost
      BY <2>1, <3>1, NextSectionStage
    <3>2. CASE Conn(t) \in lost
      <4>1. Conn(t)' \in lost' /\ cur'[t].op = "create" /\ pc'[t] # "purge"
        BY <2>1, <3>2
        DEF NextSection, Goto, apiVars, Conn, IInv, WorkersOK, WorkersTypeOK,
            ControlOK
      <4>2. \A labels : ~ In(t, labels)'
        BY <4>1 DEF In
      <4> QED
        BY <4>1, <4>2
        DEF Stage, LabelFits, Starting, Deleting, Replacing, Creating
    <3> QED BY <3>1, <3>2
  <2>2. CASE Begin(t)
    BY <2>2, BeginStage
  <2>3. CASE InsertProblem(t) \/ SelectId(t) \/ InsertElement(t)
    BY <2>3, InsertProblemStage, SelectIdStage, InsertElementStage
  <2>4. CASE Purge(t)
    BY <2>4, PurgeStage
  <2>5. CASE Wipe(t) \/ InsertCase(t) \/ CasesInserted(t)
    BY <2>5, WipeStage, InsertCaseStage, CasesInsertedStage
  <2> QED BY <1>2, <2>1, <2>2, <2>3, <2>4, <2>5, BusySteps
<1> QED BY <1>1, <1>2

-----------------------------------------------------------------------------
(* The invariant holds in every reachable state.                           *)

\* The invariants it rests on.
PanelInv ==
  /\ IInv /\ TxInv /\ ServedInv /\ StoredByApplied
  /\ ApiInsertsNothing
  /\ StoreInv

LEMMA StoreInvInit == Init => StoreInv
<1> SUFFICES ASSUME Init PROVE StoreInv
  OBVIOUS
<1>1. /\ \A c \in Conns : ins[c] = {} /\ del[c] = {} /\ locks[c] = {}
      /\ \A t \in Threads : pc[t] = "idle" /\ cur[t] = NoRequest
      /\ nextId = FirstNewId /\ db = InitialRows
  BY DEF Init, ApisInit, WorkersInit
<1>2. PendingLocked /\ LocksApart
  BY <1>1 DEF PendingLocked, LocksApart
<1>4. IdsGiven
  <2>1. \A row \in InitialRows : row.pid < FirstNewId
    BY FirstIdAssumption
  <2>2. nextId >= FirstNewId
    BY <1>1, FirstIdAssumption
  <2> QED BY <1>1, <2>1, <2>2 DEF IdsGiven
<1>5. \A t \in Threads : Stage(t)
  BY <1>1 DEF Stage, LabelFits, Starting, Deleting, Replacing, Creating, In
<1> QED BY <1>2, <1>4, <1>5 DEF StoreInv

LEMMA StoreInvStep ==
  ASSUME PanelInv, Orderly, UniqueTitles, ReplacesGivenIds,
         NEW t \in Threads, Step(t)
  PROVE  StoreInv'
<1>1. PendingLocked' /\ LocksApart'
  BY LocksStep DEF PanelInv, StoreInv
<1>2. IdsGiven'
  BY IdsStep DEF PanelInv
<1>3. \A u \in Threads : Stage(u)'
  BY StageElsewhere, StageOwn DEF PanelInv
<1> QED BY <1>1, <1>2, <1>3 DEF StoreInv

LEMMA StoreInvFault ==
  ASSUME PanelInv, Fault
  PROVE  StoreInv'
<1>1. CASE \E c \in MayLose : Lose(c) /\ UNCHANGED workerVars
  <2>1. PICK c \in Conns : Lose(c) /\ UNCHANGED workerVars
    BY <1>1, MayLoseAssumption
  <2>2. PendingLocked' /\ LocksApart'
    BY <2>1, UnlockingOK DEF Lose, Discard, PanelInv, StoreInv
  <2>3. UNCHANGED <<db, nextId, pc, cur, local>> /\ lost' = lost \cup {c}
    BY <2>1 DEF Lose, Discard, workerVars
  <2>4. IdsGiven'
    BY <2>3 DEF IdsGiven, PanelInv, StoreInv
  <2>5. \A d \in Conns : d # c => /\ ins'[d] = ins[d]
                                  /\ del'[d] = del[d]
                                  /\ locks'[d] = locks[d]
    BY <2>1 DEF Lose, Discard, EndWork, PanelInv, IInv, ApisOK, ApisTypeOK
  <2>6. ASSUME NEW u \in Threads
        PROVE  Stage(u)'
    <3>1. Conn(u) \notin lost' =>
            /\ Conn(u) \notin lost
            /\ ins'[Conn(u)] = ins[Conn(u)]
            /\ del'[Conn(u)] = del[Conn(u)]
            /\ locks'[Conn(u)] = locks[Conn(u)]
            /\ StoredAside(Conn(u))
      BY <2>3, <2>5, TwoConns DEF StoredAside
    <3> QED BY <2>3, <3>1, StageStays DEF PanelInv
  <2> QED BY <2>2, <2>4, <2>6 DEF StoreInv
<1>2. CASE Restart
  <2>1. /\ \A c \in Conns : ins'[c] = {} /\ del'[c] = {} /\ locks'[c] = {}
        /\ \A t \in Threads : pc'[t] = "idle" /\ cur'[t] = NoRequest
        /\ UNCHANGED <<db, nextId>>
    BY <1>2 DEF Restart, Reconnect
  <2>2. PendingLocked' /\ LocksApart'
    BY <2>1 DEF PendingLocked, LocksApart
  <2>3. IdsGiven'
    BY <2>1 DEF IdsGiven, PanelInv, StoreInv
  <2>4. \A t \in Threads : Stage(t)'
    BY <2>1 DEF Stage, LabelFits, Starting, Deleting, Replacing, Creating, In
  <2> QED BY <2>2, <2>3, <2>4 DEF StoreInv
<1> QED BY <1>1, <1>2 DEF Fault

LEMMA StoreInvStutter ==
  ASSUME PanelInv, UNCHANGED vars
  PROVE  StoreInv'
<1>1. UNCHANGED <<ins, del, locks, db, lost, cur, pc, local, nextId>>
  BY DEF vars, apiVars, workerVars
<1>2. PendingLocked' /\ LocksApart' /\ IdsGiven'
  BY <1>1 DEF PendingLocked, LocksApart, IdsGiven, PanelInv, StoreInv
<1>3. \A u \in Threads : Stage(u)'
  BY <1>1, StageStays DEF StoredAside, PanelInv
<1> QED BY <1>2, <1>3 DEF StoreInv

LEMMA PanelInvariance ==
  ASSUME Orderly, UniqueTitles, ReplacesGivenIds
  PROVE  Spec => []PanelInv
<1>1. Init => ApiInsertsNothing /\ StoreInv
  BY StoreInvInit DEF Init, ApisInit, ApiInsertsNothing, Conns
<1>2. PanelInv /\ [Next]_vars => ApiInsertsNothing' /\ StoreInv'
  <2> SUFFICES ASSUME PanelInv, [Next]_vars
               PROVE  ApiInsertsNothing' /\ StoreInv'
    OBVIOUS
  <2>1. ApiInsertsNothing'
    BY ApiInsertsNothingNext DEF PanelInv
  <2>2. CASE \E t \in Threads : Step(t)
    BY <2>1, <2>2, StoreInvStep
  <2>3. CASE Fault
    BY <2>1, <2>3, StoreInvFault
  <2>4. CASE UNCHANGED vars
    BY <2>1, <2>4, StoreInvStutter
  <2> QED BY <2>2, <2>3, <2>4 DEF Next, Quiet
<1> DEFINE Rest == IInv /\ TxInv /\ ServedInv /\ StoredByApplied
<1>3. Spec => []Rest
  BY Invariance, TxInvariance, ServedInvariance, StoredInvariance, PTL
<1>4. PanelInv <=> Rest /\ ApiInsertsNothing /\ StoreInv
  BY DEF PanelInv
<1> HIDE DEF Rest
<1> QED BY <1>1, <1>2, <1>3, <1>4, PTL DEF Spec

-----------------------------------------------------------------------------
(* A commit is a step of ProblemStore.                                     *)

LEMMA StoreTotal ==
  ASSUME NEW es
  PROVE  Store!Total(es) = Total(es)
  BY DEF Store!Total, Total, Store!MapThenSumSet, MapThenSumSet,
         Store!MapThenFoldSet, MapThenFoldSet

\* The two modules name the same data.
LEMMA StoreNames ==
  /\ Store!Sections = Sections
  /\ Store!Registries = Registries
  /\ Store!Parts = Parts
  /\ Store!FullScore = FullScore
  /\ \A r, s : Store!Elements(r, s) = Elements(r, s)
  /\ \A r, s, p, i, e : Store!RowFor(r, s, p, i, e) = RowFor(r, s, p, i, e)
  /\ \A r, p : Store!ProblemRow(r, p) = ProblemRow(r, p)
  /\ \A rows, s, p : Store!RowsOf(rows, s, p) = RowsOf(rows, s, p)
<1>1. Store!Registries = Registries
  BY DEF Store!Registries, Registries
<1>2. \A s : Store!PartOf(s) = PartOf(s)
  BY DEF Store!PartOf, PartOf
<1> QED
  BY <1>1, <1>2
  DEF Store!Sections, Sections, Store!Parts, Parts, Store!FullScore, FullScore,
      Store!Elements, Elements, Store!RowFor, RowFor, Store!ProblemRow,
      ProblemRow, Store!RowsOf, RowsOf

\* What a section has written in the end is what it is to write.
LEMMA SectionRowsWritten ==
  ASSUME NEW r, NEW s, NEW p, Elements(r, s) \in Seq(Element \cup {Malformed})
  PROVE  Store!SectionRows(r, s, p) = Written(r, s, p, Len(Elements(r, s)))
<1>1. DOMAIN Elements(r, s) = 1 .. Len(Elements(r, s))
  OBVIOUS
<1>2. \A j : (/\ Elements(r, s)[j].name \notin
                   {row.name : row \in {x \in db : x.table = s}}
              /\ \A i \in 1 .. j - 1 :
                   Elements(r, s)[i].name # Elements(r, s)[j].name)
             <=> Fresh(r, s, j)
  BY DEF Fresh
<1> QED
  BY <1>1, <1>2, StoreNames DEF Store!SectionRows, Written

LEMMA DeleteCommits ==
  ASSUME PanelInv, NEW t \in Threads, Commit(t), Conn(t) = "api"
  PROVE  Store!Delete(cur[t])
<1> DEFINE r == cur[t]
<1>1. r.op = "delete" /\ Removed(r, Len(DeleteTables)) /\ db' = db \ del["api"]
  BY DeletionCommits DEF PanelInv
<1>2. \A row \in db : row \in Row
  BY DEF PanelInv, IInv, ApisOK, ApisTypeOK
<1>3. ASSUME NEW row \in db
      PROVE  row \in del["api"] <=> ~ (row.table \in Registries \/ row.pid # r.pid)
  <2>1. row.table \in Registries \/ \E k \in 1 .. 9 : row.table = DeleteTables[k]
    BY <1>2, DeleteTablesFacts DEF Row, Tables
  <2>2. ASSUME NEW k \in 1 .. 9, row.table = DeleteTables[k], row.pid = r.pid
        PROVE  row \in del["api"]
    BY <1>1, <2>2, DeleteTablesFacts DEF Removed, RowsOf
  <2> QED BY <1>1, <2>1, <2>2 DEF Removed
<1> HIDE DEF r
<1>4. db' = {row \in db : row.table \in Registries \/ row.pid # r.pid}
  BY <1>1, <1>3
<1> QED BY <1>1, <1>4, StoreNames DEF Store!Delete, r

LEMMA ReplaceCommits ==
  ASSUME PanelInv, NEW t \in Threads, Commit(t), cur[t].op = "replace"
  PROVE  Store!Replace(cur[t])
<1> DEFINE r == cur[t]
           c == Conn(t)
           s == "problem_test_cases"
<1>1. /\ pc[t] = "commit" /\ c \notin lost /\ r \in Request
      /\ db' = (db \ del[c]) \cup ins[c]
  BY BusyFacts DEF Commit, CommitWork, Publish, View, PanelInv, IInv
<1>2. Replaced(r, c, Len(Cases(r)))
  BY <1>1 DEF PanelInv, StoreInv, Stage, Replacing, In
<1>3. /\ Cases(r) = Elements(r, s) /\ Elements(r, s) = r.parts[s]
      /\ Elements(r, s) \in Seq(Element \cup {Malformed})
  BY <1>1 DEF Cases, Elements, PartOf, Registries, Request, Parts
<1>4. ins[c] = Store!SectionRows(r, s, r.pid)
  BY <1>2, <1>3, SectionRowsWritten DEF Replaced
<1>5. db' = (db \ RowsOf(db, s, r.pid)) \cup Store!SectionRows(r, s, r.pid)
  <2>1. \A row \in db : row \in del[c] => row \in RowsOf(db, s, r.pid)
    BY <1>2 DEF Replaced, RowsOf
  <2>2. \A row \in RowsOf(db, s, r.pid) : row \in del[c] \/ row \in ins[c]
    BY <1>2 DEF Replaced
  <2> QED BY <1>1, <1>4, <2>1, <2>2
<1>6. Store!WellFormed(r, s)
  <2>1. DOMAIN Elements(r, s) = 1 .. Len(Elements(r, s))
    BY <1>3
  <2> QED BY <1>2, <1>3, <2>1 DEF Replaced, Accepted, Store!WellFormed
<1> QED BY <1>5, <1>6, StoreNames DEF Store!Replace

LEMMA CreateCommits ==
  ASSUME PanelInv, NEW t \in Threads, Commit(t), cur[t].op = "create"
  PROVE  \E row \in db' : Store!Create(cur[t], row.pid)
<1> DEFINE r == cur[t]
           c == Conn(t)
           p == local[t].problem_id
<1>1. /\ pc[t] = "commit" /\ c \notin lost /\ r \in Request
      /\ db' = (db \ del[c]) \cup ins[c]
  BY BusyFacts DEF Commit, CommitWork, Publish, View, PanelInv, IInv
<1>2. Inserted(t, p) /\ Filled(t, p) /\ local[t].sec = 7
  BY <1>1, SectionsFacts DEF PanelInv, StoreInv, Stage, Creating, In
<1>3. \A k \in DOMAIN Sections :
        /\ Reached(t, k) = Len(Elements(r, Sections[k]))
        /\ DOMAIN Elements(r, Sections[k]) = 1 .. Reached(t, k)
        /\ Accepted(r, Sections[k], Reached(t, k))
        /\ Store!SectionRows(r, Sections[k], p) =
             Written(r, Sections[k], p, Reached(t, k))
  <2>1. \A k \in DOMAIN Sections : k < 7
    BY SectionsDomain
  <2>2. \A k \in DOMAIN Sections : Reached(t, k) = Len(Elements(r, Sections[k]))
    BY <1>2, <2>1 DEF Reached
  <2>3. \A k \in DOMAIN Sections :
          /\ Elements(r, Sections[k]) \in Seq(Element \cup {Malformed})
          /\ DOMAIN Elements(r, Sections[k]) = 1 .. Len(Elements(r, Sections[k]))
    BY <1>1, ElementsSeq
  <2> QED BY <1>2, <2>2, <2>3, SectionRowsWritten DEF Filled
<1>4. db' = db \cup {ProblemRow(r, p)}
               \cup UNION {Store!SectionRows(r, Sections[k], p) :
                             k \in DOMAIN Sections}
  BY <1>1, <1>2, <1>3 DEF Inserted, Filled
<1>5. ASSUME NEW part \in Parts
      PROVE  Store!WellFormed(r, part)
  <2>1. PICK k \in DOMAIN Sections : PartOf(Sections[k]) = part
    <3>1. /\ PartOf(Sections[1]) = "problem_sample_IO"
          /\ PartOf(Sections[3]) = "problem_tags"
          /\ PartOf(Sections[4]) = "problem_test_cases"
          /\ PartOf(Sections[6]) = "problem_roles"
      BY DEF Sections, PartOf
    <3> QED BY <3>1, SectionsDomain DEF Parts
  <2> QED
    BY <1>3, <2>1 DEF Accepted, Elements, Store!WellFormed
<1>6. Store!FullyScored(r)
  <2>1. /\ 4 \in DOMAIN Sections /\ Sections[4] = "problem_test_cases"
        /\ Elements(r, "problem_test_cases") = r.parts["problem_test_cases"]
    BY DEF Sections, Elements, PartOf, Registries
  <2>2. Total(Elements(r, "problem_test_cases")) = FullScore
    BY <1>2 DEF Filled
  <2>3. \A i \in DOMAIN Elements(r, "problem_test_cases") :
          Elements(r, "problem_test_cases")[i].val >= 0
    BY <1>3, <2>1 DEF Accepted
  <2> QED
    BY <2>1, <2>2, <2>3, StoreNames, StoreTotal DEF Store!FullyScored
<1>7. \A row \in db : row.pid # p
  BY <1>2 DEF Inserted
<1>8. Store!Create(r, p)
  BY <1>4, <1>5, <1>6, <1>7, StoreNames DEF Store!Create
<1>9. ProblemRow(r, p) \in db' /\ ProblemRow(r, p).pid = p
  BY <1>4 DEF ProblemRow
<1> QED BY <1>8, <1>9

\* The request a commit applies takes effect for the first time.
LEMMA CommitImplements ==
  ASSUME PanelInv, NEW t \in Threads, Commit(t)
  PROVE  Store!Next
<1> DEFINE r == cur[t]
<1>1. /\ pc[t] = "commit" /\ r \in Requests /\ applied' = applied \cup {r}
      /\ LabelFits(t)
  BY BusyFacts DEF Commit, PanelInv, IInv, StoreInv, Stage
<1>2. r \in Requests \ applied
  BY <1>1 DEF PanelInv, ServedInv, AppliedOK
<1>3. CASE r.op = "create"
  BY <1>1, <1>2, <1>3, CreateCommits DEF Store!Next
<1>4. CASE r.op = "replace"
  BY <1>1, <1>2, <1>4, ReplaceCommits DEF Store!Next
<1>5. CASE r.op = "delete"
  BY <1>1, <1>2, <1>5, DeleteCommits DEF Store!Next, Conn, ConnOf
<1> QED BY <1>1, <1>3, <1>4, <1>5 DEF LabelFits

LEMMA NextImplements ==
  ASSUME PanelInv, Orderly, [Next]_vars
  PROVE  [Store!Next]_(Store!storeVars)
<1>1. CASE \E t \in Threads : Step(t)
  <2>1. PICK t \in Threads : Step(t)
    BY <1>1
  <2>2. CASE Commit(t)
    BY <2>2, CommitImplements
  <2>3. CASE ~ Commit(t)
    BY <2>1, <2>3, StoresAtCommit DEF Store!storeVars, PanelInv
  <2> QED BY <2>2, <2>3
<1>2. CASE Fault
  BY <1>2
  DEF Fault, Lose, Discard, Restart, Reconnect, workerVars, Store!storeVars
<1>3. CASE UNCHANGED vars
  BY <1>3 DEF vars, apiVars, workerVars, Store!storeVars
<1> QED BY <1>1, <1>2, <1>3 DEF Next, Quiet

\* The panel implements ProblemStore: whatever the workers interleave, and
\* whatever is lost or dies, the stored rows change by one whole request at a
\* time (commitTransaction), and no request takes effect twice.
THEOREM PanelImplementsStore ==
  ASSUME Orderly, UniqueTitles, ReplacesGivenIds
  PROVE  Spec => StoreSpec
<1>1. Init => Store!Init
  BY DEF Init, ApisInit, WorkersInit, Store!Init
<1>2. PanelInv /\ [Next]_vars => [Store!Next]_(Store!storeVars)
  BY NextImplements
<1>3. Spec => []PanelInv
  BY PanelInvariance
<1> QED BY <1>1, <1>2, <1>3, PTL DEF Spec, StoreSpec, Store!Spec

-----------------------------------------------------------------------------
(* What holds of ProblemStore holds of the panel's rows.                   *)

\* The rows of a section.
LEMMA SectionRow ==
  ASSUME NEW r, NEW s, NEW p, NEW row \in Store!SectionRows(r, s, p)
  PROVE  /\ row.table = s
         /\ row.by = r.id
         /\ s \notin Registries => row.pid = p
  BY StoreNames DEF Store!SectionRows, RowFor

LEMMA CreatedRow ==
  ASSUME NEW r, NEW p, Store!Create(r, p), NEW row \in db', row \notin db
  PROVE  /\ row.by = r.id
         /\ row.table \notin Registries => row.pid = p
<1>1. CASE row = ProblemRow(r, p)
  BY <1>1 DEF ProblemRow
<1>2. CASE row # ProblemRow(r, p)
  <2>1. PICK k \in DOMAIN Sections : row \in Store!SectionRows(r, Sections[k], p)
    BY <1>2, StoreNames DEF Store!Create
  <2> QED BY <2>1, SectionRow
<1> QED BY <1>1, <1>2

LEMMA CreateKeeps ==
  ASSUME NEW r, NEW p, Store!Create(r, p)
  PROVE  /\ \A row \in db : row \in db' /\ row.pid # p
         /\ ProblemRow(r, p) \in db'
  BY StoreNames DEF Store!Create

\* The test cases of any id, whether a problem has it or not, come from one
\* request.
CasesOfOne ==
  \A x, y \in db :
    (x.table = "problem_test_cases" /\ y.table = x.table /\ y.pid = x.pid)
      => x.by = y.by

StoredRowsInv == NoOrphans /\ CasesOfOne /\ PartsOfOwnProblem

LEMMA StoredRowsInit == WholeLeft /\ Init => StoredRowsInv
<1> SUFFICES ASSUME WholeLeft, Init PROVE StoredRowsInv
  OBVIOUS
<1>1. db = InitialRows
  BY DEF Init, ApisInit
<1>2. NoOrphans
  BY <1>1 DEF WholeLeft, NoOrphans, ProblemIds
<1>3. CasesOfOne
  BY <1>1 DEF WholeLeft, CasesOfOne, Registries
<1>4. PartsOfOwnProblem
  BY <1>1 DEF WholeLeft, PartsOfOwnProblem, Registries
<1> QED BY <1>2, <1>3, <1>4 DEF StoredRowsInv

LEMMA CreateKeepsRows ==
  ASSUME StoredRowsInv, StoredByApplied, NEW r \in Requests \ applied,
         NEW p, Store!Create(r, p)
  PROVE  StoredRowsInv'
<1>1. \A row \in db : row \in db' /\ row.pid # p /\ row.by # r.id
  BY CreateKeeps DEF StoredByApplied
<1>2. \A row \in db' : row \in db \/ (/\ row.by = r.id
                                      /\ row.table \notin Registries
                                           => row.pid = p)
  BY CreatedRow
<1>3. NoOrphans'
  <2>1. ProblemRow(r, p) \in db' /\ ProblemRow(r, p).table = "problems"
        /\ ProblemRow(r, p).pid = p
    BY CreateKeeps DEF ProblemRow
  <2> QED
    BY <1>1, <1>2, <2>1 DEF StoredRowsInv, NoOrphans, ProblemIds
<1>4. CasesOfOne'
  BY <1>1, <1>2 DEF StoredRowsInv, CasesOfOne, Registries
<1>5. PartsOfOwnProblem'
  BY <1>1, <1>2 DEF StoredRowsInv, PartsOfOwnProblem, Registries
<1> QED BY <1>3, <1>4, <1>5 DEF StoredRowsInv

LEMMA ReplaceKeepsRows ==
  ASSUME StoredRowsInv, StoredByApplied, NEW r \in Requests \ applied,
         Store!Replace(r)
  PROVE  StoredRowsInv'
<1> DEFINE s == "problem_test_cases"
<1>1. \A row \in db : row.by # r.id /\ (row \in db' \/ row.table = s)
  BY StoreNames DEF StoredByApplied, Store!Replace, RowsOf
<1>2. \A row \in db' :
        \/ row \in db /\ ~ (row.table = s /\ row.pid = r.pid)
        \/ row.by = r.id /\ row.table = s /\ row.pid = r.pid
  BY StoreNames, SectionRow DEF Store!Replace, RowsOf, Registries
<1>3. NoOrphans'
  <2>1. r.id \in Replacements
    BY DEF Store!Replace, Replacements
  <2> QED
    BY <1>1, <1>2, <2>1 DEF StoredRowsInv, NoOrphans, ProblemIds
<1>4. CasesOfOne'
  BY <1>2 DEF StoredRowsInv, CasesOfOne
<1>5. PartsOfOwnProblem'
  BY <1>1, <1>2 DEF StoredRowsInv, PartsOfOwnProblem
<1> QED BY <1>3, <1>4, <1>5 DEF StoredRowsInv

LEMMA DeleteKeepsRows ==
  ASSUME StoredRowsInv, NEW r, Store!Delete(r)
  PROVE  StoredRowsInv'
<1>1. \A row : row \in db' <=>
                 row \in db /\ (row.table \in Registries \/ row.pid # r.pid)
  BY StoreNames DEF Store!Delete
<1>2. NoOrphans'
  BY <1>1 DEF StoredRowsInv, NoOrphans, ProblemIds
<1>3. CasesOfOne' /\ PartsOfOwnProblem'
  BY <1>1 DEF StoredRowsInv, CasesOfOne, PartsOfOwnProblem
<1> QED BY <1>2, <1>3 DEF StoredRowsInv

LEMMA StoredRowsStep ==
  ASSUME StoredRowsInv, StoredByApplied, [Store!Next]_(Store!storeVars)
  PROVE  StoredRowsInv'
<1>1. CASE UNCHANGED Store!storeVars
  BY <1>1
  DEF Store!storeVars, StoredRowsInv, NoOrphans, ProblemIds, CasesOfOne,
      PartsOfOwnProblem
<1>2. CASE Store!Next
  BY <1>2, CreateKeepsRows, ReplaceKeepsRows, DeleteKeepsRows DEF Store!Next
<1> QED BY <1>1, <1>2

LEMMA StoredRowsInvariance ==
  ASSUME Orderly, UniqueTitles, ReplacesGivenIds, WholeLeft
  PROVE  Spec => []StoredRowsInv
<1>1. Init => StoredRowsInv
  BY StoredRowsInit
<1>2. PanelInv /\ StoredRowsInv /\ [Next]_vars => StoredRowsInv'
  BY NextImplements, StoredRowsStep DEF PanelInv
<1>3. Spec => []PanelInv
  BY PanelInvariance
<1> QED BY <1>1, <1>2, <1>3, PTL DEF Spec

\* No deletion leaves a part of a problem behind, and no creation attaches
\* one to a problem that is not there: every stored row, but those of a
\* replacement, belongs to a stored problem.
THEOREM NoOrphansLeft ==
  ASSUME Orderly, UniqueTitles, ReplacesGivenIds, WholeLeft
  PROVE  Spec => []NoOrphans
<1>1. StoredRowsInv => NoOrphans
  BY DEF StoredRowsInv
<1> QED BY <1>1, StoredRowsInvariance, PTL

\* "replace all the testcases" (testcases.hpp:46): however replacements,
\* creations and deletions overlap, the test cases of a problem all come
\* from one request.
THEOREM CasesOfOneRequest ==
  ASSUME Orderly, UniqueTitles, ReplacesGivenIds, WholeLeft
  PROVE  Spec => []CasesFromOneRequest
<1>1. StoredRowsInv => CasesFromOneRequest
  BY DEF StoredRowsInv, CasesOfOne, CasesFromOneRequest, CasesOf, RowsOf
<1> QED BY <1>1, StoredRowsInvariance, PTL

\* "Get the problem_id" (problems.hpp:154): with unique titles a creation
\* that looks its id up by title finds its own problem.
THEOREM PartsOfOwn ==
  ASSUME Orderly, UniqueTitles, ReplacesGivenIds, WholeLeft
  PROVE  Spec => []PartsOfOwnProblem
<1>1. StoredRowsInv => PartsOfOwnProblem
  BY DEF StoredRowsInv
<1> QED BY <1>1, StoredRowsInvariance, PTL

-----------------------------------------------------------------------------
(* Sums over finite sets.  A total is a sum taken in the order CHOOSE      *)
(* gives; it is the same for the elements of a body and for their rows.    *)

\* Induction on the naturals, by the least counterexample.
LEMMA CountingUp ==
  ASSUME NEW P, 0 \in P, \A n \in Nat : n \in P => n + 1 \in P
  PROVE  \A n \in Nat : n \in P
<1> SUFFICES ASSUME Nat \ P # {} PROVE FALSE
  OBVIOUS
<1>1. PICK n \in Nat \ P : \A m \in Nat \ P : ~ (m < n)
  <2> DEFINE R == OpToRel(<, Nat)
             T == Nat \ P
  <2>1. IsWellFoundedOn(R, Nat)
    BY NatLessThanWellFounded
  <2>2. T \subseteq Nat /\ T # {}
    OBVIOUS
  <2> HIDE DEF R, T
  <2>3. \E x \in T : \A y \in T : ~ (<<y, x>> \in R)
    BY <2>1, <2>2, WFMin
  <2>4. \A m, n \in Nat : <<m, n>> \in R <=> m < n
    BY DEF R, OpToRel
  <2> QED BY <2>3, <2>4 DEF T
<1>2. n # 0
  BY <1>1
<1>3. n - 1 \in Nat /\ (n - 1) + 1 = n /\ n - 1 < n
  BY <1>1, <1>2
<1>4. n - 1 \in P
  BY <1>1, <1>3
<1> QED BY <1>1, <1>3, <1>4

\* g is the sum of the weights w over the subsets of S.
AnyOf(s) == CHOOSE x \in s : TRUE

Weights(w, S) == \A x \in S : w[x] \in Int

SumsUp(g, w, s) ==
  g[s] = IF s = {} THEN 0 ELSE w[AnyOf(s)] + g[s \ {AnyOf(s)}]

SumOver(g, w, S) ==
  g = [s \in SUBSET S |->
         IF s = {} THEN 0 ELSE w[AnyOf(s)] + g[s \ {AnyOf(s)}]]

\* What holds of every subset with at most n elements, for every n.
Small(S, n) == {s \in SUBSET S : Cardinality(s) <= n}

LEMMA SmallFacts ==
  ASSUME NEW S, IsFiniteSet(S)
  PROVE  /\ \A s \in Small(S, 0) : s = {}
         /\ Small(S, Cardinality(S)) = SUBSET S
         /\ \A n \in Nat : \A s \in Small(S, n + 1) : \A x \in s :
              s \ {x} \in Small(S, n)
         /\ Cardinality(S) \in Nat
<1>1. \A s \in SUBSET S : /\ IsFiniteSet(s) /\ Cardinality(s) \in Nat
                          /\ Cardinality(s) <= Cardinality(S)
  BY FS_Subset, FS_CardinalityType
<1>2. \A s \in Small(S, 0) : s = {}
  BY <1>1, FS_EmptySet DEF Small
<1>3. Small(S, Cardinality(S)) = SUBSET S
  BY <1>1 DEF Small
<1>4. ASSUME NEW n \in Nat, NEW s \in Small(S, n + 1), NEW x \in s
      PROVE  s \ {x} \in Small(S, n)
  <2>1. IsFiniteSet(s) /\ Cardinality(s) \in Nat /\ Cardinality(s) <= n + 1
    BY <1>1 DEF Small
  <2>2. Cardinality(s \ {x}) = Cardinality(s) - 1
    BY <2>1, FS_RemoveElement
  <2> QED BY <2>1, <2>2 DEF Small
<1>5. Cardinality(S) \in Nat
  BY FS_CardinalityType
<1> QED BY <1>2, <1>3, <1>4, <1>5

\* There is such a g: it is built for larger and larger subsets.
LEMMA SumExists ==
  ASSUME NEW S, IsFiniteSet(S), NEW w
  PROVE  \E g : SumOver(g, w, S)
<1> DEFINE P == {n \in Nat : \E g : \A s \in Small(S, n) : SumsUp(g, w, s)}
<1>1. 0 \in P
  <2> DEFINE g == [s \in SUBSET S |-> 0]
  <2>1. {} \in SUBSET S /\ g[{}] = 0
    OBVIOUS
  <2> HIDE DEF g
  <2>2. \A s \in Small(S, 0) : SumsUp(g, w, s)
    BY <2>1, SmallFacts DEF SumsUp
  <2> QED BY <2>2
<1>2. ASSUME NEW n \in Nat, n \in P
      PROVE  n + 1 \in P
  <2>1. PICK g : \A s \in Small(S, n) : SumsUp(g, w, s)
    BY <1>2
  <2> DEFINE h == [s \in SUBSET S |->
                     IF s = {} THEN 0 ELSE w[AnyOf(s)] + g[s \ {AnyOf(s)}]]
  <2>2. \A s \in SUBSET S :
          h[s] = IF s = {} THEN 0 ELSE w[AnyOf(s)] + g[s \ {AnyOf(s)}]
    OBVIOUS
  <2> HIDE DEF h
  <2>3. \A s \in Small(S, n) : h[s] = g[s]
    BY <2>1, <2>2 DEF SumsUp, Small
  <2>4. ASSUME NEW s \in Small(S, n + 1)
        PROVE  SumsUp(h, w, s)
    <3>1. s # {} => AnyOf(s) \in s
      BY DEF AnyOf
    <3>2. s # {} => s \ {AnyOf(s)} \in Small(S, n)
      BY <3>1, SmallFacts
    <3>3. s \in SUBSET S
      BY DEF Small
    <3> QED BY <2>2, <2>3, <3>2, <3>3 DEF SumsUp
  <2> QED BY <2>4
<1> HIDE DEF P
<1>3. \A n \in Nat : n \in P
  BY <1>1, <1>2, CountingUp
<1>4. PICK g : \A s \in SUBSET S : SumsUp(g, w, s)
  <2>1. Cardinality(S) \in P /\ Small(S, Cardinality(S)) = SUBSET S
    BY <1>3, SmallFacts
  <2> QED BY <2>1 DEF P
<1> DEFINE h == [s \in SUBSET S |-> g[s]]
<1>5. h = [s \in SUBSET S |->
             IF s = {} THEN 0 ELSE w[AnyOf(s)] + h[s \ {AnyOf(s)}]]
  BY <1>4 DEF SumsUp
<1> QED BY <1>5 DEF SumOver

LEMMA SumUnfolds ==
  ASSUME NEW g, NEW w, NEW S, SumOver(g, w, S), NEW s \in SUBSET S
  PROVE  SumsUp(g, w, s)
<1>1. \A f, q : f = [x \in SUBSET S |-> q[x]] => f[s] = q[s]
  OBVIOUS
<1> DEFINE q == [x \in SUBSET S |->
                   IF x = {} THEN 0 ELSE w[AnyOf(x)] + g[x \ {AnyOf(x)}]]
<1>2. q[s] = IF s = {} THEN 0 ELSE w[AnyOf(s)] + g[s \ {AnyOf(s)}]
  OBVIOUS
<1>3. g = q
  BY DEF SumOver
<1> QED BY <1>2, <1>3 DEF SumsUp

LEMMA SumIsInt ==
  ASSUME NEW S, IsFiniteSet(S), NEW w, Weights(w, S),
         NEW g, SumOver(g, w, S)
  PROVE  \A s \in SUBSET S : g[s] \in Int
<1> DEFINE P == {n \in Nat : \A s \in Small(S, n) : g[s] \in Int}
<1>1. \A s \in SUBSET S : SumsUp(g, w, s)
  BY SumUnfolds
<1>2. g[{}] = 0 /\ 0 \in P
  <2>1. {} \in SUBSET S
    OBVIOUS
  <2>2. g[{}] = 0
    BY <1>1, <2>1 DEF SumsUp
  <2>3. \A s \in Small(S, 0) : s = {}
    BY SmallFacts
  <2> QED BY <2>2, <2>3
<1>3. ASSUME NEW n \in Nat, n \in P
      PROVE  n + 1 \in P
  <2>1. ASSUME NEW s \in Small(S, n + 1), s # {}
        PROVE  g[s] \in Int
    <3>1. AnyOf(s) \in s /\ s \in SUBSET S
      BY <2>1 DEF AnyOf, Small
    <3>2. s \ {AnyOf(s)} \in Small(S, n)
      BY <3>1, SmallFacts
    <3>3. g[s \ {AnyOf(s)}] \in Int /\ w[AnyOf(s)] \in Int
      BY <1>3, <3>1, <3>2 DEF Weights
    <3>4. g[s] = w[AnyOf(s)] + g[s \ {AnyOf(s)}]
      BY <1>1, <2>1, <3>1 DEF SumsUp
    <3> QED BY <3>3, <3>4
  <2>2. ASSUME NEW s \in Small(S, n + 1), s = {}
        PROVE  g[s] \in Int
    BY <1>2, <2>2
  <2> QED BY <2>1, <2>2
<1> HIDE DEF P
<1>4. \A n \in Nat : n \in P
  BY <1>2, <1>3, CountingUp
<1>5. Cardinality(S) \in P /\ Small(S, Cardinality(S)) = SUBSET S
  BY <1>4, SmallFacts
<1> QED BY <1>5 DEF P

\* Any element may be taken first.
TakesAny(g, w, S) ==
  \A s \in SUBSET S : \A x \in s : g[s] = w[x] + g[s \ {x}]

LEMMA SumTakesAny ==
  ASSUME NEW S, IsFiniteSet(S), NEW w, Weights(w, S),
         NEW g, SumOver(g, w, S)
  PROVE  TakesAny(g, w, S)
<1> DEFINE P == {n \in Nat : \A s \in Small(S, n) : \A x \in s :
                                g[s] = w[x] + g[s \ {x}]}
<1>1. \A s \in SUBSET S : SumsUp(g, w, s) /\ g[s] \in Int
  BY SumUnfolds, SumIsInt
<1>2. 0 \in P
  BY SmallFacts
<1>3. ASSUME NEW n \in Nat, n \in P
      PROVE  n + 1 \in P
  <2>1. ASSUME NEW s \in Small(S, n + 1), NEW x \in s
        PROVE  g[s] = w[x] + g[s \ {x}]
    <3> DEFINE a == AnyOf(s)
    <3>1. a \in s /\ s \in SUBSET S
      BY DEF AnyOf, Small
    <3>2. g[s] = w[a] + g[s \ {a}]
      BY <1>1, <3>1 DEF SumsUp
    <3> HIDE DEF a
    <3>3. CASE x = a
      BY <3>2, <3>3
    <3>4. CASE x # a
      <4>1. s \ {a} \in Small(S, n) /\ s \ {x} \in Small(S, n)
        BY <3>1, SmallFacts
      <4>2. x \in s \ {a} /\ a \in s \ {x}
        BY <3>1, <3>4
      <4>3. /\ g[s \ {a}] = w[x] + g[(s \ {a}) \ {x}]
            /\ g[s \ {x}] = w[a] + g[(s \ {x}) \ {a}]
        BY <1>3, <4>1, <4>2
      <4> DEFINE k == g[(s \ {x}) \ {a}]
      <4>4. (s \ {a}) \ {x} = (s \ {x}) \ {a}
        OBVIOUS
      <4>5. g[s \ {a}] = w[x] + k /\ g[s \ {x}] = w[a] + k
        BY <4>3, <4>4
      <4>6. w[x] \in Int /\ w[a] \in Int /\ k \in Int
        BY <1>1, <3>1 DEF Weights
      <4> HIDE DEF k
      <4> QED BY <3>2, <4>5, <4>6
    <3> QED BY <3>3, <3>4
  <2> QED BY <2>1
<1> HIDE DEF P
<1>4. \A n \in Nat : n \in P
  BY <1>2, <1>3, CountingUp
<1>5. Cardinality(S) \in P /\ Small(S, Cardinality(S)) = SUBSET S
  BY <1>4, SmallFacts
<1> QED BY <1>5 DEF P, TakesAny

\* A sum is the same over the images of a one-to-one function that keeps the
\* weights.
LEMMA SumsAgree ==
  ASSUME NEW S, IsFiniteSet(S), NEW w, Weights(w, S),
         NEW g, SumOver(g, w, S),
         NEW T, IsFiniteSet(T), NEW v, Weights(v, T),
         NEW h, SumOver(h, v, T),
         NEW b, \A x \in S : b[x] \in T,
         \A x, y \in S : b[x] = b[y] => x = y,
         \A x \in S : v[b[x]] = w[x]
  PROVE  g[S] = h[{b[x] : x \in S}]
<1> DEFINE Img(s) == {b[x] : x \in s}
           P == {n \in Nat : \A s \in Small(S, n) : g[s] = h[Img(s)]}
<1>1. /\ \A s \in SUBSET S : Img(s) \in SUBSET T
      /\ g[{}] = 0 /\ h[{}] = 0 /\ Img({}) = {}
  <2>1. {} \in SUBSET S /\ {} \in SUBSET T
    OBVIOUS
  <2>2. SumsUp(g, w, {}) /\ SumsUp(h, v, {})
    BY <2>1, SumUnfolds
  <2> QED BY <2>2 DEF SumsUp
<1>2. \A s \in SUBSET S : \A x \in s : Img(s) \ {b[x]} = Img(s \ {x})
  OBVIOUS
<1> HIDE DEF Img
<1>3. TakesAny(g, w, S) /\ TakesAny(h, v, T)
  BY SumTakesAny
<1>4. 0 \in P
  BY <1>1, SmallFacts
<1>5. ASSUME NEW n \in Nat, n \in P
      PROVE  n + 1 \in P
  <2>1. ASSUME NEW s \in Small(S, n + 1), NEW x \in s
        PROVE  g[s] = h[Img(s)]
    <3>1. s \in SUBSET S /\ s \ {x} \in Small(S, n)
      BY SmallFacts DEF Small
    <3>2. g[s] = w[x] + g[s \ {x}]
      BY <1>3, <3>1 DEF TakesAny
    <3>3. h[Img(s)] = v[b[x]] + h[Img(s) \ {b[x]}]
      <4>1. b[x] \in Img(s) /\ Img(s) \in SUBSET T
        BY <1>1, <3>1 DEF Img
      <4> QED BY <1>3, <4>1 DEF TakesAny
    <3>4. Img(s) \ {b[x]} = Img(s \ {x}) /\ v[b[x]] = w[x]
      BY <1>2, <3>1
    <3>5. g[s \ {x}] = h[Img(s \ {x})]
      BY <1>5, <3>1
    <3> QED BY <3>2, <3>3, <3>4, <3>5
  <2>2. \A s \in Small(S, n + 1) : g[s] = h[Img(s)]
    BY <1>1, <2>1
  <2> QED BY <2>2
<1>6. \A n \in Nat : n \in P
  <2> HIDE DEF P
  <2> QED BY <1>4, <1>5, CountingUp
<1>7. Cardinality(S) \in P /\ Small(S, Cardinality(S)) = SUBSET S
  BY <1>6, SmallFacts
<1>8. g[S] = h[Img(S)]
  BY <1>7
<1> QED BY <1>8 DEF Img

LEMMA RowTotalIsSum ==
  ASSUME NEW T, IsFiniteSet(T)
  PROVE  \E g : /\ SumOver(g, [row \in T |-> row.val], T)
                /\ RowTotal(T) = g[T]
<1> DEFINE w == [row \in T |-> row.val]
           Eq(g) == g = [s \in SUBSET T |->
                           IF s = {} THEN 0
                           ELSE (CHOOSE x \in s : TRUE).val
                                  + g[s \ {CHOOSE x \in s : TRUE}]]
           iter == CHOOSE g : Eq(g)
<1>1. RowTotal(T) = iter[T]
  BY DEF RowTotal, MapThenSumSet, MapThenFoldSet
<1>2. \A g : Eq(g) <=> SumOver(g, w, T)
  <2>1. \A s \in SUBSET T : s # {} => w[AnyOf(s)] = AnyOf(s).val
    BY DEF AnyOf
  <2> QED BY <2>1 DEF SumOver, AnyOf
<1> HIDE DEF Eq, w
<1>3. \E g : Eq(g)
  <2>1. \E g : SumOver(g, w, T)
    BY SumExists
  <2> QED BY <1>2, <2>1
<1>4. Eq(iter)
  BY <1>3
<1>5. SumOver(iter, w, T)
  BY <1>2, <1>4
<1> QED BY <1>1, <1>5 DEF w

\* The totals of the model are such sums.
LEMMA TotalIsSum ==
  ASSUME NEW es, IsFiniteSet(DOMAIN es)
  PROVE  \E g : /\ SumOver(g, [i \in DOMAIN es |-> es[i].val], DOMAIN es)
                /\ Total(es) = g[DOMAIN es]
<1> DEFINE S == DOMAIN es
           w == [i \in S |-> es[i].val]
           Eq(g) == g = [s \in SUBSET S |->
                 IF s = {} THEN 0 ELSE es[CHOOSE x \in s : TRUE].val + g[s \ {CHOOSE x \in s : TRUE}]]
           iter == CHOOSE g : Eq(g)
<1>1. Total(es) = iter[S]
  BY DEF Total, MapThenSumSet, MapThenFoldSet
<1>2. \A g : Eq(g) <=> SumOver(g, w, S)
  <2>1. \A s \in SUBSET S : s # {} => w[AnyOf(s)] = es[AnyOf(s)].val
    BY DEF AnyOf
  <2> QED BY <2>1 DEF SumOver, AnyOf
<1> HIDE DEF Eq, w
<1>3. \E g : Eq(g)
  <2>1. \E g : SumOver(g, w, S)
    BY SumExists
  <2> QED BY <1>2, <2>1
<1>4. Eq(iter)
  BY <1>3
<1>5. SumOver(iter, w, S)
  BY <1>2, <1>4
<1> QED BY <1>1, <1>5 DEF w

-----------------------------------------------------------------------------
(* The scores.                                                             *)

\* The test cases a creation stores have the total of its body.
LEMMA CreatedScore ==
  ASSUME NEW r \in Request, NEW p, Store!Create(r, p)
  PROVE  RowTotal(CasesOf(p))' = FullScore
<1> DEFINE s == "problem_test_cases"
           es == Elements(r, s)
           S == DOMAIN es
           b == [i \in S |-> RowFor(r, s, p, i, es[i])]
           T == {b[i] : i \in S}
           w == [i \in S |-> es[i].val]
           v == [row \in T |-> row.val]
<1>1. /\ es = r.parts[s] /\ es \in Seq(Element \cup {Malformed})
      /\ s \in Parts /\ s \notin Registries
      /\ S = 1 .. Len(es) /\ Len(es) \in Nat
  BY DEF Elements, PartOf, Registries, Request, Parts
<1>2. \A i \in S : es[i] # Malformed
  BY <1>1, StoreNames DEF Store!Create, Store!WellFormed
<1>3. Total(es) = FullScore
  BY <1>1, StoreNames, StoreTotal DEF Store!Create, Store!FullyScored
<1>4. IsFiniteSet(S) /\ IsFiniteSet(T)
  <2>1. IsFiniteSet(S)
    BY <1>1, FS_Interval
  <2>2. b \in Surjection(S, T)
    BY DEF Surjection
  <2> HIDE DEF S, T, b
  <2> QED BY <2>1, <2>2, FS_Surjection
<1>5. Weights(w, S) /\ Weights(v, T)
  <2>1. \A i \in S : es[i].val \in Int
    BY <1>1, <1>2 DEF Element
  <2>2. \A i \in S : b[i].val = es[i].val
    BY DEF RowFor
  <2> QED BY <2>1, <2>2 DEF Weights
<1>6. /\ \A i \in S : b[i] \in T /\ v[b[i]] = w[i]
      /\ \A i, j \in S : b[i] = b[j] => i = j
  BY DEF RowFor
<1>7. CasesOf(p)' = T
  <2>1. Store!SectionRows(r, s, p) = T
    BY <1>1, StoreNames DEF Store!SectionRows
  <2>2. \A row \in db' : row.table = s /\ row.pid = p => row \in T
    <3>1. ASSUME NEW row \in db', row.table = s, row.pid = p
          PROVE  row \in T
      <4>1. row \notin db /\ row # ProblemRow(r, p)
        BY <3>1 DEF Store!Create, ProblemRow
      <4>2. PICK k \in DOMAIN Sections : row \in Store!SectionRows(r, Sections[k], p)
        BY <4>1, StoreNames DEF Store!Create
      <4>3. Sections[k] = s
        BY <3>1, <4>2, SectionRow
      <4> QED BY <2>1, <4>2, <4>3
    <3> QED BY <3>1
  <2>3. \A row \in T : row \in db' /\ row.table = s /\ row.pid = p
    <3>1. 4 \in DOMAIN Sections /\ Sections[4] = s
      BY DEF Sections
    <3>2. \A row \in T : row \in db'
      BY <2>1, <3>1, StoreNames DEF Store!Create
    <3> QED BY <1>1, <3>2 DEF RowFor
  <2> HIDE DEF T
  <2> QED BY <2>2, <2>3 DEF CasesOf, RowsOf
<1>8. RowTotal(T) = Total(es)
  <2>1. PICK g : SumOver(g, w, S) /\ Total(es) = g[S]
    BY <1>4, TotalIsSum
  <2>2. PICK h : SumOver(h, v, T) /\ RowTotal(T) = h[T]
    BY <1>4, RowTotalIsSum
  <2>3. g[S] = h[{b[i] : i \in S}]
    <3> HIDE DEF S, T, b, w, v
    <3> QED BY <1>4, <1>5, <1>6, <2>1, <2>2, SumsAgree
  <2> QED BY <2>1, <2>2, <2>3
<1> HIDE DEF T
<1> QED BY <1>3, <1>7, <1>8

LEMMA ScoresOfCreate ==
  ASSUME FullScores, NEW r \in Requests, applied' = applied \cup {r},
         NEW p, Store!Create(r, p)
  PROVE  FullScores'
<1>1. \A row \in db : row \in db' /\ row.pid # p
  BY CreateKeeps
<1>2. ASSUME NEW row \in db', row \notin db
      PROVE  row.table \notin Registries => row.pid = p
  BY <1>2, CreatedRow
<1>3. ASSUME NEW q \in ProblemIds', q # p
      PROVE  q \in ProblemIds /\ CasesOf(q)' = CasesOf(q)
  <2>1. \A row \in db' : row.table \notin Registries /\ row.pid = q => row \in db
    BY <1>2, <1>3
  <2>2. q \in ProblemIds
    BY <2>1 DEF ProblemIds, Registries
  <2>3. CasesOf(q)' = CasesOf(q)
    BY <1>1, <2>1 DEF CasesOf, RowsOf, Registries
  <2> QED BY <2>2, <2>3
<1>4. RowTotal(CasesOf(p))' = FullScore
  BY CreatedScore, RequestsAssumption
<1> QED BY <1>3, <1>4 DEF FullScores

LEMMA ScoresOfReplace ==
  ASSUME FullScores, NEW r, applied' = applied \cup {r}, Store!Replace(r)
  PROVE  FullScores'
<1> DEFINE s == "problem_test_cases"
<1>1. /\ \A row \in db : row \in db' \/ (row.table = s /\ row.pid = r.pid)
      /\ \A row \in db' : row \in db \/ (row.table = s /\ row.pid = r.pid)
  BY StoreNames, SectionRow DEF Store!Replace, RowsOf, Registries
<1>2. ProblemIds' = ProblemIds
  BY <1>1 DEF ProblemIds
<1>3. \A q : q # r.pid => CasesOf(q)' = CasesOf(q)
  BY <1>1 DEF CasesOf, RowsOf
<1> QED BY <1>2, <1>3 DEF FullScores, Store!Replace

LEMMA ScoresOfDelete ==
  ASSUME FullScores, NEW r, applied' = applied \cup {r}, Store!Delete(r)
  PROVE  FullScores'
<1>1. \A row : row \in db' <=>
                 row \in db /\ (row.table \in Registries \/ row.pid # r.pid)
  BY StoreNames DEF Store!Delete
<1>2. \A q \in ProblemIds' : q \in ProblemIds /\ q # r.pid
  BY <1>1 DEF ProblemIds, Registries
<1>3. \A q : q # r.pid => CasesOf(q)' = CasesOf(q)
  BY <1>1 DEF CasesOf, RowsOf
<1> QED BY <1>2, <1>3 DEF FullScores

LEMMA ScoresStep ==
  ASSUME FullScores, [Store!Next]_(Store!storeVars)
  PROVE  FullScores'
<1>1. CASE UNCHANGED Store!storeVars
  <2>1. \A q : CasesOf(q)' = CasesOf(q)
    BY <1>1 DEF Store!storeVars, CasesOf, RowsOf
  <2> QED BY <1>1, <2>1 DEF Store!storeVars, FullScores, ProblemIds
<1>2. CASE Store!Next
  BY <1>2, ScoresOfCreate, ScoresOfReplace, ScoresOfDelete DEF Store!Next
<1> QED BY <1>1, <1>2

\* "Total test case score must be 10000" (problems.hpp:244): the scores are
\* added up as the rows are inserted and compared at the end of the section;
\* what is stored of a creation adds up to 10000, whatever its cases are.
THEOREM ScoresFull ==
  ASSUME Orderly, UniqueTitles, ReplacesGivenIds, FullScoresLeft
  PROVE  Spec => []FullScores
<1>1. Init => FullScores
  BY DEF Init, ApisInit, WorkersInit, FullScoresLeft, FullScores, ProblemIds,
         CasesOf
<1>2. PanelInv /\ FullScores /\ [Next]_vars => FullScores'
  BY NextImplements, ScoresStep
<1>3. Spec => []PanelInv
  BY PanelInvariance
<1> QED BY <1>1, <1>2, <1>3, PTL DEF Spec

-----------------------------------------------------------------------------
(* What a handler has answered 200 to is stored.                           *)

\* A request that has committed has what it wrote stored, until another takes
\* it away: the answer adds nothing to what the commit published.
CommittedStands == \A r \in applied : Stands(r)

\* What one request takes away, it takes away as a whole: a row that a step
\* of ProblemStore removes is one the request of the step removes.
LEMMA LastingStays ==
  ASSUME NEW r \in Requests \ applied, applied' = applied \cup {r},
         \/ \E row \in db' : Store!Create(r, row.pid)
         \/ Store!Replace(r)
         \/ Store!Delete(r),
         NEW x \in applied, NEW row, row.table \notin Registries,
         Lasting(x, row)
  PROVE  Lasting(x, row)'
<1>1. CASE \E q \in applied \ {x} : TakesAway(q, row)
  BY <1>1 DEF Lasting, TakesAway
<1>2. CASE row \in db /\ row \notin db'
  <2>1. TakesAway(r, row)
    <3>1. CASE \E y \in db' : Store!Create(r, y.pid)
      BY <1>2, <3>1, CreateKeeps
    <3>2. CASE Store!Replace(r)
      BY <1>2, <3>2, StoreNames DEF Store!Replace, RowsOf, TakesAway
    <3>3. CASE Store!Delete(r)
      BY <1>2, <3>3, StoreNames DEF Store!Delete, TakesAway
    <3> QED BY <3>1, <3>2, <3>3
  <2> QED BY <2>1 DEF Lasting, TakesAway
<1>3. CASE row \in db'
  BY <1>3 DEF Lasting, TakesAway
<1> QED BY <1>1, <1>2, <1>3 DEF Lasting

\* A row that a section other than a registry writes is neither a tag nor a
\* role.
LEMMA PartRow ==
  ASSUME NEW r, NEW s, NEW p, NEW i, NEW e, s \notin Registries
  PROVE  RowFor(r, s, p, i, e).table \notin Registries
  BY DEF RowFor

\* What has committed stands beside the next request that commits.
LEMMA OthersStand ==
  ASSUME NEW r \in Requests \ applied, applied' = applied \cup {r},
         \/ \E row \in db' : Store!Create(r, row.pid)
         \/ Store!Replace(r)
         \/ Store!Delete(r),
         NEW x \in applied, Stands(x)
  PROVE  Stands(x)'
<1>1. ASSUME NEW s, s \notin Registries, NEW p, SectionLasts(x, s, p)
      PROVE  SectionLasts(x, s, p)'
  BY <1>1, LastingStays, PartRow DEF SectionLasts
<1>2. ASSUME x.op = "create"
      PROVE  CreationStands(x)'
  <2>1. PICK p \in KnownIds :
          /\ Lasting(x, ProblemRow(x, p))
          /\ \A k \in DOMAIN Sections :
               Sections[k] \notin Registries => SectionLasts(x, Sections[k], p)
    BY <1>2 DEF Stands, CreationStands
  <2>2. Lasting(x, ProblemRow(x, p))'
    BY <2>1, LastingStays DEF ProblemRow, Registries
  <2>3. p \in KnownIds'
    BY <2>2 DEF Lasting, TakesAway, KnownIds, ProblemRow
  <2>4. \A k \in DOMAIN Sections :
          Sections[k] \notin Registries => SectionLasts(x, Sections[k], p)'
    BY <1>1, <2>1
  <2> QED BY <2>2, <2>3, <2>4 DEF CreationStands
<1>3. ASSUME x.op = "replace"
      PROVE  SectionLasts(x, "problem_test_cases", x.pid)'
  BY <1>1, <1>3 DEF Stands, Registries
<1>4. ASSUME x.op = "delete"
      PROVE  DeletionStands(x)'
  <2> SUFFICES ASSUME NEW row \in db', row.table \notin Registries,
                      row.pid = x.pid
               PROVE  \E q \in applied' \ {x} : row.by = q.id
    BY DEF DeletionStands
  <2>1. CASE row \in db
    BY <1>4, <2>1 DEF Stands, DeletionStands
  <2>2. CASE row \notin db
    <3>1. row.by = r.id
      <4>1. CASE \E y \in db' : Store!Create(r, y.pid)
        BY <2>2, <4>1, CreatedRow
      <4>2. CASE Store!Replace(r)
        BY <2>2, <4>2, SectionRow DEF Store!Replace
      <4>3. CASE Store!Delete(r)
        BY <2>2, <4>3 DEF Store!Delete
      <4> QED BY <4>1, <4>2, <4>3
    <3> QED BY <3>1
  <2> QED BY <2>1, <2>2
<1> QED BY <1>2, <1>3, <1>4 DEF Stands

\* What a section other than a registry writes is stored when the rows of the
\* section are.
LEMMA SectionStands ==
  ASSUME NEW r, NEW s, NEW p, s \notin Registries,
         Store!SectionRows(r, s, p) \subseteq db'
  PROVE  SectionLasts(r, s, p)'
<1> SUFFICES ASSUME NEW i \in DOMAIN Elements(r, s)
             PROVE  RowFor(r, s, p, i, Elements(r, s)[i]) \in db'
  BY DEF SectionLasts, Lasting
<1>1. RowFor(r, s, p, i, Elements(r, s)[i]) \in Store!SectionRows(r, s, p)
  BY StoreNames DEF Store!SectionRows
<1> QED BY <1>1

\* A request that commits has stored all it was to store.
LEMMA NewStands ==
  ASSUME NEW r \in Requests,
         \/ \E row \in db' : Store!Create(r, row.pid)
         \/ Store!Replace(r)
         \/ Store!Delete(r)
  PROVE  Stands(r)'
<1>1. ASSUME NEW row \in db', Store!Create(r, row.pid)
      PROVE  Stands(r)'
  <2> DEFINE p == row.pid
  <2>1. ProblemRow(r, p) \in db'
    BY <1>1, CreateKeeps
  <2>2. Lasting(r, ProblemRow(r, p))'
    BY <2>1 DEF Lasting
  <2>3. \A k \in DOMAIN Sections : Store!SectionRows(r, Sections[k], p) \subseteq db'
    BY <1>1, StoreNames DEF Store!Create
  <2>4. \A k \in DOMAIN Sections :
          Sections[k] \notin Registries => SectionLasts(r, Sections[k], p)'
    BY <2>3, SectionStands
  <2>5. p \in KnownIds'
    BY DEF KnownIds
  <2>6. CreationStands(r)'
    BY <2>2, <2>4, <2>5 DEF CreationStands
  <2> QED BY <1>1, <2>6 DEF Stands, Store!Create
<1>2. ASSUME Store!Replace(r)
      PROVE  Stands(r)'
  <2>1. SectionLasts(r, "problem_test_cases", r.pid)'
    BY <1>2, SectionStands DEF Store!Replace, Registries
  <2> QED BY <1>2, <2>1 DEF Stands, Store!Replace
<1>3. ASSUME Store!Delete(r)
      PROVE  Stands(r)'
  <2>1. DeletionStands(r)'
    BY <1>3, StoreNames DEF DeletionStands, Store!Delete
  <2> QED BY <1>3, <2>1 DEF Stands, Store!Delete
<1> QED BY <1>1, <1>2, <1>3

LEMMA StandsStep ==
  ASSUME CommittedStands, [Store!Next]_(Store!storeVars)
  PROVE  CommittedStands'
<1>1. CASE UNCHANGED Store!storeVars
  BY <1>1
  DEF Store!storeVars, CommittedStands, Stands, CreationStands, KnownIds,
      SectionLasts, Lasting, DeletionStands
<1>2. CASE Store!Next
  <2>1. PICK r \in Requests \ applied :
          /\ applied' = applied \cup {r}
          /\ \/ \E row \in db' : Store!Create(r, row.pid)
             \/ Store!Replace(r)
             \/ Store!Delete(r)
    BY <1>2 DEF Store!Next
  <2>2. \A x \in applied : Stands(x)'
    BY <2>1, OthersStand DEF CommittedStands
  <2>3. Stands(r)'
    BY <2>1, NewStands
  <2> QED BY <2>1, <2>2, <2>3 DEF CommittedStands
<1> QED BY <1>1, <1>2

\* A client that is answered 200 can rely on it: whatever the workers
\* interleave, and whatever is lost or dies, what its request was to write is
\* stored until another request that commits takes it away, and what it
\* deleted is gone; one that is answered with an error has not committed.
THEOREM AnswersTrue ==
  ASSUME Orderly, UniqueTitles, ReplacesGivenIds
  PROVE  Spec => [](AnswersTruthful /\ AnsweredIsStored)
<1>1. Init => CommittedStands
  BY DEF Init, WorkersInit, CommittedStands
<1>2. PanelInv /\ CommittedStands /\ [Next]_vars => CommittedStands'
  BY NextImplements, StandsStep
<1>3. AnswersTruthful /\ CommittedStands => AnsweredIsStored
  BY DEF AnswersTruthful, CommittedStands, AnsweredIsStored, Stands
<1> QED BY <1>1, <1>2, <1>3, AnswersInvariance, PanelInvariance, PTL DEF Spec
=============================================================================
