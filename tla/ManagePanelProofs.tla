-------------------------- MODULE ManagePanelProofs --------------------------
(***************************************************************************)
(* Proofs about ManagePanel, for every set of workers, requests and rows.  *)
(***************************************************************************)
EXTENDS ManagePanel, FiniteSetTheorems, TLAPS

-----------------------------------------------------------------------------
(* The inductive invariant of the connections and mutexes.                 *)

\* The mutex of a connection is free exactly when it has been unlocked as
\* often as it has been locked.
DepthOK == \A c \in Conns : owner[c] = NoThread <=> depth[c] = 0

ApisOK == ApisTypeOK /\ DepthOK /\ NoStrayWork

\* What a worker's label says about its request and its locals.
ControlOK ==
  \A t \in Threads :
    /\ pc[t] = "idle" <=> cur[t] = NoRequest
    /\ pc[t] \in {"parse", "insertProblem", "selectId", "section"}
         => cur[t].op = "create"
    /\ pc[t] \in {"wipe", "insertCase"} => cur[t].op = "replace"
    /\ pc[t] = "begin" => cur[t].op \in {"create", "replace", "delete"}
    /\ pc[t] \in {"getPrepare", "getRead"} => cur[t].op = "get"
    /\ pc[t] \in {"listPrepare", "listRead", "listCount"}
         => cur[t].op = "list"
    /\ pc[t] = "section" => local[t].sec <= Len(Sections)
    /\ pc[t] = "purge" => local[t].i <= Len(DeleteTables)
    /\ pc[t] \in {"permission", "permissionRead"} => cur[t].op # "create"
    /\ pc[t] \in {"idle", "permission", "permissionRead", "parse", "begin",
                  "insertProblem", "selectId"} => local[t] = NoLocal
    /\ pc[t] \in {"rollback", "rolledback"} => local[t].status \in {400, 500}

WorkersOK == WorkersTypeOK /\ ControlOK

IInv == ApisOK /\ WorkersOK

-----------------------------------------------------------------------------
(* The constant lists.                                                     *)

LEMMA SectionsFacts ==
  /\ Len(Sections) = 6
  /\ \A k \in 1 .. 6 : Sections[k] \in Tables /\ PartOf(Sections[k]) \in Parts
  BY DEF Sections, Tables, DeleteTables, Registries, PartOf, Parts

LEMMA DeleteTablesFacts ==
  /\ Len(DeleteTables) = 9
  /\ \A k \in 1 .. 9 : DeleteTables[k] \in Tables
  BY DEF DeleteTables, Tables

LEMMA TableNames ==
  /\ "problems" \in Tables
  /\ "problem_test_cases" \in Tables
<1>1. DeleteTables[9] = "problems" /\ DeleteTables[6] = "problem_test_cases"
  BY DEF DeleteTables
<1>2. DOMAIN DeleteTables = 1 .. 9
  BY DEF DeleteTables
<1> QED BY <1>1, <1>2 DEF Tables

-----------------------------------------------------------------------------
(* Each call of APIs preserves ApisOK.                                     *)

LEMMA LockOK ==
  ASSUME ApisOK, NEW c \in Conns, NEW t \in Threads, BeginTransaction(c, t)
  PROVE  ApisOK'
  BY NoThreadAssumption
  DEF ApisOK, ApisTypeOK, DepthOK, NoStrayWork, NothingPending,
      BeginTransaction, Lock, Free, workVars

LEMMA LockThrowsOK ==
  ASSUME ApisOK, NEW c \in Conns, NEW t \in Threads,
         BeginTransactionThrows(c, t)
  PROVE  ApisOK'
  BY NoThreadAssumption
  DEF ApisOK, ApisTypeOK, DepthOK, NoStrayWork, NothingPending,
      BeginTransactionThrows, Lock, Free, workVars

LEMMA LoseOK ==
  ASSUME ApisOK, NEW c \in Conns, Lose(c)
  PROVE  ApisOK'
  BY DEF ApisOK, ApisTypeOK, DepthOK, NoStrayWork, NothingPending,
         Lose, Discard, EndWork

LEMMA ReconnectOK ==
  ASSUME ApisOK, Reconnect
  PROVE  ApisOK'
  BY DEF ApisOK, ApisTypeOK, DepthOK, NoStrayWork, NothingPending, Reconnect

LEMMA ExecuteOK ==
  ASSUME ApisOK, NEW c \in Conns,
         NEW gone \in SUBSET Row, NEW new \in SUBSET Row,
         NEW scope \in SUBSET (Tables \X Nat),
         Execute(c, gone, new, scope)
  PROVE  ApisOK'
<1> USE DEF ApisOK, ApisTypeOK, DepthOK, NoStrayWork, NothingPending
<1>1. CASE autocommit[c]
  BY <1>1 DEF Execute
<1>2. CASE ~ autocommit[c]
  BY <1>2 DEF Execute
<1> QED BY <1>1, <1>2

LEMMA CommitWorkOK ==
  ASSUME ApisOK, NEW c \in Conns, CommitWork(c)
  PROVE  ApisOK'
  BY DEF ApisOK, ApisTypeOK, DepthOK, NoStrayWork, NothingPending,
         CommitWork, Publish, EndWork, View

LEMMA RollbackWorkOK ==
  ASSUME ApisOK, NEW c \in Conns, RollbackWork(c)
  PROVE  ApisOK'
  BY DEF ApisOK, ApisTypeOK, DepthOK, NoStrayWork, NothingPending,
         RollbackWork, Discard, EndWork

LEMMA FinishOK ==
  ASSUME ApisOK, NEW c \in Conns, NEW t \in Threads, FinishTransaction(c, t)
  PROVE  ApisOK'
<1> USE DEF ApisOK, ApisTypeOK, DepthOK, NoStrayWork, NothingPending
<1>1. db' \in SUBSET Row
  BY DEF FinishTransaction, Publish, View
<1>2. /\ ins' \in [Conns -> SUBSET Row]
      /\ del' \in [Conns -> SUBSET Row]
      /\ locks' \in [Conns -> SUBSET (Tables \X Nat)]
      /\ autocommit' \in [Conns -> BOOLEAN]
      /\ \A d \in Conns : autocommit'[d] => NothingPending(d)'
  BY DEF FinishTransaction, Publish, EndWork
<1>3. /\ owner' \in [Conns -> Threads \cup {NoThread}]
      /\ depth' \in [Conns -> Nat]
      /\ DepthOK'
      /\ \A d \in Conns : owner'[d] = NoThread => autocommit'[d]
  <2>1. CASE owner[c] = t
    BY <2>1, NoThreadAssumption
    DEF FinishTransaction, Unlock, mutexVars
  <2>2. CASE owner[c] # t
    BY <2>2 DEF FinishTransaction, Unlock, mutexVars
  <2> QED BY <2>1, <2>2
<1>4. lost' \in SUBSET Conns
  BY DEF FinishTransaction
<1> QED BY <1>1, <1>2, <1>3, <1>4

LEMMA UnchangedOK ==
  ASSUME ApisOK, UNCHANGED apiVars
  PROVE  ApisOK'
  BY DEF ApisOK, ApisTypeOK, DepthOK, NoStrayWork, NothingPending, apiVars

-----------------------------------------------------------------------------
(* Moves of a worker that leave the connections alone, and what a worker   *)
(* in the middle of a request knows of it.                                 *)

LEMMA BusyFacts ==
  ASSUME WorkersOK, NEW t \in Threads, pc[t] # "idle"
  PROVE  /\ cur[t] \in Requests
         /\ cur[t] \in Request
         /\ Conn(t) \in Conns
         /\ local[t] \in Local
  BY RequestsAssumption
  DEF WorkersOK, WorkersTypeOK, ControlOK, Conn, ConnOf, Conns

LEMMA AnswerOK ==
  ASSUME WorkersOK, NEW t \in Threads, pc[t] # "idle",
         NEW status \in Statuses, Answer(t, status)
  PROVE  WorkersOK'
<1>1. cur[t] \in Requests
  BY BusyFacts
<1>2. NoLocal \in Local
  BY SectionsFacts DEF NoLocal, Local
<1>3. "idle" \in Labels
  BY DEF Labels
<1> QED
  BY <1>1, <1>2, <1>3 DEF WorkersOK, WorkersTypeOK, ControlOK, Answer, Goto

LEMMA FailOK ==
  ASSUME WorkersOK, NEW t \in Threads, pc[t] # "idle",
         NEW status \in {400, 500}, Fail(t, status)
  PROVE  WorkersOK'
<1>1. "rollback" \in Labels
  BY DEF Labels, TxLabels
<1>2. local' \in [Threads -> Local]
  <2>1. local[t] \in Local
    BY DEF WorkersOK, WorkersTypeOK
  <2>2. PICK l \in Local : l = local[t]
    BY <2>1
  <2>3. [l EXCEPT !.status = status] \in Local
    BY DEF Local
  <2> QED
    BY <2>2, <2>3 DEF Fail, WorkersOK, WorkersTypeOK
<1>3. WorkersTypeOK'
  BY <1>1, <1>2 DEF WorkersOK, WorkersTypeOK, Fail, Goto
<1>4. ControlOK'
  BY <1>1 DEF WorkersOK, WorkersTypeOK, ControlOK, Fail, Goto
<1> QED BY <1>3, <1>4 DEF WorkersOK

LEMMA AbortOK ==
  ASSUME WorkersOK, NEW t \in Threads, pc[t] # "idle",
         NEW status \in {400, 500}, Abort(t, status)
  PROVE  WorkersOK'
  BY FailOK DEF Abort

\* The label that starts a request, or its transaction.
FirstSet ==
  {"parse", "begin", "getPrepare", "update", "listPrepare", "pagePrepare"}

LEMMA FirstLabels ==
  ASSUME NEW r \in Request
  PROVE  /\ FirstLabel(r) \in FirstSet
         /\ FirstLabel(r) = "parse" => r.op = "create"
         /\ FirstLabel(r) = "begin" => r.op \in {"replace", "delete"}
         /\ FirstLabel(r) = "getPrepare" => r.op = "get"
         /\ FirstLabel(r) = "listPrepare" => r.op = "list"
  BY DEF FirstLabel, FirstSet, Request, Ops

LEMMA FirstInLabels ==
  FirstSet \cup {"permission"} \subseteq Labels
  BY DEF FirstSet, Labels, TxLabels

-----------------------------------------------------------------------------
(* Every action preserves the invariant.                                   *)

LEMMA WorkerStepOK ==
  ASSUME IInv, NEW t \in Threads, WorkerStep(t)
  PROVE  IInv'
<1> USE DEF IInv
<1>1. CASE DispatchUnauthorized(t)
  <2>1. ApisOK'
    BY <1>1, UnchangedOK DEF DispatchUnauthorized
  <2>2. WorkersOK'
    BY <1>1
    DEF DispatchUnauthorized, WorkersOK, WorkersTypeOK, ControlOK, Statuses
  <2> QED BY <2>1, <2>2
<1>2. CASE Dispatch(t)
  <2>1. ApisOK'
    BY <1>2, UnchangedOK DEF Dispatch
  <2>2. PICK r \in todo :
          /\ todo' = todo \ {r}
          /\ cur' = [cur EXCEPT ![t] = r]
          /\ Goto(t, IF NeedsPermission(r)
                     THEN "permission" ELSE FirstLabel(r))
    BY <1>2 DEF Dispatch
  <2>3. r \in Requests /\ r \in Request /\ r # NoRequest
    BY RequestsAssumption, NoRequestAssumption DEF WorkersOK, WorkersTypeOK
  <2>5. WorkersTypeOK'
    BY <1>2, <2>2, <2>3, FirstInLabels, FirstLabels
    DEF Dispatch, WorkersOK, WorkersTypeOK, Goto
  <2>6. ControlOK'
    <3>1. pc'[t] \in FirstSet \cup {"permission"}
      BY <2>2, <2>3, FirstLabels DEF WorkersOK, WorkersTypeOK, Goto
    <3>2. pc'[t] = "permission" => r.op # "create"
      BY <2>2, <2>3, FirstLabels
      DEF WorkersOK, WorkersTypeOK, Goto, NeedsPermission, FirstSet
    <3>3. pc'[t] = "parse" => r.op = "create"
      BY <2>2, <2>3, FirstLabels DEF FirstSet, WorkersOK, WorkersTypeOK, Goto
    <3>4. pc'[t] = "begin" => r.op \in {"replace", "delete"}
      BY <2>2, <2>3, FirstLabels DEF FirstSet, WorkersOK, WorkersTypeOK, Goto
    <3>5. /\ pc'[t] = "getPrepare" => r.op = "get"
          /\ pc'[t] = "listPrepare" => r.op = "list"
      BY <2>2, <2>3, FirstLabels DEF FirstSet, WorkersOK, WorkersTypeOK, Goto
    <3> QED
      BY <1>2, <2>2, <2>3, <3>1, <3>2, <3>3, <3>4, <3>5
      DEF Dispatch, WorkersOK, WorkersTypeOK, ControlOK, Goto, FirstSet
  <2> QED BY <2>1, <2>5, <2>6 DEF WorkersOK
<1>3. CASE PreparePermission(t)
  <2>1. ApisOK'
    BY <1>3, UnchangedOK DEF PreparePermission
  <2>2. WorkersOK'
    BY <1>3
    DEF PreparePermission, WorkersOK, WorkersTypeOK, ControlOK, Goto, Labels
  <2> QED BY <2>1, <2>2
<1>4. CASE PermissionGranted(t)
  <2>1. ApisOK'
    BY <1>4, UnchangedOK DEF PermissionGranted
  <2>2. cur[t] \in Request
    BY <1>4, BusyFacts DEF PermissionGranted
  <2>3. WorkersOK'
    BY <1>4, <2>2, FirstLabels, FirstInLabels
    DEF PermissionGranted, WorkersOK, WorkersTypeOK, ControlOK, Goto, FirstSet
  <2> QED BY <2>1, <2>3
<1>5. CASE PermissionDenied(t)
  BY <1>5, UnchangedOK, AnswerOK DEF PermissionDenied, Statuses
<1>6. CASE Begin(t)
  <2>1. Conn(t) \in Conns
    BY <1>6, BusyFacts DEF Begin
  <2>2. ApisOK'
    BY <1>6, <2>1, LockOK DEF Begin
  <2>3. FirstStatement(cur[t]) \in {"insertProblem", "wipe", "purge"}
    BY <1>6 DEF Begin, WorkersOK, ControlOK, FirstStatement
  <2>4. WorkersTypeOK'
    BY <1>6, <2>3
    DEF Begin, WorkersOK, WorkersTypeOK, Goto, Labels, TxLabels
  <2>5. ControlOK'
    <3>1. local[t].i <= Len(DeleteTables)
      BY <1>6, DeleteTablesFacts DEF Begin, WorkersOK, ControlOK, NoLocal
    <3>2. pc[t]' \in {"insertProblem", "wipe", "purge"}
      BY <1>6, <2>3 DEF Begin, WorkersOK, WorkersTypeOK, Goto
    <3>3. pc[t]' = "insertProblem" => cur[t].op = "create"
      BY <1>6 DEF Begin, WorkersOK, WorkersTypeOK, ControlOK, Goto,
                  FirstStatement
    <3>4. pc[t]' = "wipe" => cur[t].op = "replace"
      BY <1>6 DEF Begin, WorkersOK, WorkersTypeOK, ControlOK, Goto,
                  FirstStatement
    <3> QED BY <1>6, <3>1, <3>2, <3>3, <3>4
    DEF Begin, WorkersOK, WorkersTypeOK, ControlOK, Goto
  <2> QED BY <2>2, <2>4, <2>5 DEF WorkersOK
<1>7. CASE Commit(t)
  <2>1. ApisOK'
    BY <1>7, BusyFacts, CommitWorkOK DEF Commit
  <2>2. WorkersOK'
    BY <1>7, BusyFacts DEF Commit, WorkersOK, WorkersTypeOK, ControlOK, Goto, Labels,
                TxLabels
  <2> QED BY <2>1, <2>2
<1>8. CASE Committed(t)
  BY <1>8, BusyFacts, FinishOK, AnswerOK DEF Committed, Statuses
<1>9. CASE Rollback(t)
  <2>1. ApisOK'
    BY <1>9, BusyFacts, RollbackWorkOK DEF Rollback
  <2>2. WorkersOK'
    BY <1>9 DEF Rollback, WorkersOK, WorkersTypeOK, ControlOK, Goto, Labels,
                TxLabels
  <2> QED BY <2>1, <2>2
<1>10. CASE RolledBack(t)
  <2>1. local[t].status \in {400, 500}
    BY <1>10 DEF RolledBack, WorkersOK, ControlOK
  <2> QED
    BY <1>10, <2>1, BusyFacts, FinishOK, AnswerOK DEF RolledBack, Statuses
<1>11. CASE BeginThrows(t)
  <2>1. Conn(t) \in Conns
    BY <1>11, BusyFacts DEF BeginThrows
  <2>2. ApisOK'
    BY <1>11, <2>1, LockThrowsOK DEF BeginThrows
  <2> QED
    BY <1>11, <2>2, FailOK DEF BeginThrows, CatchStatus
<1>12. CASE CommitThrows(t)
  BY <1>12, UnchangedOK, AbortOK DEF CommitThrows, CatchStatus, Abort
<1>13. CASE RollbackThrows(t)
  BY <1>13, UnchangedOK, AnswerOK DEF RollbackThrows, Statuses
<1> QED
  BY <1>1, <1>2, <1>3, <1>4, <1>5, <1>6, <1>7, <1>8, <1>9, <1>10, <1>11,
     <1>12, <1>13
  DEF WorkerStep

\* The rows a creation inserts are rows.
LEMMA ProblemRowOK ==
  ASSUME NEW r \in Request, NEW p \in Nat
  PROVE  ProblemRow(r, p) \in Row
  BY TableNames DEF ProblemRow, Row, Request

LEMMA ElementOK ==
  ASSUME NEW r \in Request, NEW k \in 1 .. 6,
         NEW i \in 1 .. Len(Elements(r, Sections[k]))
  PROVE  Elements(r, Sections[k])[i] \in Element \cup {Malformed}
<1>1. PartOf(Sections[k]) \in Parts
  BY SectionsFacts
<1>2. Elements(r, Sections[k]) \in Seq(Element \cup {Malformed})
  BY <1>1 DEF Elements, Request
<1> QED BY <1>2

LEMMA RowForOK ==
  ASSUME NEW r \in Request, NEW k \in 1 .. 6, NEW p \in Nat, NEW i \in Nat,
         NEW e \in Element
  PROVE  RowFor(r, Sections[k], p, i, e) \in Row
  BY SectionsFacts DEF RowFor, Row, Request, Element

LEMMA CreateStepOK ==
  ASSUME IInv, NEW t \in Threads, CreateStep(t)
  PROVE  IInv'
<1> USE DEF IInv
<1>1. CASE ParseProblem(t)
  <2>1. CASE Abort(t, 500) \/ Abort(t, 400)
    BY <1>1, <2>1, UnchangedOK, AbortOK DEF ParseProblem, Abort
  <2>2. CASE Goto(t, "begin") /\ UNCHANGED <<apiVars, todo, cur, local, reply, nextId, applied>>
    <3>1. WorkersOK'
      BY <1>1, <2>2, FirstInLabels
      DEF ParseProblem, WorkersOK, WorkersTypeOK, ControlOK, Goto, FirstSet
    <3> QED BY <2>2, <3>1, UnchangedOK
  <2> QED BY <1>1, <2>1, <2>2 DEF ParseProblem
<1>2. CASE InsertProblem(t)
  <2>1. Conn(t) \in Conns /\ cur[t] \in Request
    BY <1>2, BusyFacts DEF InsertProblem
  <2>2. nextId \in Nat
    BY DEF WorkersOK, WorkersTypeOK
  <2>3. {ProblemRow(cur[t], nextId)} \in SUBSET Row
    BY <2>1, <2>2, ProblemRowOK
  <2>4. {<<"problems", nextId>>} \in SUBSET (Tables \X Nat)
    BY <2>2, TableNames
  <2>5. ApisOK'
    BY <1>2, <2>1, <2>3, <2>4, ExecuteOK DEF InsertProblem
  <2>6. WorkersOK'
    BY <1>2
    DEF InsertProblem, WorkersOK, WorkersTypeOK, ControlOK, Goto, Labels,
        TxLabels
  <2> QED BY <2>5, <2>6
<1>3. CASE InsertProblemFails(t)
  BY <1>3, UnchangedOK, AbortOK DEF InsertProblemFails, Abort
<1>4. CASE SelectId(t)
  <2>1. ApisOK'
    BY <1>4, UnchangedOK DEF SelectId
  <2>2. PICK row \in SameTitle(t) :
          local' = [local EXCEPT ![t].problem_id = row.pid]
    BY <1>4 DEF SelectId
  <2>3. row.pid \in Nat
    <3>1. Conn(t) \in Conns
      BY <1>4, BusyFacts DEF SelectId
    <3>2. row \in Row
      BY <3>1 DEF SameTitle, Named, View, ApisOK, ApisTypeOK
    <3> QED BY <3>2 DEF Row
  <2>4. local' \in [Threads -> Local]
    <3>1. PICK l \in Local : l = local[t]
      BY DEF WorkersOK, WorkersTypeOK
    <3>2. [l EXCEPT !.problem_id = row.pid] \in Local
      BY <2>3 DEF Local
    <3> QED BY <2>2, <3>1, <3>2 DEF WorkersOK, WorkersTypeOK
  <2>5. local'[t].sec = 1
    BY <1>4, <2>2
    DEF SelectId, WorkersOK, WorkersTypeOK, ControlOK, NoLocal, Local
  <2>6. "section" \in Labels
    BY DEF Labels, TxLabels
  <2>7. WorkersTypeOK'
    BY <1>4, <2>4, <2>6 DEF SelectId, WorkersOK, WorkersTypeOK, Goto
  <2>8. ControlOK'
    BY <1>4, <2>2, <2>5, SectionsFacts
    DEF SelectId, WorkersOK, WorkersTypeOK, ControlOK, Goto
  <2> QED BY <2>1, <2>7, <2>8 DEF WorkersOK
<1>5. CASE SelectIdEmpty(t)
  BY <1>5, UnchangedOK, AnswerOK DEF SelectIdEmpty, Statuses
<1>6. CASE SelectIdThrows(t)
  BY <1>6, UnchangedOK, AbortOK DEF SelectIdThrows, Abort
<1>7. CASE InsertElement(t)
  <2>1. /\ Conn(t) \in Conns /\ cur[t] \in Request /\ local[t] \in Local
        /\ pc[t] = "section"
    BY <1>7, BusyFacts DEF InsertElement, AtElement
  <2>2. /\ local[t].sec \in 1 .. 6
        /\ local[t].problem_id \in Nat
        /\ local[t].i \in Nat \ {0}
    BY <2>1, SectionsFacts DEF WorkersOK, ControlOK, Local
  <2>3. local[t].i \in 1 .. Len(SectionElements(t))
    <3>1. SectionElements(t) \in Seq(Element \cup {Malformed})
      BY <2>1, <2>2, SectionsFacts
      DEF SectionElements, Section, Elements, Request
    <3>2. Len(SectionElements(t)) \in Nat
      BY <3>1
    <3> QED
      BY <1>7, <2>2, <3>2 DEF InsertElement, AtElement
  <2>4. SectionElements(t)[local[t].i] \in Element
    BY <1>7, <2>1, <2>2, <2>3, ElementOK
    DEF InsertElement, Refused, SectionElements, Section
  <2>5. NewRows(t) \in SUBSET Row
    BY <2>1, <2>2, <2>4, RowForOK DEF NewRows, Section
  <2>6. SectionScope(t) \in SUBSET (Tables \X Nat)
    BY <2>2, SectionsFacts DEF SectionScope, Section
  <2>7. ApisOK'
    BY <1>7, <2>1, <2>5, <2>6, ExecuteOK DEF InsertElement
  <2>8. local' \in [Threads -> Local]
    <3>1. PICK l \in Local : l = local[t]
      BY <2>1
    <3>2. [l EXCEPT !.i = l.i + 1] \in Local
      BY DEF Local
    <3> QED BY <1>7, <3>1, <3>2 DEF InsertElement, WorkersOK, WorkersTypeOK
  <2>9. local'[t].sec = local[t].sec
    BY <1>7 DEF InsertElement, WorkersOK, WorkersTypeOK, Local
  <2>10. WorkersTypeOK'
    BY <1>7, <2>8 DEF InsertElement, WorkersOK, WorkersTypeOK
  <2>11. ControlOK'
    BY <1>7, <2>1, <2>9
    DEF InsertElement, WorkersOK, WorkersTypeOK, ControlOK
  <2> QED BY <2>7, <2>10, <2>11 DEF WorkersOK
<1>8. CASE InsertElementFails(t)
  BY <1>8, UnchangedOK, AbortOK DEF InsertElementFails, AtElement, Abort
<1>9. CASE NextSection(t)
  <2>1. ApisOK'
    BY <1>9, UnchangedOK DEF NextSection
  <2>2. local[t] \in Local /\ local[t].sec \in 1 .. 6
    BY <1>9, BusyFacts, SectionsFacts
    DEF NextSection, WorkersOK, ControlOK, Local
  <2>3. /\ local' \in [Threads -> Local]
        /\ local'[t].sec = local[t].sec + 1
    <3>1. PICK l \in Local : l = local[t]
      BY <2>2
    <3> DEFINE one == [local EXCEPT ![t].sec = l.sec + 1]
               next == [l EXCEPT !.sec = l.sec + 1]
               new == [next EXCEPT !.i = 1]
    <3>2. new \in Local /\ new.sec = l.sec + 1
      <4>1. l.sec + 1 \in 1 .. Len(Sections) + 1
        BY <2>2, <3>1, SectionsFacts
      <4>2. next \in Local /\ next.sec = l.sec + 1
        BY <4>1 DEF Local
      <4> HIDE DEF next
      <4> QED BY <4>2 DEF Local
    <3>3. one = [local EXCEPT ![t] = next]
      BY <3>1
    <3>4. local' = [one EXCEPT ![t].i = 1]
      BY <1>9, <3>1 DEF NextSection
    <3> HIDE DEF one, next
    <3>5. local' = [local EXCEPT ![t] = new]
      BY <3>3, <3>4 DEF WorkersOK, WorkersTypeOK
    <3> HIDE DEF new
    <3> QED BY <3>1, <3>2, <3>5 DEF WorkersOK, WorkersTypeOK
  <2>4. WorkersTypeOK'
    BY <1>9, <2>3
    DEF NextSection, WorkersOK, WorkersTypeOK, Goto, Labels, TxLabels
  <2>5. ControlOK'
    <3>1. \/ pc'[t] = "commit"
          \/ pc'[t] = "section" /\ local'[t].sec <= Len(Sections)
      BY <1>9, <2>2, <2>3, SectionsFacts
      DEF NextSection, WorkersOK, WorkersTypeOK, Goto
    <3> QED
      BY <1>9, <3>1 DEF NextSection, WorkersOK, WorkersTypeOK, ControlOK, Goto
  <2> QED BY <2>1, <2>4, <2>5 DEF WorkersOK
<1>10. CASE RefuseTotal(t)
  BY <1>10, UnchangedOK, AbortOK DEF RefuseTotal, Abort
<1> QED
  BY <1>1, <1>2, <1>3, <1>4, <1>5, <1>6, <1>7, <1>8, <1>9, <1>10
  DEF CreateStep

LEMMA CaseScopeOK ==
  ASSUME NEW t \in Threads, cur[t] \in Request
  PROVE  CaseScope(t) \in SUBSET (Tables \X Nat)
  BY TableNames DEF CaseScope, Request

LEMMA RowsOfView ==
  ASSUME ApisOK, NEW c \in Conns, NEW table, NEW p
  PROVE  RowsOf(View(c), table, p) \in SUBSET Row
  BY DEF RowsOf, View, ApisOK, ApisTypeOK

LEMMA EditStepOK ==
  ASSUME IInv, NEW t \in Threads, EditStep(t)
  PROVE  IInv'
<1> USE DEF IInv
<1>1. CASE Update(t)
  BY <1>1, UnchangedOK, AnswerOK DEF Update, Statuses
<1>2. CASE Purge(t)
  <2> DEFINE table == DeleteTables[local[t].i]
  <2>1. /\ Conn(t) \in Conns /\ cur[t] \in Request
        /\ local[t].i \in 1 .. 9
    BY <1>2, BusyFacts, DeleteTablesFacts
    DEF Purge, WorkersOK, ControlOK, Local
  <2>2. {<<table, cur[t].pid>>} \in SUBSET (Tables \X Nat)
    BY <2>1, DeleteTablesFacts DEF Request
  <2>3. RowsOf(View(Conn(t)), table, cur[t].pid) \in SUBSET Row
    BY <2>1, RowsOfView
  <2>4. Execute(Conn(t), RowsOf(View(Conn(t)), table, cur[t].pid), {},
                {<<table, cur[t].pid>>})
    BY <1>2 DEF Purge
  <2>5. ApisOK'
    <3> HIDE DEF table
    <3> QED BY <2>1, <2>2, <2>3, <2>4, ExecuteOK
  <2>6. /\ local' \in [Threads -> Local]
        /\ local'[t].i = local[t].i + 1
    <3>1. PICK l \in Local : l = local[t]
      BY DEF WorkersOK, WorkersTypeOK
    <3>2. /\ [l EXCEPT !.i = l.i + 1] \in Local
          /\ [l EXCEPT !.i = l.i + 1].i = l.i + 1
      BY DEF Local
    <3> QED BY <1>2, <3>1, <3>2 DEF Purge, WorkersOK, WorkersTypeOK
  <2>7. WorkersTypeOK'
    BY <1>2, <2>6 DEF Purge, WorkersOK, WorkersTypeOK, Goto, Labels, TxLabels
  <2>8. ControlOK'
    <3>1. \/ pc'[t] = "commit"
          \/ pc'[t] = "purge" /\ local'[t].i <= Len(DeleteTables)
      BY <1>2, <2>1, <2>6, DeleteTablesFacts
      DEF Purge, WorkersOK, WorkersTypeOK, Goto
    <3> QED
      BY <1>2, <3>1 DEF Purge, WorkersOK, WorkersTypeOK, ControlOK, Goto
  <2> QED BY <2>5, <2>7, <2>8 DEF WorkersOK
<1>3. CASE PurgeThrows(t)
  BY <1>3, UnchangedOK, AbortOK DEF PurgeThrows, Abort
<1>4. CASE Wipe(t)
  <2>1. Conn(t) \in Conns /\ cur[t] \in Request
    BY <1>4, BusyFacts DEF Wipe
  <2>2. ApisOK'
    BY <1>4, <2>1, CaseScopeOK, RowsOfView, ExecuteOK DEF Wipe
  <2>3. WorkersOK'
    <3>1. CASE Goto(t, "rollback") /\ local' = [local EXCEPT ![t].status = 400]
      <4>1. PICK l \in Local : l = local[t]
        BY DEF WorkersOK, WorkersTypeOK
      <4>2. /\ [l EXCEPT !.status = 400] \in Local
            /\ [l EXCEPT !.status = 400].status = 400
        BY DEF Local
      <4>3. local' \in [Threads -> Local] /\ local'[t].status = 400
        BY <3>1, <4>1, <4>2 DEF WorkersOK, WorkersTypeOK
      <4>4. WorkersTypeOK'
        BY <1>4, <3>1, <4>3
        DEF Wipe, WorkersOK, WorkersTypeOK, Goto, Labels, TxLabels
      <4>5. ControlOK'
        BY <1>4, <3>1, <4>3
        DEF Wipe, WorkersOK, WorkersTypeOK, ControlOK, Goto
      <4> QED BY <4>4, <4>5 DEF WorkersOK
    <3>2. CASE Goto(t, "insertCase") /\ UNCHANGED local
      BY <1>4, <3>2
      DEF Wipe, WorkersOK, WorkersTypeOK, ControlOK, Goto, Labels, TxLabels
    <3> QED BY <1>4, <3>1, <3>2 DEF Wipe
  <2> QED BY <2>2, <2>3
<1>5. CASE InsertCase(t)
  <2> DEFINE e == Cases(cur[t])[local[t].i]
             new == {RowFor(cur[t], "problem_test_cases", cur[t].pid,
                            local[t].i, e)}
  <2>1. Conn(t) \in Conns /\ cur[t] \in Request /\ local[t] \in Local
    BY <1>5, BusyFacts DEF InsertCase
  <2>2. Cases(cur[t]) \in Seq(Element \cup {Malformed})
    BY <2>1 DEF Cases, Request, Parts
  <2>3. local[t].i \in 1 .. Len(Cases(cur[t])) /\ local[t].i \in Nat
    BY <1>5, <2>1, <2>2 DEF InsertCase, Local
  <2>4. e \in Element
    BY <1>5, <2>2, <2>3 DEF InsertCase
  <2>5. new \in SUBSET Row
    BY <2>1, <2>3, <2>4, TableNames
    DEF RowFor, Row, Request, Element, Registries
  <2>6. Execute(Conn(t), {}, new, CaseScope(t))
    BY <1>5 DEF InsertCase
  <2>7. ApisOK'
    <3> HIDE DEF new
    <3> QED BY <2>1, <2>5, <2>6, CaseScopeOK, ExecuteOK
  <2>8. local' \in [Threads -> Local]
    <3>1. PICK l \in Local : l = local[t]
      BY <2>1
    <3>2. [l EXCEPT !.i = l.i + 1] \in Local
      BY DEF Local
    <3> QED BY <1>5, <3>1, <3>2 DEF InsertCase, WorkersOK, WorkersTypeOK
  <2>9. WorkersTypeOK'
    BY <1>5, <2>8 DEF InsertCase, WorkersOK, WorkersTypeOK
  <2>10. ControlOK'
    BY <1>5 DEF InsertCase, WorkersOK, WorkersTypeOK, ControlOK
  <2> QED BY <2>7, <2>9, <2>10 DEF WorkersOK
<1>6. CASE ReplaceFails(t)
  BY <1>6, UnchangedOK, AbortOK DEF ReplaceFails, Abort
<1>7. CASE CasesInserted(t)
  <2>1. WorkersOK'
    BY <1>7
    DEF CasesInserted, WorkersOK, WorkersTypeOK, ControlOK, Goto, Labels,
        TxLabels
  <2> QED BY <1>7, <2>1, UnchangedOK DEF CasesInserted
<1>8. CASE PrepareGet(t)
  <2>1. WorkersOK'
    BY <1>8
    DEF PrepareGet, WorkersOK, WorkersTypeOK, ControlOK, Goto, Labels
  <2> QED BY <1>8, <2>1, UnchangedOK DEF PrepareGet
<1>9. CASE Get(t)
  BY <1>9, UnchangedOK, AnswerOK DEF Get, Statuses
<1>10. CASE GetThrows(t)
  BY <1>10, UnchangedOK, AbortOK DEF GetThrows, Abort
<1> QED
  BY <1>1, <1>2, <1>3, <1>4, <1>5, <1>6, <1>7, <1>8, <1>9, <1>10
  DEF EditStep

LEMMA ReadStepOK ==
  ASSUME IInv, NEW t \in Threads, ReadStep(t)
  PROVE  IInv'
<1> USE DEF IInv
<1>1. CASE ListRefused(t)
  BY <1>1, UnchangedOK, AnswerOK DEF ListRefused, Statuses
<1>2. CASE ListPrepare(t)
  <2>1. WorkersOK'
    BY <1>2
    DEF ListPrepare, ListReady, WorkersOK, WorkersTypeOK, ControlOK, Goto,
        Labels
  <2> QED BY <1>2, <2>1, UnchangedOK DEF ListPrepare
<1>3. CASE ListRead(t)
  <2>1. Listed(cur[t]) \in SUBSET Nat
    BY DEF Listed, View, Conns, ApisOK, ApisTypeOK, Row
  <2>2. local' \in [Threads -> Local]
    <3> DEFINE read == Listed(cur[t])
    <3>1. PICK l \in Local : l = local[t]
      BY DEF WorkersOK, WorkersTypeOK
    <3> HIDE DEF read
    <3>2. [l EXCEPT !.listed = read] \in Local
      BY <2>1 DEF Local, read
    <3> QED
      BY <1>3, <3>1, <3>2 DEF ListRead, read, WorkersOK, WorkersTypeOK
  <2>3. WorkersOK'
    BY <1>3, <2>2
    DEF ListRead, WorkersOK, WorkersTypeOK, ControlOK, Goto, Labels
  <2> QED BY <1>3, <2>3, UnchangedOK DEF ListRead
<1>4. CASE ListCount(t)
  BY <1>4, UnchangedOK, AnswerOK DEF ListCount, Statuses
<1>5. CASE ListThrows(t)
  BY <1>5, UnchangedOK, AnswerOK DEF ListThrows, ListReady, Statuses
<1>6. CASE PagePrepare(t)
  <2>1. WorkersOK'
    BY <1>6
    DEF PagePrepare, WorkersOK, WorkersTypeOK, ControlOK, Goto, Labels
  <2> QED BY <1>6, <2>1, UnchangedOK DEF PagePrepare
<1>7. CASE PageRefused(t)
  BY <1>7, UnchangedOK, AnswerOK DEF PageRefused, Statuses
<1>8. CASE PageThrows(t)
  BY <1>8, UnchangedOK, AnswerOK DEF PageThrows, Statuses
<1> QED
  BY <1>1, <1>2, <1>3, <1>4, <1>5, <1>6, <1>7, <1>8 DEF ReadStep

LEMMA FaultOK ==
  ASSUME IInv, Fault
  PROVE  IInv'
<1> USE DEF IInv
<1>1. CASE \E c \in MayLose : Lose(c) /\ UNCHANGED workerVars
  <2>1. ApisOK'
    BY <1>1, MayLoseAssumption, LoseOK
  <2>2. WorkersOK'
    BY <1>1 DEF workerVars, WorkersOK, WorkersTypeOK, ControlOK
  <2> QED BY <2>1, <2>2
<1>2. CASE Restart
  <2>1. ApisOK'
    BY <1>2, ReconnectOK DEF Restart
  <2>2. NoLocal \in Local
    BY SectionsFacts DEF NoLocal, Local
  <2>3. WorkersOK'
    BY <1>2, <2>2 DEF Restart, WorkersOK, WorkersTypeOK, ControlOK, Labels
  <2> QED BY <2>1, <2>3
<1> QED BY <1>1, <1>2 DEF Fault

-----------------------------------------------------------------------------
LEMMA InitOK == Init => IInv
<1> SUFFICES ASSUME Init PROVE IInv
  OBVIOUS
<1>1. ApisOK
  BY RowsAssumption
  DEF Init, ApisInit, ApisOK, ApisTypeOK, DepthOK, NoStrayWork,
      NothingPending
<1>2. nextId \in Nat
  BY FirstIdAssumption DEF Init, WorkersInit
<1>3. NoLocal \in Local
  BY SectionsFacts DEF NoLocal, Local
<1>4. WorkersTypeOK
  BY <1>2, <1>3 DEF Init, WorkersInit, WorkersTypeOK, Labels
<1>5. ControlOK
  BY DEF Init, WorkersInit, ControlOK
<1> QED BY <1>1, <1>4, <1>5 DEF IInv, WorkersOK

LEMMA NextOK == IInv /\ [Next]_vars => IInv'
<1> SUFFICES ASSUME IInv, [Next]_vars PROVE IInv'
  OBVIOUS
<1>1. CASE \E t \in Threads : Step(t)
  BY <1>1, WorkerStepOK, CreateStepOK, EditStepOK, ReadStepOK DEF Step
<1>2. CASE UNCHANGED vars
  <2>1. ApisOK'
    BY <1>2, UnchangedOK DEF vars, IInv
  <2>2. WorkersOK'
    BY <1>2 DEF vars, workerVars, IInv, WorkersOK, WorkersTypeOK, ControlOK
  <2> QED BY <2>1, <2>2 DEF IInv
<1>3. CASE Fault
  BY <1>3, FaultOK
<1> QED BY <1>1, <1>2, <1>3 DEF Next, Quiet

LEMMA Invariance == Spec => []IInv
  BY InitOK, NextOK, PTL DEF Spec

\* Every reachable state is well typed, whatever the requests are: the
\* recursive mutexes are never unlocked more often than they were locked,
\* although rollbackTransaction runs on paths that locked nothing.
THEOREM TypeCorrect == Spec => []TypeOK
<1>1. IInv => TypeOK
  BY DEF IInv, ApisOK, WorkersOK, TypeOK
<1> QED BY <1>1, Invariance, PTL

\* No call of APIs leaves work behind: a connection whose mutex is free is
\* in autocommit mode, and one in autocommit mode has nothing pending.
THEOREM NothingStrays == Spec => []NoStrayWork
<1>1. IInv => NoStrayWork
  BY DEF IInv, ApisOK
<1> QED BY <1>1, Invariance, PTL

-----------------------------------------------------------------------------
(* A step of one worker leaves the others where they are.                  *)

Elsewhere(t) ==
  \A u \in Threads : u # t => pc'[u] = pc[u] /\ cur'[u] = cur[u]

LEMMA MovesElsewhere ==
  ASSUME IInv, NEW t \in Threads, Step(t)
  PROVE  Elsewhere(t)
<1> USE DEF IInv, WorkersOK, WorkersTypeOK, Elsewhere, Goto
<1>1. CASE \E status \in Statuses : Answer(t, status)
  BY <1>1 DEF Answer
<1>2. CASE \E status \in {400, 500} : Abort(t, status)
  BY <1>2 DEF Abort, Fail
<1>3. CASE WorkerStep(t)
  <2>1. CASE Committed(t) \/ RolledBack(t) \/ PermissionDenied(t)
             \/ RollbackThrows(t)
    BY <2>1
    DEF Committed, RolledBack, PermissionDenied, RollbackThrows, Answer
  <2>2. CASE Dispatch(t) \/ DispatchUnauthorized(t) \/ PreparePermission(t)
             \/ PermissionGranted(t)
    BY <2>2 DEF Dispatch, DispatchUnauthorized, PreparePermission,
                PermissionGranted
  <2>3. CASE Begin(t) \/ Commit(t) \/ Rollback(t)
    BY <2>3 DEF Begin, Commit, Rollback
  <2>4. CASE BeginThrows(t) \/ CommitThrows(t)
    BY <2>4 DEF BeginThrows, CommitThrows, Abort, Fail
  <2> QED BY <2>4, <1>3, <2>1, <2>2, <2>3 DEF WorkerStep
<1>4. CASE CreateStep(t)
  <2>1. CASE SelectIdEmpty(t) \/ SelectIdThrows(t) \/ InsertElementFails(t)
             \/ RefuseTotal(t) \/ InsertProblemFails(t)
    BY <1>1, <1>2, <2>1
    DEF SelectIdEmpty, SelectIdThrows, InsertElementFails, RefuseTotal,
        InsertProblemFails, Statuses
  <2>2. CASE ParseProblem(t)
    BY <1>2, <2>2 DEF ParseProblem
  <2>3. CASE InsertProblem(t) \/ SelectId(t) \/ InsertElement(t)
             \/ NextSection(t)
    BY <2>3 DEF InsertProblem, SelectId, InsertElement, NextSection
  <2> QED BY <1>4, <2>1, <2>2, <2>3 DEF CreateStep
<1>5. CASE EditStep(t)
  <2>1. CASE PurgeThrows(t) \/ ReplaceFails(t) \/ GetThrows(t)
    BY <1>2, <2>1 DEF PurgeThrows, ReplaceFails, GetThrows
  <2>2. CASE Update(t) \/ Get(t)
    BY <2>2 DEF Update, Get, Answer
  <2>3. CASE Purge(t) \/ Wipe(t) \/ InsertCase(t) \/ CasesInserted(t)
             \/ PrepareGet(t)
    BY <2>3 DEF Purge, Wipe, InsertCase, CasesInserted, PrepareGet
  <2> QED BY <1>5, <2>1, <2>2, <2>3 DEF EditStep
<1>6. CASE ReadStep(t)
  <2>1. CASE ListRefused(t) \/ ListCount(t) \/ ListThrows(t)
             \/ PageRefused(t) \/ PageThrows(t)
    BY <2>1
    DEF ListRefused, ListCount, ListThrows, PageRefused, PageThrows, Answer
  <2>2. CASE ListPrepare(t) \/ ListRead(t) \/ PagePrepare(t)
    BY <2>2 DEF ListPrepare, ListRead, PagePrepare
  <2> QED BY <1>6, <2>1, <2>2 DEF ReadStep
<1> QED BY <1>3, <1>4, <1>5, <1>6 DEF Step

-----------------------------------------------------------------------------
(* Deletions are all that the connection of the permission check ever has  *)
(* pending.                                                                *)

ApiInsertsNothing == ins["api"] = {}

LEMMA ExecuteElsewhere ==
  ASSUME ApisOK, ApiInsertsNothing, NEW c \in Conns, NEW gone, NEW new,
         NEW scope, Execute(c, gone, new, scope), c # "api" \/ new = {}
  PROVE  ApiInsertsNothing'
  BY DEF ApisOK, ApisTypeOK, ApiInsertsNothing, Execute, Conns

LEMMA EndWorkElsewhere ==
  ASSUME ApisOK, ApiInsertsNothing, NEW c \in Conns, EndWork(c)
  PROVE  ApiInsertsNothing'
  BY DEF ApisOK, ApisTypeOK, ApiInsertsNothing, EndWork, Conns

LEMMA ApiInsertsNothingNext ==
  ASSUME IInv, ApiInsertsNothing, [Next]_vars
  PROVE  ApiInsertsNothing'
<1> USE DEF IInv
<1>1. CASE UNCHANGED ins
  BY <1>1 DEF ApiInsertsNothing
<1>2. ASSUME NEW t \in Threads, Step(t)
      PROVE  ApiInsertsNothing'
  <2>1. Conn(t) \in Conns
    BY DEF Conn, ConnOf, Conns
  <2>2. CASE WorkerStep(t)
    <3>1. CASE Committed(t) \/ RolledBack(t)
      BY <2>1, <3>1, EndWorkElsewhere
      DEF Committed, RolledBack, FinishTransaction, Publish
    <3>2. CASE Commit(t) \/ Rollback(t)
      BY <2>1, <3>2, EndWorkElsewhere
      DEF Commit, Rollback, CommitWork, RollbackWork, Publish, Discard
    <3>3. CASE Begin(t)
      BY <1>1, <3>3 DEF Begin, BeginTransaction, workVars
    <3>4. CASE DispatchUnauthorized(t) \/ Dispatch(t)
               \/ PreparePermission(t) \/ PermissionGranted(t)
               \/ PermissionDenied(t) \/ BeginThrows(t)
               \/ CommitThrows(t) \/ RollbackThrows(t)
      BY <1>1, <3>4
      DEF DispatchUnauthorized, Dispatch, PreparePermission,
          PermissionGranted, PermissionDenied, BeginThrows,
          BeginTransactionThrows, workVars, CommitThrows, Abort,
          RollbackThrows, apiVars
    <3> QED BY <2>2, <3>1, <3>2, <3>3, <3>4 DEF WorkerStep
  <2>3. CASE CreateStep(t)
    <3>1. CASE InsertProblem(t)
      <4>1. Conn(t) # "api"
        BY <3>1 DEF InsertProblem, WorkersOK, ControlOK, Conn, ConnOf
      <4> QED BY <2>1, <3>1, <4>1, ExecuteElsewhere DEF InsertProblem
    <3>2. CASE InsertElement(t)
      <4>1. Conn(t) # "api"
        BY <3>2
        DEF InsertElement, AtElement, WorkersOK, ControlOK, Conn, ConnOf
      <4> QED BY <2>1, <3>2, <4>1, ExecuteElsewhere DEF InsertElement
    <3>3. CASE ParseProblem(t) \/ InsertProblemFails(t) \/ SelectId(t)
               \/ SelectIdEmpty(t) \/ SelectIdThrows(t)
               \/ InsertElementFails(t) \/ NextSection(t) \/ RefuseTotal(t)
      BY <1>1, <3>3
      DEF ParseProblem, InsertProblemFails, SelectId, SelectIdEmpty,
          SelectIdThrows, InsertElementFails, NextSection, RefuseTotal,
          Abort, apiVars
    <3> QED BY <2>3, <3>1, <3>2, <3>3 DEF CreateStep
  <2>4. CASE EditStep(t)
    <3>1. CASE Purge(t)
      BY <2>1, <3>1, ExecuteElsewhere DEF Purge
    <3>2. CASE Wipe(t)
      BY <2>1, <3>2, ExecuteElsewhere DEF Wipe
    <3>3. CASE InsertCase(t)
      <4>1. Conn(t) # "api"
        BY <3>3 DEF InsertCase, WorkersOK, ControlOK, Conn, ConnOf
      <4> QED BY <2>1, <3>3, <4>1, ExecuteElsewhere DEF InsertCase
    <3>4. CASE Update(t) \/ PurgeThrows(t) \/ ReplaceFails(t)
               \/ CasesInserted(t) \/ PrepareGet(t) \/ Get(t)
               \/ GetThrows(t)
      BY <1>1, <3>4
      DEF Update, PurgeThrows, ReplaceFails, CasesInserted, PrepareGet, Get,
          GetThrows, Abort, apiVars
    <3> QED BY <2>4, <3>1, <3>2, <3>3, <3>4 DEF EditStep
  <2>5. CASE ReadStep(t)
    BY <1>1, <2>5
    DEF ReadStep, ListRefused, ListPrepare, ListRead, ListCount, ListThrows,
        PagePrepare, PageRefused, PageThrows, apiVars
  <2> QED BY <1>2, <2>2, <2>3, <2>4, <2>5 DEF Step
<1>3. CASE Fault
  <2>1. CASE \E c \in MayLose : Lose(c)
    BY <2>1, EndWorkElsewhere, MayLoseAssumption DEF Lose, Discard
  <2>2. CASE Restart
    BY <2>2 DEF Restart, Reconnect, ApiInsertsNothing, Conns
  <2> QED BY <1>3, <2>1, <2>2 DEF Fault
<1> QED BY <1>1, <1>2, <1>3 DEF Next, Quiet, vars, apiVars

\* A worker changes its label only in a step of its own, or when the server
\* dies, which makes it idle.
LEMMA OwnStep ==
  ASSUME IInv, Next, NEW t \in Threads, pc'[t] \notin {pc[t], "idle"}
  PROVE  Step(t)
<1>1. ~ Fault
  BY DEF Fault, Restart, workerVars
<1>2. PICK u \in Threads : Step(u)
  BY <1>1 DEF Next, Quiet, vars, workerVars
<1>3. u = t
  BY <1>2, MovesElsewhere DEF Elsewhere
<1> QED BY <1>2, <1>3

\* The permission check runs outside the mutex, among the statements of a
\* deletion; it still grants only what a committed row grants.
THEOREM GrantsCommitted == Spec => GrantsAreCommitted
<1>1. Init => ApiInsertsNothing
  BY DEF Init, ApisInit, ApiInsertsNothing, Conns
<1>2. IInv /\ ApiInsertsNothing /\ [Next]_vars => ApiInsertsNothing'
  BY ApiInsertsNothingNext
<1> DEFINE G == \A t \in Threads :
       (pc[t] = "permissionRead" /\ pc'[t] \notin {"permissionRead", "idle"})
         => Granted(cur[t], cur[t].pid, EditFlag)
<1>3. IInv /\ ApiInsertsNothing /\ [Next]_vars => [G]_vars
  <2> SUFFICES ASSUME IInv, ApiInsertsNothing, Next PROVE G
    BY DEF G
  <2>1. SUFFICES ASSUME NEW t \in Threads, pc[t] = "permissionRead",
                        pc'[t] \notin {"permissionRead", "idle"}
                 PROVE  Granted(cur[t], cur[t].pid, EditFlag)
    BY DEF G
  <2>2. PermissionGranted(t)
    <3>1. Step(t)
      BY <2>1, OwnStep
    <3>2. CASE WorkerStep(t)
      <4>1. PermissionDenied(t) => pc'[t] = "idle"
        BY DEF IInv, PermissionDenied, Answer, Goto, WorkersOK, WorkersTypeOK
      <4> QED
        BY <2>1, <3>2, <4>1
        DEF WorkerStep, DispatchUnauthorized, Dispatch, PreparePermission,
            Begin, Commit, Committed, Rollback, RolledBack, BeginThrows,
            CommitThrows, RollbackThrows
    <3>3. CASE CreateStep(t)
      BY <2>1, <3>3
      DEF CreateStep, ParseProblem, InsertProblem, InsertProblemFails,
          SelectId, SelectIdEmpty, SelectIdThrows, InsertElement,
          InsertElementFails, AtElement, NextSection, RefuseTotal
    <3>4. CASE EditStep(t)
      BY <2>1, <3>4
      DEF EditStep, Update, Purge, PurgeThrows, Wipe, InsertCase,
          ReplaceFails, CasesInserted, PrepareGet, Get, GetThrows
    <3>5. CASE ReadStep(t)
      BY <2>1, <3>5
      DEF ReadStep, ListRefused, ListPrepare, ListReady, ListRead, ListCount,
          ListThrows, PagePrepare, PageRefused, PageThrows
    <3> QED BY <3>1, <3>2, <3>3, <3>4, <3>5 DEF Step
  <2>3. Permitted(cur[t])
    BY <2>2 DEF PermissionGranted
  <2> QED
    BY <2>3 DEF Permitted, Granted, RowsOf, View, ApiInsertsNothing
<1> QED
  BY <1>1, <1>2, <1>3, Invariance, PTL DEF Spec, GrantsAreCommitted

\* The list reads the connection that deletions use as well: it may miss
\* what a deletion has removed so far, and never shows what is not stored.
THEOREM ListsCommitted == Spec => ListedAreCommitted
<1>1. Init => ApiInsertsNothing
  BY DEF Init, ApisInit, ApiInsertsNothing, Conns
<1>2. IInv /\ ApiInsertsNothing /\ [Next]_vars => ApiInsertsNothing'
  BY ApiInsertsNothingNext
<1> DEFINE G == \A t \in Threads :
       (pc[t] = "listRead" /\ pc'[t] = "listCount")
         => \A p \in local'[t].listed :
              /\ p \in ProblemIds
              /\ cur[t].admin \/ Granted(cur[t], p, ViewFlag)
<1>3. IInv /\ ApiInsertsNothing /\ [Next]_vars => [G]_vars
  <2> SUFFICES ASSUME IInv, ApiInsertsNothing, Next PROVE G
    BY DEF G
  <2>1. SUFFICES ASSUME NEW t \in Threads,
                        pc[t] = "listRead", pc'[t] = "listCount",
                        NEW p \in local'[t].listed
                 PROVE  /\ p \in ProblemIds
                        /\ cur[t].admin \/ Granted(cur[t], p, ViewFlag)
    BY DEF G
  <2>2. ListRead(t)
    <3>1. Step(t)
      BY <2>1, OwnStep
    <3>2. CASE WorkerStep(t)
      BY <2>1, <3>2
      DEF WorkerStep, DispatchUnauthorized, Dispatch, PreparePermission,
          PermissionGranted, PermissionDenied, Begin, Commit, Committed,
          Rollback, RolledBack, BeginThrows, CommitThrows, RollbackThrows
    <3>3. CASE CreateStep(t)
      BY <2>1, <3>3
      DEF CreateStep, ParseProblem, InsertProblem, InsertProblemFails,
          SelectId, SelectIdEmpty, SelectIdThrows, InsertElement,
          InsertElementFails, AtElement, NextSection, RefuseTotal
    <3>4. CASE EditStep(t)
      BY <2>1, <3>4
      DEF EditStep, Update, Purge, PurgeThrows, Wipe, InsertCase,
          ReplaceFails, CasesInserted, PrepareGet, Get, GetThrows
    <3>5. CASE ListThrows(t)
      BY <2>1, <3>5
      DEF ListThrows, Answer, Goto, IInv, WorkersOK, WorkersTypeOK
    <3>6. CASE ReadStep(t) /\ ~ ListThrows(t)
      BY <2>1, <3>6
      DEF ReadStep, ListRefused, ListPrepare, ListReady, ListCount,
          PagePrepare, PageRefused, PageThrows
    <3> QED BY <3>1, <3>2, <3>3, <3>4, <3>5, <3>6 DEF Step
  <2>3. p \in Listed(cur[t])
    <3> DEFINE read == Listed(cur[t])
    <3>1. PICK l \in Local : l = local[t]
      BY DEF IInv, WorkersOK, WorkersTypeOK
    <3>2. local' = [local EXCEPT ![t].listed = read]
      BY <2>2 DEF ListRead
    <3> HIDE DEF read
    <3>3. [l EXCEPT !.listed = read].listed = read
      BY DEF Local
    <3>4. local'[t].listed = read
      BY <3>1, <3>2, <3>3 DEF IInv, WorkersOK, WorkersTypeOK
    <3> QED BY <2>1, <3>4 DEF read
  <2> QED
    BY <2>3
    DEF Listed, Sees, Granted, ProblemIds, RowsOf, View, ApiInsertsNothing
<1> QED
  BY <1>1, <1>2, <1>3, Invariance, PTL DEF Spec, ListedAreCommitted
=============================================================================
