--------------------------- MODULE IsolationProofs ---------------------------
(***************************************************************************)
(* When no request rolls back a transaction it has not begun (Orderly),    *)
(* the transactions of ManagePanel are isolated from each other, and a     *)
(* request that is refused stores nothing.                                 *)
(***************************************************************************)
EXTENDS ManagePanelProofs

-----------------------------------------------------------------------------
(* The inductive invariant of the transactions.                            *)

\* A mutex is held only by a worker in a transaction on its connection.
OwnersInTx ==
  \A c \in Conns \ lost :
    owner[c] # NoThread => InTx(owner[c]) /\ Conn(owner[c]) = c

\* Nothing is pending on a connection that is lost.
LostEmpty == \A c \in lost : NothingPending(c)

\* What is pending on a connection was inserted by the request of its owner.
PendingOwn ==
  \A c \in Conns : \A row \in ins[c] :
    owner[c] # NoThread /\ row.by = cur[owner[c]].id

\* Nothing is pending between commit or rollback and the unlock.
EndedClean ==
  \A t \in Threads :
    (pc[t] \in {"committed", "rolledback"} /\ Conn(t) \notin lost)
      => NothingPending(Conn(t))

\* A worker that looks its new problem up finds it.
SelectFinds ==
  \A t \in Threads :
    (pc[t] = "selectId" /\ Conn(t) \notin lost)
      => \E p \in Nat : ProblemRow(cur[t], p) \in ins[Conn(t)]

TxInv ==
  /\ Isolated
  /\ OwnersInTx
  /\ LostEmpty
  /\ PendingOwn
  /\ EndedClean
  /\ SelectFinds

-----------------------------------------------------------------------------
(* The kinds of steps, as the transactions see them.                       *)

Outside(t) ==
  ~ InTx(t) /\ ~ InTx(t)' /\ UNCHANGED apiVars

Begins(t) ==
  /\ ~ InTx(t) /\ InTx(t)' /\ cur'[t] = cur[t]
  /\ pc'[t] \notin {"selectId", "committed", "rolledback"}
  /\ BeginTransaction(Conn(t), t)

Computes(t) ==
  /\ InTx(t) /\ InTx(t)' /\ cur'[t] = cur[t]
  /\ pc'[t] \notin {"selectId", "committed", "rolledback"}
  /\ UNCHANGED apiVars

Executes(t) ==
  /\ InTx(t) /\ InTx(t)' /\ cur'[t] = cur[t]
  /\ pc'[t] \notin {"committed", "rolledback"}
  /\ \E gone, new, scope :
       /\ Execute(Conn(t), gone, new, scope)
       /\ \A row \in new : row.by = cur[t].id
       /\ pc'[t] = "selectId" =>
            \E p \in Nat : ProblemRow(cur[t], p) \in new

EndsWork(t) ==
  /\ InTx(t) /\ cur'[t] = cur[t]
  /\ \/ pc[t] = "commit" /\ pc'[t] = "committed" /\ CommitWork(Conn(t))
     \/ pc'[t] = "rolledback" /\ RollbackWork(Conn(t))

Finishes(t) ==
  /\ pc[t] \in {"committed", "rolledback"}
  /\ ~ InTx(t)'
  /\ FinishTransaction(Conn(t), t)

\* A call on a connection that is lost: it throws.
OnLost(t) ==
  /\ Conn(t) \in lost
  /\ InTx(t)' => cur'[t] = cur[t]
  /\ UNCHANGED <<autocommit, workVars, lost>>
  /\ \A c \in Conns : c # Conn(t) => owner'[c] = owner[c] /\ depth'[c] = depth[c]

TxMove(t) ==
  /\ Elsewhere(t)
  /\ \/ Outside(t) \/ Begins(t) \/ Computes(t) \/ Executes(t)
     \/ EndsWork(t) \/ Finishes(t) \/ OnLost(t)

-----------------------------------------------------------------------------
(* Every kind of step preserves the invariant.                             *)

\* No one else is in a transaction on the connection of t.
LEMMA AloneInTx ==
  ASSUME TxInv, NEW t \in Threads, NEW u \in Threads, u # t,
         InTx(t), InTx(u), Conn(t) \notin lost
  PROVE  Conn(t) # Conn(u)
  BY DEF TxInv, Isolated

LEMMA TxMoveOK ==
  ASSUME IInv, TxInv, NEW t \in Threads, TxMove(t)
  PROVE  TxInv'
<1>1. \A u \in Threads : Conn(u) \in Conns
  BY DEF Conn, ConnOf, Conns
<1>2. \A u \in Threads : u # t => /\ InTx(u)' <=> InTx(u)
                                  /\ Conn(u)' = Conn(u)
                                  /\ cur'[u] = cur[u]
                                  /\ pc'[u] = pc[u]
  BY DEF TxMove, Elsewhere, InTx, Conn
<1>3. t # NoThread /\ NoThread \notin Threads
  BY NoThreadAssumption
<1>4. \A c \in Conns : owner[c] # NoThread => owner[c] \in Threads
  BY DEF IInv, ApisOK, ApisTypeOK
<1>5. cur'[t] = cur[t] => Conn(t)' = Conn(t)
  BY DEF Conn
<1>6. CASE Outside(t)
  <2>1. UNCHANGED <<owner, depth, autocommit, ins, del, locks, lost>>
    BY <1>6 DEF Outside, apiVars
  <2>2. Isolated'
    BY <1>2, <1>6, <2>1 DEF TxInv, Isolated, Outside
  <2>3. OwnersInTx'
    BY <1>2, <1>4, <1>6, <2>1 DEF TxInv, OwnersInTx, Outside
  <2>4. PendingOwn'
    BY <1>2, <1>4, <1>6, <2>1
    DEF TxInv, OwnersInTx, PendingOwn, LostEmpty, NothingPending, Outside
  <2>5. EndedClean' /\ SelectFinds'
    <3>1. pc'[t] \notin {"committed", "rolledback", "selectId"}
      BY <1>6 DEF Outside, InTx, TxLabels
    <3> QED
      BY <1>2, <2>1, <3>1
      DEF TxInv, EndedClean, SelectFinds, NothingPending
  <2>6. LostEmpty'
    BY <2>1 DEF TxInv, LostEmpty, NothingPending
  <2> QED BY <2>2, <2>3, <2>4, <2>5, <2>6 DEF TxInv
<1>7. CASE Begins(t)
  <2> DEFINE c == Conn(t)
  <2>1. c \in Conns /\ c \notin lost
    BY <1>1, <1>7 DEF Begins, BeginTransaction
  <2>2. owner[c] = NoThread /\ depth[c] = 0
    BY <1>7, <2>1
    DEF Begins, BeginTransaction, Lock, Free, TxInv, OwnersInTx, IInv,
        ApisOK, DepthOK
  <2>3. /\ owner' = [owner EXCEPT ![c] = t]
        /\ depth' = [depth EXCEPT ![c] = @ + 1]
        /\ autocommit' = [autocommit EXCEPT ![c] = FALSE]
        /\ UNCHANGED <<ins, del, locks, lost>>
    BY <1>7 DEF Begins, BeginTransaction, Lock, workVars
  <2>4. /\ owner \in [Conns -> Threads \cup {NoThread}]
        /\ depth \in [Conns -> Nat]
        /\ autocommit \in [Conns -> BOOLEAN]
    BY DEF IInv, ApisOK, ApisTypeOK
  <2>5. \A u \in Threads : u # t /\ InTx(u) => Conn(u) # c
    BY <2>1, <2>2, <1>3 DEF TxInv, Isolated
  <2>6. Conn(t)' = c /\ InTx(t)'
    BY <1>5, <1>7 DEF Begins
  <2> HIDE DEF c
  <2>7. Isolated'
    BY <1>1, <1>2, <2>1, <2>2, <2>3, <2>4, <2>5, <2>6 DEF TxInv, Isolated
  <2>8. OwnersInTx'
    BY <1>2, <1>4, <2>1, <2>3, <2>4, <2>6, <1>7
    DEF TxInv, OwnersInTx, Begins
  <2>9. PendingOwn'
    BY <1>2, <1>3, <1>4, <2>1, <2>2, <2>3, <2>4, <1>7
    DEF TxInv, OwnersInTx, PendingOwn, Begins
  <2>10. EndedClean' /\ SelectFinds'
    BY <1>2, <1>7, <2>3
    DEF TxInv, EndedClean, SelectFinds, NothingPending, Begins
  <2>11. LostEmpty'
    BY <2>3 DEF TxInv, LostEmpty, NothingPending
  <2> QED BY <2>7, <2>8, <2>9, <2>10, <2>11 DEF TxInv
<1>8. CASE Computes(t)
  <2>1. UNCHANGED <<owner, depth, autocommit, ins, del, locks, lost>>
    BY <1>8 DEF Computes, apiVars
  <2>2. Isolated'
    BY <1>2, <1>5, <1>8, <2>1 DEF TxInv, Isolated, Computes
  <2>3. OwnersInTx'
    BY <1>2, <1>4, <1>5, <1>8, <2>1 DEF TxInv, OwnersInTx, Computes
  <2>4. PendingOwn'
    BY <1>2, <1>4, <1>8, <2>1 DEF TxInv, OwnersInTx, PendingOwn, Computes
  <2>5. EndedClean' /\ SelectFinds'
    BY <1>2, <1>8, <2>1
    DEF TxInv, EndedClean, SelectFinds, NothingPending, Computes
  <2>6. LostEmpty'
    BY <2>1 DEF TxInv, LostEmpty, NothingPending
  <2> QED BY <2>2, <2>3, <2>4, <2>5, <2>6 DEF TxInv
<1>9. CASE Executes(t)
  <2> DEFINE c == Conn(t)
  <2>1. c \in Conns /\ c \notin lost
    BY <1>1, <1>9 DEF Executes, Execute
  <2>2. owner[c] = t /\ ~ autocommit[c]
    BY <1>9, <2>1 DEF Executes, TxInv, Isolated
  <2>3. PICK gone, new, scope :
          /\ Execute(c, gone, new, scope)
          /\ \A row \in new : row.by = cur[t].id
          /\ pc'[t] = "selectId" => \E p \in Nat : ProblemRow(cur[t], p) \in new
    BY <1>9 DEF Executes
  <2>4. /\ ins' = [ins EXCEPT ![c] = (@ \ gone) \cup new]
        /\ del' = [del EXCEPT ![c] = (@ \ new) \cup gone]
        /\ locks' = [locks EXCEPT ![c] = @ \cup scope]
        /\ UNCHANGED <<owner, depth, autocommit, lost>>
    BY <2>2, <2>3 DEF Execute
  <2>5. /\ ins \in [Conns -> SUBSET Row]
        /\ del \in [Conns -> SUBSET Row]
        /\ locks \in [Conns -> SUBSET (Tables \X Nat)]
    BY DEF IInv, ApisOK, ApisTypeOK
  <2>6. \A u \in Threads : u # t /\ InTx(u) => Conn(u) # c
    BY <1>9, <2>1, AloneInTx DEF Executes
  <2>7. Conn(t)' = c /\ InTx(t)' /\ cur'[t] = cur[t]
    BY <1>5, <1>9 DEF Executes
  <2>8. ins'[c] = (ins[c] \ gone) \cup new
    BY <2>1, <2>4, <2>5
  <2>9. \A d \in Conns : d # c => /\ ins'[d] = ins[d]
                                 /\ del'[d] = del[d]
                                 /\ locks'[d] = locks[d]
    BY <2>4, <2>5
  <2> HIDE DEF c
  <2>10. Isolated'
    BY <1>2, <2>2, <2>4, <2>7, <1>9 DEF c, TxInv, Isolated, Executes
  <2>11. OwnersInTx'
    BY <1>2, <1>4, <2>4, <2>7, <1>9 DEF c, TxInv, OwnersInTx, Executes
  <2>12. PendingOwn'
    <3>1. \A row \in ins'[c] : row.by = cur'[t].id
      BY <2>1, <2>2, <2>3, <2>7, <2>8 DEF TxInv, PendingOwn
    <3>2. \A d \in Conns : d # c => \A row \in ins'[d] :
            owner'[d] # NoThread /\ row.by = cur'[owner'[d]].id
      BY <1>2, <1>4, <2>4, <2>7, <2>9 DEF TxInv, OwnersInTx, PendingOwn
    <3> QED BY <1>3, <2>2, <2>4, <3>1, <3>2 DEF PendingOwn
  <2>13. EndedClean'
    <3>1. pc'[t] \notin {"committed", "rolledback"}
      BY <1>9 DEF Executes
    <3> QED
      BY <1>1, <1>2, <2>4, <2>6, <2>9, <3>1
      DEF TxInv, EndedClean, NothingPending, InTx, TxLabels
  <2>14. SelectFinds'
    <3>1. pc'[t] = "selectId" =>
            \E p \in Nat : ProblemRow(cur[t], p)' \in ins'[c]
      BY <2>3, <2>7, <2>8 DEF ProblemRow
    <3>2. \A u \in Threads :
            u # t /\ pc'[u] = "selectId" /\ Conn(u) \notin lost =>
              \E p \in Nat : ProblemRow(cur[u], p)' \in ins'[Conn(u)]
      BY <1>1, <1>2, <2>6, <2>9
      DEF TxInv, SelectFinds, InTx, TxLabels, ProblemRow
    <3> QED BY <1>2, <2>4, <2>7, <3>1, <3>2 DEF SelectFinds
  <2>15. LostEmpty'
    BY <2>1, <2>4, <2>9, <1>1 DEF TxInv, LostEmpty, NothingPending, IInv, ApisOK, ApisTypeOK
  <2> QED BY <2>10, <2>11, <2>12, <2>13, <2>14, <2>15 DEF TxInv
<1>10. CASE EndsWork(t)
  <2> DEFINE c == Conn(t)
  <2>1. c \in Conns /\ c \notin lost
    BY <1>1, <1>10 DEF EndsWork, CommitWork, RollbackWork
  <2>2. EndWork(c) /\ UNCHANGED <<owner, depth, autocommit, lost>>
    BY <1>10 DEF EndsWork, CommitWork, RollbackWork, Publish, Discard
  <2>3. /\ ins \in [Conns -> SUBSET Row]
        /\ del \in [Conns -> SUBSET Row]
        /\ locks \in [Conns -> SUBSET (Tables \X Nat)]
    BY DEF IInv, ApisOK, ApisTypeOK
  <2>4. ins'[c] = {} /\ del'[c] = {} /\ locks'[c] = {}
    BY <2>1, <2>2, <2>3 DEF EndWork
  <2>5. \A d \in Conns : d # c => /\ ins'[d] = ins[d]
                                 /\ del'[d] = del[d]
                                 /\ locks'[d] = locks[d]
    BY <2>2, <2>3 DEF EndWork
  <2>6. \A u \in Threads : u # t /\ InTx(u) => Conn(u) # c
    BY <1>10, <2>1, AloneInTx DEF EndsWork
  <2>7. /\ Conn(t)' = c /\ InTx(t)' /\ cur'[t] = cur[t] /\ InTx(t)
        /\ pc'[t] \in {"committed", "rolledback"}
    BY <1>5, <1>10 DEF EndsWork, InTx, TxLabels
  <2> HIDE DEF c
  <2>8. Isolated'
    BY <1>2, <2>2, <2>7 DEF c, TxInv, Isolated
  <2>9. OwnersInTx'
    BY <1>2, <1>4, <2>2, <2>7 DEF c, TxInv, OwnersInTx
  <2>10. PendingOwn'
    BY <1>2, <1>4, <2>2, <2>4, <2>5, <2>7
    DEF TxInv, OwnersInTx, PendingOwn
  <2>11. EndedClean'
    <3>1. \A u \in Threads :
            (/\ u # t
             /\ pc'[u] \in {"committed", "rolledback"}
             /\ Conn(u) \notin lost) =>
              /\ ins'[Conn(u)] = {}
              /\ del'[Conn(u)] = {}
              /\ locks'[Conn(u)] = {}
      BY <1>1, <1>2, <2>5, <2>6
      DEF TxInv, EndedClean, NothingPending, InTx, TxLabels
    <3> QED BY <1>2, <2>2, <2>4, <2>7, <3>1 DEF EndedClean, NothingPending
  <2>12. SelectFinds'
    <3>1. \A u \in Threads :
            u # t /\ pc'[u] = "selectId" /\ Conn(u) \notin lost =>
              \E p \in Nat : ProblemRow(cur[u], p)' \in ins'[Conn(u)]
      BY <1>1, <1>2, <2>5, <2>6
      DEF TxInv, SelectFinds, InTx, TxLabels, ProblemRow
    <3> QED BY <1>2, <2>2, <2>7, <3>1 DEF SelectFinds
  <2>13. LostEmpty'
    BY <2>1, <2>2, <2>5 DEF TxInv, LostEmpty, NothingPending, IInv, ApisOK, ApisTypeOK
  <2> QED BY <2>8, <2>9, <2>10, <2>11, <2>12, <2>13 DEF TxInv
<1>11. CASE Finishes(t)
  <2> DEFINE c == Conn(t)
  <2>1. c \in Conns /\ c \notin lost /\ InTx(t)
    BY <1>1, <1>11 DEF Finishes, FinishTransaction, InTx, TxLabels
  <2>2. owner[c] = t /\ depth[c] = 1
    BY <2>1 DEF TxInv, Isolated
  <2>3. /\ owner \in [Conns -> Threads \cup {NoThread}]
        /\ depth \in [Conns -> Nat]
        /\ autocommit \in [Conns -> BOOLEAN]
        /\ ins \in [Conns -> SUBSET Row]
        /\ del \in [Conns -> SUBSET Row]
        /\ locks \in [Conns -> SUBSET (Tables \X Nat)]
    BY DEF IInv, ApisOK, ApisTypeOK
  <2>4. owner'[c] = NoThread /\ ins'[c] = {}
    BY <1>11, <2>1, <2>2, <2>3
    DEF Finishes, FinishTransaction, Unlock, Publish, EndWork
  <2>5. \A d \in Conns : d # c =>
          /\ owner'[d] = owner[d]
          /\ depth'[d] = depth[d]
          /\ autocommit'[d] = autocommit[d]
          /\ ins'[d] = ins[d]
          /\ del'[d] = del[d]
          /\ locks'[d] = locks[d]
    BY <1>11, <2>2, <2>3
    DEF Finishes, FinishTransaction, Unlock, Publish, EndWork
  <2>6. \A u \in Threads : u # t /\ InTx(u) => Conn(u) # c
    BY <2>1, AloneInTx
  <2>7. ~ InTx(t)' /\ UNCHANGED lost
    BY <1>11 DEF Finishes, FinishTransaction
  <2> HIDE DEF c
  <2>8. Isolated'
    BY <1>1, <1>2, <2>5, <2>6, <2>7 DEF TxInv, Isolated
  <2>9. OwnersInTx'
    BY <1>2, <1>4, <2>2, <2>4, <2>5, <2>7 DEF c, TxInv, OwnersInTx
  <2>10. PendingOwn'
    <3>1. \A d \in Conns :
            d # c /\ d \notin lost /\ owner[d] # NoThread => owner[d] # t
      BY DEF c, TxInv, OwnersInTx
    <3> QED
      BY <1>2, <1>4, <2>4, <2>5, <3>1
      DEF TxInv, PendingOwn, LostEmpty, NothingPending
  <2>11. EndedClean' /\ SelectFinds'
    <3>1. pc'[t] \notin {"committed", "rolledback", "selectId"}
      BY <2>7 DEF InTx, TxLabels
    <3>2. EndedClean'
      BY <1>1, <1>2, <2>5, <2>6, <2>7, <3>1
      DEF TxInv, EndedClean, NothingPending, InTx, TxLabels
    <3>3. SelectFinds'
      BY <1>1, <1>2, <2>5, <2>6, <2>7, <3>1
      DEF TxInv, SelectFinds, InTx, TxLabels
    <3> QED BY <3>2, <3>3
  <2>12. LostEmpty'
    BY <2>1, <2>5, <2>7
    DEF TxInv, LostEmpty, NothingPending, IInv, ApisOK, ApisTypeOK
  <2> QED BY <2>8, <2>9, <2>10, <2>11, <2>12 DEF TxInv
<1>12. CASE OnLost(t)
  <2>1. /\ UNCHANGED <<autocommit, ins, del, locks, lost>>
        /\ \A c \in Conns \ lost : owner'[c] = owner[c] /\ depth'[c] = depth[c]
    BY <1>12 DEF OnLost, workVars
  <2>2. InTx(t)' => Conn(t)' \in lost
    BY <1>5, <1>12 DEF OnLost
  <2>3. pc'[t] \in TxLabels => Conn(t)' \in lost
    BY <2>2 DEF InTx
  <2>4. Isolated'
    BY <1>1, <1>2, <2>1, <2>2 DEF TxInv, Isolated
  <2>5. OwnersInTx'
    <3>1. \A c \in Conns \ lost : owner[c] # t
      BY <1>3, <1>12 DEF TxInv, OwnersInTx, OnLost
    <3> QED BY <1>2, <1>4, <2>1, <3>1 DEF TxInv, OwnersInTx
  <2>6. PendingOwn'
    <3>1. \A c \in lost : ins[c] = {}
      BY DEF TxInv, LostEmpty, NothingPending
    <3>2. \A c \in Conns \ lost : owner[c] # t
      BY <1>3, <1>12 DEF TxInv, OwnersInTx, OnLost
    <3> QED
      BY <1>2, <1>4, <2>1, <3>1, <3>2 DEF TxInv, PendingOwn
  <2>7. EndedClean' /\ SelectFinds'
    BY <1>2, <2>1, <2>3
    DEF TxInv, EndedClean, SelectFinds, NothingPending, TxLabels
  <2>8. LostEmpty'
    BY <2>1 DEF TxInv, LostEmpty, NothingPending
  <2> QED BY <2>4, <2>5, <2>6, <2>7, <2>8 DEF TxInv
<1> QED BY <1>6, <1>7, <1>8, <1>9, <1>10, <1>11, <1>12 DEF TxMove

-----------------------------------------------------------------------------
(* Every action is one of those kinds.                                     *)

\* Leaving a request in the middle of its transaction.
LEMMA AbortInTx ==
  ASSUME IInv, NEW t \in Threads, InTx(t), NEW status \in {400, 500},
         Abort(t, status)
  PROVE  Computes(t)
  BY DEF IInv, WorkersOK, WorkersTypeOK, Abort, Fail, Goto, Computes, InTx, TxLabels

LEMMA AnswerOutside ==
  ASSUME IInv, NEW t \in Threads, ~ InTx(t),
         NEW status \in Statuses,
         Answer(t, status), UNCHANGED apiVars
  PROVE  Outside(t)
  BY DEF IInv, WorkersOK, WorkersTypeOK, Answer, Goto, Outside, InTx, TxLabels

LEMMA WorkerMoves ==
  ASSUME IInv, NEW t \in Threads, WorkerStep(t)
  PROVE  \/ Outside(t) \/ Begins(t) \/ Computes(t) \/ EndsWork(t)
         \/ Finishes(t) \/ OnLost(t)
<1> USE DEF IInv, WorkersOK, WorkersTypeOK, Goto, InTx, TxLabels
<1>1. CASE DispatchUnauthorized(t)
  BY <1>1 DEF DispatchUnauthorized, Outside
<1>2. CASE Dispatch(t)
  <2>1. PICK r \in Request :
          pc' = [pc EXCEPT ![t] = IF NeedsPermission(r)
                                  THEN "permission" ELSE FirstLabel(r)]
    BY <1>2, RequestsAssumption DEF Dispatch
  <2>2. pc'[t] \in FirstSet \cup {"permission"}
    BY <2>1, FirstLabels
  <2> QED BY <1>2, <2>2 DEF Dispatch, Outside, FirstSet
<1>3. CASE PreparePermission(t)
  BY <1>3 DEF PreparePermission, Outside
<1>4. CASE PermissionGranted(t)
  <2>1. cur[t] \in Request
    BY <1>4, BusyFacts DEF PermissionGranted
  <2>2. pc'[t] \in FirstSet
    BY <1>4, <2>1, FirstLabels DEF PermissionGranted
  <2> QED BY <1>4, <2>2 DEF PermissionGranted, Outside, FirstSet
<1>5. CASE PermissionDenied(t)
  BY <1>5, AnswerOutside DEF PermissionDenied, Statuses
<1>6. CASE Begin(t)
  <2>1. FirstStatement(cur[t]) \in {"insertProblem", "wipe", "purge"}
    BY <1>6 DEF Begin, ControlOK, FirstStatement
  <2>2. pc'[t] \in {"insertProblem", "wipe", "purge"}
    BY <1>6, <2>1 DEF Begin
  <2> QED BY <1>6, <2>2 DEF Begin, Begins
<1>7. CASE Commit(t)
  BY <1>7 DEF Commit, EndsWork
<1>8. CASE Committed(t)
  BY <1>8 DEF Committed, Finishes, Answer
<1>9. CASE Rollback(t)
  BY <1>9 DEF Rollback, EndsWork
<1>10. CASE RolledBack(t)
  BY <1>10 DEF RolledBack, Finishes, Answer
<1>11. CASE BeginThrows(t)
  BY <1>11
  DEF BeginThrows, BeginTransactionThrows, Lock, Fail, OnLost, ApisOK,
      ApisTypeOK
<1>12. CASE CommitThrows(t)
  BY <1>12, AbortInTx DEF CommitThrows, CatchStatus
<1>13. CASE RollbackThrows(t)
  BY <1>13 DEF RollbackThrows, Answer, OnLost, apiVars, workVars
<1> QED
  BY <1>1, <1>2, <1>3, <1>4, <1>5, <1>6, <1>7, <1>8, <1>9, <1>10, <1>11,
     <1>12, <1>13
  DEF WorkerStep

LEMMA CreateMoves ==
  ASSUME IInv, TxInv, Orderly, NEW t \in Threads, CreateStep(t)
  PROVE  Outside(t) \/ Computes(t) \/ Executes(t)
<1> USE DEF IInv, WorkersOK, WorkersTypeOK, Goto, InTx, TxLabels
<1>1. CASE ParseProblem(t)
  <2>1. cur[t].body \notin {"unparsable", "badDifficulty"}
    BY <1>1, BusyFacts DEF ParseProblem, ControlOK, Orderly
  <2> QED BY <1>1, <2>1 DEF ParseProblem, Outside
<1>2. CASE InsertProblem(t)
  <2>1. /\ Execute(Conn(t), {}, {ProblemRow(cur[t], nextId)},
                   {<<"problems", nextId>>})
        /\ nextId \in Nat
    BY <1>2 DEF InsertProblem
  <2>2. ProblemRow(cur[t], nextId).by = cur[t].id
    BY DEF ProblemRow
  <2>3. /\ pc[t] = "insertProblem" /\ pc'[t] = "selectId"
        /\ cur'[t] = cur[t]
    BY <1>2 DEF InsertProblem
  <2>4. \E gone, new, scope :
          /\ Execute(Conn(t), gone, new, scope)
          /\ \A row \in new : row.by = cur[t].id
          /\ pc'[t] = "selectId" =>
               \E p \in Nat : ProblemRow(cur[t], p) \in new
    BY <2>1, <2>2
  <2> QED BY <2>3, <2>4 DEF Executes
<1>3. CASE InsertProblemFails(t)
  BY <1>3, AbortInTx DEF InsertProblemFails
<1>4. CASE SelectId(t)
  BY <1>4 DEF SelectId, Computes
<1>5. CASE SelectIdEmpty(t)
  <2>1. PICK p \in Nat : ProblemRow(cur[t], p) \in ins[Conn(t)]
    BY <1>5 DEF SelectIdEmpty, TxInv, SelectFinds
  <2>2. ProblemRow(cur[t], p) \in SameTitle(t)
    BY <2>1 DEF SameTitle, Named, View, ProblemRow
  <2> QED BY <1>5, <2>2 DEF SelectIdEmpty
<1>6. CASE SelectIdThrows(t)
  BY <1>6, AbortInTx DEF SelectIdThrows
<1>7. CASE InsertElement(t)
  <2>1. Execute(Conn(t), {}, NewRows(t), SectionScope(t))
    BY <1>7 DEF InsertElement
  <2>2. \A row \in NewRows(t) : row.by = cur[t].id
    BY DEF NewRows, RowFor
  <2>3. pc[t] = "section" /\ pc'[t] = pc[t] /\ cur'[t] = cur[t]
    BY <1>7 DEF InsertElement, AtElement
  <2> QED BY <2>1, <2>2, <2>3 DEF Executes
<1>8. CASE InsertElementFails(t)
  BY <1>8, AbortInTx DEF InsertElementFails, AtElement
<1>9. CASE NextSection(t)
  BY <1>9 DEF NextSection, Computes
<1>10. CASE RefuseTotal(t)
  BY <1>10, AbortInTx DEF RefuseTotal
<1> QED
  BY <1>1, <1>2, <1>3, <1>4, <1>5, <1>6, <1>7, <1>8, <1>9, <1>10
  DEF CreateStep

LEMMA EditMoves ==
  ASSUME IInv, Orderly, NEW t \in Threads, EditStep(t)
  PROVE  Outside(t) \/ Computes(t) \/ Executes(t) \/ OnLost(t)
<1> USE DEF IInv, WorkersOK, WorkersTypeOK, Goto, InTx, TxLabels
<1>1. CASE Update(t)
  BY <1>1, AnswerOutside DEF Update, Statuses
<1>2. CASE Purge(t)
  <2>1. /\ pc[t] = "purge" /\ pc'[t] \in {"commit", "purge"}
        /\ cur'[t] = cur[t]
    BY <1>2 DEF Purge
  <2>2. \E gone, scope : Execute(Conn(t), gone, {}, scope)
    BY <1>2 DEF Purge
  <2> QED BY <2>1, <2>2 DEF Executes
<1>3. CASE PurgeThrows(t)
  BY <1>3, AbortInTx DEF PurgeThrows
<1>4. CASE Wipe(t)
  <2>1. /\ pc[t] = "wipe" /\ pc'[t] \in {"rollback", "insertCase"}
        /\ cur'[t] = cur[t]
    BY <1>4 DEF Wipe
  <2>2. \E gone, scope : Execute(Conn(t), gone, {}, scope)
    BY <1>4 DEF Wipe
  <2> QED BY <2>1, <2>2 DEF Executes
<1>5. CASE InsertCase(t)
  <2> DEFINE row == RowFor(cur[t], "problem_test_cases", cur[t].pid,
                           local[t].i, Cases(cur[t])[local[t].i])
  <2>1. Execute(Conn(t), {}, {row}, CaseScope(t))
    BY <1>5 DEF InsertCase
  <2>2. row.by = cur[t].id
    BY DEF RowFor
  <2>3. pc[t] = "insertCase" /\ pc'[t] = pc[t] /\ cur'[t] = cur[t]
    BY <1>5 DEF InsertCase
  <2> HIDE DEF row
  <2> QED BY <2>1, <2>2, <2>3 DEF Executes
<1>6. CASE ReplaceFails(t)
  BY <1>6, AbortInTx DEF ReplaceFails
<1>7. CASE CasesInserted(t)
  BY <1>7 DEF CasesInserted, Computes
<1>8. CASE PrepareGet(t)
  BY <1>8 DEF PrepareGet, Outside
<1>9. CASE Get(t)
  BY <1>9, AnswerOutside DEF Get, Statuses
<1>10. CASE GetThrows(t)
  <2>1. Conn(t) = "api" /\ "api" \in lost
    BY <1>10
    DEF GetThrows, ReadThrows, Orderly, ControlOK, Conn, ConnOf
  <2> QED
    BY <1>10, <2>1 DEF GetThrows, Abort, Fail, OnLost, apiVars, workVars
<1> QED
  BY <1>1, <1>2, <1>3, <1>4, <1>5, <1>6, <1>7, <1>8, <1>9, <1>10
  DEF EditStep

LEMMA ReadMoves ==
  ASSUME IInv, NEW t \in Threads, ReadStep(t)
  PROVE  Outside(t)
<1> USE DEF IInv, WorkersOK, WorkersTypeOK, Goto, InTx, TxLabels
<1>1. CASE ListRefused(t) \/ ListCount(t) \/ ListThrows(t)
           \/ PageRefused(t) \/ PageThrows(t)
  BY <1>1, AnswerOutside
  DEF ListRefused, ListCount, ListThrows, ListReady, PageRefused, PageThrows,
      Statuses
<1>2. CASE ListPrepare(t) \/ ListRead(t) \/ PagePrepare(t)
  BY <1>2 DEF ListPrepare, ListReady, ListRead, PagePrepare, Outside
<1> QED BY <1>1, <1>2 DEF ReadStep

LEMMA StepMoves ==
  ASSUME IInv, TxInv, Orderly, NEW t \in Threads, Step(t)
  PROVE  TxMove(t)
  BY MovesElsewhere, WorkerMoves, CreateMoves, EditMoves, ReadMoves
  DEF Step, TxMove

-----------------------------------------------------------------------------
LEMMA TxInit == Init => TxInv
  BY NoThreadAssumption
  DEF Init, ApisInit, WorkersInit, TxInv, Isolated, OwnersInTx, PendingOwn,
      EndedClean, SelectFinds, LostEmpty, InTx, TxLabels

LEMMA TxFault ==
  ASSUME IInv, TxInv, Fault
  PROVE  TxInv'
<1>1. CASE \E c \in MayLose : Lose(c) /\ UNCHANGED workerVars
  <2>1. PICK c \in Conns : Lose(c) /\ UNCHANGED workerVars
    BY <1>1, MayLoseAssumption
  <2>2. /\ ins \in [Conns -> SUBSET Row]
        /\ del \in [Conns -> SUBSET Row]
        /\ locks \in [Conns -> SUBSET (Tables \X Nat)]
        /\ lost \in SUBSET Conns
    BY DEF IInv, ApisOK, ApisTypeOK
  <2>3. /\ lost' = lost \cup {c}
        /\ UNCHANGED <<owner, depth, autocommit, pc, cur>>
        /\ ins'[c] = {} /\ del'[c] = {} /\ locks'[c] = {}
        /\ \A d \in Conns : d # c => /\ ins'[d] = ins[d]
                                     /\ del'[d] = del[d]
                                     /\ locks'[d] = locks[d]
    BY <2>1, <2>2 DEF Lose, Discard, EndWork, workerVars
  <2>4. Isolated' /\ OwnersInTx'
    BY <2>3 DEF TxInv, Isolated, OwnersInTx, InTx, Conn
  <2>5. LostEmpty' /\ PendingOwn'
    BY <2>2, <2>3 DEF TxInv, LostEmpty, PendingOwn, NothingPending
  <2>6. EndedClean' /\ SelectFinds'
    <3>1. \A t \in Threads : Conn(t) \in Conns /\ Conn(t)' = Conn(t)
      BY <2>3 DEF Conn, ConnOf, Conns
    <3> QED
      BY <2>3, <3>1
      DEF TxInv, EndedClean, SelectFinds, NothingPending, ProblemRow
  <2> QED BY <2>4, <2>5, <2>6 DEF TxInv
<1>2. CASE Restart
  BY <1>2, NoThreadAssumption
  DEF Restart, Reconnect, TxInv, Isolated, OwnersInTx, LostEmpty, PendingOwn,
      EndedClean, SelectFinds, NothingPending, InTx, TxLabels
<1> QED BY <1>1, <1>2 DEF Fault

LEMMA TxNext == Orderly /\ IInv /\ TxInv /\ [Next]_vars => TxInv'
<1> SUFFICES ASSUME Orderly, IInv, TxInv, [Next]_vars PROVE TxInv'
  OBVIOUS
<1>1. CASE \E t \in Threads : Step(t)
  BY <1>1, StepMoves, TxMoveOK
<1>2. CASE UNCHANGED vars
  BY <1>2
  DEF vars, apiVars, workerVars, TxInv, Isolated, OwnersInTx, PendingOwn,
      EndedClean, SelectFinds, LostEmpty, InTx, Conn, NothingPending
<1>3. CASE Fault
  BY <1>3, TxFault
<1> QED BY <1>1, <1>2, <1>3 DEF Next, Quiet

LEMMA TxInvariance ==
  ASSUME Orderly
  PROVE  Spec => []TxInv
<1>1. Orderly /\ IInv /\ TxInv /\ [Next]_vars => TxInv'
  BY TxNext
<1>2. Init => TxInv
  BY TxInit
<1>3. IInv /\ TxInv /\ [Next]_vars => TxInv'
  BY <1>1
<1> QED BY <1>2, <1>3, Invariance, PTL DEF Spec

\* When no request rolls back what it has not begun, a transaction on a
\* connection that lives is its worker's own from beginTransaction to the unlock, whatever the number of
\* workers and requests.
THEOREM TransactionsIsolated ==
  ASSUME Orderly
  PROVE  Spec => []Isolated
<1>1. TxInv => Isolated
  BY DEF TxInv
<1> QED BY <1>1, TxInvariance, PTL

\* Then, too, no worker leaves a request with the mutex of a connection that
\* lives locked: the early return of a creation that does not find its
\* problem is never taken.
THEOREM MutexesReleased ==
  ASSUME Orderly
  PROVE  Spec => []MutexReleased
<1>1. IInv /\ TxInv => MutexReleased
  BY NoThreadAssumption
  DEF TxInv, OwnersInTx, MutexReleased, InTx, TxLabels
<1> QED BY <1>1, Invariance, TxInvariance, PTL

-----------------------------------------------------------------------------
(* What becomes of a request: it waits, one worker serves it, it has an    *)
(* answer or the server has died.                                          *)

ServedOnce ==
  /\ \A r \in todo : reply[r] = 0
  /\ \A t \in Threads :
       cur[t] \in Requests => cur[t] \notin todo /\ reply[cur[t]] = 0
  /\ \A t, u \in Threads :
       t # u /\ cur[t] \in Requests => cur[t] # cur[u]

\* Where a request whose transaction was committed can be: with its worker,
\* before the answer or on the way to an exception, or answered.
AppliedOK ==
  /\ \A r \in applied : r \notin todo /\ reply[r] \in {0, 200, Escaped}
  /\ \A t \in Threads :
       cur[t] \in applied
         => \/ pc[t] = "committed"
            \/ pc[t] \in {"rollback", "rolledback"} /\ Conn(t) \in lost
  /\ \A t \in Threads : pc[t] = "committed" => cur[t] \in applied
  /\ \A r \in Requests :
       (r.op \in {"create", "replace", "delete"} /\ reply[r] = 200)
         => r \in applied

ServedInv == ServedOnce /\ AppliedOK

\* The kinds of steps, as the requests see them.
Keeps(t) ==
  /\ UNCHANGED <<todo, cur, reply, applied>>
  /\ pc'[t] # "committed"
  /\ pc[t] = "committed" => pc'[t] = "rollback" /\ Conn(t) \in lost
  /\ pc[t] \in {"rollback", "rolledback"} => Conn(t) \notin lost

Commits(t) ==
  /\ UNCHANGED <<todo, cur, reply>>
  /\ pc[t] = "commit" /\ pc'[t] = "committed"
  /\ applied' = applied \cup {cur[t]}

Takes(t) ==
  \E r \in todo : /\ todo' = todo \ {r}
                  /\ cur' = [cur EXCEPT ![t] = r]
                  /\ cur[t] = NoRequest
                  /\ pc'[t] # "committed"
                  /\ UNCHANGED <<reply, applied>>

TurnsAway(t) ==
  \E r \in todo : /\ todo' = todo \ {r}
                  /\ reply' = [reply EXCEPT ![r] = 401]
                  /\ UNCHANGED <<cur, pc, applied>>

Answers(t) ==
  \E status \in Statuses :
    /\ cur[t] \in Requests
    /\ reply' = [reply EXCEPT ![cur[t]] = status]
    /\ cur' = [cur EXCEPT ![t] = NoRequest]
    /\ pc'[t] = "idle"
    /\ UNCHANGED <<todo, applied>>
    /\ pc[t] = "committed" => status = 200
    /\ (pc[t] \in {"rollback", "rolledback"} /\ Conn(t) \in lost)
         => status = Escaped
    /\ status = 200
         => \/ pc[t] = "committed"
            \/ cur[t].op \notin {"create", "replace", "delete"}

LEMMA AnswerAnswers ==
  ASSUME IInv, NEW t \in Threads, NEW code \in Statuses, Answer(t, code),
         pc[t] # "idle", pc[t] = "committed" => code = 200,
         (pc[t] \in {"rollback", "rolledback"} /\ Conn(t) \in lost)
           => code = Escaped,
         code = 200 => \/ pc[t] = "committed"
                       \/ cur[t].op \notin {"create", "replace", "delete"}
  PROVE  Answers(t)
<1>1. cur[t] \in Requests
  BY BusyFacts DEF IInv
<1>2. /\ reply' = [reply EXCEPT ![cur[t]] = code]
      /\ cur' = [cur EXCEPT ![t] = NoRequest]
      /\ pc'[t] = "idle"
      /\ UNCHANGED <<todo, applied>>
  BY DEF Answer, Goto, IInv, WorkersOK, WorkersTypeOK
<1> QED BY <1>1, <1>2 DEF Answers

LEMMA AbortKeeps ==
  ASSUME IInv, NEW t \in Threads, NEW status, Abort(t, status),
         pc[t] \notin {"rollback", "rolledback"},
         pc[t] = "committed" => Conn(t) \in lost
  PROVE  Keeps(t)
  BY DEF IInv, WorkersOK, WorkersTypeOK, Abort, Fail, Goto, Keeps

LEMMA StepServes ==
  ASSUME IInv, NEW t \in Threads, Step(t)
  PROVE  Keeps(t) \/ Commits(t) \/ Takes(t) \/ TurnsAway(t) \/ Answers(t)
<1> USE DEF IInv, WorkersOK, WorkersTypeOK, Goto
<1>1. CASE WorkerStep(t)
  <2>1. CASE DispatchUnauthorized(t)
    BY <2>1 DEF DispatchUnauthorized, TurnsAway
  <2>2. CASE Dispatch(t)
    <3>1. PICK r \in todo :
            /\ todo' = todo \ {r}
            /\ cur' = [cur EXCEPT ![t] = r]
            /\ Goto(t, IF NeedsPermission(r)
                       THEN "permission" ELSE FirstLabel(r))
      BY <2>2 DEF Dispatch
    <3>2. pc'[t] \in FirstSet \cup {"permission"}
      BY <3>1, FirstLabels, RequestsAssumption
    <3>3. pc'[t] # "committed"
      BY <3>2 DEF FirstSet
    <3>4. cur[t] = NoRequest /\ UNCHANGED <<reply, applied>>
      BY <2>2 DEF Dispatch, ControlOK
    <3> QED BY <3>1, <3>3, <3>4 DEF Takes
  <2>3. CASE Committed(t)
    BY <2>3, AnswerAnswers DEF Statuses, Committed
  <2>4. CASE RolledBack(t)
    BY <2>4, AnswerAnswers
    DEF Statuses, RolledBack, FinishTransaction, ControlOK
  <2>5. CASE PermissionDenied(t)
    BY <2>5, AnswerAnswers DEF Statuses, PermissionDenied
  <2>6. CASE RollbackThrows(t)
    BY <2>6, AnswerAnswers DEF Statuses, RollbackThrows, Escaped
  <2>7. CASE PreparePermission(t)
    BY <2>7 DEF PreparePermission, Keeps
  <2>8. CASE PermissionGranted(t)
    <3>1. pc'[t] \in FirstSet
      BY <2>8, BusyFacts, FirstLabels DEF PermissionGranted
    <3> QED BY <2>8, <3>1 DEF PermissionGranted, Keeps, FirstSet
  <2>9. CASE Begin(t)
    <3>1. pc'[t] \in {"insertProblem", "wipe", "purge"}
      BY <2>9 DEF Begin, ControlOK, FirstStatement
    <3> QED BY <2>9, <3>1 DEF Begin, Keeps
  <2>10. CASE BeginThrows(t)
    BY <2>10 DEF BeginThrows, Fail, Keeps
  <2>11. CASE Commit(t)
    BY <2>11 DEF Commit, Commits
  <2>12. CASE CommitThrows(t)
    BY <2>12, AbortKeeps DEF CommitThrows
  <2>13. CASE Rollback(t)
    BY <2>13 DEF Rollback, RollbackWork, Keeps
  <2> QED
    BY <1>1, <2>1, <2>2, <2>3, <2>4, <2>5, <2>6, <2>7, <2>8, <2>9, <2>10,
       <2>11, <2>12, <2>13
    DEF WorkerStep
<1>2. CASE CreateStep(t)
  <2>1. CASE SelectIdEmpty(t)
    BY <2>1, AnswerAnswers DEF Statuses, SelectIdEmpty
  <2>2. CASE InsertProblemFails(t) \/ SelectIdThrows(t)
             \/ InsertElementFails(t) \/ RefuseTotal(t)
    BY <2>2, AbortKeeps
    DEF InsertProblemFails, SelectIdThrows, InsertElementFails, AtElement,
        RefuseTotal
  <2>3. CASE ParseProblem(t)
    BY <2>3, AbortKeeps DEF ParseProblem, Keeps
  <2>4. CASE InsertProblem(t) \/ SelectId(t) \/ InsertElement(t)
             \/ NextSection(t)
    BY <2>4
    DEF InsertProblem, SelectId, InsertElement, AtElement, NextSection, Keeps
  <2> QED BY <1>2, <2>1, <2>2, <2>3, <2>4 DEF CreateStep
<1>3. CASE EditStep(t)
  <2>1. CASE Update(t)
    BY <2>1, AnswerAnswers DEF Statuses, Update, Escaped
  <2>2. CASE Get(t)
    BY <2>2, AnswerAnswers DEF Statuses, Get, ControlOK
  <2>3. CASE PurgeThrows(t) \/ ReplaceFails(t) \/ GetThrows(t)
    BY <2>3, AbortKeeps DEF PurgeThrows, ReplaceFails, GetThrows
  <2>4. CASE Purge(t) \/ Wipe(t) \/ InsertCase(t) \/ CasesInserted(t)
             \/ PrepareGet(t)
    BY <2>4 DEF Purge, Wipe, InsertCase, CasesInserted, PrepareGet, Keeps
  <2> QED BY <1>3, <2>1, <2>2, <2>3, <2>4 DEF EditStep
<1>4. CASE ReadStep(t)
  <2>1. CASE ListRefused(t) \/ ListThrows(t) \/ PageRefused(t)
             \/ PageThrows(t)
    BY <2>1, AnswerAnswers
    DEF Statuses, ListRefused, ListThrows, ListReady, PageRefused,
        PageThrows, Escaped
  <2>2. CASE ListCount(t)
    BY <2>2, AnswerAnswers DEF Statuses, ListCount, ControlOK
  <2>3. CASE ListPrepare(t) \/ ListRead(t) \/ PagePrepare(t)
    BY <2>3 DEF ListPrepare, ListReady, ListRead, PagePrepare, Keeps
  <2> QED BY <1>4, <2>1, <2>2, <2>3 DEF ReadStep
<1> QED BY <1>1, <1>2, <1>3, <1>4 DEF Step

\* Only a fault changes which connections are lost.
LEMMA StepKeepsLost ==
  ASSUME NEW t \in Threads, Step(t)
  PROVE  UNCHANGED lost
<1>1. CASE WorkerStep(t)
  BY <1>1
  DEF WorkerStep, DispatchUnauthorized, Dispatch, PreparePermission,
      PermissionGranted, PermissionDenied, Begin, BeginTransaction, Commit,
      CommitWork, Committed, RolledBack, FinishTransaction, Rollback,
      RollbackWork, BeginThrows, BeginTransactionThrows, CommitThrows, Abort,
      RollbackThrows, apiVars
<1>2. CASE CreateStep(t)
  BY <1>2
  DEF CreateStep, ParseProblem, InsertProblem, InsertProblemFails, SelectId,
      SelectIdEmpty, SelectIdThrows, InsertElement, InsertElementFails,
      NextSection, RefuseTotal, Abort, Execute, apiVars
<1>3. CASE EditStep(t)
  BY <1>3
  DEF EditStep, Update, Purge, PurgeThrows, Wipe, InsertCase, ReplaceFails,
      CasesInserted, PrepareGet, Get, GetThrows, Abort, Execute, apiVars
<1>4. CASE ReadStep(t)
  BY <1>4
  DEF ReadStep, ListRefused, ListPrepare, ListRead, ListCount, ListThrows,
      PagePrepare, PageRefused, PageThrows, apiVars
<1> QED BY <1>1, <1>2, <1>3, <1>4 DEF Step

LEMMA ServedStep ==
  ASSUME IInv, ServedInv, NEW t \in Threads, Step(t)
  PROVE  ServedInv'
<1>1. /\ todo \in SUBSET Requests
      /\ cur \in [Threads -> Requests \cup {NoRequest}]
      /\ reply \in [Requests -> Statuses \cup {0}]
      /\ applied \in SUBSET Requests
      /\ NoRequest \notin Requests
  BY NoRequestAssumption DEF IInv, WorkersOK, WorkersTypeOK
<1>2. /\ Elsewhere(t)
      /\ UNCHANGED lost
  BY MovesElsewhere, StepKeepsLost
<1>3. \A u \in Threads : cur'[u] = cur[u] => Conn(u)' = Conn(u)
  BY DEF Conn
<1> USE DEF ServedInv, ServedOnce, AppliedOK
<1>4. CASE Keeps(t)
  BY <1>1, <1>2, <1>3, <1>4 DEF Keeps, Elsewhere
<1>5. CASE Commits(t)
  <2>1. cur[t] \in Requests /\ cur[t] \notin todo /\ reply[cur[t]] = 0
    BY <1>5, BusyFacts DEF Commits, IInv
  <2> QED BY <1>1, <1>2, <1>3, <1>5, <2>1 DEF Commits, Elsewhere
<1>6. CASE Takes(t)
  <2>1. PICK r \in todo : /\ todo' = todo \ {r}
                          /\ cur' = [cur EXCEPT ![t] = r]
                          /\ pc'[t] # "committed"
                          /\ UNCHANGED <<reply, applied>>
    BY <1>6 DEF Takes
  <2>2. r \notin applied /\ r \in Requests /\ reply[r] = 0 /\ cur'[t] = r
    BY <1>1, <2>1
  <2>3. ServedOnce'
    BY <1>1, <2>1, <2>2
  <2>4. AppliedOK'
    BY <1>1, <1>2, <1>3, <2>1, <2>2 DEF Elsewhere
  <2> QED BY <2>3, <2>4
<1>7. CASE TurnsAway(t)
  <2>1. PICK r \in todo : /\ todo' = todo \ {r}
                          /\ reply' = [reply EXCEPT ![r] = 401]
                          /\ UNCHANGED <<cur, pc, applied>>
    BY <1>7 DEF TurnsAway
  <2>2. r \notin applied /\ r \in Requests
    BY <1>1, <2>1
  <2>3. ServedOnce'
    BY <1>1, <2>1, <2>2
  <2>4. AppliedOK'
    BY <1>1, <1>2, <1>3, <2>1, <2>2
  <2> QED BY <2>3, <2>4
<1>8. CASE Answers(t)
  <2>1. PICK status \in Statuses :
          /\ cur[t] \in Requests
          /\ reply' = [reply EXCEPT ![cur[t]] = status]
          /\ cur' = [cur EXCEPT ![t] = NoRequest]
          /\ pc'[t] = "idle"
          /\ UNCHANGED <<todo, applied>>
          /\ pc[t] = "committed" => status = 200
          /\ (pc[t] \in {"rollback", "rolledback"} /\ Conn(t) \in lost)
               => status = Escaped
          /\ status = 200
               => \/ pc[t] = "committed"
                  \/ cur[t].op \notin {"create", "replace", "delete"}
    BY <1>8 DEF Answers
  <2>2. /\ cur[t] \in applied => status \in {200, Escaped}
        /\ cur[t] \notin todo
        /\ (cur[t].op \in {"create", "replace", "delete"} /\ status = 200)
             => cur[t] \in applied
    BY <1>1, <2>1
  <2>3. ServedOnce'
    BY <1>1, <2>1, <2>2
  <2>4. AppliedOK'
    BY <1>1, <1>2, <1>3, <2>1, <2>2 DEF Elsewhere
  <2> QED BY <2>3, <2>4
<1> QED BY <1>4, <1>5, <1>6, <1>7, <1>8, StepServes

LEMMA ServedFault ==
  ASSUME IInv, ServedInv, Fault
  PROVE  ServedInv'
<1>1. CASE \E c \in MayLose : Lose(c) /\ UNCHANGED workerVars
  BY <1>1
  DEF Lose, workerVars, ServedInv, ServedOnce, AppliedOK, Conn
<1>2. CASE Restart
  BY <1>2, NoRequestAssumption
  DEF Restart, ServedInv, ServedOnce, AppliedOK, IInv, WorkersOK,
      WorkersTypeOK
<1> QED BY <1>1, <1>2 DEF Fault

LEMMA ServedInvariance == Spec => []ServedInv
<1>1. Init => ServedInv
  BY NoRequestAssumption
  DEF Init, WorkersInit, ServedInv, ServedOnce, AppliedOK
<1>2. IInv /\ ServedInv /\ [Next]_vars => ServedInv'
  <2> SUFFICES ASSUME IInv, ServedInv, [Next]_vars PROVE ServedInv'
    OBVIOUS
  <2>1. CASE \E t \in Threads : Step(t)
    BY <2>1, ServedStep
  <2>2. CASE Fault
    BY <2>2, ServedFault
  <2>3. CASE UNCHANGED vars
    BY <2>3
    DEF vars, apiVars, workerVars, ServedInv, ServedOnce, AppliedOK, Conn
  <2> QED BY <2>1, <2>2, <2>3 DEF Next, Quiet
<1> QED BY <1>1, <1>2, Invariance, PTL DEF Spec

\* The answer a handler sends agrees with the return of its commit call; what
\* that call published is shown in StoreProofs (AnswersTrue).
LEMMA AnswersInvariance == Spec => []AnswersTruthful
<1>1. IInv /\ ServedInv => AnswersTruthful
  BY DEF ServedInv, AppliedOK, AnswersTruthful, Escaped
<1> QED BY <1>1, Invariance, ServedInvariance, PTL

-----------------------------------------------------------------------------
\* The rows a request has inserted are stored only when it takes effect.
StoredByApplied ==
  \A r \in Requests : \A row \in db : row.by = r.id => r \in applied

LEMMA StoredNext ==
  ASSUME IInv, TxInv, Orderly, ServedInv, StoredByApplied,
         NEW t \in Threads, Step(t)
  PROVE  StoredByApplied'
<1>1. TxMove(t)
  BY StepMoves
<1>2. \A r \in applied : r \in applied'
  BY StepServes DEF Keeps, Commits, Takes, TurnsAway, Answers
<1>3. Conn(t) \in Conns
  BY DEF Conn, ConnOf, Conns
<1>4. CASE UNCHANGED db
  BY <1>2, <1>4 DEF StoredByApplied
<1>5. CASE Executes(t)
  <2>1. ~ autocommit[Conn(t)]
    BY <1>5 DEF Executes, Execute, TxInv, Isolated
  <2>2. UNCHANGED db
    BY <1>5, <2>1 DEF Executes, Execute
  <2> QED BY <1>4, <2>2
<1>6. CASE EndsWork(t)
  <2>1. CASE RollbackWork(Conn(t))
    BY <1>4, <2>1 DEF RollbackWork, Discard
  <2>2. CASE /\ pc'[t] = "committed" /\ cur'[t] = cur[t]
             /\ pc[t] = "commit" /\ CommitWork(Conn(t))
    <3>1. \A row \in db' : row \in db \/ row \in ins[Conn(t)]
      BY <2>2 DEF CommitWork, Publish, View
    <3>2. \A row \in ins[Conn(t)] : row.by = cur[t].id
      BY <1>3, <1>6, <2>2
      DEF EndsWork, CommitWork, TxInv, Isolated, PendingOwn
    <3>3. cur[t] \in Requests
      BY <2>2, BusyFacts DEF IInv
    <3>4. cur[t] \in applied'
      <4>1. ServedInv'
        BY ServedStep
      <4> QED BY <2>2, <4>1 DEF ServedInv, AppliedOK
    <3> QED
      BY <1>2, <3>1, <3>2, <3>3, <3>4, IdsAssumption DEF StoredByApplied
  <2> QED BY <1>6, <2>1, <2>2 DEF EndsWork
<1>7. CASE Finishes(t)
  <2>1. NothingPending(Conn(t))
    BY <1>7 DEF Finishes, FinishTransaction, TxInv, EndedClean
  <2>2. UNCHANGED db
    BY <1>7, <2>1
    DEF Finishes, FinishTransaction, Publish, View, NothingPending
  <2> QED BY <1>4, <2>2
<1>8. CASE Outside(t) \/ Begins(t) \/ Computes(t) \/ OnLost(t)
  BY <1>4, <1>8
  DEF Outside, Begins, Computes, OnLost, BeginTransaction, workVars, apiVars
<1> QED BY <1>1, <1>5, <1>6, <1>7, <1>8 DEF TxMove

LEMMA StoredInvariance ==
  ASSUME Orderly
  PROVE  Spec => []StoredByApplied
<1>1. Init => StoredByApplied
  BY IdsAssumption DEF Init, ApisInit, StoredByApplied
<1>2. /\ IInv /\ TxInv /\ ServedInv /\ StoredByApplied /\ [Next]_vars
      => StoredByApplied'
  <2> SUFFICES ASSUME IInv, TxInv, ServedInv, StoredByApplied, [Next]_vars
               PROVE  StoredByApplied'
    OBVIOUS
  <2>1. CASE \E t \in Threads : Step(t)
    BY <2>1, StoredNext
  <2>2. CASE Fault
    BY <2>2
    DEF Fault, Lose, Discard, Restart, Reconnect, workerVars, StoredByApplied
  <2>3. CASE UNCHANGED vars
    BY <2>3 DEF vars, apiVars, workerVars, StoredByApplied
  <2> QED BY <2>1, <2>2, <2>3 DEF Next, Quiet
<1> QED
  BY <1>1, <1>2, Invariance, TxInvariance, ServedInvariance, PTL DEF Spec

\* Then a request that was answered with an error has stored nothing: it is
\* all or nothing, wherever it failed.
THEOREM RefusalsLeaveNothing ==
  ASSUME Orderly
  PROVE  Spec => []RefusedLeavesNothing
<1>1. IInv /\ ServedInv /\ StoredByApplied => RefusedLeavesNothing
  BY DEF ServedInv, AppliedOK, StoredByApplied, RefusedLeavesNothing, Escaped
<1> QED
  BY <1>1, Invariance, ServedInvariance, StoredInvariance, PTL
=============================================================================
