------------------------------- MODULE Workers -------------------------------
(***************************************************************************)
(* Crow's worker threads, and what every route of the management panel     *)
(* does the same way: the token check, the permission query, opening a     *)
(* transaction, committing it, and the badReq and catch paths that roll    *)
(* back.  A worker runs one request from start to end; its label pc says   *)
(* which call it is in.                                                    *)
(***************************************************************************)
EXTENDS Apis, ProblemRows

CONSTANTS
  NoRequest,    \* what an idle worker serves
  Throws,       \* the calls that may throw: a subset of {"statement", "read"}
  MayLose,      \* the connections that may be lost
  MayCrash,     \* whether the server may die and be started again
  MaxArrivals   \* bound: how many of the requests arrive

ASSUME NoRequestAssumption == NoRequest \notin Requests
ASSUME MayLoseAssumption == MayLose \subseteq Conns

VARIABLES
  todo,         \* the requests that have not arrived yet
  cur,          \* cur[t]: the request worker t serves, or NoRequest
  pc,           \* pc[t]: the call worker t is in
  local,        \* local[t]: its locals (below)
  reply,        \* reply[r]: the status code sent for r, 0 before
  nextId,       \* AUTO_INCREMENT of the problems table
  applied       \* history: the requests whose transaction was committed

workerVars == <<todo, cur, pc, local, reply, nextId, applied>>
vars == <<apiVars, workerVars>>

\* problem_id; the section, table or element a loop has reached; the status
\* a rollback path is about to send; the problems a list has read.
NoLocal == [problem_id |-> 0, sec |-> 1, i |-> 1, status |-> 0, listed |-> {}]

\* The 500 without a message that Crow sends when an exception leaves the
\* handler, to tell it from the 500 a handler sends.
Escaped == 599

\* The labels between mtx.lock() and mtx.unlock().
TxLabels ==
  {"insertProblem", "selectId", "section", "wipe", "insertCase", "purge",
   "commit", "committed", "rollback", "rolledback"}

Labels ==
  TxLabels \cup
  {"idle", "permission", "permissionRead", "parse", "begin",
   "update", "getPrepare", "getRead",
   "listPrepare", "listRead", "listCount", "pagePrepare", "pageRead"}

WorkersInit ==
  /\ todo = Requests
  /\ cur = [t \in Threads |-> NoRequest]
  /\ pc = [t \in Threads |-> "idle"]
  /\ local = [t \in Threads |-> NoLocal]
  /\ reply = [r \in Requests |-> 0]
  /\ nextId = FirstNewId
  /\ applied = {}

\* A mistake: giving the creation api as well.
ConnOfApi(r) == IF r.op = "replace" THEN "modify_api" ELSE "api"

\* The APIs object a handler is given (ROUTE_manage_panel passes modify_api
\* to the POST handlers and api to the others).
ConnOf(r) == IF r.op \in {"create", "replace"} THEN "modify_api" ELSE "api"

Conn(t) == ConnOf(cur[t])

Goto(t, label) == pc' = [pc EXCEPT ![t] = label]

Answer(t, status) ==
  /\ reply' = [reply EXCEPT ![cur[t]] = status]
  /\ cur' = [cur EXCEPT ![t] = NoRequest]
  /\ local' = [local EXCEPT ![t] = NoLocal]
  /\ Goto(t, "idle")
  /\ UNCHANGED <<todo, nextId, applied>>

\* Mistakes: answering without the rollback; trying again from the start.
AnswerOnly(t, status) ==
  /\ Answer(t, status)
  /\ UNCHANGED apiVars

Retry(t, status) ==
  /\ local' = [local EXCEPT ![t] = NoLocal]
  /\ UNCHANGED <<apiVars, todo, cur, pc, reply, nextId, applied>>

\* badReq, or a catch block: roll back, then send status.
Fail(t, status) ==
  /\ local' = [local EXCEPT ![t].status = status]
  /\ Goto(t, "rollback")
  /\ UNCHANGED <<todo, cur, reply, nextId, applied>>

Abort(t, status) == Fail(t, status) /\ UNCHANGED apiVars

\* A statement of the transaction of t may throw an SQLException; one that
\* waits for a row lock always may (deadlock victim, lock wait timeout).
StatementThrows(t, scope) ==
  "statement" \in Throws \/ Conn(t) \in lost \/ Blocked(Conn(t), scope)

\* A query outside a transaction, on api, may throw.
ReadThrows == "read" \in Throws \/ "api" \in lost

\* The server dies, and is started again: what it was serving is never
\* answered, and the database discards what was pending.
Restart ==
  /\ MayCrash
  /\ Reconnect
  /\ cur' = [t \in Threads |-> NoRequest]
  /\ pc' = [t \in Threads |-> "idle"]
  /\ local' = [t \in Threads |-> NoLocal]
  /\ UNCHANGED <<todo, reply, nextId, applied>>

-----------------------------------------------------------------------------
(* Requests.                                                               *)

FirstLabel(r) ==
  CASE r.op = "create" -> "parse"
    [] r.op = "get" -> "getPrepare"
    [] r.op = "update" -> "update"
    [] r.op = "list" -> "listPrepare"
    [] r.op = "page" -> "pagePrepare"
    [] OTHER -> "begin"

\* The public page answers a token that is refused like no token.
NeedsToken(r) == r.op # "page"

\* Nothing more will come, as far as the model goes.
AllArrived == todo = {} \/ Cardinality(Requests \ todo) >= MaxArrivals

\* verifyJWT throws: 401.
DispatchUnauthorized(t) ==
  /\ pc[t] = "idle"
  /\ ~ AllArrived
  /\ \E r \in todo :
       /\ NeedsToken(r) /\ ~ r.auth
       /\ todo' = todo \ {r}
       /\ reply' = [reply EXCEPT ![r] = 401]
  /\ UNCHANGED <<apiVars, cur, pc, local, nextId, applied>>

\* Creation and the list need no permission; a site administrator skips the
\* query.
NeedsPermission(r) == ~ r.admin /\ r.op \notin {"create", "list", "page"}

Dispatch(t) ==
  /\ pc[t] = "idle"
  /\ ~ AllArrived
  /\ \E r \in todo :
       /\ NeedsToken(r) => r.auth
       /\ todo' = todo \ {r}
       /\ cur' = [cur EXCEPT ![t] = r]
       /\ Goto(t, IF NeedsPermission(r) THEN "permission" ELSE FirstLabel(r))
  /\ UNCHANGED <<apiVars, local, reply, nextId, applied>>

\* isPermissioned: prepareStatement, under the mutex of api.
PreparePermission(t) ==
  /\ pc[t] = "permission"
  /\ Free("api", t)
  /\ "api" \notin lost
  /\ Goto(t, "permissionRead")
  /\ UNCHANGED <<apiVars, todo, cur, local, reply, nextId, applied>>

\* A mistake: any role of the problem will do.
PermittedAnyFlag(r) ==
  \E row \in RowsOf(View("api"), "problem_role", r.pid) :
    row.name \in r.roles

Permitted(r) ==
  \E row \in RowsOf(View("api"), "problem_role", r.pid) :
    row.name \in r.roles /\ HasFlag(row, EditFlag)

\* isPermissioned: executeQuery, without the mutex.
PermissionGranted(t) ==
  /\ pc[t] = "permissionRead"
  /\ Permitted(cur[t])
  /\ "api" \notin lost
  /\ Goto(t, FirstLabel(cur[t]))
  /\ UNCHANGED <<apiVars, todo, cur, local, reply, nextId, applied>>

\* A mistake: rolling back before the 403.
PermissionAborted(t) ==
  /\ pc[t] = "permissionRead"
  /\ ~ Permitted(cur[t])
  /\ Abort(t, 400)

\* No row, or an exception, which isPermissioned turns into false: 403.
PermissionDenied(t) ==
  /\ \/ /\ pc[t] = "permissionRead"
        /\ ~ Permitted(cur[t]) \/ ReadThrows
     \/ /\ pc[t] = "permission"
        /\ Free("api", t)
        /\ "api" \in lost
  /\ Answer(t, 403)
  /\ UNCHANGED apiVars

-----------------------------------------------------------------------------
(* Transactions.                                                           *)

FirstStatement(r) ==
  CASE r.op = "create" -> "insertProblem"
    [] r.op = "replace" -> "wipe"
    [] r.op = "delete" -> "purge"

Begin(t) ==
  /\ pc[t] = "begin"
  /\ BeginTransaction(Conn(t), t)
  /\ Goto(t, FirstStatement(cur[t]))
  /\ UNCHANGED <<todo, cur, local, reply, nextId, applied>>

\* What a handler answers when an exception reaches its outer catch.
CatchStatus(r) == IF r.op = "replace" THEN 400 ELSE 500

BeginThrows(t) ==
  /\ pc[t] = "begin"
  /\ BeginTransactionThrows(Conn(t), t)
  /\ Fail(t, CatchStatus(cur[t]))

\* commitTransaction: con->commit(), then setAutoCommit(true) and unlock.
Commit(t) ==
  /\ pc[t] = "commit"
  /\ CommitWork(Conn(t))
  /\ Goto(t, "committed")
  /\ applied' = applied \cup {cur[t]}
  /\ UNCHANGED <<todo, cur, local, reply, nextId>>

\* The connection was lost before the commit, or after the database did it
\* but before the handler knew: the catch block treats both alike.
CommitThrows(t) ==
  /\ pc[t] \in {"commit", "committed"}
  /\ Conn(t) \in lost
  /\ Abort(t, CatchStatus(cur[t]))

Committed(t) ==
  /\ pc[t] = "committed"
  /\ FinishTransaction(Conn(t), t)
  /\ Answer(t, 200)

\* rollbackTransaction: con->rollback(), then setAutoCommit(true) and unlock.
\* It is called on error paths that never began a transaction too.
Rollback(t) ==
  /\ pc[t] = "rollback"
  /\ RollbackWork(Conn(t))
  /\ Goto(t, "rolledback")
  /\ UNCHANGED <<todo, cur, local, reply, nextId, applied>>

RolledBack(t) ==
  /\ pc[t] = "rolledback"
  /\ FinishTransaction(Conn(t), t)
  /\ Answer(t, local[t].status)

\* A mistake: answering what was meant to be answered after the rollback.
RollbackIgnored(t) ==
  /\ pc[t] \in {"rollback", "rolledback"}
  /\ Conn(t) \in lost
  /\ Answer(t, local[t].status)
  /\ UNCHANGED apiVars

\* rollback or setAutoCommit throws out of the catch block and of the
\* handler: the unlock after it is not reached.
RollbackThrows(t) ==
  /\ pc[t] \in {"rollback", "rolledback"}
  /\ Conn(t) \in lost
  /\ Answer(t, Escaped)
  /\ UNCHANGED apiVars

WorkerStep(t) ==
  \/ DispatchUnauthorized(t) \/ Dispatch(t)
  \/ PreparePermission(t) \/ PermissionGranted(t) \/ PermissionDenied(t)
  \/ Begin(t) \/ Commit(t) \/ Committed(t) \/ Rollback(t) \/ RolledBack(t)
  \/ BeginThrows(t) \/ CommitThrows(t) \/ RollbackThrows(t)
=============================================================================
