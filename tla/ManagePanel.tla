----------------------------- MODULE ManagePanel -----------------------------
(***************************************************************************)
(* The management panel: worker threads serving creations, replacements of *)
(* test cases, deletions and queries over the shared connections, with the *)
(* public page of a problem, which reads the same rows.                    *)
(***************************************************************************)
EXTENDS CreateProblem, EditProblem, ReadProblems

Init == ApisInit(InitialRows) /\ WorkersInit

Step(t) == WorkerStep(t) \/ CreateStep(t) \/ EditStep(t) \/ ReadStep(t)

\* Every request has been answered and every worker waits for the next one.
Quiet ==
  /\ AllArrived
  /\ \A t \in Threads : pc[t] = "idle"
  /\ UNCHANGED vars

\* What the server cannot prevent: its connections end, it dies.
Fault ==
  \/ \E c \in MayLose : Lose(c) /\ UNCHANGED workerVars
  \/ Restart

Next == (\E t \in Threads : Step(t)) \/ Fault \/ Quiet

Spec == Init /\ [][Next]_vars

\* The operating system schedules every worker, and every call on the
\* connection returns.  Faults may happen, but need not.
FairSpec == Spec /\ \A t \in Threads : WF_vars(Step(t))

-----------------------------------------------------------------------------
Local ==
  [problem_id : Nat, sec : 1 .. Len(Sections) + 1, i : Nat \ {0},
   status : {0, 400, 500}, listed : SUBSET Nat]

ApisTypeOK ==
  /\ owner \in [Conns -> Threads \cup {NoThread}]
  /\ depth \in [Conns -> Nat]
  /\ autocommit \in [Conns -> BOOLEAN]
  /\ ins \in [Conns -> SUBSET Row]
  /\ del \in [Conns -> SUBSET Row]
  /\ locks \in [Conns -> SUBSET (Tables \X Nat)]
  /\ db \in SUBSET Row
  /\ lost \in SUBSET Conns

Statuses == {200, 400, 401, 403, 404, 500, Escaped}

WorkersTypeOK ==
  /\ todo \in SUBSET Requests
  /\ cur \in [Threads -> Requests \cup {NoRequest}]
  /\ pc \in [Threads -> Labels]
  /\ local \in [Threads -> Local]
  /\ reply \in [Requests -> Statuses \cup {0}]
  /\ nextId \in Nat
  /\ applied \in SUBSET Requests

\* The types of the variables, for any requests: the mutex counts of APIs
\* never go below zero (rollbackTransaction unlocks on paths that never
\* locked), and the rows stay well formed.
TypeOK == ApisTypeOK /\ WorkersTypeOK

InTx(t) == pc[t] \in TxLabels

\* No request takes an error path that rolls back what it never began: a
\* creation has a body that can be read and a difficulty that is known, and
\* the query of GET testcases does not throw.
Orderly ==
  /\ "read" \notin Throws
  /\ \A r \in Requests :
       r.op = "create" => r.body \notin {"unparsable", "badDifficulty"}

\* A site administrator's replacement, which skips the permission check, names
\* a problem that has been given its id; nothing else keeps its test cases from
\* waiting for a problem to come, unless a foreign key of the schema does.
ReplacesGivenIds ==
  \A r \in Requests : (r.op = "replace" /\ r.admin) => r.pid < FirstNewId

RowTotal(rows) == MapThenSumSet(LAMBDA row : row.val, rows)

\* What is stored when the server starts is what complete creations and
\* replacements leave: every part of a problem belongs to a stored problem, the
\* test cases of one come from one request, and a request adds to one problem.
WholeLeft ==
  LET Parted == {row \in InitialRows : row.table \notin Registries} IN
  /\ \A row \in Parted :
       \E x \in InitialRows : x.table = "problems" /\ x.pid = row.pid
  /\ \A x, y \in Parted :
       (x.table = "problem_test_cases" /\ y.table = x.table /\ y.pid = x.pid)
         => y.by = x.by
  /\ \A x, y \in Parted : (x.table = "problems" /\ y.by = x.by)
                            => y.pid = x.pid

\* The problems that are stored when the server starts have their full score:
\* no replacement of an earlier run has left them another.
FullScoresLeft ==
  \A row \in InitialRows :
    row.table = "problems" =>
      RowTotal(RowsOf(InitialRows, "problem_test_cases", row.pid)) = FullScore

NothingPending(c) == ins[c] = {} /\ del[c] = {} /\ locks[c] = {}

\* A connection whose mutex is free, or that is in autocommit mode, has no
\* open transaction: nothing a worker has left behind can be published or
\* rolled back by the next one (beginTransaction, commitTransaction,
\* rollbackTransaction).  It holds whatever the requests are.
NoStrayWork ==
  \A c \in Conns :
    /\ owner[c] = NoThread => autocommit[c]
    /\ autocommit[c] => NothingPending(c)

\* From beginTransaction to the unlock, while the connection lives, the
\* worker holds the mutex of its connection, once, and the connection stays
\* out of autocommit mode: no other call on the connection ends its
\* transaction under it.
Isolated ==
  \A t \in Threads :
    (InTx(t) /\ Conn(t) \notin lost)
      => /\ owner[Conn(t)] = t
         /\ depth[Conn(t)] = 1
         /\ ~ autocommit[Conn(t)]

\* A worker that has answered its request holds no mutex.  When the
\* connection is lost rollbackTransaction throws before it unlocks, and the
\* mutex stays locked until the server is restarted.
MutexReleased ==
  \A t \in Threads, c \in Conns \ lost : pc[t] = "idle" => owner[c] # t

\* A request that a handler has answered with an error has stored no row,
\* however far it got before it failed (badReq and the catch blocks).
RefusedLeavesNothing ==
  \A r \in Requests :
    reply[r] \in {400, 401, 403, 404, 500} => \A row \in db : row.by # r.id

\* The answer to a request that changes the database agrees with its commit,
\* although the connection may be lost between a commit and the handler's
\* hearing of it: only an exception that leaves the handler leaves the client
\* in doubt (commitTransaction, and the catch blocks that roll back after it).
\* What the commit published is the matter of AnsweredIsStored.
AnswersTruthful ==
  \A r \in Requests :
    /\ (r.op \in {"create", "replace", "delete"} /\ reply[r] = 200)
         => r \in applied
    /\ reply[r] \in {400, 401, 403, 404, 500} => r \notin applied

\* Request q takes the row away: its problem, or its test cases.
TakesAway(q, row) ==
  /\ q.pid = row.pid
  /\ \/ q.op = "delete"
     \/ q.op = "replace" /\ row.table = "problem_test_cases"

\* The row is stored, or a request other than r has committed and taken it
\* away.
Lasting(r, row) ==
  row \in db \/ \E q \in applied \ {r} : TakesAway(q, row)

\* The row of every element of section s of request r lasts.
SectionLasts(r, s, p) ==
  \A i \in DOMAIN Elements(r, s) :
    Lasting(r, RowFor(r, s, p, i, Elements(r, s)[i]))

KnownIds == {row.pid : row \in db} \cup {q.pid : q \in applied}

CreationStands(r) ==
  \E p \in KnownIds :
    /\ Lasting(r, ProblemRow(r, p))
    /\ \A k \in DOMAIN Sections :
         Sections[k] \notin Registries => SectionLasts(r, Sections[k], p)

\* Nothing is left of what the problem had at first: a row of it was written
\* by another request that has committed, a creation that was given the id
\* later or a replacement that was granted before (NoOrphans rules out that a
\* part of an earlier creation is left).
DeletionStands(r) ==
  \A row \in db :
    (row.table \notin Registries /\ row.pid = r.pid)
      => \E q \in applied \ {r} : row.by = q.id

Stands(r) ==
  /\ r.op = "create" => CreationStands(r)
  /\ r.op = "replace" => SectionLasts(r, "problem_test_cases", r.pid)
  /\ r.op = "delete" => DeletionStands(r)

\* A client that is answered 200 can rely on it: all that its request was to
\* write is stored, and what it deleted is gone, until another request that
\* committed takes it away; no rollback, failure or restart undoes it
\* (commitTransaction, which the answer follows).
AnsweredIsStored ==
  \A r \in Requests : reply[r] = 200 => Stands(r)

Replacements == {r.id : r \in {x \in Requests : x.op = "replace"}}

ProblemIds == {row.pid : row \in {x \in db : x.table = "problems"}}

\* Every stored row that belongs to a problem belongs to a stored problem:
\* DELETE clears its tables together, and a creation attaches what it
\* inserts to a problem that is there.  A replacement that has passed its
\* permission check may insert after a deletion; whether the test cases stay
\* is up to a foreign key of the schema, so its rows are left out.
NoOrphans ==
  \A row \in db :
    (row.table \notin Registries /\ row.by \notin Replacements)
      => row.pid \in ProblemIds

CasesOf(p) == RowsOf(db, "problem_test_cases", p)

\* "replace all the testcases" (testcases.hpp:46): the stored test cases of
\* a problem all come from one request.
CasesFromOneRequest ==
  \A p \in ProblemIds : \A x, y \in CasesOf(p) : x.by = y.by

\* "Total test case score must be 10000" (problems.hpp:244): the stored test
\* cases of a problem add up to 10000, unless a replacement, which does not
\* check their scores, has taken effect on it.
FullScores ==
  \A p \in ProblemIds :
    (\A r \in applied : r.op = "replace" => r.pid # p)
      => RowTotal(CasesOf(p)) = FullScore

\* "Get the problem_id" (problems.hpp:154): what a creation inserts belongs
\* to the problem it has inserted, although its id is read back by title; the
\* schema must make titles unique.
PartsOfOwnProblem ==
  \A x, y \in db :
    (x.table = "problems" /\ y.by = x.by /\ y.table \notin Registries)
      => y.pid = x.pid

\* Some committed row gives one of the roles of r the flag for problem p.
Granted(r, p, flag) ==
  \E row \in RowsOf(db, "problem_role", p) :
    row.name \in r.roles /\ HasFlag(row, flag)

\* A worker passes the permission check only on a committed row that gives
\* one of its roles the edit permission: the check reads the connection
\* that deletions use, outside their mutex, and sees their pending work.
GrantsAreCommitted ==
  [][\A t \in Threads :
       (pc[t] = "permissionRead" /\ pc'[t] \notin {"permissionRead", "idle"})
         => Granted(cur[t], cur[t].pid, EditFlag)]_vars

\* The list shows only problems that are stored, to users whom a stored row
\* lets see them: not a problem that is being created, whatever becomes of
\* it, and no role that its transaction has not committed.
ListedAreCommitted ==
  [][\A t \in Threads :
       (pc[t] = "listRead" /\ pc'[t] = "listCount")
         => \A p \in local'[t].listed :
              /\ p \in ProblemIds
              /\ cur[t].admin \/ Granted(cur[t], p, ViewFlag)]_vars

\* Every request a worker has taken is answered in the end, or dropped when
\* the server dies.  No connection may be lost: the mutex that
\* rollbackTransaction then does not release keeps the others waiting.
AllAnswered == \A t \in Threads : pc[t] # "idle" ~> pc[t] = "idle"

-----------------------------------------------------------------------------
\* The panel implements ProblemStore: each request changes the stored rows
\* in one step, completely, or not at all, and what a crash or a lost
\* connection interrupts has changed nothing.
Store == INSTANCE ProblemStore

StoreSpec == Store!Spec
=============================================================================
