# CGOJ back end: specifications

TLA+ models, TLC runs and TLAPS proofs for the back end of the CG Online Judge
(`main.cpp`, `src/`). The server is one process: Crow runs the route handlers
on a pool of worker threads, and all of them share three MySQL connections.
What is hard to get right, and what the models are about, is what the workers
do to each other through those connections, and through the process-wide
caches and tables.

## The system

| Part | Source | State it keeps | Operations |
|---|---|---|---|
| Connections (`APIs`) | `src/API/api.cpp`, `api.hpp` | a MySQL connection (autocommit mode, open transaction) and a recursive mutex; three objects: `api`, `modify_api`, `submission_api` | `prepareStatement`, `beginTransaction`, `commitTransaction`, `rollbackTransaction` (`read`, `write`: no callers) |
| Management panel | `src/CROW_ROUTEs/manage_panel*` | none of its own; the problem tables | list and create problems; edit and delete one; read and replace its test cases |
| Tokens | `src/Programs/jwt.cpp` | none (a signed token, 24 h) | `generateJWT`, `verifyJWT`, `getRoles`, `isPermissioned` |
| Rate limit | `src/CROW_ROUTEs/register.cpp` | per IP, up to three emails; the day of the last cleanup | `check_rate_limit`, `cleanup` |
| Registration, login | `register.cpp`, `login.cpp` | the users table | `POST /register`, `POST /login` |
| LRU cache | `src/include/lrucache.hpp` | a list and a map under one mutex | `put`, `get`, `exists`, `size` |
| Public list, public page | `problems.cpp`, `problem.cpp` | a cache of problems and a "filled" flag; a cache that is never filled | `GET /problems`, `GET /problem/<int>` |
| Submission | `submit.cpp`, `sand_box_api.hpp` | a mutex around one HTTP client | `POST /submit` (a connection test; the pipeline is commented out) |
| Start-up | `main.cpp`, `settings`, `get_ip.cpp` | settings, public IP, accepted languages | read once before the server runs |
| Not registered | `languages.cpp`, `permissions.cpp`, `profile.cpp`, `harsh_SHA256.cpp` | | |

How they interact. A handler asks an `APIs` object for a prepared statement;
`prepareStatement` holds the mutex only while it prepares, so the statement is
executed on the shared connection without it. A transaction holds the mutex
from `beginTransaction` to `commitTransaction` or `rollbackTransaction`, and
keeps other workers from *preparing* statements, not from executing one they
have. `ROUTE_manage_panel` gives `modify_api` to the two POST handlers and
`api` to everything else, so a deletion (on `api`) and a creation or
replacement (on `modify_api`) do not exclude each other by a mutex: only the
database's row locks do. The permission check of every request runs on `api`.

What is hard: transactions whose error paths (`badReq`, the catch blocks) roll
back whether or not this request began one; statements of one worker inside
the transaction of another; failure of any statement of a long sequence; row
locks of two connections against two mutexes; a problem's id read back by
title; checks made before the transaction they protect; and caches with keys
narrower than what they hold; a connection that is lost, or a server that
dies, between any two calls; a start that ends half way, with routes that are
registered before what they use exists; and a client of the sandbox that waits
for it under a mutex, for as long as it takes. `PROJECT.json` lists these hazards line by line.

What makes each part correct:

* Connections: a transaction is isolated from begin to unlock; a mutex is
  released by whoever took it and never more often; no work is left pending
  for the next user of the connection.
* Management panel: every request takes effect in one step and completely, or
  not at all, exactly when it is answered 200; no row outlives its problem; the
  test cases of a problem come from one request and add up to 10000; a
  permission is granted, and a problem listed, only on a committed row; what a client was
  told is stored stays so until another request takes it away; every request is
  answered.
* Rate limit: at most three emails per address and day.
* Registration: one account per email, a token for the account that was asked
  for, and a confirmed account is kept.
* LRU cache: list and map agree, the bound holds, the least recently used goes.
* Public list: a page shows no problem that is hidden from its reader and none
  twice; left alone, it is the page of the database.
* Start-up: nothing is served before everything is there.
* Sandbox client: one call at a time, a whole reply or none, every submission
  answered.

## The modules

| Module | Models | Extends |
|---|---|---|
| `Apis` | one `APIs` object per connection, with the database behind it | |
| `ProblemRows` | requests of the panel, rows of the problem tables | |
| `Workers` | the worker threads: dispatch, token and permission checks, begin, commit, rollback, answer | `Apis`, `ProblemRows` |
| `CreateProblem` | `POST /manage_panel/problems` | `Workers` |
| `ReadProblems` | `GET /manage_panel/problems`, `GET /problem/<int>` | `Workers` |
| `EditProblem` | `PUT`, `DELETE /manage_panel/problems/<int>`, `GET`, `POST .../testcases` | `Workers` |
| `ManagePanel` | the composition with what may happen to the connections and the process, the properties, the refinement mapping | `CreateProblem`, `EditProblem`, `ReadProblems` |
| `ProblemStore` | what the panel promises: each request one atomic step | `ProblemRows` |
| `MCManagePanel` | the requests and rows of the runs | `ManagePanel` |
| `ManagePanelProofs` | types, stray work, grants and lists, for any requests and failures | `ManagePanel`, `TLAPS` |
| `IsolationProofs` | answers that agree with their commit calls; isolation under `Orderly` | `ManagePanelProofs` |
| `StoreProofs` | the panel implements `ProblemStore`; what that gives its rows and its answers | `IsolationProofs` |
| `RateLimit` | `check_rate_limit` with its cleanup, and the clock | |
| `Admissions` | what the rate limit promises: the emails admitted today, at most three | |
| `MCRateLimit`, `RateLimitProofs` | the run; types, packing of the slots, the refinement | `RateLimit` |
| `LruCache` | the cache: list, map, `put`, `get` | |
| `RecencyCache` | what an LRU cache promises: values and an order of use | |
| `MCLruCache`, `LruCacheProofs` | the run; agreement, bound, the refinement | `LruCache` |
| `ProblemList` | `GET /problems`, with its cache (`LruCache`, as an instance) and its flag | |
| `MCProblemList`, `ProblemListProofs` | requests and problems of the runs; what the cache and the pages may hold | `ProblemList` |
| `Accounts` | `POST /register`, `POST /login`, `generateJWT`, on the connection `api` and behind the rate limit (`RateLimit`, as an instance) | `Apis` |
| `MCAccounts`, `AccountsProofs` | requests and users of the runs; what the mutex protects, accounts that stay | `Accounts` |
| `Server` | `main`, step by step, and `POST /submit` with the sandbox client | |
| `MCServer`, `ServerProofs` | the files and submissions of the run; its safety properties | `Server` |

### State and code

* `owner[c]`, `depth[c]`: `mtx` of connection `c`, a `std::recursive_mutex`.
  `Unlock` by a thread that is not the owner is undefined in C++; in the image
  the Dockerfile builds it has no effect, and so it has none in the model.
* `autocommit[c]`, `ins[c]`, `del[c]`, `locks[c]`, `db`: the connection and the
  database, external. A connection out of autocommit mode keeps what it has
  added and removed aside and reads through it (`View`); `Execute` is one
  statement; a statement waits while another connection has a lock on the same
  `<<table, problem>>` pair. `commitTransaction` and `rollbackTransaction` are
  two steps each (`Commit`/`Committed`, `Rollback`/`RolledBack`): the second,
  `setAutoCommit(true)`, publishes whatever has been executed in between.
* `pc[t]`, `local[t]`, `cur[t]`: the call worker `t` is in, its locals
  (`problem_id`, the loop counters, the status about to be sent) and its
  request. One label is one call on a connection; what lies between two calls
  touches only locals and is joined with the call before it.
* `lost`: the connections whose session has ended. `Lose` may happen at any
  moment to those in `MayLose`; the database discards what was pending, and the
  server notices at its next call, which throws: `StatementThrows`,
  `ReadThrows`, `BeginThrows`, `CommitThrows` and `RollbackThrows` say where
  each exception goes. `commitTransaction` may throw after the database has
  committed. `rollbackTransaction` throws out of the catch block that calls it,
  without unlocking; Crow answers 500, which the model writes `Escaped` (599)
  to tell it from a 500 that a handler sends. `Restart` (with `MayCrash`) is
  the death and a new start of the process: new connections, free mutexes, and
  whatever was being served is never answered.
* `applied`: a history variable, the requests whose `commit` call has run. That
  the call published the whole transaction of the request, and nothing less, is
  what `StoreSpec` and `AnsweredIsStored` say; beside a request that is not
  `Orderly` it need not (`v_cases`).
* `reply[r]`: the status code; `todo`: requests not yet received; `nextId`: the
  AUTO_INCREMENT of `problems`, which a rollback does not take back; it starts
  at `FirstNewId`, above the ids of the stored rows.

A creation walks `Sections`, one array of the body after another, an element
per step; `NewRows` is the row the element adds (none when a tag or role is
registered already: its `SELECT` and `INSERT` are one step, because nothing
but the transactions of `modify_api`, which exclude each other, adds tags or
roles). A deletion walks `DeleteTables`. `Throws` says which calls may fail at
any time: `"statement"` for those of a transaction, `"read"` for the query
outside one and the permission query. `UniqueTitles` stands for the schema,
which is not in the repository.

A request's `body` says how far the handler gets in reading it: `unparsable`,
`badDifficulty` (refused before the transaction), `badProblem` (a field of the
problem object has the wrong type), `ok`. `Malformed` is an element on which a
`get<T>()` throws. Texts, limits and times are left out; a test case is its
score, a role its name and whether it has the edit flag.

`RateLimit`: `rateLimit` is the map of the addresses that have slots, `day`
the system clock in days, `verdict` the last check with its result. The mutex
is held over the whole check, so a check is one step, the lazy cleanup
included. `Admissions` forgets at midnight; the mapping makes the slots of a
map that has not been cleaned yet count for nothing.

`LruCache`: `list` is the `std::list`, front first, each element with the
identity of its node; `map` sends a key to its node, as the iterators do.
Each member function holds the mutex and is one step. `got` is what the last
`get` returned. `RecencyCache` keeps values and the set of pairs "a was used
before b" instead.

`ProblemList`: a step is preparing a query, which waits for the mutex of `api`,
executing it, which does not, one read of the cache's size or of the flag, one
`put`, one `get`, or the copy through the reference a `get` returned
(`local[t].from`). `Unsigned`, `Signed` and `Narrow` are the conversions
between `u_int32_t`, `int` and the `int8_t` key, with `Word` for 2^32. The
management panel deletes a problem in steps: `panel` is how far its
transaction on `api` has come (whoever runs it has the mutex unless it is
`"idle"`), `removed` the problem it has deleted and not committed. The queries
run on the same connection and read `Seen`: without that problem from its
`DELETE` on, and with it again after a rollback. `PanelCommits` is the commit
and the unlock; nothing but the wait for the mutex can tell when the second
comes. A creation is committed on `modify_api` and appears at once
(`PanelCreates`); the list is a query of rows that are committed or its own
connection's, so a creation that commits during a deletion is one that does so
before or after it. `HeldRoles` are the roles that some row of `user_roles`
has: the count joins that table and the list does not, nothing in the
repository says what is in it, and it is left open. `sent` is what the last
step answered, and to whom; requests may arrive any number of times. Rows are
listed in the order of their ids, which is the order the database finds them
in; the query has no `ORDER BY`.

`Accounts`: a step is preparing a statement, which waits for the mutex, or
executing it, which does not. `PanelThreads` are workers in a deletion: begin,
commit or rollback, and the switch back to autocommit. `UniqueEmails` stands
for the schema. A token is the row its user id was read from, and
`by` names the request whose `INSERT` made a row; the hash of a password is the
password.

`Server`: `main` is the step the program is at, from `"ip"` to `"serving"`, in
the order of `Following`; `made` holds the global pointers that point to an
object. A step whose guard fails, for want of a field of the settings, can
only `Die`, and so can any other at any time: exceptions, failed asserts and
signals look the same from outside. `settings` maps the top-level keys of the
merged files to the fields they have. A worker's call of the sandbox is the
mutex, the handle (with the initialisation of libcurl, which `getPublicIP` has
undone), the pieces of the reply, and the return; `reply[t]` is how many pieces
the sandbox sends, `readBuffer[t]` how many have arrived.

## The runs

All are in `PROJECT.json`; each request arrives at most once, but for `pl`.

| Run | Requests | Shows |
|---|---|---|
| `mp_modify` | two creations of one title (good, total too low), two replacements (good, malformed in the middle), a list; `modify_api` may be lost, the server may die | `Isolated`, `MutexReleased`, `AnswersTruthful`, `AnsweredIsStored`, `RefusedLeavesNothing`, `CasesFromOneRequest`, `PartsOfOwnProblem`, `FullScores`, `ListedAreCommitted`, and that the panel implements `ProblemStore` |
| `mp_api` | a deletion and a replacement of one problem, a creation, and a query of what it creates; the server may die; under fairness | `Isolated`, `NoOrphans`, `AnsweredIsStored`, `StoreSpec`, `GrantsAreCommitted`, `AllAnswered` |
| `mp_any` | any four of eleven: requests that take the early rollback paths beside a creation and a deletion they may undo, an administrator's query, a PUT, three lists, one of them anonymous, the public page; any query failing, `api` may be lost | `TypeOK`, `NoStrayWork` |
| `rate_limit` | two addresses, four emails and the empty one, three days | `TypeOK`, `SlotsPacked`, and that it implements `Admissions` |
| `lru` | puts and gets of four keys, room for three | `Agree`, `Bounded`, and that it implements `RecencyCache` |
| `pl` | public, editor, null and non-numeric requests, page 0, a page past the largest key, a negative page size; three problems, one of them created later and one of them deleted, or not, in a transaction on the connection the queries use; any query failing; under fairness | `CacheForEveryone`, `OnlyVisible`, `FlagMeansFilled`, `NoRepeats`, `AllAnswered` |
| `server` | two starts with four local settings files, deaths; four submissions by three workers; under fairness | `Ready`, `SandboxAlone`, `WholeOrNothing`, `AllAnswered` |
| `accounts` | any four of seven: registrations of four emails by one address, two of them of one email, with missing and unreadable fields, and a login; two deletions beside them; a unique index | `AccountKept`, `PendingInDeletion` |
| `v_cases`, `v_token`, `v_pages`, `v_reference` | the smallest set that shows it | each refutes one sentence of a comment; see the findings |

Why the bounds are enough. The interference the code is exposed to is between
two workers on one connection, or one on each connection: two workers have
both. In `mp_any` and `accounts`
only `MaxArrivals` of the requests arrive, any of them in any order: every
pair and triple of requests meets, and a finished request leaves nothing but
rows and the state of the connections behind. The requests of a run differ in where they stop (before the
transaction, in its first statement, in the middle of a section, at its end)
and any statement may throw in `mp_modify` and `mp_api`, any query of a reading
route in `mp_any`, so that each error path is taken at each point. The seeded database has one
complete problem with rows in six tables. One connection may be lost in a run,
the one its transactions are on: the two fail independently, and nothing a
worker does on one depends on the other being there. After a death the
requests that have not arrived yet are served by the new process. The theorems
below do not depend on any of these bounds.

The rate limit has three slots, so four emails show the fourth refused, and
two addresses and three days that one address or day does not count for
another. The cache run has one key more than it has room for and reaches every
order of use of the four keys. In `pl` `Word` is 1024, above
the ids and the offsets, so that page 0 and a negative size wrap as they do
with 2^32; the ids 128 to 130 and the offsets 128 and 129 lie past the largest
key of an `int8_t`, which turns them into -128 and on at the code's own width;
the cache has room for one of the two public problems, so that a page of both
evicts while it fills. One deletion is begun (`MaxDeletions`), at any moment of
a fill or a read, and it may roll back: a second would only repeat it with
another problem. One public problem may be deleted before the other is created,
and then there is none to count (204). In the runs of the findings nothing is
deleted; there ids 1
and 257 share a key at the code's own width. In `accounts` one address uses four emails, so that the
fourth is refused, and one email is registered by two workers at once; with two
deletions the second can take away what the first left behind; only
the first query of `generateJWT` may throw there, when the user's row is in
the table and nothing undoes it. In `server` a reply comes in no piece or
two, so that it can break off in the middle, and two starts show that nothing
of the first is left in the second. The two workers of `accounts`, `mp_modify`
and `mp_any` are interchangeable.

`mp_any` does not check for deadlock: there the system really stops, when a
creation whose transaction another worker has rolled back returns without
unlocking (`problems.hpp:160`).

Fairness. `FairSpec` assumes `WF_vars(Step(t))` for each worker: the operating
system runs every thread, and calls on the connection return. InnoDB ends
every wait for a row lock, with the lock, with a deadlock error or with the
lock wait timeout, which is why a waiting statement may always throw. Weak
fairness of a worker waiting for a mutex is enough because each other worker
takes it a bounded number of times while finitely many requests are left.
`mp_api` loses no connection: the mutex that a throwing `rollbackTransaction`
leaves locked keeps the others waiting until the server is started again, so
the property would not hold, and the code does not promise it. `ProblemList`
assumes the same of a worker that has taken a request (`Serve`) and of a
deletion that has begun (`PanelGoesOn`), which is what a worker that prepares a
query waits for; no request has to arrive and no deletion has to begin. Were
deletions to begin without end, a worker could find the mutex taken each time it
looks, for `std::recursive_mutex` promises no turn. `Server` assumes it
of the workers, which includes that the sandbox ends each call, since no
timeout is set; `main` is not fair, because what it waits for may hang. The `accounts` run is too large for liveness;
TLC checks there that no state is a deadlock.

## What the checks found

* `v_cases`: error paths that never began a transaction roll back the one
  another worker has open on the connection. The victim continues in autocommit
  mode: half of its work is lost, the other half stays.
* `v_pages`: the public cache is filled under ids and read under offsets; one
  worker is enough to get the wrong page.
* `v_reference`: `get` returns a reference that another worker's `put` can
  invalidate before it is read.
* `v_token`: a registration whose `INSERT` was undone by a deletion's rollback
  answers with the id of the user who registered that email next.

Changing a constant of a run shows more of what the properties depend on:

* `NoOrphans` fails once a GET of test cases that throws (`"read"` in
  `Throws`) runs beside a deletion: its catch rolls the deletion back half way,
  as in `v_cases` but on `api`.
* `PartsOfOwnProblem` fails with `UniqueTitles = FALSE`: the parts of a
  problem with the title of an older one are attached to the older one.
* `FullScores` excepts the problems that a replacement has been applied to,
  because `POST testcases` checks neither the signs nor the sum of the scores.
  It is not enough to except test cases that a replacement wrote: one with an
  empty body leaves none, and their sum is 0.
* `StoreSpec` fails once a site administrator replaces the test cases of a
  problem id that has not been given yet: the permission check, which would
  fail for want of a role, is skipped, nothing looks the problem up, and a
  creation later comes upon test cases that are not its own.
* The count of the public list is zero for a reader whose only role is
  "everyone" while no user has a row for that role in `user_roles`
  (`HeldRoles = {"editor"}`), although every token has the role: the answer is
  204, whatever there is to list. Which rows there are the repository does not
  say, so no property is about it.
* Without `UniqueEmails` two registrations of one email at once both succeed.
* `AllAnswered` fails in `mp_api` with a connection in `MayLose`, and so does
  `MutexReleased` without its `\ lost`: `unlock` comes after the calls that
  throw.
* The panel's list (`problems.hpp:60` says "permission to modify") filters by
  the view bit; it lacks a problem while an uncommitted deletion has removed
  it, although the deletion may roll back; and its `JOIN` repeats a problem
  for each role that matches.
* A `settings.local` that gives one field of `MySQL` drops the others: the
  merge is of top-level keys only, and the start ends at `setupSqlAPI`.
* PUT of a problem is answered 400 whatever the request: it looks a table up
  under `problem_tables`, and the settings file has `problems_tables`.

* Of two registrations of one email, the first may find the row of the second
  (as in `v_token`) while that one is pending in another deletion, which then
  rolls back: its token is for nobody. `AccountKept` therefore speaks of the
  account a registration made itself.

What holds, and is less obvious than it looks: an account that was confirmed to
the registration that made it is committed (`AccountKept`), although its
`INSERT` may have been executed in a transaction that was rolled back, because
its next statement is not prepared before that transaction has ended; and the cache for everyone holds only
public problems (`CacheForEveryone`), although the handler never looks at the
name of the single role.

## The proofs

For every set of threads, requests and initial rows, and whatever may throw:

* `TypeCorrect`, `NothingStrays` (`ManagePanelProofs`) from the inductive
  invariant `IInv == ApisOK /\ WorkersOK`. `DepthOK` ties the count of a mutex
  to its owner: without it the unlock of a thread that is not in a transaction
  could take the count below zero. `ControlOK` ties a worker's label to its
  request: without it a step could use a field that its request does not have.
  `NoStrayWork` is inductive only with `DepthOK`, because a mutex becomes free
  when its count does.
* `GrantsCommitted`, `ListsCommitted`: a grant is given, and a problem listed,
  on rows of `View("api")`; no statement of a transaction on `api` adds a row,
  so what it sees is committed.
Under `Orderly`, which says that no request takes an early rollback path
(the known defect above), and nothing else:

* `TransactionsIsolated`, `MutexesReleased` (`IsolationProofs`) from `TxInv`:
  the owner of a mutex is in a transaction on it (`OwnersInTx`), so that
  begin finds it free; a rollback label is only reached from inside a
  transaction; and the row inserted by a creation is still visible when its id
  is selected (`SelectFinds`), which is why the leaking return is not taken.
* `RefusalsLeaveNothing` from `StoredInv`: pending rows were written by the
  request of the mutex's owner (`PendingOwn`), a request is served once
  (`ServedOnce`), and a stored row's request has committed
  (`StoredByApplied`).

What an answer says. `AnswersInvariance` (a lemma of `IsolationProofs`) needs no
hypothesis: `ServedInv` says that a request is in one place (to come, at one
worker, or answered), that the label of a worker tells whether its request's
commit call has run (`AppliedOK`), and that only a lost connection lets a
handler go on after it without answering 200 (`OnLost`). By itself that says
nothing of the rows: without `Orderly` another request may have undone the
transaction before the call. What a client relies on is `AnswersTrue`, below.

The refinement, `PanelImplementsStore` (`StoreProofs`): under `Orderly`,
`UniqueTitles` and `ReplacesGivenIds`, for any requests, whichever statements
throw, connections are lost and processes die, every step of the panel is a
step of `ProblemStore` or leaves the stored rows alone. Only the step that
ends a committed transaction publishes anything (`CommitImplements`), so the
invariant has to say what is pending at that moment, which is `StoreInv`:

* `Stage(t)` says, label by label, what is pending on the connection of `t` in
  terms of how far its request has come: a deletion has removed all rows of the
  tables it has been through (`Removed`), a replacement the old test cases, and
  it has added one row per element (`Replaced`), a creation the problem and the
  rows of the sections it has gone through, having looked at each element
  (`Filled`). `Written` says which elements of a registry section are new.
* Other workers commit in between. `PendingLocked` and `LocksApart` say that
  what one connection has pending the other cannot touch, so that
  `Removed` still speaks of all the rows that are stored at the commit: this
  is where the row locks, and not the two mutexes, order a deletion and a
  replacement. `IdsGiven` says that nothing is stored, and no replacement under
  way, for an id that has not been given: otherwise the id a creation gets
  would not be its own. It needs `ReplacesGivenIds`.
* `UniqueTitles` makes the id that is read back by title the one inserted.

What `ProblemStore` keeps, the panel keeps: `NoOrphansLeft`,
`CasesOfOneRequest` and `PartsOfOwn` are proved of one step of `ProblemStore`
(`StoredRowsStep`), with `WholeLeft` for the rows stored at the start, and carried
over. `ScoresFull` also needs that the sum over the elements of a body, which the
handler compares with 10000, is the sum over the rows it inserts, in whatever
order either is taken. A sum over a set is defined by recursion; the proof
takes the least size at which two sums could differ instead of an induction
(`CountingUp`, `SumTakesAny`, `SumsAgree`). `FullScoresLeft` is its hypothesis
for the problems stored at the start.

`AnswersTrue` (`StoreProofs`), under the hypotheses of the refinement: a request
that was answered 200 has all its rows stored but those that another request,
which has committed, has taken away (`AnsweredIsStored`), and one that was
answered with an error has not committed. Each step of `ProblemStore` keeps this
of every request that has committed (`CommittedStands`): what it removes it
removes in the name of its own request (`LastingStays`), and its own rows are
there when it is done (`NewStands`).

What these hypotheses mean for a reader: `Orderly` excludes the defect of
`v_cases`, `UniqueTitles` and `ReplacesGivenIds` are left to the schema and to
administrators, and every passing run that checks one of these properties satisfies
them all (`SeedAssumption` of `MCManagePanel` for what is about the seed).

The rate limit, for any addresses and emails (`RateLimitProofs`): `TypeOK`
and `SlotsPacked` are inductive together. The refinement
(`ImplementsAdmissions`) needs the packing: a check admits an email that is
not in the slots exactly if a slot is free, and three different emails in
packed slots are a set of cardinality three.

The cache, for any keys, values, nodes and size (`LruCacheProofs`):
`CacheInv` says of the list and the map that they agree, that the map's domain
is finite, and that it is no larger than `max_size`. Each operation is put
together from two moves, pushing a node of an absent key (`PushNew`) and
dropping a key (`DropKey`), each of which keeps list and map in agreement; a
`put` of a present key is the two in the other order, which gives the same
list (`RemoveBehind`). `Bounded` follows because the keys of the list are a
bijection onto the map's domain (`AsLong`). `CacheImplementsRecency` follows
the same two moves: `PushView` and `DropView` say what each does to the values
and to the order of use that a list and its map show, a get that hits and a
put of a present key are a drop and a push (`MoveShows`), and an eviction drops
the last pair, which is the one nothing was used before (`LastIsOldest`).

The public list, for any problems, roles, requests, cache size and word
(`ProblemListProofs`): `CacheIsOpen`, `PagesVisible` and
`FlagIsTrue` from one `IInv`. The proofs of the cache are used as they stand,
by an instance of `LruCacheProofs` whose values are the problems for everyone:
its `CacheInv` then says of the shared cache that it is in order and open.
What has to be shown is that only open problems are put: a worker that fills
has a token of one role (`PublicLabels`), that role is "everyone"
(`TokenEveryone`), and the page it lists was selected by it (`PageOpen`).
`FlagOK` speaks of the map instead of the list, because `put` decides from the
map's size what to evict. `FlagIsTrue` assumes that the cache has room for
one (`RoomAssumption`). A deletion that is half way, or rolls back, takes no part
in any of them: what a query reads is always a part of `Problems`.

`PagesOnce`, from `KInv`: whatever node the map gives for a key holds a problem
whose id has that key as its low byte (`KeysOK`), and so a page that is being
read has, at each place, a problem with the low byte of its offset (`PageOK`).
Two places of one page have the same problem only if their offsets are a
multiple of 256 apart, which is why the theorem is about pages of at most 256
problems. A page the database answers has distinct ids, because a public token
has one role and matches a problem in one row.

Registration and login, for any workers, requests, users and number of
deletions, with or without a unique index (`AccountsProofs`): `AccountsAreKept`
and `PendingIsProtected` from one `IInv`. `MutexOK` says that the mutex of `api`
is held once, by a worker inside a deletion, and that no statement removes a
user; `ServedOnce` that a request is at one worker. The heart is `KeptOK`: once
the query for the id is prepared, no pending row is of the same request,
because preparing waits for a free mutex, which means that nothing is pending
(`PendingInDeletion`), and the rows that other workers add after that are
theirs. So the row that is found is committed, or not its own (`FoundStays`).

The server, for any workers, submissions, files and starts (`ServerProofs`):
`ServerInv` says what main has made when it comes to each step (`MadeBefore`),
that nobody is served before the end of the start (`ServedLate`), that whoever
is inside `POST` holds its mutex (`HolderInside`), and that the buffer of a
call that has ended is empty or the whole reply (`Settled`).

Each invariant was first checked by TLC as an invariant. The assumptions on the
constants are named in the modules that declare them; `IdsAssumption` says that
request ids are distinct (and, for the panel, not the writer of an initial row).

Only model-checked: the three `AllAnswered`, which are liveness properties and
outside what the proof system supports. Every other property of a passing run
(`NoRepeats` for pages of at most 256 problems)
is a theorem. What the theorems with hypotheses leave open is what the findings
and the list above show to be false without them.

## Left out, and why

* A commit or rollback that throws while the connection lives, and a lost
  connection beside registrations: in `Accounts` `lost` stays empty.
* `LIMIT`, `OFFSET` and the number of the second query in the panel's list.
* The submission pipeline (`submit.cpp:12` to `145`): commented out. The list
  of accepted languages is filled (`accepted_languages`), and nothing reads it.
* The pages of the public problem that follow its permission check: never
  reached. The default settings file is taken to parse.
* Foreign keys, unique keys other than the title: the schema is not in the
  repository. In particular a replacement that passes the permission check
  before a deletion of the problem, and inserts after it, is not put under
  `NoOrphans`.
* Two workers inside the client library on one connection. A statement is
  executed without the mutex, and the C client forbids concurrent calls on one
  `MYSQL*` ("commands out of sync"). Whether the connector serialises them is
  its matter: the models take each call as one step, and let it throw where
  `Throws` says so.
* In `ProblemList`, rollbacks by requests that never began a transaction, and a
  commit or a rollback that throws: the deletion there is orderly. The runs of
  `ManagePanel` have both.
* What remains half deleted when a failing GET of test cases rolls a deletion
  back: `mp_any` has both requests, and checks types and stray work; that
  `NoOrphans` then fails is said above.
* Snapshot reads of REPEATABLE READ: every query reads the latest committed
  rows. The only queries inside transactions read rows of their own
  transaction or registries that only `modify_api` transactions write.
* PUT on the test case route, which the route accepts and no handler answers.
* The owner of a problem: the list joins it with the users, and every owner is
  taken to be one.
* A clock that is set back; the width of user ids and permission flags in a
  token; roles that change while a token is valid.
* In `Accounts`, rollbacks by requests that never began a transaction
  (a failing GET of test cases): the deletions there are orderly.

## Plan

Every part that is registered and runs is modelled. Left, in this order:

1. Tokens: narrowing of ids and flags, roles that change under a token.
2. Which of the theorems of `StoreProofs` survive without `ReplacesGivenIds`:
   `NoOrphans` leaves the rows of replacements out and should.
