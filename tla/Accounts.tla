------------------------------ MODULE Accounts ------------------------------
(***************************************************************************)
(* POST /register and POST /login (src/CROW_ROUTEs/register.cpp and        *)
(* login.cpp), with JWT::generateJWT.  Every query is a statement on the   *)
(* connection api, prepared under its mutex and executed without it, so it *)
(* may be executed inside the transaction that a deletion of a problem has *)
(* open on the same connection.  A row of the users table is written by    *)
(* one INSERT; tag and id are what the columns of that name hold.          *)
(***************************************************************************)
EXTENDS Apis, FiniteSetsExt, SequencesExt

CONSTANTS
  PanelThreads,   \* the workers that delete problems meanwhile
  NoRequest,
  Requests,       \* the requests that may arrive, each at most once
  InitialUsers,   \* the users table when the server starts
  UniqueEmails,   \* the schema forbids two users with one email
  IPs, Emails, NoEmail,
  MaxArrivals,    \* bound: how many of the requests arrive
  MaxDeletions,   \* bound: how many transactions the panel begins
  Throws          \* the statements that may throw: a subset of Statements

Statements == {"tag", "count", "insert", "id", "find", "roles", "flags"}

ASSUME PanelAssumption == PanelThreads \subseteq Threads
ASSUME ThrowsAssumption == Throws \subseteq Statements
ASSUME IdsAssumption ==
  /\ \A r, q \in Requests : r.id = q.id => r = q
  /\ NoRequest \notin Requests

VARIABLES
  rateLimit, verdict,  \* the rate limit's map, and its last answer
  todo,                \* the requests that have not arrived yet
  cur, pc, local,      \* what each worker serves, where it is, its locals
  reply,               \* reply[r]: the status and the user of the token
  nextId,              \* AUTO_INCREMENT of the users table
  deletions            \* the transactions the panel has begun

vars == <<apiVars, rateLimit, verdict, todo, cur, pc, local, reply, nextId,
          deletions>>

\* One day of the rate limit.
Limit == INSTANCE RateLimit
  WITH day <- 0, lastCleanupDay <- 0, MaxDay <- 0

NoUser == [id |-> 0, name |-> "", tag |-> 0, email |-> NoEmail,
           password |-> "", by |-> ""]

NoReply == [status |-> 0, user |-> NoUser]

\* prepared: prepareStatement has returned, the statement is not executed.
\* user: the row user_id was read from.
NoLocal == [prepared |-> FALSE, new_tag |-> 0, user |-> NoUser]

Init ==
  /\ ApisInit(InitialUsers)
  /\ rateLimit = Limit!NoEntries
  /\ verdict = Limit!NoVerdict
  /\ todo = Requests
  /\ cur = [t \in Threads |-> NoRequest]
  /\ pc = [t \in Threads |-> "idle"]
  /\ local = [t \in Threads |-> NoLocal]
  /\ reply = [r \in Requests |-> NoReply]
  /\ nextId = 1 + Cardinality(InitialUsers)
  /\ deletions = 0

Users == View("api")

WithEmail(e) == {u \in Users : u.email = e}

-----------------------------------------------------------------------------
Goto(t, label) == pc' = [pc EXCEPT ![t] = label]

Answer(t, status) ==
  /\ reply' = [reply EXCEPT ![cur[t]] =
                 [status |-> status,
                  user |-> IF status = 200 THEN local[t].user ELSE NoUser]]
  /\ cur' = [cur EXCEPT ![t] = NoRequest]
  /\ local' = [local EXCEPT ![t] = NoLocal]
  /\ Goto(t, "idle")
  /\ UNCHANGED <<rateLimit, verdict, todo, nextId, deletions>>

\* Nothing more will come, as far as the model goes.
AllArrived == todo = {} \/ Cardinality(Requests \ todo) >= MaxArrivals

Take(t, r) ==
  /\ pc[t] = "idle"
  /\ t \notin PanelThreads
  /\ ~ AllArrived
  /\ r \in todo
  /\ todo' = todo \ {r}

\* The body does not parse: the exception leaves the handler, 500.
DispatchUnparsable(t) ==
  /\ \E r \in Requests :
       /\ r.body = "unparsable"
       /\ Take(t, r)
       /\ reply' = [reply EXCEPT ![r].status = 500]
  /\ UNCHANGED <<apiVars, rateLimit, verdict, cur, pc, local, nextId, deletions>>

DispatchLogin(t) ==
  /\ \E r \in Requests :
       /\ r.op = "login" /\ r.body # "unparsable"
       /\ Take(t, r)
       /\ cur' = [cur EXCEPT ![t] = r]
  /\ Goto(t, "find")
  /\ UNCHANGED <<apiVars, rateLimit, verdict, local, reply, nextId, deletions>>

\* check_rate_limit comes first; an address over the limit is answered 429.
DispatchRegister(t) ==
  /\ \E r \in Requests :
       /\ r.op = "register" /\ r.body # "unparsable"
       /\ Take(t, r)
       /\ Limit!check_rate_limit(r.ip, r.email)
       /\ \/ /\ verdict'.ok
             /\ cur' = [cur EXCEPT ![t] = r]
             /\ Goto(t, "tag")
             /\ UNCHANGED reply
          \/ /\ ~ verdict'.ok
             /\ reply' = [reply EXCEPT ![r].status = 429]
             /\ UNCHANGED <<cur, pc>>
  /\ UNCHANGED <<apiVars, local, nextId, deletions>>

-----------------------------------------------------------------------------
(* Statements.                                                             *)

\* A mistake: preparing without the mutex.
PrepareUnlocked(t) ==
  /\ pc[t] \in Statements
  /\ ~ local[t].prepared
  /\ local' = [local EXCEPT ![t].prepared = TRUE]
  /\ UNCHANGED <<apiVars, rateLimit, verdict, todo, cur, pc, reply, nextId, deletions>>

Prepare(t) ==
  /\ pc[t] \in Statements
  /\ ~ local[t].prepared
  /\ Free("api", t)
  /\ local' = [local EXCEPT ![t].prepared = TRUE]
  /\ UNCHANGED <<apiVars, rateLimit, verdict, todo, cur, pc, reply, nextId, deletions>>

Executes(t, label) == pc[t] = label /\ local[t].prepared

\* Caught around the statements of a registration; out of generateJWT and
\* of a login the exception reaches Crow.  The answer is 500 either way.
StatementThrows(t) ==
  /\ pc[t] \in Throws
  /\ Answer(t, 500)
  /\ UNCHANGED apiVars

\* The statement has been executed; next comes label.
Continue(t, label) ==
  /\ Goto(t, label)
  /\ UNCHANGED <<rateLimit, verdict, todo, cur, reply, deletions>>

-----------------------------------------------------------------------------
(* Registration.                                                           *)

\* body["name"].get<std::string>() throws.
NameThrows(t) ==
  /\ Executes(t, "tag")
  /\ cur[t].body = "noName"
  /\ Answer(t, 500)
  /\ UNCHANGED apiVars

\* SELECT COALESCE(MAX(tag), 0) + 1
NewTag(name) == Max({u.tag : u \in {w \in Users : w.name = name}} \cup {0}) + 1

SelectTag(t) ==
  /\ Executes(t, "tag")
  /\ cur[t].body # "noName"
  /\ local' = [local EXCEPT ![t].new_tag = NewTag(cur[t].name),
                            ![t].prepared = FALSE]
  /\ Continue(t, "count")
  /\ UNCHANGED <<apiVars, nextId>>

CountOf(t) == WithEmail(cur[t].email)

EmailInUse(t) ==
  /\ Executes(t, "count")
  /\ CountOf(t) # {}
  /\ Answer(t, 400)
  /\ UNCHANGED apiVars

\* body["password"].get<std::string>() throws before the hash.
PasswordThrows(t) ==
  /\ Executes(t, "count")
  /\ CountOf(t) = {}
  /\ cur[t].body = "noPassword"
  /\ Answer(t, 500)
  /\ UNCHANGED apiVars

EmailFree(t) ==
  /\ Executes(t, "count")
  /\ CountOf(t) = {}
  /\ cur[t].body # "noPassword"
  /\ local' = [local EXCEPT ![t].prepared = FALSE]
  /\ Continue(t, "insert")
  /\ UNCHANGED <<apiVars, nextId>>

NewUser(t) ==
  [id |-> nextId, name |-> cur[t].name, tag |-> local[t].new_tag,
   email |-> cur[t].email, password |-> cur[t].password, by |-> cur[t].id]

Duplicate(t) == UniqueEmails /\ WithEmail(cur[t].email) # {}

InsertUser(t) ==
  /\ Executes(t, "insert")
  /\ ~ Duplicate(t)
  /\ Execute("api", {}, {NewUser(t)}, {})
  /\ nextId' = nextId + 1
  /\ local' = [local EXCEPT ![t].prepared = FALSE]
  /\ Continue(t, "id")

\* A unique index makes the INSERT throw.
InsertDuplicate(t) ==
  /\ Executes(t, "insert")
  /\ Duplicate(t)
  /\ Answer(t, 500)
  /\ UNCHANGED apiVars

UserOf(e) == WithEmail(e)

SelectUserId(t) ==
  /\ Executes(t, "id")
  /\ \E u \in UserOf(cur[t].email) :
       local' = [local EXCEPT ![t].user = u, ![t].prepared = FALSE]
  /\ Continue(t, "roles")
  /\ UNCHANGED <<apiVars, nextId>>

UserIdGone(t) ==
  /\ Executes(t, "id")
  /\ UserOf(cur[t].email) = {}
  /\ Answer(t, 500)
  /\ UNCHANGED apiVars

-----------------------------------------------------------------------------
(* Login.                                                                  *)

\* validatePassword compares with the hash of the row.
ValidPassword(r, u) == r.body # "noPassword" /\ r.password = u.password

FindNobody(t) ==
  /\ Executes(t, "find")
  /\ WithEmail(cur[t].email) = {}
  /\ Answer(t, 400)
  /\ UNCHANGED apiVars

\* A body without a password makes get throw.
FindInvalid(t) ==
  /\ Executes(t, "find")
  /\ \E u \in WithEmail(cur[t].email) : ~ ValidPassword(cur[t], u)
  /\ Answer(t, IF cur[t].body = "noPassword" THEN 500 ELSE 400)
  /\ UNCHANGED apiVars

FindValid(t) ==
  /\ Executes(t, "find")
  /\ \E u \in WithEmail(cur[t].email) :
       /\ ValidPassword(cur[t], u)
       /\ local' = [local EXCEPT ![t].user = u, ![t].prepared = FALSE]
  /\ Continue(t, "roles")
  /\ UNCHANGED <<apiVars, nextId>>

-----------------------------------------------------------------------------
(* generateJWT: two queries, then the token; nothing undoes the INSERT if  *)
(* one of them throws.                                                     *)

SelectRoles(t) ==
  /\ Executes(t, "roles")
  /\ local' = [local EXCEPT ![t].prepared = FALSE]
  /\ Continue(t, "flags")
  /\ UNCHANGED <<apiVars, nextId>>

SelectFlags(t) ==
  /\ Executes(t, "flags")
  /\ Answer(t, 200)
  /\ UNCHANGED apiVars

-----------------------------------------------------------------------------
(* A deletion of a problem by another worker: what it does to the          *)
(* connection.  Its own statements do not touch the users table.           *)

Kept == <<rateLimit, verdict, todo, cur, local, reply, nextId>>

DeletionBegins(t) ==
  /\ t \in PanelThreads
  /\ pc[t] = "idle"
  /\ deletions < MaxDeletions
  /\ deletions' = deletions + 1
  /\ BeginTransaction("api", t)
  /\ Goto(t, "deletion")
  /\ UNCHANGED Kept

DeletionEnds(t) ==
  /\ pc[t] = "deletion"
  /\ CommitWork("api") \/ RollbackWork("api")
  /\ Goto(t, "deletionEnded")
  /\ UNCHANGED <<Kept, deletions>>

DeletionFinishes(t) ==
  /\ pc[t] = "deletionEnded"
  /\ FinishTransaction("api", t)
  /\ Goto(t, "idle")
  /\ UNCHANGED <<Kept, deletions>>

Step(t) ==
  \/ DispatchUnparsable(t) \/ DispatchLogin(t) \/ DispatchRegister(t)
  \/ Prepare(t) \/ StatementThrows(t)
  \/ NameThrows(t) \/ SelectTag(t)
  \/ EmailInUse(t) \/ PasswordThrows(t) \/ EmailFree(t)
  \/ InsertUser(t) \/ InsertDuplicate(t) \/ SelectUserId(t) \/ UserIdGone(t)
  \/ FindNobody(t) \/ FindInvalid(t) \/ FindValid(t)
  \/ SelectRoles(t) \/ SelectFlags(t)
  \/ DeletionEnds(t) \/ DeletionFinishes(t)

AllDone == AllArrived /\ \A t \in Threads : pc[t] = "idle"

Next ==
  \/ \E t \in Threads : Step(t) \/ DeletionBegins(t)
  \/ AllDone /\ UNCHANGED vars

Spec == Init /\ [][Next]_vars

-----------------------------------------------------------------------------
\* A token is for the user of the email and password it was asked with: a
\* registration finds its own row, a login a row of its password.
TokenOfAsker ==
  \A r \in Requests :
    reply[r].status = 200
      => reply[r].user.email = r.email /\ reply[r].user.password = r.password

\* A registration that is answered with a token for the account it made has
\* made it for good: the INSERT may be executed inside a deletion's
\* transaction and go with its rollback, but the next statement cannot be
\* prepared before that transaction has ended, and then finds the row or does
\* not.  (It may find a row of another registration, see TokenOfAsker, and
\* that one may still go.)
AccountKept ==
  \A r \in Requests :
    (r.op = "register" /\ reply[r].status = 200 /\ reply[r].user.by = r.id)
      => reply[r].user \in db

\* A user whose INSERT can still be rolled back is there only while a
\* deletion holds the mutex: when it is free, or a statement is about to be
\* prepared, every stored user is committed.
PendingInDeletion ==
  (ins["api"] # {} \/ ~ autocommit["api"]) => owner["api"] \in PanelThreads
=============================================================================
