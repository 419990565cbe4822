-------------------------------- MODULE Apis --------------------------------
(***************************************************************************)
(* The database access class APIs (src/API/api.hpp, src/API/api.cpp): one  *)
(* MySQL connection and one recursive mutex per object, shared by all the  *)
(* worker threads of the server.  main.cpp builds three of them.           *)
(*                                                                         *)
(* The database behind the connections is external.  It is a set of        *)
(* committed rows; a connection whose autocommit is off keeps the rows it  *)
(* has added and removed aside until they are published or discarded, sees *)
(* its own pending work, and keeps other connections away from what it has *)
(* touched (InnoDB's row and gap locks, per table and problem).            *)
(*                                                                         *)
(* A prepared statement is executed WITHOUT the mutex: prepareStatement    *)
(* releases it before it returns, so Execute has no condition on owner.    *)
(*                                                                         *)
(* A connection may be lost at any time, and APIs never opens it again:    *)
(* from then on every call on it throws, until the server is restarted.    *)
(***************************************************************************)
EXTENDS Naturals

CONSTANTS
  Threads,    \* the worker threads of the server
  NoThread    \* the owner of a free mutex

ASSUME NoThreadAssumption == NoThread \notin Threads

VARIABLES
  owner,      \* owner[c]: the thread that holds the mutex of c, or NoThread
  depth,      \* depth[c]: how many times it has locked it
  autocommit, \* autocommit[c]: the connection's autocommit mode
  ins,        \* ins[c]: rows added by the open transaction of c
  del,        \* del[c]: rows removed by it
  locks,      \* locks[c]: the <<table, problem>> pairs it has locked
  db,         \* the committed rows
  lost        \* the connections whose session with the database has ended

mutexVars == <<owner, depth>>
workVars == <<ins, del, locks, db>>
apiVars == <<owner, depth, autocommit, ins, del, locks, db, lost>>

Conns == {"api", "modify_api", "submission_api"}

ApisInit(rows) ==
  /\ owner = [c \in Conns |-> NoThread]
  /\ depth = [c \in Conns |-> 0]
  /\ autocommit = [c \in Conns |-> TRUE]
  /\ ins = [c \in Conns |-> {}]
  /\ del = [c \in Conns |-> {}]
  /\ locks = [c \in Conns |-> {}]
  /\ db = rows
  /\ lost = {}

-----------------------------------------------------------------------------
(* The mutex.  Unlocking a std::recursive_mutex that the caller does not   *)
(* hold is undefined by the standard; with the glibc of the image the      *)
(* Dockerfile builds (debian:12) pthread_mutex_unlock answers EPERM for a  *)
(* recursive mutex, libstdc++ drops that answer, and nothing happens.      *)

Free(c, t) == owner[c] \in {NoThread, t}

Lock(c, t) ==
  /\ Free(c, t)
  /\ owner' = [owner EXCEPT ![c] = t]
  /\ depth' = [depth EXCEPT ![c] = @ + 1]

\* A mistake the checks must notice: unlocking whoever the owner is.
UnlockAnyone(c, t) ==
  /\ depth' = [depth EXCEPT ![c] = @ - 1]
  /\ owner' = [owner EXCEPT ![c] = NoThread]

Unlock(c, t) ==
  \/ /\ owner[c] = t
     /\ depth' = [depth EXCEPT ![c] = @ - 1]
     /\ owner' = [owner EXCEPT ![c] = IF depth[c] = 1 THEN NoThread ELSE t]
  \/ /\ owner[c] # t
     /\ UNCHANGED mutexVars

-----------------------------------------------------------------------------
(* The connection.                                                         *)

\* What a statement of c sees: the committed rows and its own pending work.
View(c) == (db \ del[c]) \cup ins[c]

\* Another connection holds a lock on a pair in scope.
Blocked(c, scope) == \E d \in Conns \ {c} : locks[d] \cap scope # {}

\* One statement that removes the rows in gone and adds those in new.
Execute(c, gone, new, scope) ==
  /\ c \notin lost
  /\ ~ Blocked(c, scope)
  /\ \/ /\ autocommit[c]
        /\ db' = (db \ gone) \cup new
        /\ UNCHANGED <<ins, del, locks>>
     \/ /\ ~ autocommit[c]
        /\ ins' = [ins EXCEPT ![c] = (@ \ gone) \cup new]
        /\ del' = [del EXCEPT ![c] = (@ \ new) \cup gone]
        /\ locks' = [locks EXCEPT ![c] = @ \cup scope]
        /\ UNCHANGED db
  /\ UNCHANGED <<owner, depth, autocommit, lost>>

EndWork(c) ==
  /\ ins' = [ins EXCEPT ![c] = {}]
  /\ del' = [del EXCEPT ![c] = {}]
  /\ locks' = [locks EXCEPT ![c] = {}]

Publish(c) == EndWork(c) /\ db' = View(c)

Discard(c) == EndWork(c) /\ UNCHANGED db

\* The session of c ends: the database discards what was pending.  The
\* server notices nothing before its next call.
Lose(c) ==
  /\ c \notin lost
  /\ lost' = lost \cup {c}
  /\ Discard(c)
  /\ UNCHANGED <<owner, depth, autocommit>>

\* The server starts again: new connections, and nothing of the old ones'.
Reconnect ==
  /\ owner' = [c \in Conns |-> NoThread]
  /\ depth' = [c \in Conns |-> 0]
  /\ autocommit' = [c \in Conns |-> TRUE]
  /\ ins' = [c \in Conns |-> {}]
  /\ del' = [c \in Conns |-> {}]
  /\ locks' = [c \in Conns |-> {}]
  /\ lost' = {}
  /\ UNCHANGED db

-----------------------------------------------------------------------------
(* The transaction calls.  Taking the mutex before setAutoCommit(false)    *)
(* and releasing it after setAutoCommit(true) are joined with those calls: *)
(* no other thread can tell the difference.  commit and rollback are steps *)
(* of their own, because a statement of a thread that does not hold the    *)
(* mutex can fall between them and setAutoCommit(true), which publishes    *)
(* whatever is pending.                                                    *)

\* Mistakes: not taking the mutex; not discarding; not publishing; leaving
\* autocommit off.
BeginUnlocked(c, t) ==
  /\ autocommit' = [autocommit EXCEPT ![c] = FALSE]
  /\ UNCHANGED <<owner, depth, ins, del, locks, db, lost>>

KeepWork(c) == UNCHANGED apiVars

CommitNothing(c) ==
  /\ Discard(c)
  /\ UNCHANGED <<owner, depth, autocommit, lost>>

FinishManual(c, t) ==
  /\ Publish(c)
  /\ Unlock(c, t)
  /\ UNCHANGED <<autocommit, lost>>

BeginTransaction(c, t) ==
  /\ c \notin lost
  /\ Lock(c, t)
  /\ autocommit' = [autocommit EXCEPT ![c] = FALSE]
  /\ UNCHANGED <<workVars, lost>>

\* setAutoCommit(false) throws, after the mutex was taken.
BeginTransactionThrows(c, t) ==
  /\ c \in lost
  /\ Lock(c, t)
  /\ UNCHANGED <<autocommit, workVars, lost>>

CommitWork(c) ==
  /\ c \notin lost
  /\ Publish(c)
  /\ UNCHANGED <<owner, depth, autocommit, lost>>

RollbackWork(c) ==
  /\ c \notin lost
  /\ Discard(c)
  /\ UNCHANGED <<owner, depth, autocommit, lost>>

FinishTransaction(c, t) ==
  /\ c \notin lost
  /\ Publish(c)
  /\ autocommit' = [autocommit EXCEPT ![c] = TRUE]
  /\ Unlock(c, t)
  /\ UNCHANGED lost
=============================================================================
