---------------------------- MODULE AccountsProofs ----------------------------
(***************************************************************************)
(* What the mutex of api protects, and what becomes of the account of a    *)
(* registration that is confirmed, for any workers, requests, users and    *)
(* number of deletions.                                                    *)
(***************************************************************************)
EXTENDS Accounts, TLAPS

DeletionLabels == {"deletion", "deletionEnded"}

\* The shape of the variables; ins and del are only looked at for api.
ShapeOK ==
  /\ owner \in [Conns -> Threads \cup {NoThread}]
  /\ depth \in [Conns -> Nat]
  /\ autocommit \in [Conns -> BOOLEAN]
  /\ ins = [c \in Conns |-> ins[c]]
  /\ del = [c \in Conns |-> del[c]]
  /\ cur \in [Threads -> Requests \cup {NoRequest}]
  /\ pc = [t \in Threads |-> pc[t]]
  /\ local = [t \in Threads |-> local[t]]
  /\ reply = [r \in Requests |-> reply[r]]
  /\ todo \subseteq Requests

\* The mutex is held once, by the worker whose deletion is under way; no
\* statement removes a user.
MutexOK ==
  /\ owner["api"] # NoThread =>
       owner["api"] \in PanelThreads /\ pc[owner["api"]] \in DeletionLabels
  /\ \A t \in Threads : pc[t] \in DeletionLabels => owner["api"] = t
  /\ depth["api"] = IF owner["api"] = NoThread THEN 0 ELSE 1
  /\ del["api"] = {}

\* A worker serves a request of its own.
ServedOnce ==
  /\ \A t \in Threads :
       /\ pc[t] \in Statements =>
            cur[t] \in Requests \ todo /\ t \notin PanelThreads
       /\ pc[t] \notin Statements => cur[t] = NoRequest
       /\ pc[t] = "find" => cur[t].op # "register"
  /\ \A t, u \in Threads : cur[t] = cur[u] /\ cur[t] # NoRequest => t = u

\* The row w of request r, once found, is there to stay.
Stays(w, r) == (r.op = "register" /\ w.by = r.id) => w \in db

KeptOK ==
  /\ \A t \in Threads :
       /\ pc[t] = "id" /\ local[t].prepared =>
            \A w \in ins["api"] : w.by # cur[t].id
       /\ pc[t] \in {"roles", "flags"} => Stays(local[t].user, cur[t])
  /\ \A r \in Requests : reply[r].status = 200 => Stays(reply[r].user, r)

IInv == ShapeOK /\ MutexOK /\ ServedOnce /\ KeptOK /\ PendingInDeletion

-----------------------------------------------------------------------------
LEMMA ApiIsConn == "api" \in Conns
  BY DEF Conns

LEMMA InitOK == Init => IInv
  <1> SUFFICES ASSUME Init PROVE IInv
    OBVIOUS
  <1>1. ShapeOK
    BY DEF Init, ApisInit, ShapeOK
  <1>2. MutexOK /\ PendingInDeletion
    BY ApiIsConn DEF Init, ApisInit, MutexOK, PendingInDeletion, DeletionLabels
  <1>3. \A t \in Threads : pc[t] = "idle" /\ cur[t] = NoRequest
    BY DEF Init
  <1>4. ServedOnce
    BY <1>3 DEF ServedOnce, Statements
  <1>5. KeptOK
    BY <1>3 DEF Init, KeptOK, NoReply
  <1> QED BY <1>1, <1>2, <1>4, <1>5 DEF IInv

\* A step of a worker at a statement, or idle before its request, that leaves
\* the connection alone.
LEMMA ConnSame ==
  ASSUME IInv, UNCHANGED apiVars, NEW t \in Threads,
         \A u \in Threads \ {t} : pc'[u] = pc[u],
         pc[t] \notin DeletionLabels, pc'[t] \notin DeletionLabels
  PROVE  MutexOK' /\ PendingInDeletion'
  <1>1. UNCHANGED <<owner, depth, autocommit, ins, del, db>>
    BY DEF apiVars
  <1>2. MutexOK'
    BY <1>1, PanelAssumption DEF IInv, MutexOK
  <1>3. PendingInDeletion'
    BY <1>1 DEF IInv, PendingInDeletion
  <1> QED BY <1>2, <1>3

LEMMA NotDeleting ==
  ASSUME NEW l \in Statements \cup {"idle"}
  PROVE  l \notin DeletionLabels
  BY DEF Statements, DeletionLabels

LEMMA AnswerKeeps ==
  ASSUME IInv, NEW t \in Threads, pc[t] \in Statements, NEW status,
         Answer(t, status), UNCHANGED apiVars,
         status = 200 => pc[t] = "flags"
  PROVE  IInv'
  <1> DEFINE r == cur[t]
             a == [status |-> status,
                   user |-> IF status = 200 THEN local[t].user ELSE NoUser]
  <1>1. /\ r \in Requests /\ r \notin todo /\ t \notin PanelThreads
        /\ \A u \in Threads \ {t} : cur[u] # r
    BY IdsAssumption DEF IInv, ServedOnce
  <1>2. /\ cur' = [cur EXCEPT ![t] = NoRequest]
        /\ pc' = [pc EXCEPT ![t] = "idle"]
        /\ local' = [local EXCEPT ![t] = NoLocal]
        /\ reply' = [reply EXCEPT ![r] = a]
        /\ UNCHANGED <<todo, owner, depth, autocommit, ins, del, db>>
    BY DEF Answer, Goto, apiVars
  <1>3. a.status = status /\ (status = 200 => a.user = local[t].user)
    OBVIOUS
  <1> HIDE DEF r, a
  <1>4. /\ ShapeOK' /\ cur'[t] = NoRequest /\ pc'[t] = "idle"
        /\ \A u \in Threads \ {t} :
             cur'[u] = cur[u] /\ pc'[u] = pc[u] /\ local'[u] = local[u]
        /\ reply'[r] = a /\ \A q \in Requests \ {r} : reply'[q] = reply[q]
    BY <1>1, <1>2 DEF IInv, ShapeOK
  <1>5. MutexOK' /\ PendingInDeletion'
    BY <1>4, ConnSame, NotDeleting
  <1>6. ServedOnce'
    BY <1>2, <1>4 DEF IInv, ServedOnce, Statements
  <1>7. KeptOK'
    <2>1. \A u \in Threads \ {t} :
            /\ pc[u] = "id" /\ local[u].prepared =>
                 \A w \in ins["api"] : w.by # cur[u].id
            /\ pc[u] \in {"roles", "flags"} => Stays(local[u].user, cur[u])
      BY DEF IInv, KeptOK
    <2>2. a.status = 200 => Stays(a.user, r)
      BY <1>3 DEF IInv, KeptOK, r
    <2>3. \A q \in Requests \ {r} : reply[q].status = 200 => Stays(reply[q].user, q)
      BY DEF IInv, KeptOK
    <2> QED BY <1>2, <1>4, <2>1, <2>2, <2>3 DEF KeptOK, Stays
  <1> QED BY <1>4, <1>5, <1>6, <1>7 DEF IInv

\* A worker goes on to its next statement.
LEMMA ContinueKeeps ==
  ASSUME IInv, NEW t \in Threads, pc[t] \in Statements,
         NEW label \in Statements \ {"find"}, pc' = [pc EXCEPT ![t] = label],
         NEW v, local' = [local EXCEPT ![t] = v],
         UNCHANGED <<apiVars, todo, cur, reply>>,
         label = "id" => (v.prepared => \A w \in ins["api"] : w.by # cur[t].id),
         label \in {"roles", "flags"} => Stays(v.user, cur[t])
  PROVE  IInv'
  <1>1. UNCHANGED <<owner, depth, autocommit, ins, del, db>>
    BY DEF apiVars
  <1>2. /\ ShapeOK' /\ pc'[t] = label /\ local'[t] = v
        /\ \A u \in Threads \ {t} : pc'[u] = pc[u] /\ local'[u] = local[u]
    BY <1>1 DEF IInv, ShapeOK
  <1>3. MutexOK' /\ PendingInDeletion'
    BY <1>2, ConnSame, NotDeleting
  <1>4. ServedOnce'
    BY <1>2 DEF IInv, ServedOnce
  <1>5. KeptOK'
    BY <1>1, <1>2 DEF IInv, KeptOK, Stays
  <1> QED BY <1>2, <1>3, <1>4, <1>5 DEF IInv

-----------------------------------------------------------------------------
LEMMA PrepareKeeps ==
  ASSUME IInv, NEW t \in Threads, Prepare(t)
  PROVE  IInv'
  <1> DEFINE v == [local[t] EXCEPT !.prepared = TRUE]
  <1>1. /\ pc[t] \in Statements /\ Free("api", t)
        /\ local' = [local EXCEPT ![t] = v]
        /\ UNCHANGED <<apiVars, todo, cur, pc, reply>>
    BY DEF Prepare
  <1>2. ins["api"] = {}
    <2>1. t \notin PanelThreads
      BY <1>1 DEF IInv, ServedOnce
    <2> QED BY <1>1, <2>1, NoThreadAssumption, PanelAssumption
      DEF Free, IInv, PendingInDeletion
  <1>3. v.user = local[t].user
    OBVIOUS
  <1> HIDE DEF v
  <1>4. pc[t] \in {"roles", "flags"} => Stays(v.user, cur[t])
    BY <1>3 DEF IInv, KeptOK
  <1>5. UNCHANGED <<owner, depth, autocommit, ins, del, db>>
    BY <1>1 DEF apiVars
  <1>6. /\ ShapeOK' /\ local'[t] = v
        /\ \A u \in Threads \ {t} : local'[u] = local[u]
    BY <1>1, <1>5 DEF IInv, ShapeOK
  <1>7. MutexOK' /\ PendingInDeletion'
    BY <1>1, ConnSame, NotDeleting
  <1>8. ServedOnce'
    BY <1>1 DEF IInv, ServedOnce
  <1>9. KeptOK'
    BY <1>1, <1>2, <1>4, <1>5, <1>6 DEF IInv, KeptOK, Stays
  <1> QED BY <1>6, <1>7, <1>8, <1>9 DEF IInv

LEMMA AnswersKeep ==
  ASSUME IInv, NEW t \in Threads,
         \/ StatementThrows(t) \/ NameThrows(t) \/ EmailInUse(t)
         \/ PasswordThrows(t) \/ InsertDuplicate(t) \/ UserIdGone(t)
         \/ FindNobody(t) \/ FindInvalid(t) \/ SelectFlags(t)
  PROVE  IInv'
  <1>1. pc[t] \in Statements
    BY ThrowsAssumption
    DEF StatementThrows, NameThrows, EmailInUse, PasswordThrows,
      InsertDuplicate, UserIdGone, FindNobody, FindInvalid, SelectFlags,
      Executes, Statements
  <1>2. CASE \/ StatementThrows(t) \/ NameThrows(t) \/ PasswordThrows(t)
             \/ InsertDuplicate(t) \/ UserIdGone(t)
    BY <1>1, <1>2, AnswerKeeps
    DEF StatementThrows, NameThrows, PasswordThrows, InsertDuplicate,
      UserIdGone
  <1>3. CASE EmailInUse(t) \/ FindNobody(t)
    BY <1>1, <1>3, AnswerKeeps DEF EmailInUse, FindNobody
  <1>4. CASE FindInvalid(t)
    <2>1. PICK status \in {400, 500} : Answer(t, status)
      BY <1>4 DEF FindInvalid
    <2> QED BY <1>1, <1>4, <2>1, AnswerKeeps DEF FindInvalid
  <1>5. CASE SelectFlags(t)
    BY <1>1, <1>5, AnswerKeeps DEF SelectFlags, Executes
  <1> QED BY <1>2, <1>3, <1>4, <1>5

\* A row that a registration finds when its id is prepared is not pending
\* work of its own.
LEMMA FoundStays ==
  ASSUME IInv, NEW t \in Threads, Executes(t, "id"), NEW w \in Users
  PROVE  Stays(w, cur[t])
  <1>1. w \in db \/ w \in ins["api"]
    BY DEF Users, View
  <1>2. w \in ins["api"] => w.by # cur[t].id
    BY DEF IInv, KeptOK, Executes
  <1> QED BY <1>1, <1>2 DEF Stays

LEMMA MovesKeep ==
  ASSUME IInv, NEW t \in Threads,
         SelectTag(t) \/ EmailFree(t) \/ SelectUserId(t) \/ FindValid(t)
         \/ SelectRoles(t)
  PROVE  IInv'
  <1>1. pc[t] \in Statements
    BY DEF SelectTag, EmailFree, SelectUserId, FindValid, SelectRoles,
      Executes, Statements
  <1>2. CASE SelectTag(t)
    <2> DEFINE v == [local[t] EXCEPT !.new_tag = NewTag(cur[t].name),
                                     !.prepared = FALSE]
    <2>1. /\ local' = [local EXCEPT ![t] = v]
          /\ pc' = [pc EXCEPT ![t] = "count"]
          /\ UNCHANGED <<apiVars, todo, cur, reply>>
      BY <1>2 DEF SelectTag, Continue, Goto
    <2> HIDE DEF v
    <2>2. "count" \in Statements \ {"find"} /\ "count" \notin {"id", "roles", "flags"}
      BY DEF Statements
    <2> QED BY <1>1, <2>1, <2>2, ContinueKeeps
  <1>3. CASE EmailFree(t)
    <2> DEFINE v == [local[t] EXCEPT !.prepared = FALSE]
    <2>1. /\ local' = [local EXCEPT ![t] = v]
          /\ pc' = [pc EXCEPT ![t] = "insert"]
          /\ UNCHANGED <<apiVars, todo, cur, reply>>
      BY <1>3 DEF EmailFree, Continue, Goto
    <2> HIDE DEF v
    <2>2. "insert" \in Statements \ {"find"} /\ "insert" \notin {"id", "roles", "flags"}
      BY DEF Statements
    <2> QED BY <1>1, <2>1, <2>2, ContinueKeeps
  <1>4. CASE SelectUserId(t)
    <2>1. PICK w \in Users :
            local' = [local EXCEPT ![t].user = w, ![t].prepared = FALSE]
      BY <1>4 DEF SelectUserId, UserOf, WithEmail
    <2> DEFINE v == [local[t] EXCEPT !.user = w, !.prepared = FALSE]
    <2>2. /\ local' = [local EXCEPT ![t] = v]
          /\ pc' = [pc EXCEPT ![t] = "roles"]
          /\ UNCHANGED <<apiVars, todo, cur, reply>>
      BY <1>4, <2>1 DEF SelectUserId, Continue, Goto
    <2>3. Stays(w, cur[t])
      BY <1>4, FoundStays DEF SelectUserId
    <2>4. v.user = w
      OBVIOUS
    <2> HIDE DEF v
    <2>5. "roles" \in Statements \ {"find"} /\ "roles" # "id"
      BY DEF Statements
    <2> QED BY <1>1, <2>2, <2>3, <2>4, <2>5, ContinueKeeps
  <1>5. CASE FindValid(t)
    <2>1. PICK w \in Users :
            local' = [local EXCEPT ![t].user = w, ![t].prepared = FALSE]
      BY <1>5 DEF FindValid, WithEmail
    <2> DEFINE v == [local[t] EXCEPT !.user = w, !.prepared = FALSE]
    <2>2. /\ local' = [local EXCEPT ![t] = v]
          /\ pc' = [pc EXCEPT ![t] = "roles"]
          /\ UNCHANGED <<apiVars, todo, cur, reply>>
      BY <1>5, <2>1 DEF FindValid, Continue, Goto
    <2> HIDE DEF v
    <2>3. Stays(v.user, cur[t])
      BY <1>5 DEF IInv, ServedOnce, FindValid, Executes, Stays
    <2>4. "roles" \in Statements \ {"find"} /\ "roles" # "id"
      BY DEF Statements
    <2> QED BY <1>1, <2>2, <2>3, <2>4, ContinueKeeps
  <1>6. CASE SelectRoles(t)
    <2> DEFINE v == [local[t] EXCEPT !.prepared = FALSE]
    <2>1. /\ local' = [local EXCEPT ![t] = v]
          /\ pc' = [pc EXCEPT ![t] = "flags"]
          /\ UNCHANGED <<apiVars, todo, cur, reply>>
      BY <1>6 DEF SelectRoles, Continue, Goto
    <2>2. v.user = local[t].user
      OBVIOUS
    <2> HIDE DEF v
    <2>3. Stays(v.user, cur[t])
      BY <1>6, <2>2 DEF IInv, KeptOK, SelectRoles, Executes
    <2>4. "flags" \in Statements \ {"find"} /\ "flags" # "id"
      BY DEF Statements
    <2> QED BY <1>1, <2>1, <2>3, <2>4, ContinueKeeps
  <1> QED BY <1>2, <1>3, <1>4, <1>5, <1>6

-----------------------------------------------------------------------------
\* A request arrives at an idle worker that deletes no problems.
LEMMA DispatchKeeps ==
  ASSUME IInv, NEW t \in Threads, NEW r \in Requests,
         pc[t] = "idle", t \notin PanelThreads, r \in todo,
         todo' = todo \ {r}, UNCHANGED <<apiVars, local, reply>>,
         NEW label \in {"find", "tag"}, label = "find" => r.op # "register",
         cur' = [cur EXCEPT ![t] = r], pc' = [pc EXCEPT ![t] = label]
  PROVE  IInv'
  <1>1. UNCHANGED <<owner, depth, autocommit, ins, del, db>>
    BY DEF apiVars
  <1>2. /\ ShapeOK' /\ pc'[t] = label /\ cur'[t] = r
        /\ \A u \in Threads \ {t} : pc'[u] = pc[u] /\ cur'[u] = cur[u]
    BY <1>1 DEF IInv, ShapeOK
  <1>3. /\ label \in Statements /\ label \notin DeletionLabels
        /\ label \notin {"id", "roles", "flags"} /\ pc[t] \notin DeletionLabels
    BY DEF Statements, DeletionLabels
  <1>4. MutexOK' /\ PendingInDeletion'
    BY <1>2, <1>3, ConnSame
  <1>5. \A u \in Threads : cur[u] # r
    BY IdsAssumption DEF IInv, ServedOnce
  <1>6. ServedOnce'
    BY <1>2, <1>3, <1>5 DEF IInv, ServedOnce
  <1>7. KeptOK'
    BY <1>1, <1>2, <1>3 DEF IInv, KeptOK, Stays
  <1> QED BY <1>2, <1>4, <1>6, <1>7 DEF IInv

\* A request is answered as soon as it arrives.
LEMMA RefusalKeeps ==
  ASSUME IInv, NEW r \in Requests, NEW a, a.status # 200,
         todo' = todo \ {r}, UNCHANGED <<apiVars, cur, pc, local>>,
         reply' = [reply EXCEPT ![r] = a]
  PROVE  IInv'
  <1>1. UNCHANGED <<owner, depth, autocommit, ins, del, db>>
    BY DEF apiVars
  <1>2. /\ ShapeOK' /\ reply'[r] = a
        /\ \A q \in Requests \ {r} : reply'[q] = reply[q]
    BY <1>1 DEF IInv, ShapeOK
  <1>3. MutexOK' /\ PendingInDeletion' /\ ServedOnce'
    BY <1>1 DEF IInv, MutexOK, PendingInDeletion, ServedOnce
  <1>4. KeptOK'
    BY <1>1, <1>2 DEF IInv, KeptOK, Stays
  <1> QED BY <1>2, <1>3, <1>4 DEF IInv

LEMMA DispatchesKeep ==
  ASSUME IInv, NEW t \in Threads,
         DispatchUnparsable(t) \/ DispatchLogin(t) \/ DispatchRegister(t)
  PROVE  IInv'
  <1>1. CASE DispatchUnparsable(t)
    <2>1. PICK r \in Requests :
            todo' = todo \ {r} /\ reply' = [reply EXCEPT ![r].status = 500]
      BY <1>1 DEF DispatchUnparsable, Take
    <2>2. UNCHANGED <<apiVars, cur, pc, local>>
      BY <1>1 DEF DispatchUnparsable
    <2> DEFINE a == [reply[r] EXCEPT !.status = 500]
    <2>3. reply' = [reply EXCEPT ![r] = a]
      BY <2>1
    <2>4. a.status # 200
      OBVIOUS
    <2> HIDE DEF a
    <2> QED BY <2>1, <2>2, <2>3, <2>4, RefusalKeeps
  <1>2. CASE DispatchLogin(t)
    <2>1. PICK r \in Requests :
            /\ r.op = "login" /\ Take(t, r) /\ cur' = [cur EXCEPT ![t] = r]
      BY <1>2 DEF DispatchLogin
    <2>2. pc' = [pc EXCEPT ![t] = "find"] /\ UNCHANGED <<apiVars, local, reply>>
      BY <1>2 DEF DispatchLogin, Goto
    <2> QED BY <2>1, <2>2, DispatchKeeps DEF Take
  <1>3. CASE DispatchRegister(t)
    <2>1. PICK r \in Requests :
            /\ Take(t, r)
            /\ \/ /\ cur' = [cur EXCEPT ![t] = r]
                  /\ pc' = [pc EXCEPT ![t] = "tag"]
                  /\ UNCHANGED reply
               \/ /\ reply' = [reply EXCEPT ![r].status = 429]
                  /\ UNCHANGED <<cur, pc>>
      BY <1>3 DEF DispatchRegister, Goto
    <2>2. UNCHANGED <<apiVars, local>>
      BY <1>3 DEF DispatchRegister
    <2>3. CASE UNCHANGED reply /\ cur' = [cur EXCEPT ![t] = r]
                 /\ pc' = [pc EXCEPT ![t] = "tag"]
      BY <2>1, <2>2, <2>3, DispatchKeeps DEF Take
    <2>4. CASE reply' = [reply EXCEPT ![r].status = 429] /\ UNCHANGED <<cur, pc>>
      <3> DEFINE a == [reply[r] EXCEPT !.status = 429]
      <3>1. todo' = todo \ {r}
        BY <2>1 DEF Take
      <3>2. reply' = [reply EXCEPT ![r] = a]
        BY <2>4
      <3>3. a.status # 200
        OBVIOUS
      <3> HIDE DEF a
      <3> QED BY <2>2, <2>4, <3>1, <3>2, <3>3, RefusalKeeps
    <2> QED BY <2>1, <2>3, <2>4
  <1> QED BY <1>1, <1>2, <1>3

-----------------------------------------------------------------------------
\* The new row is its own request's: nobody else's id query takes it for his.
LEMMA InsertKeeps ==
  ASSUME IInv, NEW t \in Threads, InsertUser(t)
  PROVE  IInv'
  <1> DEFINE new == NewUser(t)
             v == [local[t] EXCEPT !.prepared = FALSE]
  <1>1. pc[t] = "insert" /\ pc[t] \in Statements
    BY DEF InsertUser, Executes, Statements
  <1>2. new.by = cur[t].id
    BY DEF NewUser
  <1>3. ~ v.prepared
    BY DEF InsertUser, Executes
  <1>4. /\ local' = [local EXCEPT ![t] = v]
        /\ pc' = [pc EXCEPT ![t] = "id"]
        /\ UNCHANGED <<todo, cur, reply>>
        /\ UNCHANGED <<owner, depth, autocommit>>
    BY DEF InsertUser, Continue, Goto, Execute
  <1>5. \/ /\ autocommit["api"]
           /\ db' = db \cup {new}
           /\ UNCHANGED <<ins, del>>
        \/ /\ ~ autocommit["api"]
           /\ ins' = [ins EXCEPT !["api"] = (@ \ {}) \cup {new}]
           /\ del' = [del EXCEPT !["api"] = (@ \ {new}) \cup {}]
           /\ UNCHANGED db
    BY DEF InsertUser, Execute
  <1> HIDE DEF new, v
  <1>6. /\ ShapeOK' /\ pc'[t] = "id" /\ local'[t] = v
        /\ \A u \in Threads \ {t} : pc'[u] = pc[u] /\ local'[u] = local[u]
    BY <1>4, <1>5 DEF IInv, ShapeOK
  <1>7. /\ ins'["api"] \subseteq ins["api"] \cup {new}
        /\ del'["api"] = {} /\ db \subseteq db'
        /\ ins'["api"] # {} => ins["api"] # {} \/ ~ autocommit["api"]
    BY <1>5, ApiIsConn DEF IInv, ShapeOK, MutexOK
  <1>8. "id" \in Statements /\ "id" \notin DeletionLabels /\ "id" # "find"
        /\ "id" \notin {"roles", "flags"} /\ pc[t] \notin DeletionLabels
    BY <1>1 DEF Statements, DeletionLabels
  <1>9. MutexOK' /\ PendingInDeletion'
    BY <1>4, <1>6, <1>7, <1>8, PanelAssumption
      DEF IInv, MutexOK, PendingInDeletion
  <1>10. ServedOnce'
    BY <1>1, <1>4, <1>6, <1>8 DEF IInv, ServedOnce
  <1>11. \A u \in Threads \ {t} : pc[u] \in Statements => new.by # cur[u].id
    BY <1>1, <1>2, IdsAssumption DEF IInv, ServedOnce
  <1>12. KeptOK'
    <2>1. \A u \in Threads : pc'[u] = "id" /\ local'[u].prepared =>
             \A w \in ins'["api"] : w.by # cur'[u].id
      BY <1>3, <1>4, <1>6, <1>7, <1>8, <1>11 DEF IInv, KeptOK
    <2>2. \A w, r : Stays(w, r) => Stays(w, r)'
      BY <1>7 DEF Stays
    <2>3. \A u \in Threads : pc'[u] \in {"roles", "flags"} =>
            u # t /\ local'[u] = local[u] /\ Stays(local[u].user, cur[u])
      BY <1>6, <1>8 DEF IInv, KeptOK
    <2>4. \A r \in Requests : reply[r].status = 200 => Stays(reply[r].user, r)
      BY DEF IInv, KeptOK
    <2> QED BY <1>4, <1>7, <2>1, <2>2, <2>3, <2>4 DEF KeptOK, Stays
  <1> QED BY <1>6, <1>9, <1>10, <1>12 DEF IInv

-----------------------------------------------------------------------------
\* A step of a deletion: it goes from one label that serves no request to
\* another, takes nothing from the users table and adds nothing of its own.
LEMMA DeletionKeeps ==
  ASSUME IInv, NEW t \in Threads, pc[t] \in DeletionLabels \cup {"idle"},
         NEW label \in DeletionLabels \cup {"idle"},
         pc' = [pc EXCEPT ![t] = label],
         UNCHANGED <<todo, cur, local, reply>>,
         ShapeOK', MutexOK', PendingInDeletion',
         db \subseteq db', ins'["api"] \subseteq ins["api"]
  PROVE  IInv'
  <1>1. /\ pc[t] \notin Statements /\ label \notin Statements
        /\ Statements \cap {"id", "find", "roles", "flags"}
             = {"id", "find", "roles", "flags"}
    BY DEF DeletionLabels, Statements
  <1>2. pc'[t] = label /\ \A u \in Threads \ {t} : pc'[u] = pc[u]
    BY DEF IInv, ShapeOK
  <1>3. ServedOnce'
    BY <1>1, <1>2 DEF IInv, ServedOnce
  <1>4. KeptOK'
    BY <1>1, <1>2 DEF IInv, KeptOK, Stays
  <1> QED BY <1>3, <1>4 DEF IInv

LEMMA DeletionsKeep ==
  ASSUME IInv, NEW t \in Threads,
         DeletionBegins(t) \/ DeletionEnds(t) \/ DeletionFinishes(t)
  PROVE  IInv'
  <1>1. "idle" \notin DeletionLabels
    BY DEF DeletionLabels
  <1>2. ASSUME NEW label, pc' = [pc EXCEPT ![t] = label]
        PROVE  /\ pc' = [u \in Threads |-> pc'[u]] /\ pc'[t] = label
               /\ \A u \in Threads \ {t} : pc'[u] = pc[u]
    BY <1>2 DEF IInv, ShapeOK
  <1>3. CASE DeletionBegins(t)
    <2>1. /\ t \in PanelThreads /\ pc[t] = "idle"
          /\ pc' = [pc EXCEPT ![t] = "deletion"]
          /\ UNCHANGED <<todo, cur, local, reply, ins, del, db>>
          /\ owner["api"] \in {NoThread, t}
          /\ owner' = [owner EXCEPT !["api"] = t]
          /\ depth' = [depth EXCEPT !["api"] = @ + 1]
          /\ autocommit' = [autocommit EXCEPT !["api"] = FALSE]
      BY <1>3 DEF DeletionBegins, Goto, Kept, BeginTransaction, Lock, Free,
        workVars
    <2>2. owner["api"] = NoThread /\ depth["api"] = 0
      BY <1>1, <2>1, NoThreadAssumption DEF IInv, MutexOK
    <2>3. owner'["api"] = t /\ depth'["api"] = 1
      BY <2>1, <2>2, ApiIsConn DEF IInv, ShapeOK
    <2>4. "deletion" \in DeletionLabels
      BY DEF DeletionLabels
    <2>5. ShapeOK'
      <3>1. pc' = [u \in Threads |-> pc'[u]]
        BY <2>1, <1>2
      <3>2. /\ owner' \in [Conns -> Threads \cup {NoThread}]
            /\ autocommit' \in [Conns -> BOOLEAN]
        BY <2>1 DEF IInv, ShapeOK
      <3>3. depth' \in [Conns -> Nat]
        <4>1. depth' = [depth EXCEPT !["api"] = 1]
          BY <2>1, <2>2, ApiIsConn DEF IInv, ShapeOK
        <4> QED BY <4>1 DEF IInv, ShapeOK
      <3> QED BY <2>1, <3>1, <3>2, <3>3 DEF IInv, ShapeOK
    <2>6. MutexOK' /\ PendingInDeletion'
      BY <1>2, <2>1, <2>2, <2>3, <2>4, NoThreadAssumption
        DEF IInv, MutexOK, PendingInDeletion
    <2> QED BY <2>1, <2>4, <2>5, <2>6, DeletionKeeps
  <1>4. CASE DeletionEnds(t)
    <2>1. /\ pc[t] = "deletion"
          /\ pc' = [pc EXCEPT ![t] = "deletionEnded"]
          /\ UNCHANGED <<todo, cur, local, reply, owner, depth, autocommit>>
          /\ ins' = [ins EXCEPT !["api"] = {}]
          /\ del' = [del EXCEPT !["api"] = {}]
          /\ db' = db \/ db' = (db \ del["api"]) \cup ins["api"]
      BY <1>4 DEF DeletionEnds, Goto, Kept, CommitWork, RollbackWork, Publish,
        Discard, EndWork, View
    <2>2. ins'["api"] = {} /\ del'["api"] = {} /\ db \subseteq db'
      BY <2>1, ApiIsConn DEF IInv, ShapeOK, MutexOK
    <2>3. {"deletion", "deletionEnded"} = DeletionLabels
      BY DEF DeletionLabels
    <2>4. ShapeOK'
      BY <2>1, <1>2 DEF IInv, ShapeOK
    <2>5. MutexOK' /\ PendingInDeletion'
      BY <1>2, <2>1, <2>2, <2>3 DEF IInv, MutexOK, PendingInDeletion
    <2> QED BY <2>1, <2>2, <2>3, <2>4, <2>5, DeletionKeeps
  <1>5. CASE DeletionFinishes(t)
    <2>1. pc[t] = "deletionEnded" /\ "deletionEnded" \in DeletionLabels
      BY <1>5 DEF DeletionFinishes, DeletionLabels
    <2>2. owner["api"] = t /\ depth["api"] = 1
      BY <2>1, NoThreadAssumption DEF IInv, MutexOK
    <2>3. /\ pc' = [pc EXCEPT ![t] = "idle"]
          /\ UNCHANGED <<todo, cur, local, reply>>
          /\ owner' = [owner EXCEPT !["api"] = NoThread]
          /\ depth' = [depth EXCEPT !["api"] = @ - 1]
          /\ autocommit' = [autocommit EXCEPT !["api"] = TRUE]
          /\ ins' = [ins EXCEPT !["api"] = {}]
          /\ del' = [del EXCEPT !["api"] = {}]
          /\ db' = (db \ del["api"]) \cup ins["api"]
      BY <1>5, <2>2 DEF DeletionFinishes, Goto, Kept, FinishTransaction,
        Publish, EndWork, View, Unlock
    <2>4. /\ owner'["api"] = NoThread /\ depth'["api"] = 0
          /\ autocommit'["api"] /\ ins'["api"] = {} /\ del'["api"] = {}
          /\ db \subseteq db'
      BY <2>2, <2>3, ApiIsConn DEF IInv, ShapeOK, MutexOK
    <2>5. ShapeOK'
      <3>1. pc' = [u \in Threads |-> pc'[u]]
        BY <2>3, <1>2
      <3>2. /\ owner' \in [Conns -> Threads \cup {NoThread}]
            /\ autocommit' \in [Conns -> BOOLEAN]
        BY <2>3 DEF IInv, ShapeOK
      <3>3. depth' \in [Conns -> Nat]
        <4>1. depth' = [depth EXCEPT !["api"] = 0]
          BY <2>2, <2>3, ApiIsConn DEF IInv, ShapeOK
        <4> QED BY <4>1 DEF IInv, ShapeOK
      <3> QED BY <2>3, <3>1, <3>2, <3>3 DEF IInv, ShapeOK
    <2>6. MutexOK' /\ PendingInDeletion'
      BY <1>1, <1>2, <2>2, <2>3, <2>4 DEF IInv, MutexOK, PendingInDeletion
    <2> QED BY <2>1, <2>3, <2>4, <2>5, <2>6, DeletionKeeps
  <1> QED BY <1>3, <1>4, <1>5

-----------------------------------------------------------------------------
LEMMA NextKeeps == IInv /\ [Next]_vars => IInv'
  <1> SUFFICES ASSUME IInv, [Next]_vars PROVE IInv'
    OBVIOUS
  <1>1. CASE UNCHANGED vars
    BY <1>1 DEF vars, apiVars, IInv, ShapeOK, MutexOK, ServedOnce, KeptOK,
      Stays, PendingInDeletion
  <1>2. CASE \E t \in Threads : Step(t) \/ DeletionBegins(t)
    <2>1. PICK t \in Threads : Step(t) \/ DeletionBegins(t)
      BY <1>2
    <2> HIDE DEF IInv
    <2> QED
      BY <2>1, DispatchesKeep, PrepareKeeps, AnswersKeep, MovesKeep,
        InsertKeeps, DeletionsKeep DEF Step
  <1> QED BY <1>1, <1>2 DEF Next

LEMMA Invariance == Spec => []IInv
  BY InitOK, NextKeeps, PTL DEF Spec

\* Whatever users a rollback can still take away were stored while a deletion
\* holds the mutex of api; when it is free, every stored user is committed.
THEOREM PendingIsProtected == Spec => []PendingInDeletion
  <1>1. IInv => PendingInDeletion
    BY DEF IInv
  <1> QED BY <1>1, Invariance, PTL

\* A registration that is answered with a token for the account it made has
\* made it for good.
THEOREM AccountsAreKept == Spec => []AccountKept
  <1>1. IInv => AccountKept
    BY DEF IInv, KeptOK, Stays, AccountKept
  <1> QED BY <1>1, Invariance, PTL
=============================================================================
