----------------------------- MODULE ProblemList -----------------------------
(***************************************************************************)
(* GET /problems (src/CROW_ROUTEs/problems.cpp): a page of the problems    *)
(* the roles of the token may see.  The first page that is listed for      *)
(* "everyone" fills a cache, and later public pages may be taken from it.  *)
(* The workers share the cache and an atomic flag; each of their accesses  *)
(* to either, and the preparing and the executing of each query, is a step *)
(* of its own.  The panel deletes problems meanwhile in transactions on    *)
(* the same connection, api, whose mutex prepareStatement takes and        *)
(* executeQuery does not.                                                  *)
(***************************************************************************)
EXTENDS Integers, SequencesExt

CONSTANTS
  Threads, NoRequest,
  Requests,      \* the requests that may arrive, any number of times
  Problems,      \* the ids of the problems there may be
  ProblemRoles,  \* ProblemRoles[p]: the roles problem_role has for p
  HeldRoles,     \* the roles user_roles gives to some user (any: the schema
                 \* and the rows are not in the repository)
  InitialProblems, \* those in the database when the server starts
  Nodes, MaxSize,\* of the cache
  Word,          \* 2^w, for the w bits of u_int32_t
  MaxDeletions,  \* bound: how many deletions the panel begins
  Throws         \* the calls that may throw: a subset of {"query"}

Request ==
  [id : STRING,
   token : {"null", "rejected", "verified"},
   granted : Seq(STRING),   \* the user's rows of user_roles
   numeric : BOOLEAN,       \* std::stoi accepts both parameters
   page : Int, perPage : Int]

ASSUME RequestsAssumption == Requests \subseteq Request /\ NoRequest \notin Requests
ASSUME ProblemsAssumption ==
  /\ IsFiniteSet(Problems) /\ Problems \subseteq Nat
  /\ InitialProblems \subseteq Problems
  /\ ProblemRoles \in [Problems -> SUBSET STRING]
ASSUME WordAssumption == Word \in Nat \ {0}
\* The cache is built with room for a hundred (main.cpp:42).
ASSUME RoomAssumption == MaxSize \in Nat \ {0}

VARIABLES
  stored, gone,  \* the problems committed in the database, those deleted
  panel,         \* how far the panel's deletion is: whoever runs it has the
                 \* mutex of api unless this is "idle"
  removed,       \* what it has deleted and not committed
  deletions,     \* how many the panel has begun
  list, map,     \* problems_everyone_cache
  cacheHit,      \* problems_everyone_cache_hit
  cur,           \* cur[t]: the request worker t serves
  pc, local,     \* where it is, and its locals
  sent           \* what the last step answered, to which request

dbVars == <<stored, gone, panel, removed, deletions>>
cacheVars == <<list, map, cacheHit>>
vars == <<dbVars, cacheVars, cur, pc, local, sent>>

\* A json that is copied from a list node that is not there any more.
Garbage == 0 - 1

NoNode == [node |-> "none", value |-> Garbage]

Cache == INSTANCE LruCache
  WITH Keys <- -128 .. 127, Values <- Problems, NoValue <- Garbage,
       got <- Garbage

NoAnswer == [to |-> NoRequest, status |-> 0, problems |-> <<>>]

NoLocal == [problems |-> <<>>, i |-> 1, from |-> NoNode]

Init ==
  /\ stored = InitialProblems
  /\ gone = {}
  /\ panel = "idle"
  /\ removed = {}
  /\ deletions = 0
  /\ Cache!Init
  /\ cacheHit = FALSE
  /\ cur = [t \in Threads |-> NoRequest]
  /\ pc = [t \in Threads |-> "idle"]
  /\ local = [t \in Threads |-> NoLocal]
  /\ sent = NoAnswer

-----------------------------------------------------------------------------
(* Roles and rows.                                                         *)

\* The roles of a request: generateJWT puts "everyone" first, and a token
\* that verifyJWT rejects is replaced by it.
TokenRoles(r) ==
  IF r.token = "verified" THEN <<"everyone">> \o r.granted ELSE <<"everyone">>

\* A mistake: not looking at the roles before the cache.
AnyRoles(r) == TRUE

Single(r) == Len(TokenRoles(r)) <= 1

\* What a statement on api reads: a deletion's own connection, so its rows
\* are missing before it commits, and back if it rolls back.
Seen == stored \ removed

Visible(r) == {p \in Seen : ProblemRoles[p] \cap ToSet(TokenRoles(r)) # {}}

\* What getProblemsCount counts: the problems with a role of the request
\* that some user has.
Counted(r) ==
  {p \in Visible(r) :
     ProblemRoles[p] \cap ToSet(TokenRoles(r)) \cap HeldRoles # {}}

\* A mistake: no WHERE on the roles.
RowsUnfiltered(r) == {<<p, "any">> : p \in Seen}

\* The join of problems and problem_role: a row for each matching role.
Rows(r) ==
  {row \in Visible(r) \X ToSet(TokenRoles(r)) : row[2] \in ProblemRoles[row[1]]}

-----------------------------------------------------------------------------
(* Arithmetic of the page.                                                 *)

Unsigned(n) == n % Word

\* u_int32_t passed as an int.
Signed(u) == IF u >= Word \div 2 THEN u - Word ELSE u

\* A mistake: a key that saturates.
Saturate(n) == IF n > 127 THEN 127 ELSE n

\* int passed as the cache's key, an int8_t.
Narrow(n) == ((n + 128) % 256) - 128

Offset(r) == Unsigned((Unsigned(r.page) - 1) * Unsigned(r.perPage))

End(r) == Unsigned(Offset(r) + Unsigned(r.perPage))

Matched(r) == {row[1] : row \in Rows(r)}

\* The ids of the rows in the order InnoDB finds them in, an id once for each
\* of its rows.
Ids(r) ==
  LET rows == Rows(r)
      matched == Matched(r)
  IN  {s \in [1 .. Cardinality(rows) -> matched] :
         /\ \A i, j \in DOMAIN s : i < j => s[i] <= s[j]
         /\ \A p \in matched :
              Cardinality({i \in DOMAIN s : s[i] = p})
                = Cardinality({row \in rows : row[1] = p})}

\* ... LIMIT perPage OFFSET offset; a negative bound makes MySQL throw.
Page(ids, limit, offset) ==
  SubSeq(ids, offset + 1,
         IF offset + limit < Len(ids) THEN offset + limit ELSE Len(ids))

Pages(r) ==
  {Page(ids, Signed(Unsigned(r.perPage)), Signed(Offset(r))) : ids \in Ids(r)}

BadBounds(r) ==
  Signed(Offset(r)) < 0 \/ Signed(Unsigned(r.perPage)) < 0

-----------------------------------------------------------------------------
(* A request.                                                              *)

Goto(t, label) == pc' = [pc EXCEPT ![t] = label]

Silent == sent' = NoAnswer

Answer(t, status, problems) ==
  /\ sent' = [to |-> cur[t], status |-> status, problems |-> problems]
  /\ cur' = [cur EXCEPT ![t] = NoRequest]
  /\ local' = [local EXCEPT ![t] = NoLocal]
  /\ Goto(t, "idle")

\* A header "null" leaves roles null, and its conversion to a vector throws;
\* Crow answers an exception that leaves a handler with 500.
DispatchNull(t) ==
  /\ pc[t] = "idle"
  /\ \E r \in Requests :
       /\ r.token = "null"
       /\ sent' = [to |-> r, status |-> 500, problems |-> <<>>]
  /\ UNCHANGED <<dbVars, cacheVars, cur, pc, local>>

Dispatch(t) ==
  /\ pc[t] = "idle"
  /\ \E r \in Requests :
       /\ r.token # "null"
       /\ cur' = [cur EXCEPT ![t] = r]
  /\ Goto(t, "countPrepare")
  /\ Silent
  /\ UNCHANGED <<dbVars, cacheVars, local>>

\* What is executed when it has been prepared.
Prepares == [countPrepare |-> "count", queryPrepare |-> "query", fillPrepare |-> "fill"]

\* prepareStatement takes the mutex, which a deletion keeps till it ends.
Prepare(t) ==
  /\ pc[t] \in DOMAIN Prepares
  /\ panel = "idle"
  /\ Goto(t, Prepares[pc[t]])
  /\ Silent
  /\ UNCHANGED <<dbVars, cacheVars, cur, local>>

\* A query that throws: getProblemsCount turns it into -1, getProblems lets
\* it through; both end in 500.
QueryThrows(t) ==
  /\ \/ /\ pc[t] \in DOMAIN Prepares \cup {"count", "query", "fill"}
        /\ "query" \in Throws
     \/ pc[t] \in {"query", "fill"} /\ BadBounds(cur[t])
  /\ Answer(t, 500, <<>>)
  /\ UNCHANGED <<dbVars, cacheVars>>

CountNone(t) ==
  /\ pc[t] = "count"
  /\ Counted(cur[t]) = {}
  /\ Answer(t, 204, <<>>)
  /\ UNCHANGED <<dbVars, cacheVars>>

\* std::stoi throws on a parameter.
BadParameter(t) ==
  /\ pc[t] = "count"
  /\ Counted(cur[t]) # {}
  /\ ~ cur[t].numeric
  /\ Answer(t, 500, <<>>)
  /\ UNCHANGED <<dbVars, cacheVars>>

\* roles.size()>1 ends the condition.
Count(t) ==
  /\ pc[t] = "count"
  /\ Counted(cur[t]) # {}
  /\ cur[t].numeric
  /\ Goto(t, IF Single(cur[t]) THEN "size" ELSE "queryPrepare")
  /\ Silent
  /\ UNCHANGED <<dbVars, cacheVars, cur, local>>

\* offset+problemsPerPage > problems_everyone_cache.size()
ReadSize(t) ==
  /\ pc[t] = "size"
  /\ Goto(t, IF End(cur[t]) > Cardinality(DOMAIN map) THEN "flag" ELSE "flagAgain")
  /\ Silent
  /\ UNCHANGED <<dbVars, cacheVars, cur, local>>

\* && problems_everyone_cache_hit
ReadFlag(t) ==
  /\ pc[t] = "flag"
  /\ Goto(t, IF cacheHit THEN "queryPrepare" ELSE "flagAgain")
  /\ Silent
  /\ UNCHANGED <<dbVars, cacheVars, cur, local>>

\* else if(!problems_everyone_cache_hit)
ReadFlagAgain(t) ==
  /\ pc[t] = "flagAgain"
  /\ \/ /\ ~ cacheHit
        /\ Goto(t, "fillPrepare")
        /\ UNCHANGED local
     \/ /\ cacheHit
        /\ Goto(t, "loop")
        /\ local' = [local EXCEPT ![t].i = Signed(Offset(cur[t]))]
  /\ Silent
  /\ UNCHANGED <<dbVars, cacheVars, cur>>

Query(t) ==
  /\ pc[t] = "query"
  /\ ~ BadBounds(cur[t])
  /\ \E page \in Pages(cur[t]) : Answer(t, 200, page)
  /\ UNCHANGED <<dbVars, cacheVars>>

-----------------------------------------------------------------------------
(* Filling the cache.                                                      *)

\* A mistake: setting the flag for an empty page too.
FillQueryFlagged(t) ==
  /\ pc[t] = "fill"
  /\ ~ BadBounds(cur[t])
  /\ <<>> \in Pages(cur[t])
  /\ cacheHit' = TRUE
  /\ Answer(t, 200, <<>>)
  /\ UNCHANGED <<dbVars, list, map>>

FillQueryEmpty(t) ==
  /\ pc[t] = "fill"
  /\ ~ BadBounds(cur[t])
  /\ <<>> \in Pages(cur[t])
  /\ Answer(t, 200, <<>>)
  /\ UNCHANGED <<dbVars, cacheVars>>

FillQuery(t) ==
  /\ pc[t] = "fill"
  /\ ~ BadBounds(cur[t])
  /\ \E page \in Pages(cur[t]) \ {<<>>} :
       local' = [local EXCEPT ![t].problems = page]
  /\ Goto(t, "setFlag")
  /\ Silent
  /\ UNCHANGED <<dbVars, cacheVars, cur>>

\* The flag is set before the first put.
SetFlag(t) ==
  /\ pc[t] = "setFlag"
  /\ cacheHit' = TRUE
  /\ Goto(t, "put")
  /\ Silent
  /\ UNCHANGED <<dbVars, list, map, cur, local>>

Put(t) ==
  /\ pc[t] = "put"
  /\ LET ids == local[t].problems
         i == local[t].i
     IN  /\ Cache!put(Narrow(ids[i]), ids[i])
         /\ \/ /\ i < Len(ids)
               /\ local' = [local EXCEPT ![t].i = i + 1]
               /\ Silent
               /\ UNCHANGED <<cur, pc>>
            \/ /\ i = Len(ids)
               /\ Answer(t, 200, ids)
  /\ UNCHANGED <<dbVars, cacheHit>>

-----------------------------------------------------------------------------
(* Reading the cache: get under its lock, then the copy through the        *)
(* reference get returned, without it.                                     *)

\* i < offset + problemsPerPage compares as unsigned.
InPage(t) == Unsigned(local[t].i) < End(cur[t])

LoopEnd(t) ==
  /\ pc[t] = "loop"
  /\ ~ InPage(t)
  /\ Answer(t, 200, local[t].problems)
  /\ UNCHANGED <<dbVars, cacheVars>>

GetHit(t) ==
  /\ pc[t] = "loop"
  /\ InPage(t)
  /\ LET key == Narrow(local[t].i) IN
       /\ Cache!hit(key)
       /\ local' = [local EXCEPT ![t].from =
                      [node |-> map[key], value |-> list[Cache!Place(list, map[key])].value]]
  /\ Goto(t, "copy")
  /\ Silent
  /\ UNCHANGED <<dbVars, cacheHit, cur>>

\* A mistake: starting over when the cache has no such key.
RetryMiss(t) ==
  /\ pc[t] = "loop"
  /\ InPage(t)
  /\ Cache!miss(Narrow(local[t].i))
  /\ local' = [local EXCEPT ![t] = NoLocal]
  /\ Goto(t, "flagAgain")
  /\ Silent
  /\ UNCHANGED <<dbVars, cacheHit, cur>>

\* std::range_error leaves the handler.
GetMiss(t) ==
  /\ pc[t] = "loop"
  /\ InPage(t)
  /\ Cache!miss(Narrow(local[t].i))
  /\ Answer(t, 500, <<>>)
  /\ UNCHANGED <<dbVars, cacheHit>>

Advanced(t) == local[t].i + 1

\* The reference of t still leads to what get found.
ReferenceLive(t) ==
  \E i \in DOMAIN list :
    list[i].node = local[t].from.node /\ list[i].value = local[t].from.value

\* problems.push_back; through a dead reference, whatever is there.
Copy(t) ==
  /\ pc[t] = "copy"
  /\ LET v == IF ReferenceLive(t) THEN local[t].from.value ELSE Garbage IN
       local' = [local EXCEPT ![t].problems = Append(@, v),
                              ![t].i = Advanced(t),
                              ![t].from = NoNode]
  /\ Goto(t, "loop")
  /\ Silent
  /\ UNCHANGED <<dbVars, cacheVars, cur>>

-----------------------------------------------------------------------------
(* What the management panel does meanwhile.  A creation runs on another   *)
(* connection: what it writes is not seen before it commits.               *)

PanelCreates(p) ==
  /\ p \notin stored \cup gone
  /\ stored' = stored \cup {p}
  /\ Silent
  /\ UNCHANGED <<gone, panel, removed, deletions, cacheVars, cur, pc, local>>

Panel(from, to) ==
  /\ panel = from
  /\ panel' = to
  /\ Silent
  /\ UNCHANGED <<cacheVars, cur, pc, local>>

PanelBegins ==
  /\ Panel("idle", "begun")
  /\ deletions < MaxDeletions
  /\ deletions' = deletions + 1
  /\ UNCHANGED <<stored, gone, removed>>

\* The rows of problem_role are gone, and then that of problems: neither query
\* has another way to find the problem.
PanelRemoves(p) ==
  /\ Panel("begun", "deleted")
  /\ removed' = stored \cap {p}
  /\ UNCHANGED <<stored, gone, deletions>>

\* commitTransaction: the commit and, to no reader's notice later, the mutex.
PanelCommits ==
  /\ Panel("deleted", "idle")
  /\ stored' = stored \ removed
  /\ gone' = gone \cup removed
  /\ removed' = {}
  /\ UNCHANGED deletions

\* Any of its statements may throw.
PanelRollsBack ==
  /\ Panel("begun", "idle") \/ Panel("deleted", "idle")
  /\ removed' = {}
  /\ UNCHANGED <<stored, gone, deletions>>

\* The rest of a deletion that has begun.
PanelGoesOn ==
  \/ \E p \in Problems : PanelRemoves(p)
  \/ PanelCommits \/ PanelRollsBack

\* What a worker does about a request it has taken.
Serve(t) ==
  \/ Prepare(t) \/ QueryThrows(t) \/ CountNone(t) \/ BadParameter(t) \/ Count(t)
  \/ ReadSize(t) \/ ReadFlag(t) \/ ReadFlagAgain(t) \/ Query(t)
  \/ FillQueryEmpty(t) \/ FillQuery(t) \/ SetFlag(t) \/ Put(t)
  \/ LoopEnd(t) \/ GetHit(t) \/ GetMiss(t) \/ Copy(t)

Next ==
  \/ \E t \in Threads : DispatchNull(t) \/ Dispatch(t) \/ Serve(t)
  \/ \E p \in Problems : PanelCreates(p)
  \/ PanelBegins \/ PanelGoesOn

Spec == Init /\ [][Next]_vars

\* The operating system schedules every worker, the one that deletes too, and
\* every statement returns; no request has to arrive, for a page or a deletion.
FairSpec == Spec /\ WF_vars(PanelGoesOn) /\ \A t \in Threads : WF_vars(Serve(t))

-----------------------------------------------------------------------------
\* A copy goes through a reference only while the node is in the list: get
\* gives its lock up before the caller has read the value.
ReferencesLive == \A t \in Threads : pc[t] = "copy" => ReferenceLive(t)

\* The cache holds only problems for everyone: the handler asks for the
\* number of roles, not for their names, and relies on generateJWT putting
\* "everyone" into each token.
CacheForEveryone ==
  \A i \in DOMAIN list : "everyone" \in ProblemRoles[list[i].value]

\* A 200 answer, from the database or from the cache another request has
\* filled, holds only problems with a role of its own token (what a dead
\* reference yields is the matter of ReferencesLive).
OnlyVisible ==
  \A p \in ToSet(sent.problems) \ {Garbage} :
    ProblemRoles[p] \cap ToSet(TokenRoles(sent.to)) # {}

\* The flag, which is set before the cache is filled and never cleared, does
\* not outlive the filling with nothing in the cache.
FlagMeansFilled ==
  (cacheHit /\ \A t \in Threads : pc[t] # "put") => list # <<>>

\* A public page shows no problem twice, although its elements are read from
\* the cache one lock at a time, while other workers fill it and evict from
\* it and problems are deleted: a key, narrow as it is, always leads to a
\* problem whose id it is the low byte of.
NoRepeats ==
  \A i, j \in DOMAIN sent.problems :
    (i < j /\ sent.problems[i] = sent.problems[j])
      => sent.problems[i] = Garbage \/ ~ Single(sent.to)

\* With the problems left alone, a public page is the one that was asked
\* for, whether it comes from the database or from the cache.
PagesServed ==
  (/\ sent # NoAnswer /\ stored = InitialProblems /\ deletions = 0
   /\ <<>> \notin Pages(sent.to))
    => sent.status = 200 /\ sent.problems \in Pages(sent.to)

\* Every request a worker has taken is answered: no page loops for ever,
\* wherever the unsigned arithmetic of its bounds wraps.
AllAnswered ==
  \A t \in Threads : pc[t] # "idle" ~> pc[t] = "idle"
=============================================================================
