----------------------------- MODULE EditProblem -----------------------------
(***************************************************************************)
(* The routes of one problem: PUT and DELETE                               *)
(* /manage_panel/problems/<int> (manage_panel_routes/problem.hpp), the     *)
(* second a transaction on api, and GET and POST                           *)
(* /manage_panel/problems/<int>/testcases                                  *)
(* (manage_panel_routes/testcases.hpp), the first a query on api, the      *)
(* second a transaction on modify_api.                                     *)
(***************************************************************************)
EXTENDS Workers

\* PUT: the table is looked up under settings["problem_tables"], which the
\* settings file does not have (it has "problems_tables"): every body that
\* can be read is refused.  One that cannot makes parse throw out of the
\* handler.
Update(t) ==
  /\ pc[t] = "update"
  /\ Answer(t, IF cur[t].body = "unparsable" THEN Escaped ELSE 400)
  /\ UNCHANGED apiVars

\* A mistake: starting at the second table.
PurgeFromSecond(t) ==
  LET table == DeleteTables[local[t].i + 1] IN
  /\ pc[t] = "purge"
  /\ Execute(Conn(t), RowsOf(View(Conn(t)), table, cur[t].pid), {},
             {<<table, cur[t].pid>>})
  /\ local' = [local EXCEPT ![t].i = @ + 1]
  /\ Goto(t, IF local[t].i + 1 = Len(DeleteTables) THEN "commit" ELSE "purge")
  /\ UNCHANGED <<todo, cur, reply, nextId, applied>>

\* DELETE: one statement per table, the problems table last.
Purge(t) ==
  LET table == DeleteTables[local[t].i] IN
  /\ pc[t] = "purge"
  /\ Execute(Conn(t), RowsOf(View(Conn(t)), table, cur[t].pid), {},
             {<<table, cur[t].pid>>})
  /\ local' = [local EXCEPT ![t].i = @ + 1]
  /\ Goto(t, IF local[t].i = Len(DeleteTables) THEN "commit" ELSE "purge")
  /\ UNCHANGED <<todo, cur, reply, nextId, applied>>

PurgeThrows(t) ==
  /\ pc[t] = "purge"
  /\ StatementThrows(t, {<<DeleteTables[local[t].i], cur[t].pid>>})
  /\ Abort(t, 500)

-----------------------------------------------------------------------------
(* POST testcases: the old test cases go first, the body is parsed after.  *)

Cases(r) == r.parts["problem_test_cases"]

CaseScope(t) == {<<"problem_test_cases", cur[t].pid>>}

\* A mistake: adding to the test cases there are.
WipeNothing(t) ==
  /\ pc[t] = "wipe"
  /\ Execute(Conn(t), {}, {}, CaseScope(t))
  /\ Goto(t, "insertCase")
  /\ UNCHANGED <<todo, cur, local, reply, nextId, applied>>

Wipe(t) ==
  /\ pc[t] = "wipe"
  /\ Execute(Conn(t),
             RowsOf(View(Conn(t)), "problem_test_cases", cur[t].pid), {},
             CaseScope(t))
  /\ \/ /\ cur[t].body = "unparsable"
        /\ Goto(t, "rollback")
        /\ local' = [local EXCEPT ![t].status = 400]
     \/ /\ cur[t].body # "unparsable"
        /\ Goto(t, "insertCase")
        /\ UNCHANGED local
  /\ UNCHANGED <<todo, cur, reply, nextId, applied>>

InsertCase(t) ==
  /\ pc[t] = "insertCase"
  /\ local[t].i <= Len(Cases(cur[t]))
  /\ LET e == Cases(cur[t])[local[t].i] IN
     /\ e # Malformed
     /\ Execute(Conn(t), {},
                {RowFor(cur[t], "problem_test_cases", cur[t].pid, local[t].i, e)},
                CaseScope(t))
  /\ local' = [local EXCEPT ![t].i = @ + 1]
  /\ UNCHANGED <<todo, cur, pc, reply, nextId, applied>>

ReplaceFails(t) ==
  /\ \/ /\ pc[t] \in {"wipe", "insertCase"}
        /\ StatementThrows(t, CaseScope(t))
     \/ /\ pc[t] = "insertCase"
        /\ local[t].i <= Len(Cases(cur[t]))
        /\ Cases(cur[t])[local[t].i] = Malformed
  /\ Abort(t, 400)

CasesInserted(t) ==
  /\ pc[t] = "insertCase"
  /\ local[t].i > Len(Cases(cur[t]))
  /\ Goto(t, "commit")
  /\ UNCHANGED <<apiVars, todo, cur, local, reply, nextId, applied>>

-----------------------------------------------------------------------------
(* GET testcases.                                                          *)

PrepareGet(t) ==
  /\ pc[t] = "getPrepare"
  /\ Free("api", t)
  /\ "api" \notin lost
  /\ Goto(t, "getRead")
  /\ UNCHANGED <<apiVars, todo, cur, local, reply, nextId, applied>>

Get(t) ==
  /\ pc[t] = "getRead"
  /\ "api" \notin lost
  /\ Answer(t, 200)
  /\ UNCHANGED apiVars

\* prepareStatement or executeQuery, or dump() of text that is not UTF-8,
\* throws.  badReq rolls back on api, where this handler has begun nothing.
GetThrows(t) ==
  /\ \/ pc[t] = "getPrepare" /\ Free("api", t) /\ "api" \in lost
     \/ pc[t] = "getRead" /\ ReadThrows
  /\ Abort(t, 400)

EditStep(t) ==
  \/ Update(t) \/ Purge(t) \/ PurgeThrows(t)
  \/ Wipe(t) \/ InsertCase(t) \/ ReplaceFails(t) \/ CasesInserted(t)
  \/ PrepareGet(t) \/ Get(t) \/ GetThrows(t)
=============================================================================
