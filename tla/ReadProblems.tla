----------------------------- MODULE ReadProblems -----------------------------
(***************************************************************************)
(* The routes that only read: GET /manage_panel/problems, the list of the  *)
(* problems a user may see (manage_panel_routes/problems.hpp), and GET     *)
(* /problem/<int>, the page of one problem (problem.cpp).  Both query api, *)
(* so they read inside whatever transaction a deletion has open there.     *)
(***************************************************************************)
EXTENDS Workers

Sees(r, p) ==
  \/ r.admin
  \/ \E row \in RowsOf(View("api"), "problem_role", p) :
       row.name \in r.roles /\ HasFlag(row, ViewFlag)

\* The problems the first query of the list finds for r.
Listed(r) ==
  {p \in {row.pid : row \in {x \in View("api") : x.table = "problems"}} :
     Sees(r, p)}

NoRoles(r) == ~ r.admin /\ r.roles = {}

\* A parameter that is not a number makes stoi throw out of the handler; a
\* token without a role is answered before any query.
ListRefused(t) ==
  /\ pc[t] = "listPrepare"
  /\ \/ cur[t].body = "unparsable" /\ Answer(t, Escaped)
     \/ cur[t].body # "unparsable" /\ NoRoles(cur[t]) /\ Answer(t, 404)
  /\ UNCHANGED apiVars

\* Both statements are prepared before the first is executed.
ListReady(t) ==
  /\ pc[t] = "listPrepare"
  /\ cur[t].body # "unparsable" /\ ~ NoRoles(cur[t])
  /\ Free("api", t)

ListPrepare(t) ==
  /\ ListReady(t)
  /\ "api" \notin lost
  /\ Goto(t, "listRead")
  /\ UNCHANGED <<apiVars, todo, cur, local, reply, nextId, applied>>

ListRead(t) ==
  /\ pc[t] = "listRead"
  /\ "api" \notin lost
  /\ local' = [local EXCEPT ![t].listed = Listed(cur[t])]
  /\ Goto(t, "listCount")
  /\ UNCHANGED <<apiVars, todo, cur, reply, nextId, applied>>

\* The second query only counts.
ListCount(t) ==
  /\ pc[t] = "listCount"
  /\ "api" \notin lost
  /\ Answer(t, IF local[t].listed = {} THEN 404 ELSE 200)
  /\ UNCHANGED apiVars

\* Preparing throws out of the handler; executing is inside its try.
ListThrows(t) ==
  /\ \/ /\ ListReady(t)
        /\ "api" \in lost
        /\ Answer(t, Escaped)
     \/ /\ pc[t] \in {"listRead", "listCount"}
        /\ ReadThrows
        /\ Answer(t, 500)
  /\ UNCHANGED apiVars

-----------------------------------------------------------------------------
\* get_problem_roles.
PagePrepare(t) ==
  /\ pc[t] = "pagePrepare"
  /\ Free("api", t)
  /\ "api" \notin lost
  /\ Goto(t, "pageRead")
  /\ UNCHANGED <<apiVars, todo, cur, local, reply, nextId, applied>>

\* have_permission looks the bit up under settings["permissions"], which the
\* settings file does not have, and compares the names of the problem's roles
\* with the positions of the token's: every visitor is refused.
PageRefused(t) ==
  /\ pc[t] = "pageRead"
  /\ "api" \notin lost
  /\ Answer(t, 403)
  /\ UNCHANGED apiVars

PageThrows(t) ==
  /\ \/ pc[t] = "pagePrepare" /\ Free("api", t) /\ "api" \in lost
     \/ pc[t] = "pageRead" /\ ReadThrows
  /\ Answer(t, Escaped)
  /\ UNCHANGED apiVars

ReadStep(t) ==
  \/ ListRefused(t) \/ ListPrepare(t) \/ ListRead(t) \/ ListCount(t)
  \/ ListThrows(t) \/ PagePrepare(t) \/ PageRefused(t) \/ PageThrows(t)
=============================================================================
