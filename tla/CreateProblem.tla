---------------------------- MODULE CreateProblem ----------------------------
(***************************************************************************)
(* POST /manage_panel/problems (manage_panel_routes/problems.hpp): one     *)
(* transaction on modify_api that inserts a problem, looks its id up by    *)
(* title, and inserts its sample IO, tags, test cases and roles.           *)
(***************************************************************************)
EXTENDS Workers

CONSTANT
  UniqueTitles  \* whether the schema, which the repository does not hold,
                \* declares problems.title UNIQUE

\* Reading the body and the difficulty, before beginTransaction.  Both error
\* paths call rollbackTransaction all the same.
ParseProblem(t) ==
  /\ pc[t] = "parse"
  /\ \/ /\ cur[t].body = "unparsable"
        /\ Abort(t, 500)
     \/ /\ cur[t].body = "badDifficulty"
        /\ Abort(t, 400)
     \/ /\ cur[t].body \in {"ok", "badProblem"}
        /\ Goto(t, "begin")
        /\ UNCHANGED <<apiVars, todo, cur, local, reply, nextId, applied>>

SameTitle(t) == Named(View(Conn(t)), "problems", cur[t].title)

InsertProblem(t) ==
  /\ pc[t] = "insertProblem"
  /\ cur[t].body # "badProblem"
  /\ ~ (UniqueTitles /\ SameTitle(t) # {})
  /\ Execute(Conn(t), {}, {ProblemRow(cur[t], nextId)},
             {<<"problems", nextId>>})
  /\ nextId' = nextId + 1
  /\ Goto(t, "selectId")
  /\ UNCHANGED <<todo, cur, local, reply, applied>>

\* A field of the wrong type or a failing execute is the inner catch (400);
\* a failing prepareStatement the outer one (500).
InsertProblemFails(t) ==
  /\ pc[t] = "insertProblem"
  /\ \/ /\ \/ cur[t].body = "badProblem"
           \/ UniqueTitles /\ SameTitle(t) # {}
        /\ Abort(t, 400)
     \/ /\ StatementThrows(t, {<<"problems", nextId>>})
        /\ \E status \in {400, 500} : Abort(t, status)

\* A mistake: taking the next id of the sequence for the one just used.
SelectNextId(t) ==
  /\ pc[t] = "selectId"
  /\ local' = [local EXCEPT ![t].problem_id = nextId]
  /\ Goto(t, "section")
  /\ UNCHANGED <<apiVars, todo, cur, reply, nextId, applied>>

\* SELECT id FROM problems WHERE title = ?: the first row with the title.
SelectId(t) ==
  /\ pc[t] = "selectId"
  /\ Conn(t) \notin lost
  /\ \E row \in SameTitle(t) :
       local' = [local EXCEPT ![t].problem_id = row.pid]
  /\ Goto(t, "section")
  /\ UNCHANGED <<apiVars, todo, cur, reply, nextId, applied>>

\* No such row: 500, and neither a rollback nor an unlock.
SelectIdEmpty(t) ==
  /\ pc[t] = "selectId"
  /\ Conn(t) \notin lost
  /\ SameTitle(t) = {}
  /\ Answer(t, 500)
  /\ UNCHANGED apiVars

SelectIdThrows(t) ==
  /\ pc[t] = "selectId"
  /\ StatementThrows(t, {})
  /\ Abort(t, 500)

-----------------------------------------------------------------------------
(* The sections of the body.                                               *)

Section(t) == Sections[local[t].sec]

SectionElements(t) == Elements(cur[t], Section(t))

AtElement(t) ==
  /\ pc[t] = "section"
  /\ local[t].i <= Len(SectionElements(t))

\* A mistake: adding a tag or role without looking whether it is there.
NewRowsUnseen(t) ==
  {RowFor(cur[t], Section(t), local[t].problem_id, local[t].i,
          SectionElements(t)[local[t].i])}

\* The row for the element at hand, or none when a registry has the name.
NewRows(t) ==
  LET e == SectionElements(t)[local[t].i] IN
  IF Section(t) \in Registries /\ Named(View(Conn(t)), Section(t), e.name) # {}
  THEN {}
  ELSE {RowFor(cur[t], Section(t), local[t].problem_id, local[t].i, e)}

SectionScope(t) ==
  {<<Section(t), IF Section(t) \in Registries THEN 0 ELSE local[t].problem_id>>}

\* A malformed element, or a test case with a negative number.
Refused(t) ==
  LET e == SectionElements(t)[local[t].i] IN
  \/ e = Malformed
  \/ e # Malformed /\ Section(t) = "problem_test_cases" /\ e.val < 0

InsertElement(t) ==
  /\ AtElement(t)
  /\ ~ Refused(t)
  /\ Execute(Conn(t), {}, NewRows(t), SectionScope(t))
  /\ local' = [local EXCEPT ![t].i = @ + 1]
  /\ UNCHANGED <<todo, cur, pc, reply, nextId, applied>>

InsertElementFails(t) ==
  /\ AtElement(t)
  /\ Refused(t) \/ StatementThrows(t, SectionScope(t))
  /\ Abort(t, 400)

\* A mistake: not refusing a total that is too low.
TotalTooHigh(t) ==
  /\ Section(t) = "problem_test_cases"
  /\ Total(SectionElements(t)) > FullScore

\* After the test cases their scores must add up to 10000.
WrongTotal(t) ==
  /\ Section(t) = "problem_test_cases"
  /\ Total(SectionElements(t)) # FullScore

NextSection(t) ==
  /\ pc[t] = "section"
  /\ ~ AtElement(t)
  /\ ~ WrongTotal(t)
  /\ local' = [local EXCEPT ![t].sec = @ + 1, ![t].i = 1]
  /\ Goto(t, IF local[t].sec = Len(Sections) THEN "commit" ELSE "section")
  /\ UNCHANGED <<apiVars, todo, cur, reply, nextId, applied>>

RefuseTotal(t) ==
  /\ pc[t] = "section"
  /\ ~ AtElement(t)
  /\ WrongTotal(t)
  /\ Abort(t, 400)

CreateStep(t) ==
  \/ ParseProblem(t) \/ InsertProblem(t) \/ InsertProblemFails(t)
  \/ SelectId(t) \/ SelectIdEmpty(t) \/ SelectIdThrows(t)
  \/ InsertElement(t) \/ InsertElementFails(t)
  \/ NextSection(t) \/ RefuseTotal(t)
=============================================================================
