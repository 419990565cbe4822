---------------------------- MODULE ProblemStore ----------------------------
(***************************************************************************)
(* What the management panel promises: every request takes effect on the   *)
(* stored rows as one step, or not at all.  ManagePanel is checked to      *)
(* implement this module for well-formed requests.                         *)
(***************************************************************************)
EXTENDS ProblemRows

VARIABLES
  db,       \* the stored rows
  applied   \* the requests that have taken effect

storeVars == <<db, applied>>

Init ==
  /\ db = InitialRows
  /\ applied = {}

\* The rows section s adds for a new problem p.
SectionRows(r, s, p) ==
  LET es == Elements(r, s)
      old == {row.name : row \in {x \in db : x.table = s}}
      fresh(i) == /\ es[i].name \notin old
                  /\ \A j \in 1 .. i - 1 : es[j].name # es[i].name
  IN  {RowFor(r, s, p, i, es[i]) :
         i \in {k \in DOMAIN es : s \in Registries => fresh(k)}}

WellFormed(r, part) == \A i \in DOMAIN r.parts[part] : r.parts[part][i] # Malformed

\* The scores of a new problem's test cases are not negative and add up to
\* 10000.
FullyScored(r) ==
  LET cases == r.parts["problem_test_cases"] IN
  /\ \A i \in DOMAIN cases : cases[i].val >= 0
  /\ Total(cases) = FullScore

\* A creation adds the problem with everything its body lists.
Create(r, p) ==
  /\ r.op = "create"
  /\ \A part \in Parts : WellFormed(r, part)
  /\ FullyScored(r)
  /\ \A row \in db : row.pid # p
  /\ db' = db \cup {ProblemRow(r, p)}
             \cup UNION {SectionRows(r, Sections[k], p) : k \in DOMAIN Sections}

\* A replacement leaves a problem with exactly the test cases of its body.
Replace(r) ==
  LET s == "problem_test_cases" IN
  /\ r.op = "replace"
  /\ WellFormed(r, s)
  /\ db' = (db \ RowsOf(db, s, r.pid)) \cup SectionRows(r, s, r.pid)

\* A deletion leaves nothing of the problem.
Delete(r) ==
  /\ r.op = "delete"
  /\ db' = {row \in db : row.table \in Registries \/ row.pid # r.pid}

Next ==
  \E r \in Requests \ applied :
    /\ applied' = applied \cup {r}
    /\ \/ \E row \in db' : Create(r, row.pid)
       \/ Replace(r)
       \/ Delete(r)

Spec == Init /\ [][Next]_storeVars
=============================================================================
