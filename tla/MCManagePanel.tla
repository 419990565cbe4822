---------------------------- MODULE MCManagePanel ----------------------------
(* The requests and rows the runs of ManagePanel use. *)
EXTENDS ManagePanel, TLC

CONSTANTS t1, t2

Workers2 == Permutations({t1, t2})

Score(s) == [name |-> "", val |-> s]
Name(s) == [name |-> s, val |-> 0]
Grant(role, flags) == [name |-> role, val |-> flags]

NoParts == [p \in Parts |-> <<>>]

WithCases(es) == [NoParts EXCEPT !["problem_test_cases"] = es]

\* Problem 1, complete, and one submission with a subtask.
SeedRow(table, p, name, val) ==
  [table |-> table, pid |-> p, name |-> name, val |-> val,
   by |-> "seed", n |-> 0]

Seed ==
  {SeedRow("problems", 1, "sum", 0),
   SeedRow("problem_submissions", 1, "", 0),
   SeedRow("problem_submissions_subtasks", 1, "", 0),
   SeedRow("problem_test_cases", 1, "", 10000),
   SeedRow("problem_role", 1, "editor", ViewFlag + EditFlag),
   SeedRow("problem_role", 1, "everyone", 0),
   SeedRow("roles", 0, "editor", 0)}

ASSUME SeedAssumption == WholeLeft /\ FullScoresLeft /\ ReplacesGivenIds

Req(id, op, title, body, parts) ==
  [id |-> id, op |-> op, auth |-> TRUE, admin |-> FALSE,
   roles |-> {"everyone", "editor"}, pid |-> IF op = "create" THEN 0 ELSE 1,
   title |-> title, body |-> body, parts |-> parts]

FullParts ==
  [p \in Parts |->
     CASE p = "problem_sample_IO" -> <<Name("")>>
       [] p = "problem_tags" -> <<Name("dp")>>
       [] p = "problem_test_cases" -> <<Score(4000), Score(6000)>>
       [] p = "problem_roles" ->
            <<Grant("editor", ViewFlag + EditFlag), Grant("tester", 0)>>]

Create1 == Req("c1", "create", "graph", "ok", FullParts)
\* The title of Create1, and scores that add up to 9000.
Create4 == Req("c4", "create", "graph", "ok", WithCases(<<Score(9000)>>))
\* One test case and one role.
Short == Req("c9", "create", "star", "ok",
             [WithCases(<<Score(10000)>>) EXCEPT
                !["problem_roles"] = <<Grant("editor", ViewFlag)>>])
\* No test case: refused after the row of the problem is inserted.
Create6 == Req("c6", "create", "tree", "ok", NoParts)
Create5 == Req("c5", "create", "list", "badProblem", NoParts)
BadDifficulty == Req("c7", "create", "x", "badDifficulty", NoParts)
Unparsable == Req("c8", "create", "x", "unparsable", NoParts)

Replace1 == Req("p1", "replace", "", "ok",
                WithCases(<<Score(3000), Score(7000)>>))
Replace2 == Req("p2", "replace", "", "ok",
                WithCases(<<Score(10000), Malformed>>))
Replace3 == Req("p3", "replace", "", "unparsable", NoParts)
Replace4 == Req("p4", "replace", "", "ok", WithCases(<<Score(10000)>>))

Delete1 == Req("d1", "delete", "", "ok", NoParts)
Update2 == Req("u2", "update", "", "unparsable", NoParts)
Get1 == Req("g1", "get", "", "ok", NoParts)
\* A query of the problem that is being created.
Get2 == [Get1 EXCEPT !.id = "g2", !.pid = 2]
List1 == Req("l1", "list", "", "ok", NoParts)
List2 == Req("l2", "list", "", "unparsable", NoParts)
List3 == [Req("l3", "list", "", "ok", NoParts) EXCEPT !.roles = {}]
Page1 == Req("v1", "page", "", "ok", NoParts)

Anonymous(r) == [r EXCEPT !.id = "a1", !.auth = FALSE]
Admin(r) == [r EXCEPT !.id = "m1", !.admin = TRUE, !.roles = {"everyone"}]

\* A creation and a replacement that succeed, one of each that fails in the
\* middle, and the list.
ModifyRequests == {Create1, Create4, Replace1, Replace2, List1}
\* Problem 1 deleted while its test cases are replaced, and problem 2 created
\* and queried.
ApiRequests == {Short, Replace4, Delete1, Get2}
\* Requests that roll back what they never began, a deletion and creations that
\* they may undo, and those that are answered without a transaction.
AnyRequests == {Create6, BadDifficulty, Replace3, Delete1, Admin(Get1), Update2,
                List1, List2, Create5, Page1, Anonymous(List1)}
BadDifficultyRequests == {BadDifficulty, Unparsable, Replace1}
=============================================================================
