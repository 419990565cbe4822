----------------------------- MODULE ProblemRows -----------------------------
(***************************************************************************)
(* The data of the management panel: the requests that reach its routes    *)
(* and the rows they write.  A row keeps the problem it belongs to, the    *)
(* name or number the handlers look at, and, for the properties, the       *)
(* request that wrote it and its place in that request's body.             *)
(***************************************************************************)
EXTENDS Integers, Sequences, FiniteSets, FiniteSetsExt

CONSTANTS
  Requests,     \* the requests that may arrive, each at most once
  Malformed,    \* a JSON element on which .get<T>() throws
  InitialRows,  \* the rows in the database when the server starts
  FirstNewId    \* the id of the next problem (AUTO_INCREMENT)

Ops == {"create", "replace", "delete", "update", "get", "list", "page"}

\* The arrays of a request body, by their JSON key.
Parts == {"problem_sample_IO", "problem_tags", "problem_test_cases",
          "problem_roles"}

\* An array element: a tag or role name, a test case's score, a role's
\* permission_flags.  What the handlers never look at is left out.
Element == [name : STRING, val : Int]

Request ==
  [id : STRING, op : Ops,
   auth : BOOLEAN,           \* JWT::verifyJWT accepts the token
   admin : BOOLEAN,          \* the token's site_permission_flags & 1
   roles : SUBSET STRING,    \* the token's roles
   pid : Nat,                \* the <int> of the URL
   title : STRING,
   body : {"ok", "unparsable", "badDifficulty", "badProblem"},
   parts : [Parts -> Seq(Element \cup {Malformed})]]

ASSUME RequestsAssumption == Requests \subseteq Request

\* The tables a DELETE of a problem clears, in the order it clears them.
DeleteTables ==
  <<"problem_submissions_subtasks", "problem_submissions",
    "problem_sample_IO", "problem_solutions", "problem_hints",
    "problem_test_cases", "problem_tags", "problem_role", "problems">>

Registries == {"tags", "roles"}

Tables == {DeleteTables[i] : i \in DOMAIN DeleteTables} \cup Registries

Row == [table : Tables, pid : Nat, name : STRING, val : Int,
        by : STRING, n : Nat]

ASSUME RowsAssumption == InitialRows \subseteq Row /\ IsFiniteSet(InitialRows)

\* The ids tell the requests apart, and from what wrote the initial rows.
ASSUME IdsAssumption ==
  /\ \A r, s \in Requests : r.id = s.id => r = s
  /\ \A r \in Requests, row \in InitialRows : row.by # r.id

\* AUTO_INCREMENT has given the stored problems their ids, and perhaps others.
ASSUME FirstIdAssumption ==
  /\ FirstNewId \in Nat
  /\ \A row \in InitialRows : row.pid < FirstNewId

-----------------------------------------------------------------------------
(* What a creation writes after the problems row, in order.  A section     *)
(* walks one array of the body; a registry section adds the names that the *)
(* tags or roles table does not have yet.                                  *)

Sections ==
  <<"problem_sample_IO", "tags", "problem_tags", "problem_test_cases",
    "roles", "problem_role">>

PartOf(s) ==
  IF s = "tags" THEN "problem_tags"
  ELSE IF s \in {"roles", "problem_role"} THEN "problem_roles"
  ELSE s

Elements(r, s) == r.parts[PartOf(s)]

\* The row section s writes for the i-th element e of request r.
RowFor(r, s, p, i, e) ==
  [table |-> s, pid |-> IF s \in Registries THEN 0 ELSE p,
   name |-> e.name, val |-> e.val, by |-> r.id, n |-> i]

ProblemRow(r, p) ==
  [table |-> "problems", pid |-> p, name |-> r.title, val |-> 0,
   by |-> r.id, n |-> 0]

RowsOf(rows, s, p) == {row \in rows : row.table = s /\ row.pid = p}

Named(rows, s, name) == {row \in rows : row.table = s /\ row.name = name}

Total(es) == MapThenSumSet(LAMBDA i : es[i].val, DOMAIN es)

\* permission_flags: bit 0 lets a role see a problem, bit 2 edit it.
ViewFlag == 1
EditFlag == 4

HasFlag(row, flag) == (row.val \div flag) % 2 = 1

\* "Total test case score must be 10000"
FullScore == 10000
=============================================================================
