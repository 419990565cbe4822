---------------------------- MODULE MCProblemList ----------------------------
(* The requests and problems the runs of ProblemList use. *)
EXTENDS ProblemList
CONSTANTS t1, t2, t3, n1, n2, n3, n4

Get(id, token, granted, page, perPage) ==
  [id |-> id, token |-> token, granted |-> granted, numeric |-> TRUE,
   page |-> page, perPage |-> perPage]

First == Get("a", "rejected", <<>>, 1, 3)
Second == Get("b", "verified", <<>>, 2, 1)
\* The offsets 128 and 129, which an int8_t key makes -128 and -127.
Later == Get("h", "verified", <<>>, 65, 2)
Editor == Get("c", "verified", <<"editor">>, 1, 3)
Negative == Get("d", "rejected", <<>>, 1, -1)
NotNumeric == [First EXCEPT !.id = "e", !.numeric = FALSE]
\* Page 0: the offset wraps.
Zero == Get("g", "rejected", <<>>, 0, 3)
Null == Get("f", "null", <<>>, 1, 1)

Mixed == {First, Later, Negative, Editor, Null, NotNumeric, Zero}
Public == {First, Second}

Two == {1, 2}
TwoRoles == [p \in Two |-> {"everyone"}]

\* Ids on the far side of the largest key; 128 is for editors too, 130 for
\* them only.
Three == {128, 129, 130}
ThreeRoles ==
  [p \in Three |-> IF p = 128 THEN {"everyone", "editor"}
                  ELSE IF p = 129 THEN {"everyone"} ELSE {"editor"}]

\* The keys of 1 and 257 are the same.
SameKey == {1, 2, 257}
SameKeyRoles == [p \in SameKey |-> {"everyone"}]

Alike == Permutations({n1, n2, n3, n4})
=============================================================================
