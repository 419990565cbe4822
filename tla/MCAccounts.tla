----------------------------- MODULE MCAccounts -----------------------------
(* The requests and users the runs of Accounts use. *)
EXTENDS Accounts
CONSTANTS t1, t2, p1

Req(id, op, name, email, password) ==
  [id |-> id, op |-> op, body |-> "ok", ip |-> "home",
   name |-> name, email |-> email, password |-> password]

Seed ==
  {[id |-> 1, name |-> "ann", tag |-> 3, email |-> "e1", password |-> "x", by |-> "seed"]}

Ann2 == Req("r1", "register", "ann", "e2", "y")
Bob2 == Req("r2", "register", "bob", "e2", "w")
Bob1 == Req("r3", "register", "bob", "e1", "v")
NoName == [Req("r4", "register", "", "e3", "v") EXCEPT !.body = "noName"]
NoPassword == [Req("r5", "register", "bob", "e4", "") EXCEPT !.body = "noPassword"]
Garbled == [Bob1 EXCEPT !.id = "r6", !.body = "unparsable"]
LoginNew == Req("l1", "login", "", "e2", "y")

\* Four emails of one address; one email is registered twice at once.
Mixed == {Ann2, Bob2, Bob1, NoName, NoPassword, LoginNew,
          Garbled}
SameEmail == {Ann2, Bob2}

WorkersAlike == Permutations({t1, t2})
=============================================================================
