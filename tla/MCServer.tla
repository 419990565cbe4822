------------------------------ MODULE MCServer -------------------------------
(* The files and submissions the run of Server uses. *)
EXTENDS Server
CONSTANTS t1, t2, t3, s1, s2, s3, s4

\* The file settings, without what its keys for problems hold.
DefaultFile ==
  [key \in {"CGFE_origin", "port", "jwt_secret", "MySQL", "SandBox"} |->
     CASE key = "MySQL" -> {"host", "user", "password", "database", "port"}
       [] key = "SandBox" -> {"host", "port", "token"}
       [] OTHER -> {}]

\* No local file; one that gives MySQL its password; a key of its own; and one
\* that does not parse.
LocalFiles ==
  {<<>>, "MySQL" :> {"password"}, "port" :> {}, Malformed}

Types == {<<"C">>, <<"C", "Python">>}

PublicAddress == <<"203.0", ".113.7">>
=============================================================================
