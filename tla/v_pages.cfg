SPECIFICATION Spec
CONSTANTS
  t1 = t1
  t2 = t2
  t3 = t3
  n1 = n1
  n2 = n2
  n3 = n3
  n4 = n4
  Threads = {t1}
  NoRequest = NoRequest
  Requests <- Public
  Problems <- Two
  ProblemRoles <- TwoRoles
  HeldRoles = {"everyone", "editor"}
  InitialProblems = {1, 2}
  Nodes = {n1, n2, n3}
  MaxSize = 2
  Word = 256
  MaxDeletions = 0
  Throws = {}
INVARIANTS PagesServed
