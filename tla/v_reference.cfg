SPECIFICATION Spec
CONSTANTS
  t1 = t1
  t2 = t2
  t3 = t3
  n1 = n1
  n2 = n2
  n3 = n3
  n4 = n4
  Threads = {t1, t2}
  NoRequest = NoRequest
  Requests <- Public
  Problems <- SameKey
  ProblemRoles <- SameKeyRoles
  HeldRoles = {"everyone", "editor"}
  InitialProblems = {1, 2, 257}
  Nodes = {n1, n2, n3, n4}
  MaxSize = 3
  Word = 256
  MaxDeletions = 0
  Throws = {}
INVARIANTS ReferencesLive
