SPECIFICATION FairSpec
CONSTANTS
  t1 = t1
  t2 = t2
  t3 = t3
  n1 = n1
  n2 = n2
  n3 = n3
  n4 = n4
  Threads = {t1, t2}
  NoRequest = NoRequest
  Requests <- Mixed
  Problems <- Three
  ProblemRoles <- ThreeRoles
  HeldRoles = {"everyone", "editor"}
  InitialProblems = {129, 130}
  Nodes = {n1, n2}
  MaxSize = 1
  Word = 1024
  MaxDeletions = 1
  Throws = {"query"}
INVARIANTS CacheForEveryone OnlyVisible FlagMeansFilled 
PROPERTIES AllAnswered
