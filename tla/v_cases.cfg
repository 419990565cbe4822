SPECIFICATION Spec
CONSTANTS
  t1 = t1
  t2 = t2
  Threads = {t1, t2}
  NoThread = NoThread
  NoRequest = NoRequest
  Malformed = Malformed
  Requests <- BadDifficultyRequests
  InitialRows <- Seed
  FirstNewId = 2
  Throws = {}
  MayLose = {}
  MaxArrivals = 3
  MayCrash = FALSE
  UniqueTitles = TRUE
INVARIANTS CasesFromOneRequest
