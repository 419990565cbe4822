SPECIFICATION Spec
CONSTANTS
  t1 = t1
  t2 = t2
  Threads = {t1, t2}
  NoThread = NoThread
  NoRequest = NoRequest
  Malformed = Malformed
  Requests <- ModifyRequests
  InitialRows <- Seed
  FirstNewId = 2
  Throws = {"statement"}
  MayLose = {"modify_api"}
  MaxArrivals = 5
  MayCrash = TRUE
  UniqueTitles = TRUE
INVARIANTS Isolated MutexReleased AnswersTruthful AnsweredIsStored RefusedLeavesNothing CasesFromOneRequest PartsOfOwnProblem FullScores
PROPERTIES StoreSpec ListedAreCommitted
SYMMETRY Workers2
