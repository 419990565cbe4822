SPECIFICATION FairSpec
CONSTANTS
  t1 = t1
  t2 = t2
  Threads = {t1, t2}
  NoThread = NoThread
  NoRequest = NoRequest
  Malformed = Malformed
  Requests <- ApiRequests
  InitialRows <- Seed
  FirstNewId = 2
  Throws = {"statement"}
  MayLose = {}
  MaxArrivals = 4
  MayCrash = TRUE
  UniqueTitles = TRUE
INVARIANTS Isolated NoOrphans 
PROPERTIES StoreSpec GrantsAreCommitted AllAnswered
