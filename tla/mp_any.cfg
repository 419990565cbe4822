SPECIFICATION Spec
CONSTANTS
  t1 = t1
  t2 = t2
  Threads = {t1, t2}
  NoThread = NoThread
  NoRequest = NoRequest
  Malformed = Malformed
  Requests <- AnyRequests
  InitialRows <- Seed
  FirstNewId = 2
  Throws = {"read"}
  MayLose = {"api"}
  MaxArrivals = 4
  MayCrash = FALSE
  UniqueTitles = TRUE
INVARIANTS TypeOK NoStrayWork
SYMMETRY Workers2
CHECK_DEADLOCK FALSE
