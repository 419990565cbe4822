SPECIFICATION Spec
CONSTANTS
  t1 = t1
  t2 = t2
  p1 = p1
  Threads = {t1, t2, p1}
  PanelThreads = {p1}
  NoThread = NoThread
  NoRequest = NoRequest
  Requests <- Mixed
  InitialUsers <- Seed
  UniqueEmails = TRUE
  IPs = {"home"}
  Emails = {"e1", "e2", "e3", "e4"}
  NoEmail = "none"
  MaxArrivals = 4
  MaxDeletions = 2
  Throws = {"roles"}
SYMMETRY WorkersAlike
INVARIANTS AccountKept PendingInDeletion
