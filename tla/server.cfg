SPECIFICATION FairSpec
CONSTANTS
  t1 = t1
  t2 = t2
  t3 = t3
  s1 = s1
  s2 = s2
  s3 = s3
  s4 = s4
  Threads = {t1, t2, t3}
  NoThread = NoThread
  Malformed = Malformed
  Requests = {s1, s2, s3, s4}
  NoRequest = NoRequest
  Unparsable = {s4}
  Chunks = {0, 2}
  Default <- DefaultFile
  Locals <- LocalFiles
  ColumnTypes <- Types
  Address <- PublicAddress
  MaxStarts = 2
INVARIANTS Ready SandboxAlone WholeOrNothing
PROPERTIES AllAnswered
CHECK_DEADLOCK FALSE
