SPECIFICATION ProcessesSpec
CONSTANTS
  p1 = p1
  p2 = p2
  np = np
  Proc <- Two
  Parent <- p1
  NoProc <- np
  Row <- ThreeRows
  Dst <- ThreeDst
  Context <- ThreeContexts
  Joined <- Services
  Prefix <- NamePrefix
  MaxCalls = 3
  MaxDials = 2
  MaxFaults = 1
  SlowCalls = FALSE
INVARIANTS TypeOK NoOrphanLock AnsweredIsReal UidOfSameNumber AnsweredCallNeverBusy
