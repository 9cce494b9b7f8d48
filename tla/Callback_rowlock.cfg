SPECIFICATION Spec
CONSTANTS
  p1 = p1
  p2 = p2
  np = np
  Proc <- Two
  Parent <- p1
  NoProc <- np
  Row <- Rows
  Dst <- DistinctDst
  Context <- SameContext
  Joined <- OneService
  Prefix <- NamePrefix
  MaxCalls = 2
  MaxDials = 1
  MaxFaults = 0
  SlowCalls = FALSE
INVARIANTS OneClaimant
