SPECIFICATION FairSpec
CONSTANTS
  p1 = p1
  p2 = p2
  np = np
  Proc <- One
  Parent <- p1
  NoProc <- np
  Row <- OneRow
  Dst <- DistinctDst
  Context <- SameContext
  Joined <- OneService
  Prefix <- NamePrefix
  MaxCalls = 3
  MaxDials = 2
  MaxFaults = 1
  SlowCalls = FALSE
PROPERTIES EveryRequestSettles
