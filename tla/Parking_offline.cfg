SPECIFICATION Spec
CONSTANTS
  c1 = c1
  c2 = c2
  Call <- Two
  NoCall = NoCall
  MinSlot = 1
  MaxSlot = 2
  Budget <- OneOutage
PROPERTY OfflineSweepSparesLive
CHECK_DEADLOCK FALSE
