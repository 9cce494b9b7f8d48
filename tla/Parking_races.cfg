SPECIFICATION Spec
CONSTANTS
  c1 = c1
  c2 = c2
  Call <- Two
  NoCall = NoCall
  MinSlot = 1
  MaxSlot = 2
  Budget <- OneMishap
SYMMETRY Symmetry
INVARIANTS TypeOK SharedOnlyIfLost OneSlotPerCall SweepTakesOwnSlot
CHECK_DEADLOCK FALSE
