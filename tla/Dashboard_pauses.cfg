SPECIFICATION QueuesOnlySpec
CONSTANTS
  c1 = c1
  c2 = c2
  Chan <- Two
  MaxEvents = 0
  MaxTasks = 1
  MaxMishaps = 0
  Member = {m1}
  Caller = {q1}
  QTasks = 2
  MaxOrders = 1
  MaxTroubles = 2
  Miss = {a1}
  MaxFired = 2
  Retries = 1
  Pool = 1
  MaxTimeouts = 2
  MaxBreaks = 0
INVARIANTS PausesSurviveRestart
CHECK_DEADLOCK FALSE
