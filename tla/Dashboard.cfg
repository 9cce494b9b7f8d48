SPECIFICATION DashboardSpec
CONSTANTS
  c1 = c1
  c2 = c2
  Chan <- Two
  MaxEvents = 2
  MaxTasks = 2
  MaxMishaps = 1
  Member = {m1}
  Caller = {q1}
  QTasks = 2
  MaxOrders = 1
  MaxTroubles = 2
  Miss = {a1, a2, a3}
  MaxFired = 2
  Retries = 1
  Pool = 1
  MaxTimeouts = 2
  MaxBreaks = 2
INVARIANTS DashboardTypeOK ChannelsAreTrue PauseKept MissesAreKept OneConnection DeliveredAsTried
PROPERTIES QueueIsTrue ReportsLikeAnOutbox EverythingSettles
CHECK_DEADLOCK FALSE
