SPECIFICATION MCFairSpec
CONSTANTS
  Callers = {http}
  RunIds = {r1, r2}
  MaxLaunches = 2
  Reuse = FALSE
  Preload = TRUE
  HistoryMax = 2
  QueueMax = 2
  MaxSids = 1
  MaxTicks = 1
  NoRun = NoRun
INVARIANTS StopReachesRunner NothingBetween StartSeenBeforeEnd
PROPERTIES EndAnnounced
