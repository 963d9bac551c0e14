SPECIFICATION MCSpec
CONSTANTS
  Sources = {s1}
  Cids = {c1, c2, c3}
  Bodies = {b1, b2}
  NoCid = NoCid
  QueueMax = 2
  Quota = 2
  Tokens = 3
  RefillSeconds = 1
  MaxRejects = 2
  CoolDown = 1
  CanRaise = TRUE
  CanRefuse = TRUE
  CanFinish = TRUE
  MaxAnswers = 3
  MaxTime = 1
  MaxMarked = 0
SYMMETRY Symmetry
INVARIANTS   TapeCitesJournal AppliedOnce StatsMatchTape
CHECK_DEADLOCK FALSE
