SPECIFICATION MCSpec
CONSTANTS
  Sources = {s1, s2}
  Cids = {c1, c2, c3}
  Bodies = {b1}
  QueueMax = 2
  Quota = 1
  Tokens = 1
  RefillSeconds = 2
  MaxRejects = 2
  CoolDown = 2
  MaxTime = 3
  MaxMarked = 1
  MaxOps = 5
SYMMETRY Symmetry
INVARIANTS
  CountsMatchQueue
  LimitsHeld
  HandedOverInOrder
  BurstBound
  TripNeedsStreak
  AcceptedAtMostOnce
PROPERTIES NothingAcceptedWhileTripped
CHECK_DEADLOCK FALSE
