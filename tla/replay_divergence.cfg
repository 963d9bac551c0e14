SPECIFICATION MCSpec
CONSTANTS
  Sources = {s1}
  Cids = {c1, c2, c3}
  Bodies = {b1, b2}
  QueueMax = 1
  Quota = 1
  Tokens = 3
  RefillSeconds = 1
  MaxRejects = 2
  CoolDown = 1
  MaxRolls = 2
  TimingFails = FALSE
  MaxSent = 3
  MaxHands = 2
SYMMETRY Symmetry
INVARIANTS ReplayMatchesLive
CHECK_DEADLOCK FALSE
