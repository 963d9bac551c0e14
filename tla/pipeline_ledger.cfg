SPECIFICATION MCFairSpec
CONSTANTS
  Sources = {s1}
  Cids = {c1, c2, c3}
  Bodies = {b1}
  NoCid = NoCid
  QueueMax = 2
  Quota = 2
  Tokens = 3
  RefillSeconds = 1
  MaxRejects = 2
  CoolDown = 1
  CanRaise = FALSE
  CanRefuse = TRUE
  CanFinish = FALSE
  MaxAnswers = 3
  MaxTime = 0
  MaxMarked = 1
PROPERTIES LedgerSpec AcceptedIsSettled
CHECK_DEADLOCK FALSE
