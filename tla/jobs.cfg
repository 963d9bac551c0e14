SPECIFICATION Spec
CONSTANTS
  Files = {1, 2, 3}
  Job <- MCJob
  Keys = {"k1", "k2"}
  Posts = {"first", "again"}
  KeyOf <- MCKeyOf
  MaxInflight = 2
  MaxCrashes = 1
  Spoiled = FALSE
CHECK_DEADLOCK FALSE
INVARIANTS RunOnceACrash ReceiptsTrue  AnswersKnown
PROPERTIES JobsAnswered
