CONSTANTS
  BetOrder <- MCBetOrder
  Template <- MCTemplate
  FirstMode = "Main"
  Rules <- MCRules
  DslRules <- MCDslRules
  Brain <- MCBrain
  Points = {6, 8}
  Layouts <- MCLayouts
  Swings <- MCSwings
  StartBankroll = 20
  Demo = TRUE
  MaxEvents = 4
SPECIFICATION Spec
INVARIANTS CountersAgree PlanReached
PROPERTIES PointSeen DslPaced
CHECK_DEADLOCK FALSE
