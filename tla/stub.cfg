SPECIFICATION Spec
CONSTANTS
  Boxes = {6}
  Numbers = {6, 7}
  Amounts = {3, 5}
  Start = 9
  LineMin = 2
  Policies <- MCPolicies
  Rules <- MCRules
  Limits = "cap"
  MaxCalls = 3
CHECK_DEADLOCK FALSE
INVARIANTS EffectsTellBankroll BooksMatch RulesPaced
