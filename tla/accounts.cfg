SPECIFICATION Spec
CONSTANTS
  Mentions <- MCMentions
  Amounts = {5}
  Totals = {4, 6, 7}
  Stacks <- MCStacks
  MaxEvents = 5
CHECK_DEADLOCK FALSE
INVARIANTS LedgerTrue IntentsPaired CountsAgree
