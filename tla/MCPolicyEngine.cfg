CONSTANTS
  division = division
  here = here
  there = there
  None = None
  Naive = Naive
  LocalInstant = 1
  Rule <- MCRule
  Context <- MCContext
  Attribute <- MCAttribute
  Value <- MCValue
  DefaultDecision = "allow"
  MaxRules = 3
  MaxEdits = 1
SPECIFICATION Spec
INVARIANTS
  TypeOK
  StrictestWins
  StandingRuleHolds
CHECK_DEADLOCK FALSE
