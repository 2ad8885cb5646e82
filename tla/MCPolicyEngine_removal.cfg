CONSTANTS
  division = division
  here = here
  there = there
  None = None
  Naive = Naive
  LocalInstant = 1
  Rule <- PlainRule
  Context <- PlainContext
  Attribute <- MCAttribute
  Value <- MCValue
  DefaultDecision = "allow"
  MaxRules = 3
  MaxEdits = 1
SPECIFICATION Spec
INVARIANTS
  MatchingRulesRetainPrecedence
CHECK_DEADLOCK FALSE
