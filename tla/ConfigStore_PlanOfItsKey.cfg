SPECIFICATION Spec
CONSTANTS
  Unchanged = Unchanged
  NoKey = NoKey
  Consoles = {c1}
  HandTexts <- MCHandTexts
  FirstTexts <- MCPlainTexts
  NewNames <- MCNewNames
  NewKeys <- MCNewKeys
  MaxActs = 2
  MaxClock = 2
INVARIANT
  PlanOfItsKey
CHECK_DEADLOCK FALSE
