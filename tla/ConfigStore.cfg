SPECIFICATION Spec
CONSTANTS
  Unchanged = Unchanged
  NoKey = NoKey
  Consoles = {c1}
  HandTexts <- MCHandTexts
  FirstTexts <- MCFirstTexts
  NewNames <- MCNewNames
  NewKeys <- MCNewKeys
  MaxActs = 2
  MaxClock = 2
INVARIANTS
  FileIsTruth
  ReplacedIsKept
  EditsAreLocal
  ExportReadsBack
CHECK_DEADLOCK FALSE
