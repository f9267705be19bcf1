SPECIFICATION Spec
CONSTANTS
  o = o
  a = a
  Writers = {"flusher", "main", "console"}
  Docs <- MCDocs
  NoDoc = NoDoc
  Torn = Torn
  Requests <- MCRequests
  Days <- MCDays
  DayOf <- MCDayOf
  AllowanceOf <- MCAllowanceOf
  Metered <- MCRequests
  OldRequests <- MCOldRequests
  OldFile <- MCOldFile
  MaxStarts = 2
  MaxWriting = 2
INVARIANTS
  SamplesWereCounted
  NothingDoubled
  ResetSticks
  QuietMeansSaved
PROPERTIES
  FileNeverGoesBack
CHECK_DEADLOCK FALSE
