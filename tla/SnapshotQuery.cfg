\* One search or sample while records become visible and the query ends in
\* every way, or never.
SPECIFICATION Spec
CONSTANTS
  None = None
  First = First
  Late = Late
  TooLate = TooLate
  Later = Later
  Other = Other
  Elsewhere = Elsewhere
  Null = Null
  True = True
  Garbled = Garbled
  NotANumber = NotANumber
  Second = 2
  MaxNap = 2
  LineNumber <- MCLineNumber
  TextOrder <- MCTextOrder
  Large <- MCLarge
  Log <- MCLog
  Requests <- MCRequests
  InitialFiles <- MCFiles
INVARIANTS
  ExitZeroIsTheAnswer
  NothingMissed
  ResultsFitTheRequest
  DataOnlyInPrivateFile
  SummaryShowsEveryLine
PROPERTIES
  CommandEnds
\* The command has ended, every record is visible.
CHECK_DEADLOCK FALSE
