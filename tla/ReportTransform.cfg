\* Reports of up to three rows of which some are bad, with bad headers and none.
SPECIFICATION Spec
CONSTANTS
  NotFinite = NotFinite
  Cell <- MCCell
  Blank <- MCBlank
  Fold <- MCFold
  Date <- MCDate
  Long <- MCLong
  Double <- MCDouble
  Bool <- MCBool
  ModelOf <- MCModelOf
  Reports <- MCReports
  TargetListValues <- MCTargetLists
INVARIANTS
  OnlyTargetUsers
  OneFactPerGrain
  RejectedWhenUnacceptable
  FilesHoldTheReport
\* The outputs are prepared or the report is rejected.
CHECK_DEADLOCK FALSE
