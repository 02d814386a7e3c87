\* Live notifications and backfills of one overwritten report.
SPECIFICATION Spec
CONSTANTS
  s1 = s1
  s2 = s2
  s3 = s3
  u1 = u1
  u2 = u2
  Nothing = Nothing
  Partial = Partial
  NoDate = NoDate
  NoToken = NoToken
  NoKey = NoKey
  Source = {s1}
  User = {u1, u2}
  TargetLists = {{u1}, {u1, u2}}
  NotCsv = {}
  Unnotified = {}
  PageSize = 1
  MaxRetryAttempts = 1
  MaxSent = 2
  History <- OverlapHistory
  Uploads <- OverlapUploads
  ObjectOrder <- OverlapOrder
  KeyDate <- OverlapDate
  Windows <- OverlapWindows
  Batches <- OverlapBatches
INVARIANTS
  ConvergedWhenQuiet
PROPERTIES
  CallsAreFactStoreCalls
\* The system stops when the bounded outside world has sent everything.
CHECK_DEADLOCK FALSE
