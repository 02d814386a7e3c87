\* A backfill over several pages after a Target List change.
SPECIFICATION FairSpec
CONSTANTS
  s1 = s1
  s2 = s2
  s3 = s3
  u1 = u1
  u2 = u2
  Nothing = Nothing
  Partial = Partial
  NoDate = NoDate
  NoToken = NoToken
  NoKey = NoKey
  Source = {s1, s2, s3}
  User = {u1, u2}
  TargetLists = {{u1}, {u1, u2}}
  NotCsv = {}
  Unnotified = {s3}
  PageSize = 2
  MaxRetryAttempts = 1
  MaxSent = 1
  History <- PagesHistory
  Uploads <- PagesUploads
  ObjectOrder <- PagesOrder
  KeyDate <- PagesDate
  Windows <- PagesWindows
  Batches = {}
INVARIANTS
  BackfillAppliesTargetList
PROPERTIES
  EventsDoNotBreed
  EventuallyQuiet
\* The system stops when the bounded outside world has sent everything.
CHECK_DEADLOCK FALSE
