\* A check-status and a get-status while events appear and the configuration
\* comes and goes.
SPECIFICATION Spec
CONSTANTS
  p1 = p1
  None = None
  Garbled = Garbled
  Dotted = {}
  Process = {p1}
  Requests <- MCRequests
  TheHash <- MCHash
  Hashes <- MCHashes
  Published = {"READY", "ACTIVE", "ERROR"}
  Cause = {"c"}
  TipCount = 2
  MaxTime = 2
  MaxEvents = 3
INVARIANTS
  VerdictIsSupported
  VerdictMissesNothingEarlier
  TipsEndWithTheNewest
  ConfirmationIsTrue
  FailuresAreShown
PROPERTIES
  CommandsEnd
\* The clock has stopped and the commands have ended.
CHECK_DEADLOCK FALSE
