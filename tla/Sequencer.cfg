\* Events with sequencers of different lengths, letter cases and leading zeros.
SPECIFICATION Spec
CONSTANTS
  None = None
  Text <- MCText
  MaxRecorded = 3
INVARIANTS
  NewestUnderComparison
  EventsFollowTheirNumbers
PROPERTIES
  TextsImplementEventOrder
