\* A create with every kind of input, beside a lookup, a listing or a batch.
SPECIFICATION Spec
CONSTANTS
  c1 = c1
  c2 = c2
  None = None
  Dotted = {"p.K"}
  Call = {c1, c2}
  Requests <- MCRequests
  AwsRegion = "r1"
  AwsDefaultRegion = "r2"
  Foreign <- MCForeign
  MaxArns = 2
  LocalErrors = {"NoCredentialsError"}
  MaxOthers = 1
  MaxAttempts = 2
INVARIANTS
  NothingUnbindableStored
  SuccessWasApplied
  LookupFindsWhatWasCreated
  GetAgreesWithCreate
  ListingWithoutGuidanceIsComplete
\* Both calls have ended.
CHECK_DEADLOCK FALSE
