\* Two requests of CloudFormation, each delivered up to three times, with every
\* call failing in every way.
SPECIFICATION Spec
CONSTANTS
  None = None
  first = first
  second = second
  incomplete = incomplete
  Version = {first, second, incomplete}
  Incomplete = {incomplete}
  Deployments <- MCDeployments
  MaxAttempts = 3
  MaxPolls = 1
INVARIANTS
  NoCredentialBehindSuccess
  SuccessIsConfigured
PROPERTIES
  HealthCheckEnds
\* The last request has been answered.
CHECK_DEADLOCK FALSE
