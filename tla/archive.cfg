CONSTANTS
  NumSteps = 2
  DependsOn <- Chain
  MaxRetries <- OneRetry
  Parallelism = 1
  FailureStrategy = "failFast"
  HasAgent <- AllSteps
  NeedsApproval <- NoSteps
  ConditionReads <- NoReads
  ConditionFails <- NoSteps
  AdmittedPhases <- ShippedPhases
  Events = {"agentDeleted"}
  Overrulable = {}
  MaxFaults = 1
SPECIFICATION ArchiveSpec
INVARIANT ArchiveTypeOK
INVARIANT ArchiveIsTrue
INVARIANT NoOrphans
INVARIANT RetryBudget
