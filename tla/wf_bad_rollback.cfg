CONSTANTS
  NumSteps = 2
  DependsOn <- Chain
  MaxRetries <- NoRetries
  Parallelism = 2
  FailureStrategy = "rollback"
  HasAgent <- AllSteps
  NeedsApproval <- NoSteps
  ConditionReads <- NoReads
  ConditionFails <- NoSteps
  AdmittedPhases <- ShippedPhases
  Events = {"timeout"}
  Overrulable = {}
  MaxFaults = 0
SPECIFICATION FairSpec
PROPERTY RollbackEntered
