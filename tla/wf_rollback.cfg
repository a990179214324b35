CONSTANTS
  NumSteps = 2
  DependsOn <- Chain
  MaxRetries <- NoRetries
  Parallelism = 2
  FailureStrategy = "rollback"
  HasAgent <- AllSteps
  NeedsApproval <- NoSteps
  ConditionReads <- NoReads
  ConditionFails <- NoSteps
  AdmittedPhases <- AllPhases
  Events = {"cancel", "agentDeleted"}
  Overrulable = {1}
  MaxFaults = 1
SPECIFICATION FairSpec
INVARIANT DependencyOrder
INVARIANT OnlyDoneIsUndone
PROPERTY TerminalIsFinal
PROPERTY RollbackEnds
PROPERTY LifecycleSpec
