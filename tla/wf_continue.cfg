CONSTANTS
  NumSteps = 3
  DependsOn <- Join
  MaxRetries <- NoRetries
  Parallelism = 1
  FailureStrategy = "continueOnError"
  HasAgent = {1, 2}
  NeedsApproval <- MiddleStep
  ConditionReads <- LastReads
  ConditionFails <- NoSteps
  AdmittedPhases <- ShippedPhases
  Events = {"timeout", "approve", "deny", "reap"}
  Overrulable = {1}
  MaxFaults = 1
SPECIFICATION FairSpec
INVARIANT CountersTrue
PROPERTY CompletedOnce
PROPERTY Termination
