SPECIFICATION FairSpec
CONSTANTS
  MaxActs = 1
  Runs = 2
  Policies <- TwoPolicies
  Commands <- RerunAlone
  MaxParallel = 1
INVARIANT RerunRuns
CHECK_DEADLOCK FALSE
