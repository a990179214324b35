SPECIFICATION FairSpec
CONSTANTS
  MaxActs = 1
  Runs = 2
  Policies <- TwoPolicies
  Commands <- BothCommands
  MaxParallel = 1
INVARIANT PolicyKept
CHECK_DEADLOCK FALSE
PROPERTIES EndedStaysEnded BlockedRunStarts NothingLeftBehind
