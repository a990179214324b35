CONSTANTS
  NoAgent = noAgent
  Webhook = TRUE
  MaxUid = 2
  MaxCost = 2
  MaxFaults = 1
  MaxEdits = 1
  Specs <- LimitOne
  Changes <- LimitTwo
  Resources <- TwoResources
SPECIFICATION FairSpec
INVARIANT TypeOK
INVARIANT ReadyHasAccess
PROPERTY CostNeverLost
PROPERTY ServiceAccountHeals
PROPERTY OverLimitReported
CHECK_DEADLOCK FALSE
