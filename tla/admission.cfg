CONSTANTS
  a = a
  b = b
  c = c
  d = d
  none = none
  agent1 = agent1
  agent2 = agent2
  noAgent = noAgent
  Name <- Names
  NoName = none
  Agents <- TwoAgents
  NoAgent = noAgent
  Requests <- AllRequests
  MaxSteps = 3
  MaxFaults = 1
  MaxEdits = 1
SPECIFICATION FairSpec
INVARIANT TypeOK
INVARIANT DetectCyclesExact
INVARIANT StoredIsSound
PROPERTY OnlyMissingAgentsBlock
PROPERTY DeletedGoesAway
CHECK_DEADLOCK FALSE
