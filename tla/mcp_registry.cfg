CONSTANTS
  s1 = s1
  s2 = s2
  u1 = u1
  r1 = r1
  r2 = r2
  Servers <- TwoServers
  Remotes <- OneRemote
  InitialEntries = {}
  InitialYAML = FALSE
  Readers <- TwoReaders
  MaxFaults = 1
  MaxEdits = 3
SPECIFICATION FairSpec
PROPERTY OnlyOwnEntry
PROPERTY NoneListedGone
PROPERTY Offered
