CONSTANTS
  search = search
  merge = merge
  lookup = lookup
  note = note
  m1 = m1
  m2 = m2
  Tools <- AllTools
  WriteTools <- Writing
  InProcess <- Inside
  Servers <- TwoServers
  Registered <- InOrder
  Offers <- Listed
  MaxToolCalls = 2
  CostLimit = 2
  Costs <- FreeOrPaid
  MaxRequests = 2
SPECIFICATION FairSpec
INVARIANT WithinGuardrails
INVARIANT AllAnswered
INVARIANT StopsAtCost
PROPERTY Ends
