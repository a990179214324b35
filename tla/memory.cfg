SPECIFICATION Spec
CONSTANTS
  Agent <- Agents
  AgentSpec <- Specs
  Legacy = {"scout"}
  Seen = {"planner", "coder"}
  Step <- Steps
  AgentOf <- StepAgents
  Fraction <- Fractions
  MaxEntries <- Caps
  DefaultEntries = 2
  Budget = 3
  Sizes = {2}
  MaxIds = 3
  MaxSeconds = 1
  MaxFaults = 1
INVARIANTS CapKept PoolsKeptApart BudgetKept ImportedOnce
PROPERTY OldestGo
