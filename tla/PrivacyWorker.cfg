\* The deployed shape: one worker, two overlapping deletions and an opt-out behind LIMIT 2.
CONSTANTS
  Workers = {w1}
  Requests = {1, 2, 3}
  OptOuts = {3}
  Items = {"x", "y"}
  Tables = {"stream", "ledger"}
  RequestedAt <- MCRequestedAt
  ScopeOf <- MCScopeOf
  TablesOf <- MCTablesOf
  Limit = 2
  MaxAttempts = 2
  MaxFaults = 2
  MaxClaims = 5
  NoRequest = NoRequest
SPECIFICATION FairSpec
INVARIANTS CompletedIsErased Inv
PROPERTY SettledIsFinal KeepsErasurePromise EveryRequestSettles
