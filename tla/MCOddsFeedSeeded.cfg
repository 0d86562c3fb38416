SPECIFICATION Spec
CONSTANTS
  None = None
  Calls = {c1, c2}
  Requests <- SeedRequests
  Outcomes = {1}
  OutcomeIds = {1}
  Times = {1, 2}
  Prices = {1500, 2000}
  BatchSize = 1
  TTL = 1
  MaxClock = 0
  SeedSnapshots <- LateSeed
SYMMETRY Symmetry
INVARIANTS LatestIsNewest
