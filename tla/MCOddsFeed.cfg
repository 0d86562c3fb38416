SPECIFICATION Spec
CONSTANTS
  None = None
  Calls = {c1, c2, c3, c4}
  Requests <- FeedRequests
  Outcomes = {1, 2}
  OutcomeIds = {1, 2, 9}
  Times = {1, 2}
  Prices = {1000, 1500, 2000}
  BatchSize = 2
  TTL = 1
  MaxClock = 1
  SeedSnapshots <- FeedSeed
SYMMETRY Symmetry
INVARIANTS TypeOK QueuedOutcomesExist TicksConserved Accounted LatestInStep
PROPERTIES TicksAtomically
