SPECIFICATION Spec
CONSTANTS
  None = None
  Calls = {c1, c2, c3, c4}
  Requests <- CancelRequests
  Outcomes = {1, 2}
  OutcomeIds = {1, 2}
  Times = {1}
  Prices = {1500}
  BatchSize = 2
  TTL = 1
  MaxClock = 0
  SeedSnapshots <- NoSeed
SYMMETRY Symmetry
INVARIANTS LostOnlyByCrash
