SPECIFICATION Spec
CONSTANTS
  None = None
  x1 = x1
  x2 = x2
  Calls = {c1, c2, c3}
  Users = {1, 2}
  UserIds = {1, 2}
  Events = {"e1"}
  EventIds = {"e1"}
  Outcomes = {1, 2}
  OutcomeIds = {1, 2}
  EventOf <- MCEventOf
  Sessions = {x1}
  OwnerOf <- MCOwnerOf
  k1 = k1
  k2 = k2
  Keys = {k1, k2}
  Purchases = {}
  Fee = 500
  Stakes = {1005}
  Prices = {1500}
  Times = {0, 1}
  SeedSnapshots <- MCSeed
  MaxMoney = 1000
  Requests <- EventRequests
  MaxOddsAge = 1
  MaxAttempts = 1
SYMMETRY Symmetry
INVARIANTS WorkIsCurrent ChargedOnce MarketLocksOrdered
PROPERTIES ActsAtomically
