SPECIFICATION Spec
CONSTANTS
  None = None
  x1 = x1
  x2 = x2
  Calls = {c1, c2, c3, c4}
  Users = {1, 2}
  UserIds = {1, 2}
  Events = {"e1"}
  EventIds = {"e1"}
  Outcomes = {1}
  OutcomeIds = {1}
  EventOf <- MCEventOf
  Sessions = {}
  OwnerOf <- MCOwnerOf
  k1 = k1
  k2 = k2
  Keys <- MCKeys
  Purchases <- MCPurchases
  Fee = 500
  Stakes = {1005}
  Prices = {2005}
  Times = {0}
  SeedSnapshots <- MCSeed
  MaxMoney = 1000
  Requests <- MarketRequests
  MaxOddsAge = 1
  MaxAttempts = 1
SYMMETRY Symmetry
INVARIANTS LedgerBalanced BetsFollowMarket ChargedOnce DoneOnce

