SPECIFICATION FeedSpec
CONSTANTS
  None = None
  x1 = x1
  x2 = x2
  Calls = {c1, c2}
  Users = {1}
  UserIds = {1, 9}
  Events = {"e1"}
  EventIds = {"e1", "e9"}
  Outcomes = {1, 2}
  OutcomeIds = {1, 2, 9}
  EventOf <- MCEventOf
  Sessions = {x1}
  OwnerOf <- MCOwnerOf
  k1 = k1
  k2 = k2
  Keys = {k1, k2}
  Purchases = {}
  Fee = 500
  Stakes = {5, 1015, 8000, 20000}
  Prices = {1500}
  Times = {0, 1}
  SeedSnapshots <- MCSeed
  MaxMoney = 1000
  Requests <- EdgeRequests
  MaxOddsAge = 0
  MaxAttempts = 1
  Flushers = {f1}
  BatchSize = 2
  Ticks <- FeedTicks
SYMMETRY Symmetry
INVARIANTS TypeOK
PROPERTIES BetsOnNewest LandsAsFeed
