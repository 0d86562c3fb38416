SPECIFICATION FairSpec
CONSTANTS
  None = None
  x1 = x1
  x2 = x2
  Calls = {c1, c2, c3}
  Users = {1}
  UserIds = {1}
  Events = {"e1"}
  EventIds = {"e1"}
  Outcomes = {1}
  OutcomeIds = {1}
  EventOf <- MCEventOf
  Sessions = {}
  OwnerOf <- MCOwnerOf
  k1 = k1
  k2 = k2
  Keys = {k1, k2}
  Purchases = {}
  Fee = 500
  Stakes = {1005}
  Prices = {2005}
  Times = {0}
  SeedSnapshots <- MCSeed
  MaxMoney = 1000
  Requests <- AnswerRequests
  MaxOddsAge = 0
  MaxAttempts = 2
PROPERTIES EveryCallAnswers
