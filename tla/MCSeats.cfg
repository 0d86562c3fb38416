SPECIFICATION Spec
CONSTANTS
  None = None
  Own = Own
  Calls = {c1, c2, c3}
  Requests <- SeatRequests
  Emails = {"u1", "u2", "u3", "ana", "ANA"}
  Canonical <- MCCanonical
  SeedUsers <- MCSeedUsers
  UserIds = {"u1", "u2", "u3", "u9"}
  Plans = {"basic", "standard", "free"}
  PlanIds = {"basic", "standard", "free", "none"}
  CapOf <- MCCapOf
  PriceOf <- MCPriceOf
  Events = {"e1"}
  EventIds = {"e1"}
  Keys = {"k1", "kb"}
  BetKeys = {"kb"}
  Months <- MCMonths
  LastDay = 1
  SeedSubs <- MCSeedSubs
  SeedSessions <- MCTwoOpen
  SessionIds = {"x1", "x2"}
SYMMETRY Symmetry
INVARIANTS TypeOK OneActiveSubscription PaidOnce BoughtOnce EmailsOnce SeatCap ClosedOnce OnlyBulksDeadlock
PROPERTIES SeatsAtomically
