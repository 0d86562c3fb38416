SPECIFICATION PooledSpec
CONSTANTS
  None = None
  Main = Main
  Calls = {c1, c2, c3}
  Requests <- PingRequests
  Events = {"e1", "e2"}
  Sessions = {"x1", "x3"}
  SessionIds = {"x1", "x3", "x9"}
  EventOf <- MCEventOf
  Sizes <- MCSizes
SYMMETRY Symmetry
INVARIANTS TypeOK PingsConserved CountsDiffer PoolsOK NoCircle RedisBounded
