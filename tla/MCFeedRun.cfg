SPECIFICATION FairSpec
CONSTANTS
  Workers = {w1, w2}
  BatchSize = 2
  MaxTicks = 2
  MaxClock = 1
INVARIANTS TypeOK Tallied Reconciles
PROPERTIES RunEnds
