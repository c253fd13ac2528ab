SPECIFICATION FairSpec
CONSTANTS
  Worker = {w1, w2, w3}
  Key = {k1}
  MaxAttempts = 2
  MaxFaults = 3
INVARIANTS CountersAreSound
PROPERTIES LockoutEnds
