SPECIFICATION Spec
CONSTANTS
  ChanCap = 2
  MaxSent = 3
  MaxFailures = 1
  MaxClock = 1
INVARIANTS
  FlushLosesNothing
