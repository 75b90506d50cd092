SPECIFICATION FairSpec
CONSTANTS
  ChanCap = 2
  MaxSent = 4
  MaxFailures = 2
  MaxClock = 1
INVARIANTS
  SnapshotsAccounted
  ReadsMoveForward
PROPERTIES
  RefinesDurableStore
  EventuallySettled
