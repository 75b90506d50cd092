SPECIFICATION FairSpec
CONSTANTS
  Requests = {r1, r2, r3}
  PoolSize = 1
  Permits = 2
  Submitted <- OneOfEachPath
  Threads <- FewOrManyThreads
INVARIANTS
  PermitsSound
  SlotServesOnce
  SlotsAccounted
  UnwatchedOnlyByOrder
PROPERTIES
  EveryCallEnds
