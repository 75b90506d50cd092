SPECIFICATION FairSpec
CONSTANTS
  Calls = {c1, c2}
  Clients = {w1, w2}
  NoClient = NoClient
  Configured <- MCConfigured
  PoolCap = 2
  VFSCap = 1
  MaxFlips = 1
INVARIANTS
  NeverDrains
PROPERTIES
  EvictedNeverMultiplies
  OnlyWorkersBlock
  PoolRecovers
  ZombieUnlisted
