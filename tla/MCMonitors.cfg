SPECIFICATION FairSpec
CONSTANTS
  POLL_BASE = 2
  POLL_MAX = 5
  POLL_BACKOFF_MAX = 3
  SPARKLINE_SAMPLES = 3
  MaxSessions = 3
INVARIANTS
  CountdownTracksRetry
  VitalsOfRun
PROPERTIES
  DotSettles
