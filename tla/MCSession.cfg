SPECIFICATION FairSpec
CONSTANTS
  MaxRuns = 2
  MaxCompiles = 1
  MaxChunks = 2
  Results <- MCResults
  PerFrame = 1
INVARIANTS
  OutputInOrder
  AllOutputShown
  TruthfulSuccess
  NoFilesOfTrappedRun
PROPERTIES
  OutputKept
  FilesMoveForward
  RunEnds
