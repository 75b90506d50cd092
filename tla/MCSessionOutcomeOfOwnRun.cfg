SPECIFICATION Spec
CONSTANTS
  MaxRuns = 2
  MaxCompiles = 1
  MaxChunks = 2
  Results <- MCResults
  PerFrame = 1
INVARIANT
  OutcomeOfOwnRun
