SPECIFICATION FairSpec
CONSTANTS
  MaxLines = 4
  Unit = 4
  Points <- MCPoints
  MaxPoints = 3
  PAGE_SIZE = 2
  Files <- MCFiles
  Ext <- MCExt
  Blank <- MCBlank
  Snapshots <- MCSnapshots
  RowCount <- MCRowCount
  MaxSessions = 2
  MaxLoads = 2
  Columns = 2
  NoFile = NoFile
INVARIANTS
  ContentOfFile
  GridConsistent
  ViewersFaithful
PROPERTIES
  LoadingEnds
