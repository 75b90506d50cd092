SPECIFICATION VfsSpec
CONSTANTS
  Components <- MCComponents
  GuestPaths <- MCGuestPaths
  OpenModes <- MCOpenModes
  IovLists <- MCIovLists
  Offsets <- MCOffsets
  CodeSizes = {1, 7}
  MAX_FDS = 2
  WRITE_QUOTA_BYTES = 4
  StdoutCap = 2
  StderrCap = 1
  AllPaths <- MCAllPaths
  MaxOpens = 3
  MaxBytes = 4
  MaxPos = 2
INVARIANTS
  CanonicaliseCorrect
  DescriptorsSound
  FilesAreTheirWrites
  OutputIsNewest
PROPERTIES
  AppendKeeps
