CONSTANTS
  TotalClusters = 6
  Bpc = 2
  FatPerSector = 4
  NumFats = 2
  RootEntries = 2
  PathMaxDepth = 16
  Chunk = 2
  Names <- MCNames
  To83 <- MCTo83
  Shown <- MCShown
  Paths <- MCPaths
  DirPaths <- MCDirPaths
  Images <- MCImages
  Fds = {f1, f2}
  Lens = {1, 3}
  MaxCalls = 2
  MaxFaults = 1
SPECIFICATION Spec
SYMMETRY Symm
CONSTRAINT NotTorn
INVARIANTS NoCrossLink CrashSafe ReadSeesFile TreeSound WriteLands OthersUntouched
CHECK_DEADLOCK FALSE
