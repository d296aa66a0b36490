SPECIFICATION OpenSpec
CONSTANTS
  Disks <- MCDisks
  Size = 8
  Root = 1
  DataStart = 5
  ClusterSize = 2
  Paths <- MCPaths
  PATH_BUF = 3
  Lower <- MCLower
  StackInfo <- MCStackInfo
INVARIANTS
  OpensTheFile
PROPERTIES
  OpenEnds
