SPECIFICATION Spec
CONSTANTS
  FAT_MAX_FILE_DESCS = 2
  MIN_CLUSTERS = 4
  DIRENT_SIZE = 1
  SECTOR = 2
  WORD = 1024
  NDRIVES = 2
  Tree <- MCTree
  Bpb <- MCBpb
  Format <- MCFormat
  BlkSize <- MCBlkSize
  DevType <- MCDevType
  Files <- MCFiles
  Tags = {t1, t2, t3}
  StackJunk = {0, 1}
  StackBpbs <- MCStackBpbs
  Flags <- MCFlags
  Offs <- MCOffs
  Counts = {1, 3}
SYMMETRY TagSymmetry
INVARIANTS
  NoDoubleMount
  AutoMountRight
  HandlesApart
  PosInFile
  
  SeekLands
