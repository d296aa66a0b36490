SPECIFICATION FairSpec
CONSTANTS
  Cpu = {c1, c2}
  b1 = b1
  b2 = b2
  Bus = {b1, b2}
  Attached <- Devices
  Lba48 <- Devices48
  MAX_BUSES = 1
  MAX_SECTORS = 3
  LBA_LIMIT = 3
  Lbas = {1, 2}
  Counts = {0, 1, 2, 3, 4}
INVARIANTS
  CacheHonest
  ReadsReachDevice
  SectorIsRight
  TransferComplete
PROPERTIES
  LockReleased
