SPECIFICATION FairSpec
CONSTANTS
  Cpu = {c1, c2}
  WORD = 16
  BLK_SIZE = 3
  NBLK = 2
  Addrs = {0, 1, 2, 3, 4, 5, 6, 9, 14}
  Counts = {0, 1, 2, 3, 4}
  DriverFails = TRUE
  Rooms = {2, 9, 18}
INVARIANTS
  CacheCoherent
  BlockReadsRight
PROPERTIES
  LockReleased
