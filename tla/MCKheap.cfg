SPECIFICATION FairSpec
CONSTANTS
  Cpu = {c1, c2}
  c1 = c1
  BSP = c1
  Sizes <- MCSizes
  PAGE_SIZE = 64
  KH_START = 256
  KH_MAX_NPAGES = 4
  WORD = 65536
INVARIANTS
  TypeOK
  NoOverlap
PROPERTIES
  FullMeansFull
  HeapPromise
  LockReleased
