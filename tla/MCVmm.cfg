SPECIFICATION VmmSpec
CONSTANTS
  RADIX <- MCRadix
  Frame = {0,1,2,3,4,5,6,7,8,9,10,11,12,13,14,15,16}
  LowPages = 2
  Usable <- MCUsable
  Frees <- MCFrees
  KernelMap <- MCKernelMap
  KStkVaddrs <- MCKStk
  CurVaddrs = {20,21}
  Grants <- HighestFirst
INVARIANTS
  MapHonest
  TablesReachable
  TlbCoherent
PROPERTIES
  WalkerSafe
