SPECIFICATION Spec
CONSTANTS
  Cpu = {c1, c2}
  c1 = c1
  BSP = c1
  MAX_BLKDEV_CNT = 2
  BLKDEV_MAX_PARTS = 2
  WORD = 16
  Lbas = {0, 1, 15}
  Counts = {1, 2}
  Probed <- MCProbed
  TableOf <- MCTables
  StackTables <- MCStackTables
INVARIANTS
  DriverExclusive
  Contained
  PartsMatchTable
