SPECIFICATION Spec
CONSTANTS
  c1 = c1
  Cpu = {c1, c2}
  BSP = c1
  Times <- MCTimes
  Modes <- MCModes
INVARIANTS
  TimeIsOne
