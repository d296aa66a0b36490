SPECIFICATION FairSpec
CONSTANTS
  c1 = c1
  c2 = c2
  Cpu = {c1, c2}
  BSP = c1
  Calls <- MCCalls
  Item <- MCItem
  MAX_INPUT = 1
PROPERTIES
  LogPromise
  AllPrinted
