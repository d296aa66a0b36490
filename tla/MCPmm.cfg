SPECIFICATION FairSpec
CONSTANTS
  MemMaps <- MCMemMaps
  MEML_MAX_ENTS = 2
  MIN_ENT_PAGES = 3
  Cpu = {c1, c2}
  c1 = c1
  BSP = c1
  PAGE_STK_CAP = 2
  MAX_DRIFT = 1
INVARIANTS
  TypeOK
  NoDoubleUse
  Conservation
  HintSound
  NullOnlyWhenExhausted
  GrantsUsable
PROPERTIES
  LockReleased
