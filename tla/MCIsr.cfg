SPECIFICATION IsrSpec
CONSTANTS
  Vectors <- MCVectors
  Stray <- MCStray
  Lines = {0, 7}
  Selectors = {0, 32, 5}
INVARIANTS
  ArgsRight
PROPERTIES
  Transparent
