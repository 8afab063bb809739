SPECIFICATION Spec
CONSTANTS
  MaxWal = 2
INVARIANTS
  LagWasReal
