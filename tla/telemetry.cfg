SPECIFICATION FairSpec
CONSTANTS
  Call = {c1, c2}
  MaxCycles = 2
  MaxChanges = 2
INVARIANTS
  TypeOK
  GaugesOfTwoCollections
  SnapshotsWhole
  HealthyWitnessed
PROPERTIES
  CollectingGoesOn
CHECK_DEADLOCK FALSE
