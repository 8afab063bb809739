SPECIFICATION Spec
CONSTANTS
  MaxWal = 2
INVARIANTS
  TypeOK
  LeaderWitnessed
  StableClusterReported
  LagWithinCall
