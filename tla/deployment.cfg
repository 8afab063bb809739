SPECIFICATION FairSpec
CONSTANTS
  MaxFaults = 2
  MaxOther = 1
  MaxPatches = 1
INVARIANTS
  TypeOK
  CompleteMeansReady
  EtcdFirst
PROPERTIES
  DeployRecovers
