SPECIFICATION FairSpec
CONSTANTS
  p1 = p1
  d1 = d1
  s1 = s1
  ProvisionCall <- Provisions
  TerminateCall <- Terminates
  StatusCall <- Statuses
  AllowDev = FALSE
INVARIANTS
  TypeOK
  ConfiguredNeverRefused
  FirstUseDecides
  StubAlwaysThere
PROPERTIES
  PublisherRecovers
