SPECIFICATION Spec
CONSTANTS
  p1 = p1
  t1 = t1
  server = server
  simulator = simulator
  ProvisionCall <- Provisions
  TerminateCall <- NoTerminate
  Tenant <- Tenants
  SchemaOf <- Schemas
  MaxWorkers = 1
  AllowDev = FALSE
  Consumer <- Consumers
  Simulator <- Simulators
  Event <- Recommendations
  MaxEvents = 1
  Candidate <- NoCandidates
  NodeCpu = 2000
  NodeMemory = 2048
  MaxFailures = 1
INVARIANTS
  TypeOK
  RestartsExplained
PROPERTIES
  RefusedOnlyWhenDisturbed
CHECK_DEADLOCK FALSE
