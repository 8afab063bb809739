SPECIFICATION FairSpec
CONSTANTS
  p1 = p1
  t1 = t1
  server = server
  simulator = simulator
  ProvisionCall <- NoProvision
  TerminateCall <- NoTerminate
  Tenant <- Tenants
  SchemaOf <- NoSchemas
  MaxWorkers = 1
  AllowDev = FALSE
  Consumer <- Consumers
  Simulator <- Simulators
  Event <- Recommendations
  MaxEvents = 1
  Candidate <- BothPods
  NodeCpu = 2000
  NodeMemory = 2048
  MaxFailures = 2
PROPERTIES
  RolloutCompletes
CHECK_DEADLOCK FALSE
