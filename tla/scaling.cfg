SPECIFICATION Spec
CONSTANTS
  server = server
  simulator = simulator
  Consumer <- TwoConsumers
  Simulator <- OneSimulator
  Event <- AnyEvent
  MaxEvents = 2
  MaxRestarts = 1
  MaxRedeploys = 1
INVARIANTS
  TypeOK
  OutcomeHolds
  ResourcesBounded
  NoMixedResources
  PatchesCounted
CHECK_DEADLOCK FALSE
