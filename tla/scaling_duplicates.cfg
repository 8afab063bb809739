SPECIFICATION Spec
CONSTANTS
  server = server
  simulator = simulator
  Consumer <- OneConsumer
  Simulator <- NoSimulator
  Event <- WellFormed
  MaxEvents = 2
  MaxRestarts = 0
  MaxRedeploys = 0
INVARIANTS
  SkipsDuplicates
CHECK_DEADLOCK FALSE
