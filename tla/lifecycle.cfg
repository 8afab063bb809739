SPECIFICATION Spec
CONSTANTS
  p1 = p1
  p2 = p2
  d1 = d1
  t1 = t1
  ProvisionCall <- OneTenantProvisions
  TerminateCall <- OneTenantTerminates
  Tenant <- OneTenant
  SchemaOf <- OneTenantSchema
  MaxWorkers = 2
  AllowDev = TRUE
  Fragile <- OnlyPrimaryFragile
  MaxRestarts = 1
INVARIANTS
  TypeOK
  CreateNeedsHealthyReads
  SettledAnswerHolds
  FailureLabelsTruthful
  CountersMatchAnswers
PROPERTIES
  ImplementsService
