SPECIFICATION FairSpec
CONSTANTS
  p1 = p1
  p2 = p2
  d1 = d1
  t1 = t1
  ProvisionCall <- OneTenantProvisions
  TerminateCall <- OneTenantTerminates
  Tenant <- OneTenant
  SchemaOf <- OneTenantSchema
  MaxWorkers = 1
  AllowDev = FALSE
  Fragile <- OnlyPrimaryFragile
  MaxRestarts = 1
PROPERTIES
  EveryCallAnswered
