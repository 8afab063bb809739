SPECIFICATION Spec
CONSTANTS
  p1 = p1
  p2 = p2
  d1 = d1
  t1 = t1
  ProvisionCall <- OneProvision
  TerminateCall <- NoTerminate
  Tenant <- OneTenant
  SchemaOf <- OneProvisionSchema
  MaxWorkers = 1
  AllowDev = FALSE
  Fragile <- AllFragile
  MaxRestarts = 0
INVARIANTS
  PrimaryStorageChecked
