\* Three ports above the base: two tenants can start, exit and restart until
\* the range is used up.
CONSTANTS
  Tenants = {t1, t2}
  PortBits = 3
  BasePort = 4
  NoPort = NoPort
  NoTenant = NoTenant
  ExternalChurn = TRUE
SPECIFICATION Spec
SYMMETRY TenantSymmetry
INVARIANT TypeOK UniquePorts
PROPERTY FreshPort ImplementsPortAssignment
