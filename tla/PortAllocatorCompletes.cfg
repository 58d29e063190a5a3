\* One tenant that starts, exits and starts again.  The ports other
\* processes hold are fixed (any initial set): one held right after the
\* cursor makes the probe loop spin, none held lets the exit/start cycles
\* walk the cursor to the top of the range while the ports behind it are
\* free.  No symmetry: liveness is checked.
CONSTANTS
  Tenants = {t1}
  PortBits = 3
  BasePort = 4
  NoPort = NoPort
  NoTenant = NoTenant
  ExternalChurn = FALSE
SPECIFICATION Spec
PROPERTY AllocationCompletes
\* After a panic poisons the locks every handler fails: without churn
\* nothing moves any more, which is not what this run asks.
CHECK_DEADLOCK FALSE
