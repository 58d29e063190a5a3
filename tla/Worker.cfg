\* Two workers (start, exit, start again), two runtimes (a stack of two, or
\* a production runtime beside a development one), one forwarded
\* connection.  The bind may fail: another process can take the port after
\* is_free.
CONSTANTS
  MaxGen = 2
  MaxInst = 2
  MaxConn = 1
  NoInst = NoInst
  BindCanFail = TRUE
  GatewayArgvs <- MCGatewayArgvs
  Projects = {"/t/a/main.ts", "https://x/m.ts", "npm:pkg"}
  Resolve <- MCResolve
  Cwds <- MCCwds
  ConfigDirs <- MCConfigDirs
SPECIFICATION Spec
INVARIANT TypeOK NoOrphanRuntime
\* The started runtimes' command line and config file.
INVARIANT LaunchFlagsRunProject DiscoverFindsNearestConfig
\* A tenant with every bound used up is quiescent: the gateway waits for
\* requests, which is not a deadlock.
CHECK_DEADLOCK FALSE
