\* One worker: start_debugger, then a second production start.
CONSTANTS
  MaxGen = 1
  MaxInst = 2
  MaxConn = 0
  NoInst = NoInst
  BindCanFail = FALSE
  GatewayArgvs <- MCGatewayArgvs
  Projects = {"/t/a/main.ts", "https://x/m.ts", "npm:pkg"}
  Resolve <- MCResolve
  Cwds <- MCCwds
  ConfigDirs <- MCConfigDirs
SPECIFICATION Spec
INVARIANT InspectorExclusive
CHECK_DEADLOCK FALSE
