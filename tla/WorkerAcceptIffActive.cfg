\* The listener always binds here: the violation does not need another
\* process to take the port.
CONSTANTS
  MaxGen = 2
  MaxInst = 3
  MaxConn = 1
  NoInst = NoInst
  BindCanFail = FALSE
  GatewayArgvs <- MCGatewayArgvs
  Projects = {"/t/a/main.ts", "https://x/m.ts", "npm:pkg"}
  Resolve <- MCResolve
  Cwds <- MCCwds
  ConfigDirs <- MCConfigDirs
SPECIFICATION Spec
INVARIANT AcceptIffActive
CHECK_DEADLOCK FALSE
