CONSTANTS
  NumFiles = 2
  Tests <- MCTestsFailFirst
  LoadErrors = {}
  Prints = {}
  Jobs = 1
  FailFast = 1
  Pipes <- MCPipes
  RunErrors = {}
SPECIFICATION Spec
PROPERTY FailFastStopsRun
CHECK_DEADLOCK FALSE
