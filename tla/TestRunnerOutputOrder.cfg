CONSTANTS
  NumFiles = 1
  Tests <- MCTestsPrint
  LoadErrors = {}
  Prints <- MCPrintsBoth
  Jobs = 1
  FailFast = 0
  Pipes <- MCPipes
  RunErrors = {}
SPECIFICATION Spec
INVARIANT OutputBeforeResult
CHECK_DEADLOCK FALSE
