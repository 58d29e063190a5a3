CONSTANTS
  NumFiles = 3
  Tests <- MCTests
  LoadErrors = {3}
  Prints <- MCPrints
  Jobs = 2
  FailFast = 2
  Pipes <- MCPipes
  RunErrors <- MCRunErrors
SPECIFICATION Spec
INVARIANT TypeOK StartedTestsFinish
PROPERTY RunCompletes
CHECK_DEADLOCK FALSE
