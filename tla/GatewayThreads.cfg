\* Two worker threads, two tenants, all four routes, three requests.
CONSTANTS
  t1 = t1  t2 = t2  p1 = p1  p2 = p2
  Threads = {t1, t2}
  Tenants = {p1, p2}
  Kinds = {"start", "stop", "exit", "forward"}
  NReq = 3
SYMMETRY GatewaySymmetry
SPECIFICATION Spec
INVARIANT TypeOK ForwardTargetsLiveListener
\* The gateway really stops: all requests served, or a thread blocked for
\* good (the deadlocks the gateway_table_await run shows).
CHECK_DEADLOCK FALSE
