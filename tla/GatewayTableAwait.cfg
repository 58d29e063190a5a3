\* One worker thread, one tenant, start and stop routes only.
CONSTANTS
  t1 = t1  t2 = t2  p1 = p1  p2 = p2
  Threads = {t1}
  Tenants = {p1}
  Kinds = {"start", "stop"}
  NReq = 4
SPECIFICATION Spec
PROPERTY HandlersComplete
CHECK_DEADLOCK FALSE
