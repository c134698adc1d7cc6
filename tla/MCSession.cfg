CONSTANTS
  r1 = r1  r2 = r2  c1 = c1  c1again = c1again  c2 = c2  d1 = d1  o1 = o1
  Requests = {r1, r2}
  Callers = {c1, c1again, c2}
  RequestOf <- MCRequestOf
  Deliveries = {d1}
  Others = {o1}
  Window = 3
  CacheSize = 1
  MaxFaults = 2
  MaxClears = 1
  MaxCrashes = 1
SPECIFICATION SessionSpec
CHECK_DEADLOCK FALSE
INVARIANTS ShownOnce AnsweredIsKept ClearHolds
PROPERTIES RepeatIsServed
