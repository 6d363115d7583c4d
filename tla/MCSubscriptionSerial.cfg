SPECIFICATION FairSpec
CONSTANTS
  r1 = r1
  r2 = r2
  r3 = r3
  r4 = r4
  t1 = t1
  t2 = t2
  u1 = u1
  u2 = u2
  long = long
  a = a
  b = b
  Requests = {r1, r2, r3}
  Tenants = {t1, t2}
  Urls = {u1, u2, long}
  Unreadable = {long}
  EventTypes = {a, b}
  Calls <- Everything
  Absent = Absent
  Omitted = Omitted
  Null = Null
  Invalid = Invalid
  Malformed = Malformed
  Serial = TRUE
  IndexAtStart = TRUE
  MaxFaults = 1
PROPERTIES
  ImplementsLifecycle
  EveryRequestAnswered
CHECK_DEADLOCK FALSE
