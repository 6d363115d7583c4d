SPECIFICATION ListSpec
CONSTANTS
  r1 = r1
  r2 = r2
  r3 = r3
  r4 = r4
  t1 = t1
  t2 = t2
  u1 = u1
  u2 = u2
  u3 = u3
  long = long
  a = a
  Requests = {r1, r2, r3}
  Tenants = {t1, t2}
  Urls = {u1, u2, u3, long}
  Unreadable = {long}
  EventTypes = {a}
  Calls <- Writes
  Absent = Absent
  Omitted = Omitted
  Null = Null
  Invalid = Invalid
  Malformed = Malformed
  Serial = TRUE
  IndexAtStart = TRUE
  MaxFaults = 0
  Queries <- Lists
  DefaultPageSize = 2
  UrlRank <- Alphabetical
INVARIANTS
  OtherTenantsInvisible
  PageFitsTotal
  MissesAndRepeats
SYMMETRY RequestsAlike
CHECK_DEADLOCK FALSE
