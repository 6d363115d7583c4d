SPECIFICATION Spec
CONSTANTS
  r1 = r1
  r2 = r2
  r3 = r3
  r4 = r4
  t1 = t1
  t2 = t2
  u1 = u1
  u2 = u2
  long = long
  a = a
  b = b
  Requests = {r1, r2, r3, r4}
  Tenants = {t1, t2}
  Urls = {u1, u2, long}
  Unreadable = {long}
  EventTypes = {a, b}
  Calls <- Racing
  Absent = Absent
  Omitted = Omitted
  Null = Null
  Invalid = Invalid
  Malformed = Malformed
  Serial = FALSE
  IndexAtStart = FALSE
  MaxFaults = 1
INVARIANTS
  TypeOK
  TargetsUnique
  RefusedChangesNothing
  ConfirmedIsDone
  DeleteFindsItsOwn
PROPERTIES
  FreshSaveIsLegal
  InternalErrorsExplained
SYMMETRY RequestsAlike
CHECK_DEADLOCK FALSE
