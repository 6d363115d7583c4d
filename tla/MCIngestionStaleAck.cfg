SPECIFICATION Spec
CONSTANTS
  e1 = e1
  e1again = e1again
  e2 = e2
  bad = bad
  w1 = w1
  w2 = w2
  Messages = {e1, e2}
  Keys = {"order-1", "order-2"}
  KeyOf <- MCKeyOf
  Rejected = "rejected"
  Workers = {w1}
  Durable = {e1}
  IndexAtStart = TRUE
  FaultsOn = {"drop"}
  MaxFaults = 1
INVARIANTS
  AckedOnlyAfterPersist
CHECK_DEADLOCK FALSE
