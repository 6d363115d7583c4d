SPECIFICATION Spec
CONSTANTS
  e1 = e1
  e1again = e1again
  e2 = e2
  bad = bad
  w1 = w1
  w2 = w2
  Messages = {e1, e1again, bad}
  Keys = {"order-1", "order-2"}
  KeyOf <- MCKeyOf
  Rejected = "rejected"
  Workers = {w1, w2}
  Durable = {e1}
  IndexAtStart = TRUE
  FaultsOn = {"crash", "stop"}
  MaxFaults = 1
INVARIANTS
  AckedOnlyAfterPersist
PROPERTIES
  ImplementsPromise
SYMMETRY WorkersAlike
CHECK_DEADLOCK FALSE
