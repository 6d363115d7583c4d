SPECIFICATION FairSpec
CONSTANTS
  p1 = p1
  p2 = p2
  p3 = p3
  tenant = "t"
  event = "e"
  uuid = "u"
  i1 = "i1"
  i2 = "i2"
  i3 = "i3"
  i4 = "i4"
  Names = {"t", "e", "i1", "i2", "i3"}
  Uuids = {"u", "w"}
  Rejected = "rejected"
  Posts = {p1, p2}
  Bodies <- MCBodies
  EventIds = {"i1", "i2", "i3"}
  FreshUuid = "u"
  WorkerUuid = "w"
  NoMessage = NoMessage
  MaxFaults = 2
INVARIANTS
  TypeOK
  OneRecordPerPost
  CreatedMeansPublished
  RecordsComplete
  DiscardedForBlanks
PROPERTIES
  EveryPostSettles
CHECK_DEADLOCK FALSE
