SPECIFICATION FairSpec
CONSTANTS
  Locos = {l1}
  Clients = {c1, c2}
  Commands = {"start", "startAll", "stop", "stopAll", "timetable", "place", "remove"}
  None = None
INVARIANTS
  TypeOK
  ThreadOwned
PROPERTIES
  StopAllReturns
CHECK_DEADLOCK FALSE
