SPECIFICATION FairSpec
CONSTANTS
  Locos = {l1}
  Tracks = {"a", "b"}
  Routes = {"out"}
  From <- ShuttleFrom
  To <- ShuttleTo
  Reporters = {}
  Clients = {c1}
  Debouncer = debouncer
  Commands = {"stopAllImmediately"}
  Overruns = FALSE
  FreeingTracks = {}
  Nobody = Nobody
PROPERTIES
  StopAllServed
CHECK_DEADLOCK FALSE
