SPECIFICATION FairSpec
CONSTANTS
  Locos = {l1}
  Tracks = {"a", "b"}
  Routes = {"out"}
  From <- ShuttleFrom
  To <- ShuttleTo
  Reporters = {}
  Clients = {c1}
  Debouncer = debouncer
  Commands = {"remove", "place", "start", "release", "execute", "feedback"}
  Overruns = FALSE
  FreeingTracks = {}
  Nobody = Nobody
INVARIANTS
  TypeOK
  NoCircularWait

  
