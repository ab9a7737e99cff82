SPECIFICATION FairSpec
CONSTANTS
  None = None
  RouteAuto = RouteAuto
  RouteStop = RouteStop
  Tracks <- RingTracks
  Routes <- RingRoutes
  FromTrack <- RingFrom
  ToTrack <- RingTo
  FollowUp <- RingFollowUp
  Reduced <- RingReduced
  Stop <- RingStop
  Over <- RingOver
  Delayed = {"ab"}
  Wait <- RingWait
  Disturbances = {"timetable", "removal", "miss", "again", "lag"}
  MaxPlan = 1
  MaxReached = 3
INVARIANTS
  TypeOK
  RouteAheadHeld
  SecondPresent
  
PROPERTIES
  StopServed
