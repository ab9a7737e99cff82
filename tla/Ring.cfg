SPECIFICATION FairSpec
CONSTANTS
  Locos = {l1, l2}
  None = None
  Operator = operator
  RouteAuto = RouteAuto
  RouteStop = RouteStop
  Tracks <- RingTracks
  Elements <- RingElements
  Routes <- RingRoutes
  Signals <- RingSignals
  TrackSignals <- RingTrackSignals
  FromTrack <- RingFrom
  ToTrack <- RingTo
  Parts <- RingParts
  Setting <- RingSetting
  AtUnlock <- NoUnlock
  UnlockSetting <- NoUnlock
  FollowUp <- NoFollowUp
  Positions <- TwoPositions
  StopAspect = "minus"
  FreeingTracks = {}
  Disturbances = {"refusal"}
  MaxPlan = 1
INVARIANTS
  TypeOK
  RouteComplete
  SwitchesSet
  StartTrackHeld
  NothingLeaks
  SignalsProtect
PROPERTIES
  ImplementsRouteGrant
  PassedRouteReleased
