SPECIFICATION Spec
CONSTANTS
  Locos = {l1, l2}
  None = None
  Operator = operator
  RouteAuto = RouteAuto
  RouteStop = RouteStop
  Tracks <- JunctionTracks
  Elements = {"w"}
  Routes <- JunctionRoutes
  Signals = {}
  TrackSignals <- JunctionTrackSignals
  FromTrack <- JunctionFrom
  ToTrack <- JunctionTo
  Parts <- JunctionParts
  Setting <- JunctionSetting
  AtUnlock <- JunctionUnlock
  UnlockSetting <- JunctionUnlockSetting
  FollowUp <- JunctionFollowUp
  Positions <- TwoPositions
  StopAspect = "minus"
  FreeingTracks = {}
  Disturbances = {"timetable"}
  MaxPlan = 1
INVARIANTS
  RouteComplete
