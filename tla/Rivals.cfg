SPECIFICATION Spec
CONSTANTS
  Locos = {l1, l2}
  None = None
  Operator = operator
  RouteAuto = RouteAuto
  RouteStop = RouteStop
  Tracks <- JunctionTracks
  Elements = {"w"}
  Routes <- JunctionRoutes
  Signals = {}
  TrackSignals <- JunctionTrackSignals
  FromTrack <- JunctionFrom
  ToTrack <- JunctionTo
  Parts <- JunctionParts
  Setting <- JunctionSetting
  AtUnlock <- JunctionUnlock
  UnlockSetting <- JunctionUnlockSetting
  FollowUp <- JunctionFollowUp
  Positions <- TwoPositions
  StopAspect = "minus"
  FreeingTracks = {"a"}
  Disturbances = {"timetable", "refusal", "removal"}
  MaxPlan = 1
SYMMETRY Symmetry
INVARIANTS
  PendingUnlock
PROPERTIES
  OnlyOwnerReleases
