SPECIFICATION Spec
CONSTANTS
  Locos = {l1}
  None = None
  Operator = operator
  RouteAuto = RouteAuto
  RouteStop = RouteStop
  Tracks <- LineTracks
  Elements = {"w"}
  Routes <- LineRoutes
  Signals = {}
  TrackSignals <- LineTrackSignals
  FromTrack <- LineFrom
  ToTrack <- LineTo
  Parts <- LineParts
  Setting <- LineSetting
  AtUnlock <- LineUnlock
  UnlockSetting <- LineUnlockSetting
  FollowUp <- LineFollowUp
  Positions <- TwoPositions
  StopAspect = "minus"
  FreeingTracks = {}
  Disturbances = {"refusal", "removal", "executeRoute", "releaseRoute",
                  "releaseItem", "throwElement", "foreign"}
  MaxPlan = 1
PROPERTIES
  UnlockedWhenFree
