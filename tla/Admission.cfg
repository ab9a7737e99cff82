SPECIFICATION Spec
CONSTANTS
  l1 = l1
  l2 = l2
  Locos = {l1, l2}
  None = None
  Operator = operator
  Tracks <- LineTracks
  Routes <- LineRoutes
  From <- LineFrom
  To <- LineTo
  FromOrientation <- LineFromOrientation
  ToOrientation <- LineToOrientation
  Group <- LineGroup
  Inverted <- LineInverted
  Turning = {"w", "m", "e"}
  ByHand = {"m", "w"}
  Counters = {"c"}
  MaxCount <- One
  Counts <- LineCounts
  StartAt <- BothStart
INVARIANTS
  TypeOK
  GroupAgrees
  TrainsAdmitted
PROPERTIES
  TrainsNotTurned
