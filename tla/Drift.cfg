SPECIFICATION Spec
CONSTANTS
  l1 = l1
  l2 = l2
  Locos = {l1}
  None = None
  Operator = operator
  Tracks <- LineTracks
  Routes <- LineRoutes
  From <- LineFrom
  To <- LineTo
  FromOrientation <- LineFromOrientation
  ToOrientation <- LineToOrientation
  Group <- LineGroup
  Inverted <- LineInverted
  Turning = {"w", "m", "e"}
  ByHand = {}
  Counters = {"c"}
  MaxCount <- Two
  Counts <- LineCounts
  StartAt <- WestStart
INVARIANTS
  CountersReturn
