SPECIFICATION Spec
CONSTANTS
  Locomotives <- TheLocomotives
  Units <- TheUnits
  Slaves <- TheSlaves
  Driven = {"u"}
  Callers = {c1, c2}
  Station = station
  Starters = {station}
  Speed = {0, 1}
  Stopped = 0
  Browsers = {b}
  Selectable = {"u"}
  MaxUpdates = 3
  MaxUpdateID = 5
  None = None
SYMMETRY Alike
INVARIANTS
  TypeOK
  InStep
  PageInStep
  UnitTogether
PROPERTIES
  InOrder
