SPECIFICATION Spec
CONSTANTS
  NoPlan = NoPlan
  NoGrid = NoGrid
  NoView = NoView
  NoJob = NoJob
  g1 = g1
  g2 = g2
  a1 = a1
  a2 = a2
  b1 = b1
  Grids = {g1, g2}
  First = g1
  TakesOf <- MCTakesOf
  Price <- MCPrice
  StopAfter <- MCStopAfter
  Entry = 2
  Size = 3
  Marks = {1, 7}
  Stops = {1}
  UnknownTries = 1
  MaxQueue = 1
  MaxWire = 1
  MaxMoves = 2
  MaxFaults = 0
CHECK_DEADLOCK FALSE
INVARIANTS
  NewPlanIsChecked
