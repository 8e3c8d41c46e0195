SPECIFICATION Spec
CHECK_DEADLOCK FALSE
SYMMETRY Symmetric
CONSTANTS
  None = None
  Users = {u1, u2, u3}
  SeatIds = {s1, s2, s3, s4}
  Hands = {h1}
  StartingCoins = 2
  MaxSeats = 3
  BuyIns = {2}
  Bets = {1}
  Faults <- Survivable
  MaxFaults = 1
INVARIANTS
  ChipsConserved
  RowInsuresMemory
