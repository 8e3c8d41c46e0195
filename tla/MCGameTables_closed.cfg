SPECIFICATION Spec
CHECK_DEADLOCK FALSE
SYMMETRY Symmetric
CONSTANTS
  None = None
  Users = {u1, u2}
  SeatIds = {s1, s2, s3}
  Hands = {h1, h2}
  StartingCoins = 2
  MaxSeats = 2
  BuyIns = {2}
  Bets = {1}
  Faults <- Survivable
  MaxFaults = 0
INVARIANTS
  ClosedIsEmpty
