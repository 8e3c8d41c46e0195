SPECIFICATION FairSpec
CONSTANTS
  None = None
  Users = {u1}
  Rounds = {r1, r2}
  StartingCoins = 2
  Amounts = {2}
  Autos = {0, 150}
  Crashes = {100, 200}
  MsTo <- Flight
  EarlyBy = 1
  MaxQueue = 1
  MaxTime = 2
  Faults <- Survivable
  MaxFaults = 1
INVARIANTS
  AutoHonored
  OneRound
PROPERTIES
  RoundsEnd
