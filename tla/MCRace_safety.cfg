SPECIFICATION FairSpec
CONSTANTS
  ann = ann
  bob = bob
  None = None
  Users = {ann, bob}
  Races = {1, 2}
  Stakes = {1, 2}
  Slots = {0, 1}
  RaceXp = 1
  StartingCoins = 2
  LastJoin = 1
  MaxTime = 1
  MaxFailures = 2
  Sources <- MCSources
  DailyCap <- MCDailyCap
  DailyCoins <- MCDailyCoins
  TicksPerDay = 1
  DaysPerSeason = 10
  LastSeason = 0
  XpBase = 1
  XpStep = 0
  MaxLevel = 3
  RewardBase = 1
  RewardTier = 10
CHECK_DEADLOCK FALSE
INVARIANTS
  StakesAccounted
  MemoryMatchesRows
PROPERTIES
  RacesGoForward
  PeopleGetOut
