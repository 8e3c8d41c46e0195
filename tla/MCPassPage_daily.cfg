SPECIFICATION PageSpec
CONSTANTS
  ann = ann
  j1 = j1
  j2 = j2
  t1 = t1
  t2 = t2
  Users = {ann}
  Jobs = {}
  Tabs = {t1}
  Refs <- MCRefs
  Sources <- MCSources
  EventXp <- MCEventXp
  DailyCap <- MCDailyCap
  DailyCoins <- MCTwoDays
  StartingCoins = 0
  TicksPerDay = 1
  DaysPerSeason = 4
  LastSeason = 0
  MaxWait = 0
  LastTick = 3
  XpBase = 2
  XpStep = 1
  MaxLevel = 3
  RewardBase = 1
  RewardTier = 2
CHECK_DEADLOCK FALSE
INVARIANTS
  TomorrowAsPromised
