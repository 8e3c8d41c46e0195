SPECIFICATION PageSpec
CONSTANTS
  ann = ann
  j1 = j1
  j2 = j2
  t1 = t1
  t2 = t2
  Users = {ann}
  Jobs = {j1, j2}
  Tabs = {t1, t2}
  Refs <- MCRefs
  Sources <- MCSources
  EventXp <- MCEventXp
  DailyCap <- MCDailyCap
  DailyCoins <- MCDailyCoins
  StartingCoins = 0
  TicksPerDay = 1
  DaysPerSeason = 1
  LastSeason = 1
  MaxWait = 1
  LastTick = 1
  XpBase = 2
  XpStep = 1
  MaxLevel = 3
  RewardBase = 1
  RewardTier = 2
CHECK_DEADLOCK FALSE
PROPERTIES
  PageLedgerSpec
