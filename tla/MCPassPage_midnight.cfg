SPECIFICATION PageSpec
CONSTANTS
  ann = ann
  j1 = j1
  j2 = j2
  t1 = t1
  t2 = t2
  Users = {ann}
  Jobs = {}
  Tabs = {t1, t2}
  Refs <- MCRefs
  Sources <- MCSources
  EventXp <- MCEventXp
  DailyCap <- MCDailyCap
  DailyCoins <- MCDailyCoins
  StartingCoins = 0
  TicksPerDay = 1
  DaysPerSeason = 2
  LastSeason = 1
  MaxWait = 1
  LastTick = 2
  XpBase = 2
  XpStep = 0
  MaxLevel = 3
  RewardBase = 1
  RewardTier = 2
CHECK_DEADLOCK FALSE
INVARIANTS
  DaysPaidExactly
