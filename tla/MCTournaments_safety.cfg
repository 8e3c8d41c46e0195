SPECIFICATION FairSpec
CONSTANTS
  ann = ann
  bob = bob
  cat = cat
  None = None
  Runner = Runner
  Users = {ann, bob, cat}
  Hosts = {ann}
  Owners = {ann}
  StartingCoins = 3
  Offers <- MCOffers
  Balances = {0, 1}
  Duration = 1
  Grace = 1
  LastCall = 1
  MaxTime = 5
  MaxFailures = 1
  Xp = 1
  XpPerOpponent = 1
  Sources <- MCSources
  DailyCap <- MCDailyCap
  DailyCoins <- MCDailyCoins
  TicksPerDay = 100
  DaysPerSeason = 1
  LastSeason = 0
  XpBase = 1
  XpStep = 0
  MaxLevel = 1
  RewardBase = 1
  RewardTier = 1
CHECK_DEADLOCK FALSE
INVARIANTS
  CoinsFollowMembership
  PlayersHaveSessions
  PlacesAreDeserved
PROPERTIES
  NobodyIsDragged
  ResultsAreFinal
  CoinLedgerSpec
  TournamentsResolve
