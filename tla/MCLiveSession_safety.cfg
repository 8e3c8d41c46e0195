SPECIFICATION Spec
CONSTANTS
  Idle = Idle
  NoId = NoId
  Tabs = {t1}
  Top = 5
  Lower = 2
  Step = 1
  Levels = 3
  BotStop = 1
  StopsAfter <- ToTheirBuys
  Asked = {4}
  Stops = {2}
  Follows = {TRUE}
  MaxActs = 2
  MaxTicks = 3
  MaxFailures = 1
CHECK_DEADLOCK FALSE
INVARIANTS
  ClosedIsWhole
  LongHasOneOwner
  SellsFit
  GridIsWhole
