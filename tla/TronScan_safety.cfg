SPECIFICATION ScanFairSpec
CONSTANTS
  ChainTransfers = {1, 2}
  PageSize = 1
  MaxPages = 3
  CursorLag = 3
  Lookback = 4
  MaxBackoff = 2
  IndexDelay = 2
  ClockSkew = 2
  ScanTime = 1
  LastTime = 4
  MaxScanFailures = 1
INVARIANTS
  NothingSkipped
PROPERTIES
  EveryTransferJournaled
