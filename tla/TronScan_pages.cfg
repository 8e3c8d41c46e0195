SPECIFICATION ScanFairSpec
CONSTANTS
  ChainTransfers = {1, 2, 3}
  PageSize = 1
  MaxPages = 2
  CursorLag = 3
  Lookback = 4
  MaxBackoff = 2
  IndexDelay = 2
  ClockSkew = 0
  ScanTime = 1
  LastTime = 1
  MaxScanFailures = 0
PROPERTIES
  EveryTransferJournaled
