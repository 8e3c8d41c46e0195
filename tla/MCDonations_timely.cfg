SPECIFICATION FairSpec
CONSTANTS
  alice = alice
  bob = bob
  None = None
  Users = {alice, bob}
  Ids = {d1, d2}
  Transfers = {t1}
  Txs = {t1}
  Workers = {w1}
  Donors = {alice}
  StartingCoins = 0
  Bases = {20}
  Tails = {1}
  InvitedBy <- MCInvitedBy
  TxOf <- OneTxEach
  UnitsPerUsdt = 10
  CoinsPerUsdt = 10
  BonusPercent = 10
  ReferralPercent = 10
  Ttl = 1
  LateGrace = 1
  MaxPending = 1
  MaxTime = 3
  MaxFailures = 1
  Timely = TRUE
INVARIANTS
  TransfersPayOnce
  ReservationHolds
  CreditsItsPayer
PROPERTIES
  PaymentIsCredited
  AmountsReturn
