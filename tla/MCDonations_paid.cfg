SPECIFICATION Spec
SYMMETRY Symmetric
CONSTANTS
  alice = alice
  bob = bob
  None = None
  Users = {alice, bob}
  Ids = {d1}
  Transfers = {t1, t2}
  Txs = {t1, t2}
  Workers = {w1}
  Donors = {alice}
  StartingCoins = 0
  Bases = {20}
  Tails = {1, 2}
  InvitedBy <- MCInvitedBy
  TxOf <- OneTxEach
  UnitsPerUsdt = 10
  CoinsPerUsdt = 10
  BonusPercent = 10
  ReferralPercent = 10
  Ttl = 0
  LateGrace = 1
  MaxPending = 1
  MaxTime = 1
  MaxFailures = 1
  Timely = FALSE
PROPERTIES
  PaidStaysPaid
