# Virex: models, checks and proofs

Virex is a trading diary with a community around it: a NestJS backend
(`src/backend`), a React frontend (`src/frontend`), a PostgreSQL database behind
Prisma. This directory models the part of the backend in which a mistake costs
somebody money: donations in USDT, the coins they buy, the games, races and
tournaments in which the coins change hands, the experience that earns them, the
stop of a real position on an exchange, and the bots of the live sessions in which
tournaments are traded.

## 1. The system

One process serves the HTTP API (it may run several times), one runs the background
jobs, one runs the games and keeps their rounds and hands in memory. They meet in
the database: nothing else orders a request of the API and a tick of a job.

| Component | State | Operations | Speaks to | What is hard | What makes it correct |
|---|---|---|---|---|---|
| `coins` | a balance per user, a journal with the unique key (user, kind, ref) | `charge`, `credit`, inside the caller's transaction | called by every component below | two movements for one event; a balance below zero | the balance is the journal; an event is paid once |
| `donations` | intents, `donation_amount_locks` | `create`, `cancel`, `expirePending`, `claimByAmount`, `sendThanks` | the watcher, `coins`, the bot | requests beside the claim; a late payment beside the reuse of its amount; failures between the claim and what follows it | no transfer paid twice, coins exactly with the payment, the payer gets it |
| `donations/tron` | `tron_incoming_transfers`, `tron_scan_cursor`, a back-off in memory | `tick`: expire, release, retry, scan | TronGrid, `donations` | a late indexer, skewed block times, outages, a limit of pages | nothing is skipped, everything arrives |
| `jetpack` | the round, its bets, a queue and timers in memory; `jetpack_rounds`, `jetpack_bets` | open, bet, launch, cashout, crash, finish, void | `coins`, `battlepass`, sockets | timers, requests and transactions whose answers are lost; death of the process | the coins of a bet add up; the rules decide and not the order of callbacks; the cycle goes on |
| `games`, `poker` | tables, seats with stacks, hands with puts; the hand in memory | `join`, `leave`, `close`, `tryStart`, `commit`, `voidHand` | `coins` | a seat beside a hand beside a restart; memory beside the row | chips and coins are conserved; no chips stuck in a hand |
| `blackjack` | as poker, the dealer outside | bets, actions, dealer's turn | `games` | as poker | as poker |
| `tournaments` | lobbies, entries, terminal sessions, prizes | `create`, `join`, `moveTeam`, `leave`, `setReady`, `remove`, `finishEarly`, `finalize`; the runner's tick | `coins`, `battlepass`, the terminal of the session | requests wait for a row lock; the final reads before it pays; late orders commit after the end | coins follow membership; places are deserved and final; a tournament ends |
| `race` | lobbies by stake, seats and races in memory; `race_rounds`, `race_entries` | `join`, `leave`, `start`, `tick`, `finish`, the restart | `coins`, `battlepass`, sockets | memory beside the rows; a start or a finish that fails and is tried again; death of the process | a stake comes back or is raced for; nobody is stuck |
| `battlepass` | the journal of events, progress per season; claims in the coin journal | `award` in the caller's transaction, `claim`, `claimDaily` | called by games, races, tournaments, trades | the same event twice, two tabs, the turn of a day or a season | an event, a level and a day count once |
| `auth` | refresh tokens | refresh, revoke | | two tabs, a lost answer | one family, no reuse |
| `terminal` | a plan per position in the database; the state of the stream, a queue and retries in memory | `closeGrid`, the stream's snapshots and events, the steps of stop-follow | the exchange by requests and by a socket | events out of order, twice or never; a grid replaced during a step; lost answers; restart | a plan counts its own takes, its stop is never taken back and catches up |
| `backtest` | sessions with positions, limits to enter and to close, grid bots; the engine's snapshots in memory | open, add, close, move, cancel, `createCloseGrid`, `startBot`, `stopBot`; the runner's tick every two seconds | prices of the market, tournaments | the engine, the bot and the person work on one position; reads before the lock; a stop beside the buys of the same segment | a closed position is closed whole; a bot has the long to itself, sells what it has and keeps its grid |
| `exchanges`, `bybit`, `hyperliquid` | rate gates | requests | the exchanges | bans and limits | a gate is never overrun |
| others | see `components` in `PROJECT.json` | | | | |

The rest (statistics, back-tests on history, reports, profiles, the frontend, deployment) is
listed in `PROJECT.json` with the reason it is left out. A hazard of this code, at
the line where it bites, is listed there under `hazards` with the properties that
catch it.

## 2. The modules

| Module | Models | Kind |
|---|---|---|
| `Coins` | `coins.service.ts` as operators on a ledger | library |
| `CoinLedger` | what every component that moves coins promises | abstract specification |
| `Donations` | `donations.service.ts`, the handling of a transfer in `tron-watcher.service.ts` | component |
| `TronScan` | `scan()` of `tron-watcher.service.ts`: cursor, pages, back-off | component |
| `Jetpack` | `jetpack.service.ts`, `jetpack.ts` | component |
| `GameTables` | `games.service.ts` and the money of `poker.service.ts` | component |
| `BattlePass` | `award()` of `battlepass.service.ts`, levels, seasons, days as operators on a pass | library |
| `PassPage` | awards, claims of levels and of days by several jobs and tabs at once | component |
| `Tournaments` | `tournaments.service.ts`, `tournament-runner.service.ts`, prizes, teams, places | component, with `Coins` and `BattlePass` |
| `Race` | `race.service.ts` | component, with `Coins` and `BattlePass` |
| `StopFollow` | `stop-follow.service.ts` and its store and rule, `terminal-stream.service.ts`, `closeGrid()` | component |
| `LiveSession` | a live session of `backtest.service.ts`, `bot-grid.ts`, `live-engine.service.ts` with `live-segments.ts` and `fills.ts`, `live-session-runner.service.ts` | component |
| `MC*` | instances for TLC | instances |
| `SumTheorems` | sums over finite sets, and what movements of coins make of the ledger | lemmas |
| `DonationsProofs` (with `TronScan`), `JetpackProofs`, `GameTablesProofs`, `RaceProofs` (with `PassPage`), `TournamentsProofs`, `LiveSessionProofs`, `StopFollowProofs` | inductive invariants, theorems and their proofs | proofs |

**Coins.** Every method of the service takes the caller's transaction, so `Charge`
and `Credit` map a ledger to a ledger and the caller applies them in its own action.
`CanCharge` and `CanCredit` say when the transaction is not aborted: the balance is
compared in the `UPDATE` itself and the key of the journal row is free. Amounts of
zero leave no row. `CoinLedger` says what the economy is owed: rows are only added,
under free keys, and balances are the starting coins plus the rows and never
negative. Every component that moves coins (`Donations`, `Jetpack`, `GameTables`,
`Race`, `Tournaments`) has `Ledger == INSTANCE CoinLedger WITH coins <- ledger.balance,
journal <- ledger.rows`, the refinement mapping, and `CoinLedgerSpec`, which is `Ledger!Spec`: every step that charges, credits, refunds or
pays, and a transaction that does several of these for several people, is one step of
the ledger, and every other step leaves it alone. TLC checks it in `tournaments_safety`
and with `MCDonations_ledger.cfg`; it is proved for all five. The pass page has the same
as `PageLedger` over its `purse`, checked with `MCPassPage_ledger.cfg` and proved.

**Donations.** A step is one statement or one transaction of the database.
`POST /donations` is four of them (the count of open intents, the release of stale
locks, one attempt per tail, the refusal), `cancel()` two (a read, an unconditional
write). A tick of the watcher goes `release`, `list`, `next`, and for each transfer
`read`, `commit`, `unlock`, `mark`, `thank`; `worker[w].pc` is where it stands, and
`WorkerFails` abandons it there, which is what a statement that throws and a process
that dies have in common. An amount is a number of units; `Tails` are the 99 tails
of `amount.ts`, fewer here. `chain` is the blockchain (external): a donor pays what
the intent shows, or somebody sends a round sum past the form. Which transfers a
scan reaches is left open here (`Ingest` takes any that was sent) and is the matter
of `TronScan`.

**TronScan.** `Start` reads the cursor (or goes `Lookback` back on the first run),
`Fetch` and `IngestRow` walk the pages in the order of block times, `PageDone` stops
at `MaxPages`, `WriteCursor` moves the cursor to `min(now, newest seen) - CursorLag`
unless the limit stopped the pass. A failure backs off, a crash forgets the back-off.
Transfers appear in the index up to `IndexDelay` after their block time, and block
times are off the clock by up to `ClockSkew`. The number of a transfer breaks ties.

**Jetpack.** `queue` is the promise chain of `exclusive()`: timers and requests
append jobs, `Run` executes the head. A job with several transactions
(`crash()` with `finish()`) is several steps with the job at the head of the queue.
A transaction comes out `ok`, `fail` (nothing happened), or `lost` (it committed and
the caller got an error); `Faults` says which steps of a run may do what. `Die`
empties memory, `BootRead` and `BootVoid` are `onApplicationBootstrap()`.
Multipliers are hundredths, the flight time to each is a table.

**GameTables.** A seat, its stack and its table are rows; the hand in memory is
`mem`, its insurance the row `hand`. `Act` is a player's step under open rules: any
sum within the stack, or a fold, and any of the players left may win the pot when
the hand ends; what the table layer must keep, it must keep for all of them.
Operations of one table run through one queue, `leave()` holding it from the fold
to the cash-out (`leaving`); `join()` and `close()` do not use the queue, and each
is a read and a commit.

**BattlePass and PassPage.** `award()` runs in a transaction of its caller, so
`Award(pass, xp, source, ref, now)` maps a pass to a pass and `Race` and `Tournaments`
apply it inside their own actions. `PassPage` is the same code with its reads and
writes apart: `AwardRead` takes what is left of the daily cap, `AwardWrite` inserts the
event (a taken key takes the progress with it) and `AwardRolledBack` is the caller's
rollback; `ClaimRead`/`ClaimWrite` and `DailyRead`/`DailyWrite` are the two buttons of
the page. A request takes its `now` before its
transaction begins (`Requested`, up to `MaxWait` ticks earlier), and the clock waits for
nothing: an award or a claim may be open at midnight and at the end of a season, and writes
with the day and the season of its request. `late` is history: the days whose reward was
written when the day was over.

**Tournaments.** An operation on the lobby is a transaction that takes the row `FOR
UPDATE`: `Request` gets the lock and reads, one of `Join`, `MoveTeam`, `Leave`,
`SetReady`, `RemoveLobby` writes and commits, or `Abort` rolls back. `tx[u]` holds what
was read. `FinishEarly` and the final take no lock and rest on a condition of the
`UPDATE`. The runner goes `StartDue`, `LockToStart`, then `StartScheduled`,
`CancelScheduled` or `NothingToStart`; and `FinishDue`, a `CloseSession` for each open
session, `FinalRead` (outside the transaction), `Finalize`; `RunnerFails` ends the tick
anywhere. Trading is an open change of the balance of an active session, shown after
the end only, where a late commit may still come.

**Race.** One queue orders joining, leaving, starting and finishing; a start asked for
by the join that filled the race runs in the same job (`starting`). Memory is `rec`,
`lobby`, `seat`, `last`, `timers`; the rows are `round` with its entries by slot. `Die`
empties memory, `Boot`, `Void` and `Serve` are `onApplicationBootstrap()`, one
transaction a race, and `VoidFails` leaves one for the next restart; a list that cannot be read
(`race.service.ts:103`) is `VoidFails` for every race on it. The simulation is
the choice of a winner in `Over`.

**StopFollow.** The exchange is external: `Fill`, `PriceMoves`, `MoveByHand` change it
and put events on `wire`. `Snapshot` and `Resnapshot` build `view`, `Deliver` applies an
event and asks for a job, `Disconnect` loses what is not delivered. A job goes `Begin`
(reads the plan), `History` (asks for orders the snapshot no longer shows), `Save`
(writes by the id it has read), `Place`, then `PostStop`, `CancelTake` with
`CloseAtMarket`, or nothing because the stop stands, `MarkApplied`, `End`. `StepFails`,
`TryFails` and the second branch of `PostStop` are a throw before, around and after the
exchange has acted. `GridStart` to `GridRecord` are `closeGrid()` in the process of the
API, a request to the exchange at a time, beside all of it. A long position is
modelled (a short one is its mirror), its entry does not move, and jobs that would find
nothing to do are left out.

**LiveSession.** `book` is the long of one symbol: its position, the limits to enter
(`buys`) and to close (`sells`), the bot. A transaction of the service holds the row of
the session, so its parts are operators from a book to a book, named as the methods are
(`Opened`, `ApplyClose`, `BuyAfterBotSell`, `HaltBot`, `TightenStop`), and an action
applies them at once. What the code reads before that lock is a step of its own:
`ReadToClose` with `CloseTrade`, `ReadToSell` with `CreateCloseOrder`, `ReadToBuy` with
`CreateEntryOrders`. The tick of the engine goes `EngineReads` (the position with its
stop and limits, and the segment of the price since the last tick), `EngineChecks` and
`EngineCloses` for each exit, `EngineLists`, `EngineEnters` and `EngineHalts` for each
entry, `EngineEnds`; `EngineFails` abandons it anywhere. Times are ages: what was there
when the segment began, what was made inside it, what was made after it; a position from
inside a segment is tried on the way from its entry only (`BarsOfTrade`). A segment is
an open, a close and its extremes on a scale of a few prices. Quantities are counted in
levels of the grid, and what the code decides by sums of money (balance, margin, the
sizes of risk) is left open: an order that could be bought may also turn out hopeless.
The target of `followStop()` is any tighter stop. A take closes everything, as a stop
does, and is left out. `intact` is a ghost: nobody but the bot has touched its orders, and none of
its sells has fired at its stop or below.

## 3. What is checked

| Run | Bounds | States | Shows |
|---|---|---|---|
| `donations_safety` | 1 intent of a user or of nobody, 2 transfers, 2 watchers, 1 failure | 574,251 | `CoinsFollowPayment`, `MatchedIsCredited`, `PaymentIsFinal` |
| `donations_timely` | 2 intents for one amount, 1 transfer, 1 failure, the world within `LateGrace`, clock to 3 | 242,368 | `TransfersPayOnce`, `ReservationHolds`, `CreditsItsPayer`; under fairness `PaymentIsCredited`, `AmountsReturn` |
| `tron_safety` | 2 transfers, pages of 1, lag exactly `IndexDelay + ScanTime` | | `NothingSkipped`; under fairness `EveryTransferJournaled` |
| `jetpack_safety` | 2 players, 1 round, any one fault, 2 jobs in the queue, timers early by 1 | 1,684,353 | `BetsAccounted`, `CashoutInRule`, `EarlierServedFirst` |
| `jetpack_rules` | 1 player, 2 rounds, one fault the code is written to survive, openings left out | 191,068 | `AutoHonored`, `OneRound`; under fairness `RoundsEnd` |
| `tables_safety` | 3 players, 4 seat ids, 1 hand, one fault | 190,848 | `ChipsConserved`, `RowInsuresMemory` |
| `tournaments_safety` | 2 users and an owner, 4 offers (a duel, a scheduled arena with three prizes, teams, a fee nobody can afford), clock to 5, 1 failure | 150,848 | `CoinsFollowMembership`, `PlayersHaveSessions`, `PlacesAreDeserved`, `NobodyIsDragged`, `ResultsAreFinal`; the coin ledger is implemented; under fairness `TournamentsResolve` |
| `race_safety` | 2 people, 2 races of 2 slots, 2 stakes, 2 failures or deaths | 411,532 | `StakesAccounted`, `MemoryMatchesRows`, `RacesGoForward`; under fairness `PeopleGetOut` |
| `pass_page` | 1 person, 2 jobs, 2 tabs, 3 days, 2 seasons, 3 levels, requests that wait a tick | 562,037 | `EventsCountOnce`, `LevelsPaidOnce`, `DaysPaidInOrder` |
| `stop_follow` | a grid of two takes and one of one, 3 parts of a position, 2 moves of the price or the hand, 1 fault | 477,216 | `CountsItsOwn`, `OwnStopHolds`, `PlanEndsWhenDone`; under fairness `StopCatchesUp` |
| `live_session` | a grid of 3 levels, prices 1 to 5, 2 acts of the person, 3 segments, 1 failure | 1,378,975 | `ClosedIsWhole`, `LongHasOneOwner`, `SellsFit`, `GridIsWhole` |

and one that ends in a violation, a disagreement of the code with its own words
(section 5): `daily_cycle`. Ten more instances of that kind are kept beside it, to be
run by hand: `TronScan_pages.cfg`, `MCDonations_paid.cfg`, `MCDonations_canceled.cfg`,
`MCJetpack_oneround.cfg`, `MCJetpack_early.cfg`, `MCPassPage_midnight.cfg`, `MCGameTables_closed.cfg`, `MCStopFollow_newplan.cfg`,
`MCLiveSession_limits.cfg`, `MCLiveSession_grid.cfg`. `MCDonations_ledger.cfg`, on the bounds of
`donations_safety`, checks that the donations implement the coin ledger, and
`MCPassPage_ledger.cfg`, on two days that are a season each, that the page does; both pass.

**Why these bounds.** What can go wrong with the claim takes two of something: two
transfers for an intent, two intents for a transfer (an amount used again), two
watchers. A run has each pair, with one failure, which suffices to cut a tick at any
statement and to have the next tick retry. The clock is as long as a window, its
margin and one tick more: the amount expires, is released and is taken by the second
intent. In `TronScan` two transfers may be sent in one order and shown in the other,
and a page of one makes a pass of two pages; the lag is the smallest that works, so
that every unit of it is needed. A flight of two ticks has a time before, at and after
each multiplier, and a crash before and after the target. Three players are the fewest
with whom one may leave a hand that goes on; four seat ids let one of them leave and
come back to the same hand. Two users are the fewest who race for a last place, and a
duel, an arena with more prizes than players, teams and a lobby canceled at its time
are the branches of the final; a player may leave and join again at the same tick or
the next. Two races let one gather while another runs and ends; two failures let a
start fail, be tried again and then die. Two jobs and two tabs are the pairs of the
pass; three days, of which the first two are a season, let a claim be open over a midnight with and without the
end of the season, and let a day be missed; a request that waits a tick asks for a day that
is over. A grid of two takes is the shortest whose second take moves the stop to the
price of the first; a grid of one replaces it in the middle of any step. Three levels of a grid are a level
at the market when the bot starts, one the stop takes away and one it keeps, and two of
them are sold at a price that moves the stop; three segments let
buys of one be sold in the second, some before and some after the stop has moved, and
be bought again in the third; two acts start a bot, and touch what it has or read a
request that is overtaken (an instance with three acts and two segments has been
checked as well). Bounds are in the guards and named: `MaxActs`, `MaxTicks`, `MaxTime`, `LastTime`, `LastTick`, `MaxFailures`, `MaxScanFailures`, `MaxQueue`, `MaxFaults`, `MaxWait`, `MaxWire`, `MaxMoves`, `LastCall`,
`LastJoin`; `MaxPages` and `UnknownTries` are the ones of the code. `CHECK_DEADLOCK` is
off where the system really stops within the bounds: a closed table, a finished
tournament, a race after the last id, a position that is gone, a session after the last
segment.

**Fairness.** The watcher is a timer that fires for ever, so `WF(WorkerStep)`; that a
given transfer is ingested needs `SF(Ingest)`, because a tick passes through the scan
again and again, and `EveryTransferJournaled` of `TronScan` is why it may be assumed.
`TronScan` itself assumes that the watcher runs, the clock ticks and the indexer
shows what is confirmed. `Jetpack` assumes that time passes, timers fire, the queue
is served and the container is restarted. `Tournaments` assumes that time passes, that
a transaction under way ends, and `SF(RunnerStep)`: a row lock is granted in the order
it is asked for, so requests that hold it again and again do not keep the runner out.
`Race` assumes that the process is restarted, the queue goes on (`WF(Start)`), and that
timers fire and a failed job is tried again, strongly, for the queue is now free and
now not. `StopFollow` assumes that the worker's tick, its queue and the repeated
snapshot run, and that the socket is served; nothing is asked of the retries, which
only make it quicker. Nothing is assumed of players, donors, traders and the market.

**Assumptions about the world.** `Timely` (in `donations_timely` and
`MCDonations_canceled.cfg` only): a donor pays once and in the window, and a transfer is
handled within `LateGrace` of its block time. `TronScan`: `IndexDelay + ScanTime <=
CursorLag`, and the first run comes within `Lookback` of the first payment, which the
clock waits for. One games process runs, as deployed. The retry list of fifty is not
filled. In `Race` the transactions of a join, a leave and a start may fail but not lose
their answer, in `tables_safety` those of a start and a commit of a hand (section 5
says what happens otherwise); everywhere else a fault is any of the two.

## 4. What is proved

`tlapm` checks, for every value of the constants that satisfies the assumptions:

| Theorem | States |
|---|---|
| `DonationsProofs!TypeCorrect` | `Spec => []TypeOK` |
| `DonationsProofs!PaysOnce` | `Spec => []TransfersPayOnce` |
| `DonationsProofs!CoinsFollow` | `Spec => []CoinsFollowPayment` |
| `DonationsProofs!MatchedCredited` | `Spec => []MatchedIsCredited` |
| `DonationsProofs!PaidIsFinal` | `Spec => PaymentIsFinal` |
| `DonationsProofs!ReservationsHold` | if `Orderly`: `Spec => []ReservationHolds` |
| `DonationsProofs!PayerIsCredited` | if `Orderly`: `Spec => []CreditsItsPayer` |
| `DonationsProofs!ScanTypeCorrect` | `ScanSpec => []ScanTypeOK` |
| `DonationsProofs!NoneSkipped` | if `Delays`: `ScanSpec => []NothingSkipped` |
| `DonationsProofs!CursorForwards` | `ScanSpec => CursorForward` |
| `JetpackProofs!TypeCorrect` | `Spec => []TypeOK` |
| `JetpackProofs!BetsStayAccounted` | `Spec => []BetsAccounted` |
| `JetpackProofs!CashoutsStayInRule` | if `NoOpenFaults`: `Spec => []CashoutInRule` |
| `JetpackProofs!AutosAreHonored` | if `NoOpenFaults`, `NoLostBet`: `Spec => []AutoHonored` |
| `JetpackProofs!EarlierIsServedFirst` | `Spec => []EarlierServedFirst` |
| `GameTablesProofs!TypeCorrect` | `Spec => []TypeOK` |
| `GameTablesProofs!Conserved` | if `NoLostCommit`: `Spec => []ChipsConserved` |
| `GameTablesProofs!RowInsures` | if `Survived`: `Spec => []RowInsuresMemory` |
| `RaceProofs!TypeCorrect` | `Spec => []TypeOK` |
| `RaceProofs!MemoryMatches` | `Spec => []MemoryMatchesRows` |
| `RaceProofs!StakesAreAccounted` | `Spec => []StakesAccounted` |
| `RaceProofs!GoForward` | `Spec => RacesGoForward` |
| `RaceProofs!PageTypeCorrect` | `PageSpec => []PageTypeOK` |
| `RaceProofs!EventsCounted` | `PageSpec => []EventsCountOnce` |
| `RaceProofs!LevelsPaid` | `PageSpec => []LevelsPaidOnce` |
| `RaceProofs!DaysInOrder` | `PageSpec => []DaysPaidInOrder` |
| `TournamentsProofs!TypeCorrect` | `Spec => []TypeOK` |
| `TournamentsProofs!CoinsFollow` | `Spec => []CoinsFollowMembership` |
| `TournamentsProofs!HaveSessions` | `Spec => []PlayersHaveSessions` |
| `TournamentsProofs!AreDeserved` | `Spec => []PlacesAreDeserved` |
| `TournamentsProofs!NotDragged` | `Spec => NobodyIsDragged` |
| `TournamentsProofs!AreFinal` | `Spec => ResultsAreFinal` |
| `LiveSessionProofs!TypeCorrect` | `Spec => []TypeOK` |
| `LiveSessionProofs!ClosedWhole` | `Spec => []ClosedIsWhole` |
| `LiveSessionProofs!OneOwner` | `Spec => []LongHasOneOwner` |
| `LiveSessionProofs!SellsWithinPosition` | `Spec => []SellsFit` |
| `LiveSessionProofs!GridWhole` | `Spec => []GridIsWhole` |
| `StopFollowProofs!TypeCorrect` | `Spec => []TypeOK` |
| `StopFollowProofs!CountsOwn` | `Spec => []CountsItsOwn` |
| `StopFollowProofs!OwnStop` | `Spec => OwnStopHolds` |
| `StopFollowProofs!EndsWhenDone` | `Spec => PlanEndsWhenDone` |
| `ImplementsLedger` of `Donations`, `Jetpack`, `GameTables`, `Race`, `Tournaments` | `Spec => CoinLedgerSpec` |
| `RaceProofs!PageImplementsLedger` | `PageSpec => PageLedgerSpec` |

Each module has a theorem `Invariance` (and `JetpackProofs` a `CycleInvariance`, `DonationsProofs` a
`ScanInvariance`, `LiveSessionProofs` a `GridInvariance`, `RaceProofs` a `PageInvariance`) for the inductive invariant the others follow from. A hypothesis speaks of the constant
`Faults` of a run, that is of which transactions may fail or lose their
answer; it is met by a run of section 3 and section 5 says what happens without it.
`Orderly` and `Delays` are explained with their modules.

**Donations.** None of the properties is inductive alone. What the claim writes is
right because the transfer in the worker's hands was sent (`LocalsAreSent`, which
needs `RowsAreSent` for the transfers of a retry); what the journal says is right
because between the commit and the mark the claim stands (`ClaimedIsCredited`); and
the insert of an intent cannot overwrite a paid one because an id belongs to one
request, which inserts once, at its end (`FreshIds`). With these, two lemmas carry
everything: `OnlyClaimsPay` (no other step gives a transaction or moves coins) and
`PaidKeeps` (what has a transaction keeps it). `RewardJournal` computes the rows of a
payment whatever the rates and the inviter. So far the proof uses any number of watchers,
donors and transfers, and no assumption about time: that nothing is paid twice does not
rest on timing.

Whom a transfer is credited to does, since amounts return to the pool. `Orderly` collects
what the code relies on: the chain and the watcher keep within `LateGrace` and a donor
pays once, in the window (`Timely`); a tail is below the distance of two bases
(`amount.ts:28-32`); a transaction carries one transfer; there is one watcher
(`docker-compose.prod.yml:135`). The strengthening is `Reserved`: an amount belongs to its
intent until the margin is over or it is paid, canceled or not, because a payment of a
canceled intent may be under way. It is inductive with `NotOverdue`, by which a transfer
without a verdict is still in the margin, so that its payer holds the amount when the
claim reads it (`PayerInWindow`) and when the unlock deletes it. One case does not fit: a
watcher that died between the unlock and the verdict retries a transfer that is paid,
the amount may be another's by then, and the read settles on that other intent.
`ClaimsItsPayer` has it as its second disjunct, and the index on the hash rejects the
commit. The invariant of the first theorems is used as proved.

**TronScan.** `Delays` is what `CURSOR_LAG_MS` and `FIRST_RUN_LOOKBACK_MS` are margins
for: the indexer's delay and the time of a pass fit in the lag, and the skew in each.
The heart is `Reached`: during a pass, a transfer not yet journaled came too late for
it (`Late`), or is on the page at hand, or on a page to come (`Ahead`), or the pass was
stopped by the limit. At the end only the late ones are left, and the lag keeps the
cursor behind those. That a page of a non-empty rest is not empty takes the existence
of an earliest row (`EarliestRow`), proved from the well-foundedness of strict
inclusion on finite sets. `Behind` keeps the cursor behind any block time still to
come. Types and the forward motion of the cursor hold whatever the delays.

**Sums.** What a balance should be is a sum over a journal, and the library defines
`SumFunctionOnSet` by a choice of the next element, so nothing about it can be had by
rewriting. `SumTheorems` shows that the sum is the last of a function of partial sums,
that this function exists and is unique on a finite set, and from there what the other
modules cite: a sum when one element is added, removed or changed (`SumAdd`,
`SumRemove`, `SumChange`), over a union, along a bijection (`SumAlong`), and bounds.
Induction over finite sets is used with a set in place of a predicate
(`SetInduction`): the subsets that have the property.

**The ledger.** A step of `CoinLedger` adds rows under free keys and moves each balance
by the sum of its new rows. `Booked` (keys are unique, balances are whole) makes that an
invariant, and four lemmas give all the steps there are: a movement (`ChargePosts`,
`CreditPosts`), one for each of several people (`ForEachPosts`), one movement after another
in a transaction (`PostsAgain`), and nothing. What is left to each component is that
its keys are free, which is where its own invariant is needed: a refund of a race is
free because the journal has, of that person and race, what the row says is due; a
payout of a bet because an unpaid bet has no such row; the rows of a claim because its own
condition asks for it; a refund of a hand because only
voided hands have one (`VoidsBooked`), and the hand in memory is none of them. No
hypothesis on failures is left in any of the six: the ledger is right even where a
lost answer makes a component take chips twice.

**Jetpack.** Three invariants. `IInv` holds whatever fails: what a job carries, that a row
and the memory agree on a bet, that a process that is down is blank, and the coins of
every bet, which is `BetsAccounted`. `RInv` is the cycle, and it needs that the row of a new
round is written (`NoOpenFaults`): the end of a round is a token, in the queue or in
one of two timers, never twice (`OneEnd`), and while it exists the round of the memory
has crashed (`EndsOK`); timers and jobs of a flight name a round that was opened, and
act on the memory only if it is theirs (`TimersOK`). From that what has been paid stays within
the crash point (`PaidOK`) and remains so when the row is written with the point the
memory then has (`FinishedPaid`). `NoLostBet` adds that every bet of the round is in memory, so
that its target is paid before the end. Both hypotheses are needed: section 5 has an observation
for each. `OInv` is the order at the crash, and holds whatever fails: the job of the crash is in
the queue from `EarlyBy` before its moment on and no cashout behind it was asked for
earlier (`LateAfter`), so who asked more than `EarlyBy` before the crash is served before it,
however long the queue is and whatever is slow in it. Inside that margin the code
promises nothing, as `MCJetpack_early.cfg` shows.

**GameTables.** `ChipsConserved` is inductive with three facts: the row of the hand in memory
is open and holds its puts (`Insured`), who plays is seated and not on his way out
(`PlayersSit`), and a dead process has no hand (`DownHasNone`). `Insured` is what a commit with a lost
answer breaks, and the chips with it, so the theorem has `NoLostCommit`. The row insures
all there is (`OpenIsKnown`: an open row is the hand in memory or is about to be voided) if
besides no start loses its answer and no void fails (`Survived`). The number of players,
seats, chips and hands is free.

**Race.** `RowOK` says by the status of a row what it costs, what is full and who has won;
`Match` says by the phase of a race in memory what its row is; `Seats` that one sits in
the one live race one is in; `OpenIsKnown` that an unfinished row is in memory, on the
list of the restart, or was skipped by it. `Accounted` ties the journal to these: the rows of a
person for a race add up to what is due by its status, so a stake is refunded once and
a prize paid once, whatever is tried again after a failure or a death.

**PassPage.** `PageInv` keeps what the properties say in the form in which a step can be
followed: the rows of a season's levels are exactly `LevelRows` of the levels from 2 to
the claimed one (`LadderOK`), and a daily row has the coins of the days before it
(`DaysOK`). What a claim has read may be old when it writes. It is still good because
experience only grows, so that a level once reached stays reached (`ClaimFine`), and
because nothing that is written meanwhile makes the reward of a day wrong but an earlier
day written late: `PaidFor` is a reward that is right for the days before it without some
of the days of `late`, and `RewardsStay`, that every such reward stays so when a row is added: a
row of a later day does not count for it, and a row of an earlier day joins `late` with
the same step (`DayPaid`, `DailyFine`). `WrittenCounts` is the award: its event is new or nothing
changes, whatever was granted. Two facts are about the code's arithmetic.
`LevelReached`: the loop of `levelFromXp` ends on the ladder, at a level whose
threshold, a sum of its own, is not more than the experience; the loop is a recursive
function, and that it exists is proved from the last level down (`ClimbExists`).
`RewardOfRow`: the number of days in a row, capped at a cycle, is the size of the row
of days behind, as `DaysPaidInOrder` counts it. Prices, caps, steps of experience, the
cycle, the lengths of a day and of a season, people, tabs and transactions are free.

**Tournaments.** `Fine` says, for each status of the lobby, what its members, sessions and coins
are; it is an operator of the tables, so that one lemma serves the state before and after
a step. `UserHolds` and `RunnerHolds` are why the row lock works: what a transaction has read is
still so while it may write, for who writes without the lock waits for a status on
which no transaction begins. The final counts outside of its transaction, and
`Counted` is what stays true between the count and the write: sessions are closed, members can no
longer leave. Prizes give out the whole pool to the coin: shares are rounded down and
the rest goes to the first place or to the best of the winning team, so that
`SumFunction(prize)` is the pool for any valid shares. With it the balances of all
members add up, and the fees of those who left are back.

**LiveSession.** The invariant is about a book and not about the state (`BookOK`, `Fit`), so
that each operator of a transaction has one lemma (`EnterFacts`, `HaltFacts`,
`ApplyCloseFacts` and so on) and an action composes them. Two things make it inductive.
The engine closes by the quantity it has read with a limit, while the limit may have been
moved or canceled since: a new order never takes an id the engine still holds
(`FreshIsFresh`, by the pigeonhole principle), so an order with that id still has that
quantity, and the sells fall by what the position falls by. And a close that is not by
the bot's own sell may take what its sells promise: `HaltOnCloseFacts` is the one
place where `Fit` need not hold before, because the bot is ended in the same
transaction. `ClosedIsWhole` rests on `ApplyClose` taking what is left from the locked row; with
the row as the caller read it (the mutant of the run) it is violated. The grid,
its prices, the tabs, the stops and the number of acts, segments and failures are free.

`GridIsWhole` has an invariant of its own, `GInv`, over the one above. A grid is a set of
buys, a set of sells and the stop (`Grid`): its orders stand at prices of the grid
(`Placed`), a level has at most one (`Once`), and has none only at or below the stop
(`Covered`). What a transaction does to it is one of four lemmas on sets: a level is bought
(`GridBought`), sold while others are held (`GridSold`), the last one is sold
(`GridEmptied`), orders age (`GridAged`). The steps between which the book may be read
need three facts more. A buy the engine gives up as hopeless leaves a level empty until the
bot is halted, in a later transaction: `LevelLost`, by which the engine is about to halt it. A limit the
engine fires has the price at which it was read (`AsHeld`, and `FiresOK`), else the
levels above its price could be placed again while they are held. And the last sell closes the
position because the sells of an untouched bot are all of what is left (`Fit`). `LevelIsOne`
undoes the rounding of `LevelOf`, so that orders of one level have one price.

**StopFollow.** The three properties are read off one invariant. Events and jobs wait
while the exchange goes on, so what they say is bounded by what cannot be undone: an order
that is done stays done and a position that is gone stays gone (`Lives`), and whatever
is on the wire, in the queue or in a snapshot is true in that sense (`Types`). `Sound` says of a
plan, the row and the copy a step carries alike, that it counts takes of its own grid, each once
and as the exchange has them; `JobStep` and `AdvanceFollows` carry it through the fold over
the rows of a history. `CopyOfPlan` is why the read of `Begin` may be used after the exchange has
answered: until the save the copy may be ahead of the row, never behind, and
afterwards the two have one target. It does not hold across a new grid, whose plan has another id
(`NewGrid`: nothing was ever counted or set for it), and the writes of a step that was
overtaken find no row (`Mine`). `EndIsDue` keeps the reason to end, a position that is gone or a last stop
that was set, from the decision to the write. The grids, their takes, prices and stops, and
the bounds are free; `GridsAreSane` asks that a grid has a take and that its takes are
different orders.

**Only model-checked.** Liveness (`PaymentIsCredited`, `AmountsReturn`, `EveryTransferJournaled`,
`RoundsEnd`, `TournamentsResolve`, `PeopleGetOut`, `StopCatchesUp`), as TLAPS proves
neither fairness nor `ENABLED`; and `OneRound`, which the code keeps only as long as every opening is
written. Every other invariant and action property a passing run checks is a theorem.

## 5. What the checks turned up

One run ends in a violation; `findings` in `PROJECT.json` quotes the lines.

- `daily_cycle`: after a full cycle of daily rewards the number of days behind stays at
  its cap, and every further day pays the first reward again, though the page has
  promised the second and the comments say the cycle begins anew.

The instances run by hand:

- `TronScan_pages.cfg`: past the limit of pages every pass reads the same first pages
  (`tron-watcher.service.ts:163`), and the rest is never read, though the comment
  (`:161`) says the next tick reads it.
- `MCLiveSession_limits.cfg`: the loop over the limits a segment touches counts its
  passes against a list that gets shorter with each (`live-engine.service.ts:171`), so of
  three limits two fire and the third waits for the next tick, though the comment
  (`:148`) says that to put one off would be to execute it at a price the market has
  left.
- `MCLiveSession_grid.cfg`: when two levels are bought on the way down inside a segment
  that ends above their sells, the next segment meets the upper sell first; it moves the
  stop to its level, the lower sell fires at that very price and closes the position, and
  only levels below the price come back (`backtest.service.ts:1130`): the upper level is
  lost to the bot, though the comment (`:1128`) says that what the stop took away is
  placed again. `GridIsWhole` holds until a sell fires at its stop or below.
- `MCDonations_paid.cfg`: `cancel()` reads PENDING, the claim pays, and the update
  writes CANCELED over PAID. The coins and the hash stay.
- `MCDonations_canceled.cfg`: canceling an intent loses a payment already under way,
  although the comment promises its credit.
- `MCPassPage_midnight.cfg`: a claim of day 0 is open at midnight, another tab asks on day 1,
  finds no row of day 0 (`battlepass.service.ts:233`) and takes the reward of a first day; then
  the first claim is written with its day. Two days in a row have paid the first reward
  twice. `DaysPaidInOrder` bounds it: only days written late are missing from a row.
- `MCJetpack_early.cfg`: the timer of the crash fires a tick early and its job waits behind
  a job in progress; a cashout asked for in that tick waits behind it. When the queue reaches
  the crash its moment has come, nothing is set again (`jetpack.service.ts:355`), and the
  cashout is refused though it was asked for in time. `EarlierServedFirst` therefore
  leaves the earliness of the timer as a margin.
- `MCJetpack_oneround.cfg`: `next()` does not look at the phase and may open a round
  over one that `wake()` has opened. It takes two jobs in the queue and an opening whose
  answer is lost, neither of which `jetpack_rules` has.
- `MCGameTables_closed.cfg`: a player may sit down at a table closed after it was read
  open.
- `MCStopFollow_newplan.cfg`: a take of a grid that replaces another may fill before
  `recordFollow()` writes the plan; nothing is due until the repeated snapshot, though
  the comments (`stop-follow.service.ts:82`, `:98`, `:243`) say a new plan is checked at
  once. That holds for a user the tick did not know, not for one with a plan before.

Observed with TLC while modelling, and outside what the passing runs promise:

- with two watchers `ReservationHolds` fails: the second retries a transfer the first has
  claimed and not yet unlocked, marks it UNMATCHED, the margin ends, another intent takes
  the amount, and the first, stalled, deletes that intent's lock. A deployment has one
  watcher (`docker-compose.prod.yml:135`), which `Orderly` states;
- after a death of the watcher between the claim and the mark, the retry finds the
  intent PAID and marks a credited transfer UNMATCHED; the thanks are not sent, and
  `DUPLICATE_TX` is written nowhere (`tron-watcher.service.ts:255`). `MatchedIsCredited`
  is one direction only for this reason;
- the lock is deleted by amount (`donations.service.ts:417`), and after a long delay
  this may be the lock of another intent; a transfer handled later than the grace may
  be credited to the next holder of its amount (`:336`): both are excluded by `Timely`;
- `maxPendingPerUser` is checked and then acted upon: two requests at once exceed it
  (`:169`);
- `notifiedAt` is written though the message failed (`:426`);
- a bet whose answer is lost stays out of memory: it is charged, its target is not
  paid, and it cannot be cashed out (`jetpack.service.ts:213`). `jetpack_rules` therefore excludes lost bets,
  `jetpack_safety` does not;
- with three faults, and two of them failed openings, a timer to open the next round is
  left behind (`schedule()` clears only the one it remembers, `jetpack.service.ts:126`). Should
  it fire in a flight whose end then fails to be written, it puts the memory to sleep,
  and the retried `finish()` closes the round with the crash point of a blank memory
  (`:376`). By the clock it fires in the betting window, as the retry is three seconds and
  the window seven, which the model, whose timers have no length, does not know: hence
  `NoOpenFaults`. With two faults, as in `jetpack_safety`, there is no such run;
- a poker commit whose answer is lost is repeated with the puts of memory and takes
  the chips twice (`poker.service.ts:241`); a start of a hand whose answer is lost
  leaves a hand nobody plays until a restart (`:208`). `tables_safety` lets those
  two fail but not lose their answers; cash-outs may do both;
- an automatic poker move that fails is not armed again (`poker.service.ts:295`);
- a transfer whose handling always throws keeps a place in the retry list of fifty, and
  stops the tick before the scan (`tron-watcher.service.ts:237`);
- a sell of the bot that was moved gives its buy back at its old price, but a buy that
  was moved is not returned to its place when the position closes
  (`backtest.service.ts:1128`): hence `intact` in `GridIsWhole`;
- the engine holds the limits it has read, and executes one that was canceled or
  replaced since (`live-engine.service.ts:168`); several `createCloseOrder` at once may
  exceed together what is left, and one that is late, or a late `createEntryOrders`,
  lands on a closed position or in a finished session, where nothing reads it
  (`backtest.service.ts:1220`, `:893`);
- a stop moved inside a segment is tried, in the next tick, against extremes from before
  the move;
- a failure between the deletion of a hopeless buy and `haltBot()` leaves a working bot
  without a level (`backtest.service.ts:1564`).

## 6. What is not modelled, and the plan

The user interface, the adapters of exchanges and the statistics hold no state the
properties speak of; of what does, the following is left, in this order:

1. `Poker`: the turn order, timers, sit-outs and the betting of `holdem.ts` over
   `GameTables`, whose open rules it refines; `HandRank` against a reference order.
2. The second twin of `terminal`, which follows an entry, over the stream of
   `StopFollow`; the rest of `backtest`: short positions, sessions on history, the final
   of a tournament, which reads the open positions before it locks the session.
3. `RefreshTokens` of `auth`: rotation with two tabs and lost answers.
4. `RateGate` of the exchanges, `Blackjack`.
5. Composition: `Donations` with `TronScan` instead of an open `Ingest`, so that
   `SF(Ingest)` becomes a theorem of a run and not an assumption.
