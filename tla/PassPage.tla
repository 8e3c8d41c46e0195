------------------------------ MODULE PassPage -------------------------------
(***************************************************************************)
(* The battle pass at work: transactions of other services award            *)
(* experience, several at once, and tabs of the profile page claim coins    *)
(* for levels and for days.  An award and a claim each take the time of     *)
(* their request, read, and write on a condition; between any two of these  *)
(* anybody else may commit, and a day or a season may end.                  *)
(***************************************************************************)
EXTENDS BattlePass

CONSTANTS
  Jobs,       \* transactions that award at one time
  Tabs,       \* tabs of one person
  Refs,       \* events, as <<"event", n>>
  EventXp,    \* [Sources -> Nat]
  MaxWait,    \* bound: ticks a request waits for its transaction
  LastTick    \* bound: last value of the clock

ASSUME PassPageAssumption ==
  /\ EventXp \in [Sources -> Nat] /\ MaxWait \in Nat /\ LastTick \in Nat
  /\ Season(LastTick) <= LastSeason

VARIABLES
  clock, purse, passes,
  job,  \* [Users \X Jobs -> an award past its reads]
  tab,  \* [Users \X Tabs -> a claim past its reads]
  late  \* [Users -> the days whose reward was written after the day: history]

pageVars == <<clock, purse, passes, job, tab, late>>

NoJob == [source |-> "none", ref |-> <<"event", 0>>, xp |-> 0, at |-> 0]
NoTab == [op |-> "none", at |-> 0, from |-> 0, level |-> 0, coins |-> 0]

PageInit ==
  /\ clock = 0 /\ purse = NewLedger /\ passes = NewPass
  /\ job = [j \in Users \X Jobs |-> NoJob]
  /\ tab = [t \in Users \X Tabs |-> NoTab]
  /\ late = [u \in Users |-> {}]

(* `now` of a request: its transaction may begin later.                    *)
Requested == {at \in 0 .. clock : clock - at <= MaxWait}

(* award(): what fits in the cap of the day; with nothing left it returns.  *)
AwardRead(j, source, ref, now) ==
  LET granted == WithinDailyCap(passes, j[1], source, EventXp[source], now)
  IN  /\ job[j] = NoJob /\ granted > 0
      /\ job' = [job EXCEPT ![j] = [source |-> source, ref |-> ref, xp |-> granted, at |-> now]]
      /\ UNCHANGED <<clock, purse, passes, tab, late>>

(* The database stamps the row somewhere between the request and the write. *)
AwardWrite(j) ==
  LET a == job[j]
  IN  /\ a # NoJob
      /\ \E createdAt \in a.at .. clock :
           passes' = Written(passes, [u \in {j[1]} |-> a.xp], a.source, a.ref, a.at, createdAt)
      /\ job' = [job EXCEPT ![j] = NoJob]
      /\ UNCHANGED <<clock, purse, tab, late>>

(* The caller's transaction is rolled back, and the award with it.         *)
AwardRolledBack(j) ==
  /\ job[j] # NoJob
  /\ job' = [job EXCEPT ![j] = NoJob]
  /\ UNCHANGED <<clock, purse, passes, tab, late>>

(* claim(): the levels between the claimed one and the reached one.        *)
ClaimRead(t, now) ==
  LET p     == passes.progress[<<t[1], Season(now)>>]
      level == LevelFromXp(p.xp)
  IN  /\ tab[t] = NoTab
      /\ CoinsOf(LevelsToPay(p.claimed, level)) > 0
      /\ tab' = [tab EXCEPT ![t] = [NoTab EXCEPT !.op = "claim", !.at = now,
                                                 !.from = p.claimed, !.level = level]]
      /\ UNCHANGED <<clock, purse, passes, job, late>>

(* The UPDATE asks that nobody claimed since, and a level whose key is      *)
(* taken would throw and roll it back: either would do.                     *)
NotClaimedSince(p, c) == p.claimed = c.from

ClaimWrite(t) ==
  LET c    == tab[t]
      u    == t[1]
      s    == Season(c.at)
      paid == LevelsToPay(c.from, c.level)
  IN  /\ c.op = "claim"
      /\ IF NotClaimedSince(passes.progress[<<u, s>>], c) /\ CanPayLevels(purse, u, s, paid)
         THEN /\ passes' = [passes EXCEPT !.progress[<<u, s>>].claimed = c.level]
              /\ purse' = PayLevels(purse, u, s, paid)
         ELSE UNCHANGED <<passes, purse>>
      /\ tab' = [tab EXCEPT ![t] = NoTab]
      /\ UNCHANGED <<clock, job, late>>

(* claimDaily(): the day of the cycle is read off the journal.             *)
DailyRead(t, now) ==
  LET days == DaysClaimed(purse, t[1])
  IN  /\ tab[t] = NoTab /\ Day(now) \notin days
      /\ tab' = [tab EXCEPT ![t] = [NoTab EXCEPT !.op = "daily", !.at = now,
                                                 !.coins = DailyReward(days, Day(now))]]
      /\ UNCHANGED <<clock, purse, passes, job, late>>

(* The row carries the day of the request, whatever day it is by now.      *)
DailyWrite(t) ==
  LET c    == tab[t]
      u    == t[1]
      day  == Day(c.at)
      paid == CanCredit(purse, u, c.coins, "DAILY_REWARD", DayRef(day))
  IN  /\ c.op = "daily"
      /\ purse' = IF paid THEN Credit(purse, u, c.coins, "DAILY_REWARD", DayRef(day)) ELSE purse
      /\ late' = IF paid /\ day < Day(clock) THEN [late EXCEPT ![u] = @ \cup {day}] ELSE late
      /\ tab' = [tab EXCEPT ![t] = NoTab]
      /\ UNCHANGED <<clock, passes, job>>

(* Time waits for nobody: an award or a claim may be open at midnight.     *)
PageTick ==
  /\ clock < LastTick
  /\ clock' = clock + 1
  /\ UNCHANGED <<purse, passes, job, tab, late>>

Page(t) ==
  \/ \E now \in Requested : ClaimRead(t, now) \/ DailyRead(t, now)
  \/ ClaimWrite(t) \/ DailyWrite(t)

PageNext ==
  \/ \E j \in Users \X Jobs :
       \/ \E s \in Sources, ref \in Refs, now \in Requested : AwardRead(j, s, ref, now)
       \/ AwardWrite(j) \/ AwardRolledBack(j)
  \/ \E t \in Users \X Tabs : Page(t)
  \/ PageTick

PageSpec == PageInit /\ [][PageNext]_pageVars
-----------------------------------------------------------------------------
(* Properties.                                                             *)

(* Every variable stays in its type: a claimed level is one of the ladder.  *)
PageTypeOK ==
  /\ clock \in 0 .. LastTick /\ purse.balance \in [Users -> Nat]
  /\ passes.progress \in [Users \X (0 .. LastSeason) -> [xp : Nat, claimed : 0 .. MaxLevel]]
  /\ \A j \in DOMAIN job : job[j] # NoJob => job[j].source \in Sources /\ job[j].ref \in Refs
  /\ \A t \in DOMAIN tab : tab[t].op \in {"none", "claim", "daily"}

(* An event counts once for ever, however many transactions report it, and  *)
(* the experience of a season is the sum of its events.                     *)
EventsCountOnce ==
  /\ \A e, f \in passes.events :
       e.user = f.user /\ e.source = f.source /\ e.ref = f.ref => e = f
  /\ \A k \in DOMAIN passes.progress :
       passes.progress[k].xp = XpOf({e \in passes.events : e.user = k[1] /\ e.season = k[2]})

(* The coins of the levels: the journal pays every level up to the claimed  *)
(* one and no other, once each, at the price of the level, and the claimed  *)
(* level has been reached by its threshold.                                *)
LevelsPaidOnce ==
  \A k \in DOMAIN passes.progress :
    LET p    == passes.progress[k]
        paid == {r \in purse.rows :
                   r.user = k[1] /\ r.kind = "BATTLEPASS_REWARD" /\ r.ref[2] = k[2]}
    IN  /\ p.claimed > 0 => Threshold(p.claimed) <= p.xp
        /\ {r.ref[3] : r \in paid} = 2 .. p.claimed
        /\ Cardinality(paid) = Cardinality(2 .. p.claimed)
        /\ \A r \in paid : r.delta = RewardCoins(r.ref[3])

(* The reward of a day is the one that the row of days before it gives: a   *)
(* day missed begins the cycle again.                                      *)
DailyRewards(u) == {r \in purse.rows : r.user = u /\ r.kind = "DAILY_REWARD"}
PaidByRow(r, earlier) ==
  LET row == {d \in earlier : d .. (r.ref[2] - 1) \subseteq earlier}
  IN  Cardinality(row) < Len(DailyCoins) => r.delta = DailyCoins[Cardinality(row) + 1]

(* One reward a day, whatever the number of tabs and at whatever midnight,  *)
(* and the reward of a day is that of its row of days.  Only a day whose    *)
(* own reward was written after the day was over may be missing from the    *)
(* row a later reward was reckoned by: where no claim was open at midnight  *)
(* every reward is exact.                                                  *)
DaysPaidInOrder ==
  \A u \in Users : LET days == {r.ref[2] : r \in DailyRewards(u)} IN
    /\ days \subseteq 0 .. Day(clock)
    /\ Cardinality(DailyRewards(u)) = Cardinality(days)
    /\ \A r \in DailyRewards(u) : LET earlier == {d \in days : d < r.ref[2]} IN
         \E missed \in SUBSET (earlier \cap late[u]) : PaidByRow(r, earlier \ missed)

(* What would have to hold for the reward to be exact always: with a claim  *)
(* open at midnight it does not.                                           *)
DaysPaidExactly ==
  \A u \in Users : \A r \in DailyRewards(u) :
    PaidByRow(r, {s.ref[2] : s \in {s \in DailyRewards(u) : s.ref[2] < r.ref[2]}})

(* "nextCoins" of a day is what the next day gives if it is not missed.    *)
TomorrowAsPromised ==
  \A x, y \in {r \in purse.rows : r.kind = "DAILY_REWARD"} :
    x.user = y.user /\ y.ref[2] = x.ref[2] + 1 =>
      y.delta = NextReward(DaysClaimed(purse, x.user), x.ref[2])

(* Every step that moves coins posts to the ledger of the economy.         *)
PageLedger == INSTANCE CoinLedger WITH coins <- purse.balance, journal <- purse.rows
PageLedgerSpec == PageLedger!Spec
==============================================================================
