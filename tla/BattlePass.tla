------------------------------ MODULE BattlePass ------------------------------
(***************************************************************************)
(* BattlePassService: experience for what a person does, levels of a season *)
(* and the coins for them.  award() runs in the caller's transaction and a  *)
(* repeated event must not abort it, so it is an operator from a pass to a  *)
(* pass that the component applies inside its own action.                   *)
(***************************************************************************)
EXTENDS Coins, FiniteSetsExt, Sequences

CONSTANTS
  Sources,        \* sources of experience that are enabled
  DailyCap,       \* Sources -> Nat: what a source gives a user in a day
  TicksPerDay, DaysPerSeason,
  LastSeason,     \* bound: seasons 0 .. LastSeason
  XpBase, XpStep, MaxLevel, RewardBase, RewardTier,
  DailyCoins      \* coins of the days of a cycle

ASSUME BattlePassAssumption ==
  /\ DailyCap \in [Sources -> Nat]
  /\ TicksPerDay \in Nat \ {0} /\ DaysPerSeason \in Nat \ {0} /\ LastSeason \in Nat
  /\ XpBase \in Nat \ {0} /\ XpStep \in Nat /\ MaxLevel \in Nat \ {0}
  /\ RewardBase \in Nat /\ RewardTier \in Nat \ {0}
  /\ DailyCoins \in Seq(Nat) /\ DailyCoins # << >>

Day(now) == now \div TicksPerDay
Season(now) == Day(now) \div DaysPerSeason

(* A pass is the journal of events and the progress of the seasons.        *)
NewProgress == [xp |-> 0, claimed |-> 0]
NewPass == [events |-> {}, progress |-> [p \in Users \X (0 .. LastSeason) |-> NewProgress]]

(* The season of an event is that of the request, its day that of the row.  *)
Event(u, source, ref, xp, now, createdAt) ==
  [user |-> u, source |-> source, ref |-> ref, xp |-> xp,
   day |-> Day(createdAt), season |-> Season(now)]
XpOf(events) == SumFunction([e \in events |-> e.xp])

(* withinDailyCap(): what the source has given since the day began, and     *)
(* what still fits in its cap.                                             *)
UsedToday(P, u, source, now) ==
  XpOf({e \in P.events : e.user = u /\ e.source = source /\ e.day >= Day(now)})
WithinDailyCap(P, u, source, xp, now) ==
  LET left == DailyCap[source] - UsedToday(P, u, source, now)
  IN  IF left <= 0 THEN 0 ELSE IF xp < left THEN xp ELSE left

(* The key of an event (bp_xp_once) has no season: an event counts once.   *)
Known(P, u, source, ref) ==
  \E e \in P.events : e.user = u /\ e.source = source /\ e.ref = ref

(* The insert that skips duplicates, and the progress of those whose event  *)
(* was new: gain is what is granted to whom.  The mutant counts the event   *)
(* again.                                                                  *)
GivenAny(P, gain, source, ref) == {u \in DOMAIN gain : gain[u] > 0}
GivenNew(P, gain, source, ref) ==
  {u \in DOMAIN gain : gain[u] > 0 /\ ~ Known(P, u, source, ref)}

Written(P, gain, source, ref, now, createdAt) ==
  LET new == GivenNew(P, gain, source, ref)
  IN  [events |-> P.events \cup {Event(u, source, ref, gain[u], now, createdAt) : u \in new},
       progress |-> [k \in DOMAIN P.progress |->
          IF k[2] = Season(now) /\ k[1] \in new THEN [P.progress[k] EXCEPT !.xp = @ + gain[k[1]]]
          ELSE P.progress[k]]]

(* award(), at once and in an instant for everybody in the domain of xp.   *)
Award(P, xp, source, ref, now) ==
  Written(P, [u \in DOMAIN xp |-> WithinDailyCap(P, u, source, xp[u], now)], source, ref, now, now)

-----------------------------------------------------------------------------
(* levels.ts: a level is reached step by step.                             *)

XpToAdvance(l) == XpBase + XpStep * (l - 1)
Threshold(l) == SumFunction([k \in 1 .. l - 1 |-> XpToAdvance(k)]) \* xpForLevel()

LevelFromXp(xp) ==
  LET climb[at \in (1 .. MaxLevel) \X Nat] ==
        LET l == at[1]  rest == at[2] IN
        IF l = MaxLevel \/ rest < XpToAdvance(l) THEN l ELSE climb[<<l + 1, rest - XpToAdvance(l)>>]
  IN  climb[<<1, xp>>]

RewardCoins(l) == IF l < 2 THEN 0 ELSE RewardBase * (1 + (l - 1) \div RewardTier)

(* claim(): a journal row for every level from the claimed one up.  The     *)
(* mutant is off by one.                                                   *)
LevelRef(season, l) == <<"level", season, l>>
LevelsBelow(claimed, level) == {l \in 2 .. level - 1 : l > claimed}
LevelsToPay(claimed, level) == {l \in 2 .. level : l > claimed}

CoinsOf(levels) == SumFunction([l \in levels |-> RewardCoins(l)])
LevelRows(u, season, levels) ==
  {Row(u, "BATTLEPASS_REWARD", LevelRef(season, l), RewardCoins(l)) : l \in levels}
PayLevels(L, u, season, levels) ==
  [balance |-> [L.balance EXCEPT ![u] = @ + CoinsOf(levels)],
   rows |-> L.rows \cup LevelRows(u, season, levels)]
CanPayLevels(L, u, season, levels) ==
  \A l \in levels : Fresh(L, u, "BATTLEPASS_REWARD", LevelRef(season, l))

(* daily.ts: how many days in a row before today, read off the journal.    *)
DayRef(d) == <<"day", d>>
DaysClaimed(L, u) ==
  {r.ref[2] : r \in {s \in L.rows : s.user = u /\ s.kind = "DAILY_REWARD"}}

(* A mutant: a day that was missed does not begin the cycle again.         *)
PreviousEver(days, today) == Cardinality({i \in 1 .. Len(DailyCoins) : today - i \in days})
Previous(days, today) ==
  Max({n \in 0 .. Len(DailyCoins) : \A i \in 1 .. n : today - i \in days})
CycleDay(days, today) == (Previous(days, today) % Len(DailyCoins)) + 1
DailyReward(days, today) == DailyCoins[CycleDay(days, today)]

(* nextCoins: what the page promises for tomorrow.                         *)
NextReward(days, today) == DailyCoins[(CycleDay(days, today) % Len(DailyCoins)) + 1]

==============================================================================
