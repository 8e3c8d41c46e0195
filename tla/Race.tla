-------------------------------- MODULE Race ---------------------------------
(***************************************************************************)
(* RaceService: lobbies by stake, the start with bots, the finish with the  *)
(* pot, and the restart that voids what was interrupted.  Joining, leaving, *)
(* starting and finishing run one at a time through a queue, whatever the   *)
(* order they were asked in; only the simulation runs past it.              *)
(***************************************************************************)
EXTENDS BattlePass

CONSTANTS
  None,
  Races,       \* ids, 1 .. n: a new race takes the next one
  Stakes, Slots,
  RaceXp,      \* experience for a start
  MaxTime,     \* bound: last value of the clock
  LastJoin,    \* bound: people join up to this time
  MaxFailures  \* bound: transactions that fail and deaths of the process

ASSUME RaceAssumption ==
  /\ None \notin Users /\ None \notin Races
  /\ IsFiniteSet(Races) /\ Races = 1 .. Cardinality(Races)
  /\ IsFiniteSet(Slots) /\ Slots = 0 .. Cardinality(Slots) - 1 /\ Slots # {}
  /\ Stakes \subseteq Nat \ {0}
  /\ RaceXp \in Nat /\ "game.race" \in Sources
  /\ MaxTime \in Nat /\ LastJoin \in Nat /\ MaxFailures \in Nat

VARIABLES
  now,
  round,    \* [Races -> row of RaceRound with its entries by slot]
  ledger, pass,
  process,  \* [mode, open, skipped]: the races still to void, and those that failed
  rec,      \* [Races -> RaceRecord in memory]
  lobby,    \* [Stakes -> the race that gathers]
  seat,     \* [Users -> where one is now]
  last,     \* [Users -> the finished race one is shown]
  timers,   \* races with a timer that will start them
  starting, \* the race whose start runs in the present job of the queue
  failures

memory == <<rec, lobby, seat, last, timers, starting>>
vars == <<now, round, ledger, pass, process, memory, failures>>
outside == <<now, process, failures>>

Free == [user |-> None, at |-> 0, bot |-> FALSE, won |-> 0]
Entry(u, at) == [Free EXCEPT !.user = u, !.at = at]
Bot == [Free EXCEPT !.bot = TRUE]
Empty == [s \in Slots |-> Free]

NoRound == [status |-> "none", stake |-> 0, entries |-> Empty]
NoRec == [phase |-> "none", stake |-> 0, entries |-> Empty, winner |-> None]

Forgotten ==
  /\ rec' = [r \in Races |-> NoRec]
  /\ lobby' = [k \in Stakes |-> None]
  /\ seat' = [u \in Users |-> None] /\ last' = [u \in Users |-> None]
  /\ timers' = {} /\ starting' = None

Init ==
  /\ now = 0
  /\ round = [r \in Races |-> NoRound]
  /\ ledger = NewLedger /\ pass = NewPass
  /\ process = [mode |-> "up", open |-> {}, skipped |-> {}]
  /\ rec = [r \in Races |-> NoRec]
  /\ lobby = [k \in Stakes |-> None]
  /\ seat = [u \in Users |-> None] /\ last = [u \in Users |-> None]
  /\ timers = {} /\ starting = None
  /\ failures = 0

-----------------------------------------------------------------------------
TakenIn(entries) == {s \in Slots : entries[s] # Free}
HumansIn(entries) == {entries[s].user : s \in {x \in Slots : entries[x].user # None}}
SlotOf(entries, u) == CHOOSE s \in Slots : entries[s].user = u

(* The key of a stake and of its return has the time of joining in it.     *)
StakeRef(r, at) == <<"race", r, at>>
WinRef(r) == <<"race", r>>
Pot(r) == round[r].stake * Cardinality(Slots)

(* The queue is free: no job of it is on its way.                          *)
Queue == process.mode = "up" /\ starting = None

Unused == {r \in Races : round[r].status = "none"}
RaceFor(k) == IF lobby[k] # None THEN lobby[k]
              ELSE CHOOSE r \in Unused : \A q \in Unused : r <= q

(* join(): the row of a new race, the stake and the entry in a transaction, *)
(* then the memory.  Who fills the race starts it in the same job.         *)

Join(u, k) ==
  LET r    == RaceFor(k)
      slot == Min(Slots \ TakenIn(rec[r].entries))
      full == Cardinality(TakenIn(rec[r].entries)) + 1 = Cardinality(Slots)
  IN  /\ Queue /\ now <= LastJoin /\ seat[u] = None
      /\ lobby[k] # None \/ Unused # {}
      /\ CanCharge(ledger, u, k, "RACE_STAKE", StakeRef(r, now))
      /\ round' = [round EXCEPT ![r] =
                     [@ EXCEPT !.status = "open", !.stake = k, !.entries[slot] = Entry(u, now)]]
      /\ ledger' = Charge(ledger, u, k, "RACE_STAKE", StakeRef(r, now))
      /\ rec' = [rec EXCEPT ![r] =
                   [@ EXCEPT !.phase = "lobby", !.stake = k, !.entries[slot] = Entry(u, now)]]
      /\ timers' = IF lobby[k] = None THEN timers \cup {r} ELSE timers
      /\ lobby' = [lobby EXCEPT ![k] = IF full THEN None ELSE r]
      /\ seat' = [seat EXCEPT ![u] = r] /\ last' = [last EXCEPT ![u] = None]
      /\ starting' = IF full THEN r ELSE None
      /\ UNCHANGED <<pass, outside>>

(* leave(): while the race is not started; the last one closes it.         *)
Leave(u) ==
  LET r    == seat[u]
      slot == SlotOf(rec[r].entries, u)
      at   == rec[r].entries[slot].at
      alone == Cardinality(TakenIn(rec[r].entries)) = 1
  IN  /\ Queue /\ r # None /\ rec[r].phase = "lobby"
      /\ CanCredit(ledger, u, rec[r].stake, "RACE_REFUND", StakeRef(r, at))
      /\ round' = [round EXCEPT ![r] = IF alone THEN [NoRound EXCEPT !.status = "deleted"]
                                       ELSE [@ EXCEPT !.entries[slot] = Free]]
      /\ ledger' = Credit(ledger, u, rec[r].stake, "RACE_REFUND", StakeRef(r, at))
      /\ rec' = [rec EXCEPT ![r] = IF alone THEN NoRec ELSE [@ EXCEPT !.entries[slot] = Free]]
      /\ seat' = [seat EXCEPT ![u] = None]
      /\ lobby' = [k \in Stakes |-> IF alone /\ lobby[k] = r THEN None ELSE lobby[k]]
      /\ UNCHANGED <<pass, last, timers, starting, outside>>

(* A timer fires, and its job begins.                                      *)
Fire(r) ==
  /\ Queue /\ r \in timers
  /\ timers' = timers \ {r} /\ starting' = r
  /\ UNCHANGED <<now, round, ledger, pass, process, rec, lobby, seat, last, failures>>

(* start(): bots take the free slots, people get their experience.  What is *)
(* closed or runs already is left alone; the mutant does not look.          *)
StartAgain(r) == rec[r].phase # "none"
Startable(r) == rec[r].phase = "lobby"

XpOfStart(r) == [u \in HumansIn(rec[r].entries) |-> RaceXp]

WithBots(entries) == [s \in Slots |-> IF entries[s] = Free THEN Bot ELSE entries[s]]

Start ==
  LET r == starting
  IN  /\ process.mode = "up" /\ r # None /\ Startable(r)
      /\ round' = [round EXCEPT ![r].status = "started", ![r].entries = WithBots(@)]
      /\ pass' = Award(pass, XpOfStart(r), "game.race", WinRef(r), now)
      /\ rec' = [rec EXCEPT ![r].phase = "running", ![r].entries = WithBots(@)]
      /\ lobby' = [k \in Stakes |-> IF lobby[k] = r THEN None ELSE lobby[k]]
      /\ starting' = None
      /\ UNCHANGED <<ledger, seat, last, timers, outside>>

NothingToStart ==
  /\ process.mode = "up" /\ starting # None /\ ~ Startable(starting)
  /\ starting' = None
  /\ UNCHANGED <<now, round, ledger, pass, process, rec, lobby, seat, last, timers, failures>>

(* The transaction of the start fails: a timer will try again.  In the      *)
(* mutant nobody does.                                                     *)
NoRetry(r) == timers
RetryStart(r) == timers \cup {r}

StartFails ==
  /\ process.mode = "up" /\ starting # None /\ Startable(starting)
  /\ failures < MaxFailures
  /\ failures' = failures + 1
  /\ timers' = RetryStart(starting) /\ starting' = None
  /\ UNCHANGED <<now, round, ledger, pass, process, rec, lobby, seat, last>>

(* tick(): the simulation comes to its end, with some winner.              *)
Over(r) ==
  /\ process.mode = "up" /\ rec[r].phase = "running"
  /\ \E s \in Slots : rec' = [rec EXCEPT ![r].phase = "over", ![r].winner = s]
  /\ UNCHANGED <<now, round, ledger, pass, process, lobby, seat, last, timers, starting,
                 failures>>

(* finish(): the places and the pot, on the condition that the row is not   *)
(* finished; a bot plays for the house.                                     *)
FirstFinish(r) == round[r].status = "started"

Winner(r) == rec[r].entries[rec[r].winner]
PotIsFree(r) == CanCredit(ledger, Winner(r).user, Pot(r), "RACE_WIN", WinRef(r))
PaidOut(r) ==
  IF FirstFinish(r)
  THEN /\ Winner(r).bot \/ PotIsFree(r)
       /\ round' = [round EXCEPT ![r].status = "finished",
            ![r].entries[rec[r].winner].won = IF Winner(r).bot THEN 0 ELSE Pot(r)]
       /\ ledger' = IF Winner(r).bot THEN ledger
                    ELSE Credit(ledger, Winner(r).user, Pot(r), "RACE_WIN", WinRef(r))
  ELSE UNCHANGED <<round, ledger>>

Finish(r) ==
  LET people == HumansIn(rec[r].entries)
  IN  /\ Queue /\ rec[r].phase = "over" /\ PaidOut(r)
      /\ rec' = [rec EXCEPT ![r].phase = "finished"]
      /\ seat' = [u \in Users |-> IF u \in people THEN None ELSE seat[u]]
      /\ last' = [u \in Users |-> IF u \in people THEN r ELSE last[u]]
      /\ UNCHANGED <<pass, lobby, timers, starting, outside>>

(* The answer of the commit is lost: finish() runs again later.  A failure  *)
(* that changes nothing only runs it later.                                *)
FinishUnanswered(r) ==
  /\ Queue /\ rec[r].phase = "over" /\ PaidOut(r)
  /\ failures < MaxFailures
  /\ failures' = failures + 1
  /\ UNCHANGED <<now, pass, process, memory>>

(* The result was shown long enough.                                       *)
Forget(r) ==
  /\ Queue /\ rec[r].phase = "finished"
  /\ rec' = [rec EXCEPT ![r] = NoRec]
  /\ last' = [u \in Users |-> IF last[u] = r THEN None ELSE last[u]]
  /\ UNCHANGED <<now, round, ledger, pass, process, lobby, seat, timers, starting, failures>>

-----------------------------------------------------------------------------
(* The process dies at any moment, and its memory with it.                 *)
Die ==
  /\ process.mode # "down" /\ failures < MaxFailures
  /\ failures' = failures + 1
  /\ process' = [mode |-> "down", open |-> {}, skipped |-> {}]
  /\ Forgotten
  /\ UNCHANGED <<now, round, ledger, pass>>

(* onApplicationBootstrap(): every race that is not finished is voided, one *)
(* transaction after another, before anybody is served.  One mutant voids   *)
(* only what was started, another what was finished too.                    *)
EveryRace == {r \in Races : round[r].status \in {"open", "started", "finished"}}
StartedOnly == {r \in Races : round[r].status = "started"}
Interrupted == {r \in Races : round[r].status \in {"open", "started"}}

Boot ==
  /\ process.mode = "down"
  /\ process' = [mode |-> "booting", open |-> Interrupted, skipped |-> {}]
  /\ UNCHANGED <<now, round, ledger, pass, memory, failures>>

Refunds(r) ==
  {Row(round[r].entries[s].user, "RACE_REFUND", StakeRef(r, round[r].entries[s].at),
       round[r].stake) : s \in {x \in Slots : round[r].entries[x].user # None}}
RefundAll(L, r) ==
  [balance |-> [u \in Users |-> L.balance[u] +
                  IF u \in HumansIn(round[r].entries) THEN round[r].stake ELSE 0],
   rows |-> L.rows \cup Refunds(r)]

Void(r) ==
  /\ process.mode = "booting" /\ r \in process.open
  /\ \A x \in Refunds(r) : Fresh(ledger, x.user, x.kind, x.ref)
  /\ round' = [round EXCEPT ![r].status = "voided"]
  /\ ledger' = RefundAll(ledger, r)
  /\ process' = [process EXCEPT !.open = @ \ {r}]
  /\ UNCHANGED <<now, pass, memory, failures>>

(* One that fails is left for the next restart.                            *)
VoidFails(r) ==
  /\ process.mode = "booting" /\ r \in process.open
  /\ failures < MaxFailures
  /\ failures' = failures + 1
  /\ process' = [process EXCEPT !.open = @ \ {r}, !.skipped = @ \cup {r}]
  /\ UNCHANGED <<now, round, ledger, pass, memory>>

Serve ==
  /\ process.mode = "booting" /\ process.open = {}
  /\ process' = [process EXCEPT !.mode = "up"]
  /\ UNCHANGED <<now, round, ledger, pass, memory, failures>>

(* The clock: joinings of different ticks have different keys.              *)
Tick ==
  /\ now < MaxTime
  /\ now' = now + 1
  /\ UNCHANGED <<round, ledger, pass, process, memory, failures>>

-----------------------------------------------------------------------------
Run(r) == Fire(r) \/ Over(r) \/ Finish(r)
Restart == Boot \/ Serve \/ \E r \in Races : Void(r)

Next ==
  \/ \E u \in Users, k \in Stakes : Join(u, k)
  \/ \E u \in Users : Leave(u)
  \/ Start \/ NothingToStart \/ StartFails
  \/ \E r \in Races : Run(r) \/ FinishUnanswered(r) \/ Forget(r) \/ VoidFails(r)
  \/ Die \/ Restart \/ Tick

Spec == Init /\ [][Next]_vars

(* Timers fire and the queue goes on; whoever runs the process restarts it. *)
Fairness ==
  /\ WF_vars(Start \/ NothingToStart) /\ WF_vars(Restart)
  /\ SF_vars(\E r \in Races : Run(r))
FairSpec == Spec /\ Fairness

-----------------------------------------------------------------------------
(* Properties.                                                             *)

Entries == [user : Users \cup {None}, at : 0 .. MaxTime, bot : BOOLEAN, won : Nat]
Rounds == [status : {"none", "open", "started", "finished", "voided", "deleted"},
           stake : Stakes \cup {0}, entries : [Slots -> Entries]]
Recs == [phase : {"none", "lobby", "running", "over", "finished"}, stake : Stakes \cup {0},
         entries : [Slots -> Entries], winner : Slots \cup {None}]

(* Every variable stays in its type, and a balance is never negative.      *)
TypeOK ==
  /\ now \in 0 .. MaxTime
  /\ round \in [Races -> Rounds] /\ rec \in [Races -> Recs]
  /\ ledger.balance \in [Users -> Nat] /\ IsFiniteSet(ledger.rows)
  /\ process \in [mode : {"up", "down", "booting"}, open : SUBSET Races, skipped : SUBSET Races]
  /\ lobby \in [Stakes -> Races \cup {None}]
  /\ seat \in [Users -> Races \cup {None}] /\ last \in [Users -> Races \cup {None}]
  /\ timers \subseteq Races /\ starting \in Races \cup {None}
  /\ failures \in 0 .. MaxFailures

SumOf(rows) == SumFunction([x \in rows |-> x.delta])
OfRace(u, r) == {x \in ledger.rows : x.user = u /\ x.ref[1] = "race" /\ x.ref[2] = r}
Staked(u, r) == IF u \in HumansIn(round[r].entries) THEN round[r].stake ELSE 0
WonBy(u, r) == IF Staked(u, r) = 0 THEN 0 ELSE round[r].entries[SlotOf(round[r].entries, u)].won

(* Whatever fails or dies in between, a race has of a person exactly the    *)
(* stake while it is gathering or running, nothing once it is left or       *)
(* voided, and one person has its pot once it is finished, if not a bot.    *)
StakesAccounted ==
  \A r \in Races :
    /\ \A u \in Users :
         SumOf(OfRace(u, r)) =
           CASE round[r].status \in {"open", "started"} -> - Staked(u, r)
             [] round[r].status = "finished" -> WonBy(u, r) - Staked(u, r)
             [] OTHER -> 0
    /\ SumFunction([u \in Users |-> WonBy(u, r)]) \in {0, Pot(r)}

Live == {r \in Races : rec[r].phase \in {"lobby", "running", "over"}}

(* Memory and rows tell the same races: who sits in a race in memory is in  *)
(* its row and in no other race, and a row that is not finished is in       *)
(* memory, unless voiding it failed ("живым возвращаются взносы").          *)
MemoryMatchesRows ==
  /\ \A u \in Users : {r \in Live : u \in HumansIn(rec[r].entries)} = {seat[u]} \ {None}
  /\ \A r \in Live : \/ rec[r].entries = round[r].entries
                     \/ rec[r].phase = "over" /\ round[r].status = "finished"
  /\ \A k \in Stakes : lobby[k] # None =>
        /\ rec[lobby[k]].phase = "lobby" /\ rec[lobby[k]].stake = k
        /\ TakenIn(rec[lobby[k]].entries) # Slots
  /\ process.mode = "up" =>
       \A r \in Races \ process.skipped :
         round[r].status \in {"open", "started"} => r \in Live

(* A race goes only forward: once it has started nobody joins or leaves it, *)
(* it does not start again, and what is finished or voided stays so.        *)
Order(status) == CASE status = "none" -> 0 [] status = "open" -> 1
                   [] status = "started" -> 2 [] OTHER -> 3
WhoIn(entries) == [s \in Slots |-> <<entries[s].user, entries[s].bot>>]
RacesGoForward ==
  [][\A r \in Races :
       /\ Order(round[r].status) <= Order(round'[r].status)
       /\ Order(round[r].status) = 3 => round'[r] = round[r]
       /\ round[r].status = "started" =>
            WhoIn(round'[r].entries) = WhoIn(round[r].entries)]_vars

(* Nobody is kept in a race: it starts, it ends, or it dies with the        *)
(* process, and one may join another.                                      *)
PeopleGetOut == \A u \in Users : seat[u] # None ~> seat[u] = None

(* Every step that moves coins posts to the ledger of the economy.         *)
Ledger == INSTANCE CoinLedger WITH coins <- ledger.balance, journal <- ledger.rows
CoinLedgerSpec == Ledger!Spec

==============================================================================
