------------------------------- MODULE Jetpack --------------------------------
(***************************************************************************)
(* JetpackService: a crash game with one round for everybody, kept in the   *)
(* memory of the one games process, with its money in the database.  Every  *)
(* operation runs through one queue; timers only put jobs into it.  A       *)
(* transaction may fail, or commit and lose its answer; the process may die *)
(* between any two steps and give the open rounds back when it starts.      *)
(* Multipliers are in hundredths.                                           *)
(***************************************************************************)
EXTENDS Coins, Sequences

CONSTANTS
  None,
  Rounds,        \* round ids
  Amounts,       \* bets
  Autos,         \* targets of the automatic cashout, 0 for none
  Crashes,       \* crash points
  MsTo,          \* flight time to each multiplier: msTo(), increasing
  EarlyBy,       \* how much before its moment the crash timer may fire
  MaxQueue,      \* bound: jobs waiting when a player's request comes
  MaxTime,       \* bound: last value of the clock, flights aside
  Faults,        \* <<step, outcome>> pairs that may happen
  MaxFaults      \* bound: how many of them

ASSUME JetpackAssumption ==
  /\ None \notin Users \cup Rounds
  /\ Amounts \subseteq Nat \ {0} /\ Autos \subseteq Nat /\ Crashes \subseteq Nat
  /\ DOMAIN MsTo \subseteq Nat /\ (Autos \ {0}) \cup Crashes \cup {100} \subseteq DOMAIN MsTo
  /\ MsTo[100] = 0 /\ \A x \in DOMAIN MsTo : x >= 100 /\ MsTo[x] \in Nat
  /\ \A x, y \in DOMAIN MsTo : x < y => MsTo[x] < MsTo[y]
  /\ EarlyBy \in Nat /\ MaxQueue \in Nat /\ MaxTime \in Nat /\ MaxFaults \in Nat

VARIABLES
  now,
  round,     \* jetpack_rounds: [Rounds -> [status, crash]]
  bet,       \* jetpack_bets: [Rounds -> [Users -> row]], amount 0 for no row
  ledger,    \* balances and coin journal
  xp,        \* battle pass events of the bets
  mem,       \* the memory of the service
  queue,     \* jobs of exclusive()
  process,   \* [mode, todo]: up, down or booting, rounds left to void
  faults

dbVars == <<round, bet, ledger, xp>>
vars == <<now, dbVars, mem, queue, process, faults>>

NoBet == [amount |-> 0, auto |-> 0, cashout |-> 0]
NoBets == [u \in Users |-> NoBet]
Blank == [phase |-> "idle", round |-> None, launchedAt |-> 0, crash |-> 0, bets |-> NoBets,
          launch |-> None, finish |-> None, next |-> FALSE, crashTimer |-> {}, autos |-> {}]

Init ==
  /\ now = 0
  /\ round = [r \in Rounds |-> [status |-> "NONE", crash |-> 0]]
  /\ bet = [r \in Rounds |-> NoBets]
  /\ ledger = NewLedger
  /\ xp = {}
  /\ mem = Blank
  /\ queue = <<>>
  /\ process = [mode |-> "up", todo |-> {}]
  /\ faults = 0

-----------------------------------------------------------------------------
Payout(amount, x) == (amount * x) \div 100

(* The multiplier after a flight of ms: the last one reached.              *)
X100At(ms) == CHOOSE x \in DOMAIN MsTo :
  MsTo[x] <= ms /\ \A y \in DOMAIN MsTo : MsTo[y] <= ms => y <= x

CrashAt == mem.launchedAt + MsTo[mem.crash]

Least(S) == CHOOSE x \in S : \A y \in S : x <= y
Up == process.mode = "up"
Job(kind, u, r) == [kind |-> kind, user |-> u, round |-> r, at |-> now, amount |-> 0, auto |-> 0]
Enqueue(job) == queue' = Append(queue, job)

(* How a transaction of the given step may come out.                       *)
Outcomes(step) ==
  {"ok"} \cup {o \in {"fail", "lost"} : <<step, o>> \in Faults /\ faults < MaxFaults}
Count(o) == faults' = IF o = "ok" THEN faults ELSE faults + 1

-----------------------------------------------------------------------------
(* The clock, the players and the timers.                                  *)

(* The bound on the clock leaves a flight its time.                        *)
Tick ==
  /\ now < MaxTime \/ (mem.phase = "flying" /\ now < CrashAt)
  /\ now' = now + 1
  /\ UNCHANGED <<dbVars, mem, queue, process, faults>>

Request(job) ==
  /\ Up /\ Len(queue) < MaxQueue
  /\ Enqueue(job)
  /\ UNCHANGED <<now, dbVars, mem, process, faults>>

OpenPage(u) == Request(Job("wake", u, None))
AskBet(u, amount, auto) ==
  Request([Job("bet", u, None) EXCEPT !.amount = amount, !.auto = auto])
(* The time of a cashout is taken before the queue.                        *)
AskCashout(u) == Request(Job("cashout", u, None))

FireLaunch ==
  /\ mem.launch # None
  /\ mem' = [mem EXCEPT !.launch = None]
  /\ Enqueue(Job("launch", None, mem.launch))

FireFinish ==
  /\ mem.finish # None
  /\ mem' = [mem EXCEPT !.finish = None]
  /\ Enqueue(Job("finish", None, mem.finish))

FireNext ==
  /\ mem.next
  /\ mem' = [mem EXCEPT !.next = FALSE]
  /\ Enqueue(Job("next", None, None))

(* A mutant: the crash jumps the queue.                                    *)
FireCrashFirst == \E t \in mem.crashTimer :
  /\ now + EarlyBy >= t.due
  /\ mem' = [mem EXCEPT !.crashTimer = {}]
  /\ queue' = <<Job("crash", None, t.round)>> \o queue

FireCrash == \E t \in mem.crashTimer :
  /\ now + EarlyBy >= t.due
  /\ mem' = [mem EXCEPT !.crashTimer = {}]
  /\ Enqueue(Job("crash", None, t.round))

FireAuto == \E t \in mem.autos :
  /\ now >= t.due
  /\ mem' = [mem EXCEPT !.autos = @ \ {t}]
  /\ Enqueue(Job("auto", t.user, t.round))

Fire ==
  /\ Up
  /\ FireLaunch \/ FireFinish \/ FireNext \/ FireCrash \/ FireAuto
  /\ UNCHANGED <<now, dbVars, process, faults>>

-----------------------------------------------------------------------------
(* The job at the head of the queue.                                       *)

Running(kind) == Up /\ queue # <<>> /\ Head(queue).kind = kind
Done == queue' = Tail(queue)
Drop == Done /\ UNCHANGED <<now, dbVars, mem, process, faults>>

(* openOrRetry() and openBetting(); a round that could not be written is    *)
(* tried again by the timer.                                               *)
Unopened == {r \in Rounds : round[r].status = "NONE"}
OpenOrRetry == \E r \in Unopened, o \in Outcomes("open") :
  /\ round' = IF o = "fail" THEN round ELSE [round EXCEPT ![r].status = "OPEN"]
  /\ mem' = IF o = "ok"
            THEN [mem EXCEPT !.phase = "betting", !.round = r, !.launchedAt = 0, !.crash = 0,
                             !.bets = NoBets, !.launch = r]
            ELSE [mem EXCEPT !.phase = "idle", !.next = TRUE]
  /\ Count(o) /\ Done
  /\ UNCHANGED <<now, bet, ledger, xp, process>>

(* A mutant: whoever opens the page starts the next round.                 *)
AsleepInAnyPhase == ~ mem.next
Asleep == mem.phase = "idle" /\ ~ mem.next

RunWake ==
  /\ Running("wake")
  /\ IF Asleep /\ Unopened # {} THEN OpenOrRetry ELSE Drop

(* next(): with nobody in the room the cycle goes to sleep.                *)
Sleep ==
  /\ mem' = [mem EXCEPT !.phase = "idle", !.round = None, !.launchedAt = 0, !.crash = 0,
                        !.bets = NoBets]
  /\ Done
  /\ UNCHANGED <<now, dbVars, process, faults>>

RunNext == Running("next") /\ (Sleep \/ OpenOrRetry)

(* One transaction: the charge, the experience and the row of the bet.     *)
RunBet ==
  LET j == Head(queue)
      r == mem.round
      accepted == /\ CanCharge(ledger, j.user, j.amount, "JETPACK_BET", r)
                  /\ bet[r][j.user].amount = 0
      new == [amount |-> j.amount, auto |-> j.auto, cashout |-> 0]
  IN  /\ Running("bet")
      /\ IF mem.phase = "betting" /\ mem.bets[j.user].amount = 0 /\ accepted
         THEN \E o \in Outcomes("bet") :
           /\ IF o = "fail" THEN UNCHANGED dbVars
              ELSE /\ ledger' = Charge(ledger, j.user, j.amount, "JETPACK_BET", r)
                   /\ bet' = [bet EXCEPT ![r][j.user] = new]
                   /\ xp' = xp \cup {<<j.user, r>>}
                   /\ UNCHANGED round
           /\ mem' = IF o = "ok" THEN [mem EXCEPT !.bets[j.user] = new] ELSE mem
           /\ Count(o) /\ Done
           /\ UNCHANGED <<now, process>>
         ELSE Drop

(* launch(): the crash point is drawn, the flight starts now.              *)
RunLaunch ==
  LET r == Head(queue).round
  IN  /\ Running("launch")
      /\ IF mem.phase = "betting" /\ mem.round = r
         THEN \E x \in Crashes :
           /\ mem' = [mem EXCEPT !.phase = "flying", !.launchedAt = now, !.crash = x,
                !.crashTimer = {[round |-> r, due |-> now + MsTo[x]]},
                !.autos = {[user |-> u, round |-> r, due |-> now + MsTo[mem.bets[u].auto]] :
                             u \in {v \in Users : mem.bets[v].auto # 0 /\ mem.bets[v].auto <= x}}]
           /\ Done
           /\ UNCHANGED <<now, dbVars, process, faults>>
         ELSE Drop

(* payOut(): a compare-and-set on the row and the credit, one transaction;  *)
(* the memory takes what the row holds.                                    *)
PayOut(u, x, o) ==
  LET r == mem.round
      row == bet[r][u]
      won == row.cashout = 0
  IN  /\ IF won /\ o # "fail"
         THEN /\ CanCredit(ledger, u, Payout(row.amount, x), "JETPACK_WIN", r)
              /\ bet' = [bet EXCEPT ![r][u].cashout = x]
              /\ ledger' = Credit(ledger, u, Payout(row.amount, x), "JETPACK_WIN", r)
         ELSE UNCHANGED <<bet, ledger>>
      /\ UNCHANGED <<round, xp>>

(* The bet in memory after payOut() answered.                              *)
PaidBet(u, x) ==
  [mem.bets[u] EXCEPT !.cashout = IF bet[mem.round][u].cashout = 0 THEN x
                                  ELSE bet[mem.round][u].cashout]

PayJob(u, x) == \E o \in Outcomes("payout") :
  /\ PayOut(u, x, o)
  /\ mem' = IF o = "ok" THEN [mem EXCEPT !.bets[u] = PaidBet(u, x)] ELSE mem
  /\ Count(o) /\ Done
  /\ UNCHANGED <<now, process>>

Riding(u) == mem.bets[u].amount # 0 /\ mem.bets[u].cashout = 0

RunCashout ==
  LET j == Head(queue)
      u == j.user
      auto == mem.bets[u].auto
  IN  /\ Running("cashout")
      /\ IF Riding(u) /\ mem.phase = "flying" /\ j.at >= mem.launchedAt /\ j.at < CrashAt
         THEN PayJob(u, Least({X100At(j.at - mem.launchedAt), mem.crash} \cup
                              (IF auto = 0 THEN {} ELSE {auto})))
         ELSE Drop

RunAuto ==
  LET j == Head(queue)
  IN  /\ Running("auto")
      /\ IF mem.round = j.round /\ mem.phase = "flying" /\ Riding(j.user)
            /\ mem.bets[j.user].auto # 0
         THEN PayJob(j.user, mem.bets[j.user].auto)
         ELSE Drop

(* crash(): too early, the timer is set for the rest; else finish() goes on *)
(* in the same job.                                                        *)
RunCrash ==
  LET r == Head(queue).round
  IN  /\ Running("crash")
      /\ IF mem.round # r \/ mem.phase # "flying" THEN Drop
         ELSE /\ IF now < CrashAt
                 THEN /\ mem' = [mem EXCEPT !.crashTimer = {[round |-> r, due |-> CrashAt]}]
                      /\ Done
                 ELSE /\ mem' = [mem EXCEPT !.phase = "crashed", !.autos = {}]
                      /\ queue' = <<Job("finish", None, r)>> \o Tail(queue)
              /\ UNCHANGED <<now, dbVars, process, faults>>

(* finish(): the automatic cashouts no timer got to, then the row of the    *)
(* round; a failure leaves everything to the retry.  Mutants: the targets   *)
(* left over are not paid, or paid without a look at the crash; a failure   *)
(* is not tried again.                                                     *)
NobodyOwed == {}
OwedAnyTarget == {u \in Users : Riding(u) /\ mem.bets[u].auto # 0}
Owed == {u \in Users : Riding(u) /\ mem.bets[u].auto # 0 /\ mem.bets[u].auto <= mem.crash}

NoRetryOfFinish(o) == mem
RetryFinish(o) == IF o = "ok" THEN mem ELSE [mem EXCEPT !.finish = mem.round]

FinishPay == \E u \in Owed, o \in Outcomes("payout") :
  /\ Running("finish")
  /\ PayOut(u, mem.bets[u].auto, o)
  /\ IF o = "ok"
     THEN mem' = [mem EXCEPT !.bets[u] = PaidBet(u, mem.bets[u].auto)] /\ UNCHANGED queue
     ELSE mem' = RetryFinish(o) /\ Done
  /\ Count(o)
  /\ UNCHANGED <<now, process>>

FinishRow ==
  LET r == Head(queue).round
  IN  /\ Running("finish") /\ Owed = {}
      /\ \E o \in Outcomes("finish") :
           /\ round' = IF o # "fail" /\ round[r].status = "OPEN"
                       THEN [round EXCEPT ![r] = [status |-> "FINISHED", crash |-> mem.crash]]
                       ELSE round
           /\ mem' = IF o = "ok" THEN [mem EXCEPT !.next = TRUE] ELSE RetryFinish(o)
           /\ Count(o)
      /\ Done
      /\ UNCHANGED <<now, bet, ledger, xp, process>>

Run == \/ RunWake \/ RunNext \/ RunBet \/ RunLaunch \/ RunCashout \/ RunAuto
       \/ RunCrash \/ FinishPay \/ FinishRow

-----------------------------------------------------------------------------
(* The process dies, and voids what it finds open when it starts.          *)

Die ==
  /\ process.mode # "down" /\ <<"process", "fail">> \in Faults /\ faults < MaxFaults
  /\ mem' = Blank /\ queue' = <<>>
  /\ process' = [mode |-> "down", todo |-> {}]
  /\ faults' = faults + 1
  /\ UNCHANGED <<now, dbVars>>

(* onApplicationBootstrap(): a failed read leaves the rounds to the next    *)
(* start.                                                                  *)
BootRead ==
  /\ process.mode = "down"
  /\ \E o \in Outcomes("boot") \ {"lost"} :
       /\ process' = [mode |-> "boot",
            todo |-> IF o = "ok" THEN {r \in Rounds : round[r].status = "OPEN"} ELSE {}]
       /\ Count(o)
  /\ UNCHANGED <<now, dbVars, mem, queue>>

(* voidRound(): every bet without a cashout is given back; in the mutant    *)
(* the cashed out ones too.                                                 *)
UnsettledAll(r) == {u \in Users : bet[r][u].amount # 0}
Unsettled(r) == {u \in Users : bet[r][u].amount # 0 /\ bet[r][u].cashout = 0}

Refunded(r) ==
  [balance |-> [u \in Users |-> ledger.balance[u] +
                  (IF u \in Unsettled(r) THEN bet[r][u].amount ELSE 0)],
   rows |-> ledger.rows \cup {Row(u, "JETPACK_REFUND", r, bet[r][u].amount) : u \in Unsettled(r)}]

BootVoid == \E r \in process.todo, o \in Outcomes("boot") :
  /\ process.mode = "boot"
  /\ IF o # "fail" /\ round[r].status = "OPEN"
     THEN /\ round' = [round EXCEPT ![r].status = "VOIDED"]
          /\ ledger' = Refunded(r)
     ELSE UNCHANGED <<round, ledger>>
  /\ process' = [process EXCEPT !.todo = @ \ {r}]
  /\ Count(o)
  /\ UNCHANGED <<now, bet, xp, mem, queue>>

BootDone ==
  /\ process.mode = "boot" /\ process.todo = {}
  /\ process' = [process EXCEPT !.mode = "up"]
  /\ UNCHANGED <<now, dbVars, mem, queue, faults>>

-----------------------------------------------------------------------------
Players == \E u \in Users :
  \/ OpenPage(u)
  \/ \E a \in Amounts, x \in Autos : AskBet(u, a, x)
  \/ AskCashout(u)

Service == Fire \/ Run \/ BootRead \/ BootVoid \/ BootDone

Next == Tick \/ Players \/ Service \/ Die

Spec == Init /\ [][Next]_vars

(* Time passes, timers fire, the queue is served and the process restarts.  *)
FairSpec == Spec /\ WF_vars(Tick) /\ WF_vars(Fire) /\ WF_vars(Run)
                 /\ WF_vars(BootRead \/ BootVoid \/ BootDone)

-----------------------------------------------------------------------------
MemBets == [Users -> [amount : Amounts \cup {0}, auto : Autos \cup {0}, cashout : Nat]]
RoundRows == [status : {"NONE", "OPEN", "FINISHED", "VOIDED"}, crash : Crashes \cup {0}]
Jobs == [kind : {"wake", "bet", "cashout", "launch", "finish", "next", "crash", "auto"},
         user : Users \cup {None}, round : Rounds \cup {None}, at : Nat,
         amount : Amounts \cup {0}, auto : Autos \cup {0}]
Memories ==
  [phase : {"idle", "betting", "flying", "crashed"}, round : Rounds \cup {None},
   launchedAt : Nat, crash : Crashes \cup {0}, bets : MemBets,
   launch : Rounds \cup {None}, finish : Rounds \cup {None}, next : BOOLEAN,
   crashTimer : SUBSET [round : Rounds, due : Nat],
   autos : SUBSET [user : Users, round : Rounds, due : Nat]]
CoinRows == [user : Users, kind : {"JETPACK_BET", "JETPACK_WIN", "JETPACK_REFUND"},
             ref : Rounds, delta : Int]
TypeOK ==
  /\ now \in Nat
  /\ round \in [Rounds -> RoundRows]
  /\ bet \in [Rounds -> MemBets]
  /\ ledger \in [balance : [Users -> Nat], rows : SUBSET CoinRows]
  /\ xp \subseteq Users \X Rounds
  /\ mem \in Memories
  /\ queue \in Seq(Jobs)
  /\ process \in [mode : {"up", "down", "boot"}, todo : SUBSET Rounds]
  /\ faults \in 0 .. MaxFaults

RowsOf(u, r) == {x \in ledger.rows : x.user = u /\ x.ref = r}

(* The coins of a bet, to the row: charged once, paid as its cashout says,  *)
(* given back only with a voided round, and never both paid and given back, *)
(* whatever answers get lost and wherever the process dies.                 *)
BetsAccounted == \A r \in Rounds, u \in Users :
  LET b == bet[r][u]
  IN  RowsOf(u, r) =
        (IF b.amount = 0 THEN {} ELSE {Row(u, "JETPACK_BET", r, - b.amount)}) \cup
        (IF b.cashout = 0 THEN {} ELSE {Row(u, "JETPACK_WIN", r, Payout(b.amount, b.cashout))}) \cup
        (IF b.amount # 0 /\ b.cashout = 0 /\ round[r].status = "VOIDED"
         THEN {Row(u, "JETPACK_REFUND", r, b.amount)} ELSE {})

(* No cashout beats the crash or the target of its own player.              *)
CashoutInRule == \A r \in Rounds, u \in Users :
  LET b == bet[r][u]
  IN  b.cashout # 0 =>
        /\ b.auto # 0 => b.cashout <= b.auto
        /\ round[r].status = "FINISHED" => b.cashout <= round[r].crash

(* A finished round has paid every target the flight reached: the rule      *)
(* decides, not which callback came first (the comment of finish()).        *)
AutoHonored == \A r \in Rounds, u \in Users :
  /\ round[r].status = "FINISHED"
  /\ bet[r][u].auto # 0 /\ bet[r][u].auto <= round[r].crash
  => bet[r][u].cashout # 0

(* Whoever asked before the crash is served before it: after the crash no   *)
(* such request is waiting (the comment of the class).  The timer of the    *)
(* crash may fire EarlyBy too early, and its job then waits ahead of who    *)
(* asks in between; everybody who asked before that is served, however      *)
(* slow the jobs ahead are.                                                 *)
AskedBy(j, end) == j.kind = "cashout" /\ j.at >= mem.launchedAt /\ j.at < end /\ Riding(j.user)
AskedInTime(j) == AskedBy(j, CrashAt - EarlyBy)
EarlierServedFirst ==
  mem.phase = "crashed" => \A k \in DOMAIN queue : ~ AskedInTime(queue[k])

(* To the last moment before the crash this holds only of a timer that is   *)
(* never early.                                                            *)
EarlierServedExactly ==
  mem.phase = "crashed" => \A k \in DOMAIN queue : ~ AskedBy(queue[k], CrashAt)

(* One round for everybody: while the process is up, money is only in the   *)
(* round the memory plays.                                                  *)
HasBets(r) == \E u \in Users : bet[r][u].amount # 0
OneRound == Up => \A r \in Rounds :
  round[r].status = "OPEN" /\ HasBets(r) => mem.round = r

(* A round with money in it comes to an end, finished or voided.            *)
RoundsEnd == \A r \in Rounds :
  round[r].status = "OPEN" /\ HasBets(r) ~> round[r].status \in {"FINISHED", "VOIDED"}

(* Every step that moves coins posts to the ledger of the economy.         *)
Ledger == INSTANCE CoinLedger WITH coins <- ledger.balance, journal <- ledger.rows
CoinLedgerSpec == Ledger!Spec
==============================================================================
