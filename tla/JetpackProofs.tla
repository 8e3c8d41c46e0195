---------------------------- MODULE JetpackProofs -----------------------------
(***************************************************************************)
(* Proofs about Jetpack.                                                    *)
(***************************************************************************)
EXTENDS Jetpack, SumTheorems

-----------------------------------------------------------------------------
(* What holds whatever fails.                                               *)

(* The fields a job of each kind carries.                                   *)
JobOK(j) ==
  /\ j.kind \in {"wake", "bet", "cashout", "auto"} => j.user \in Users
  /\ j.kind \in {"launch", "finish", "crash", "auto"} => j.round \in Rounds
  /\ j.kind = "bet" => j.amount \in Amounts
JobsOK == \A k \in DOMAIN queue : JobOK(queue[k])

(* A row of the database without a bet is empty, and no round has bets      *)
(* before it is written.                                                    *)
RowsOK == \A r \in Rounds, u \in Users :
  bet[r][u].amount = 0 \/ round[r].status = "NONE" => bet[r][u] = NoBet

(* The memory holds bets of its own round, as the database has them.        *)
MatchesRow(m, b) ==
  /\ m.amount = b.amount /\ m.auto = b.auto
  /\ m.cashout # 0 => m.cashout = b.cashout
MemOK == \A u \in Users :
  /\ mem.bets[u].amount = 0 => mem.bets[u] = NoBet
  /\ mem.bets[u].amount # 0 =>
       mem.round \in Rounds /\ MatchesRow(mem.bets[u], bet[mem.round][u])

PhaseOK ==
  /\ mem.phase # "idle" => mem.round \in Rounds
  /\ mem.phase \in {"flying", "crashed"} => mem.crash \in Crashes
  /\ mem.round \in Rounds => round[mem.round].status \in {"OPEN", "FINISHED"}

DownIsBlank == ~ Up => mem = Blank /\ queue = <<>>

(* No cashout beats the target of its own player.                           *)
TargetKept == \A r \in Rounds, u \in Users :
  bet[r][u].cashout # 0 /\ bet[r][u].auto # 0 => bet[r][u].cashout <= bet[r][u].auto

IInv ==
  /\ TypeOK /\ JobsOK /\ RowsOK /\ MemOK /\ PhaseOK /\ DownIsBlank
  /\ TargetKept /\ BetsAccounted

-----------------------------------------------------------------------------
(* What holds as long as the row of a new round can be written.             *)

NoOpenFaults == \A o \in {"fail", "lost"} : <<"open", o>> \notin Faults
NoLostBet == <<"bet", "lost">> \notin Faults

(* The end of a round is under way once at most: in the queue or in one of  *)
(* two timers, and only after the crash.                                    *)
Ending(j) == j.kind \in {"finish", "next"}
EndTimer == mem.finish # None \/ mem.next
OneEnd ==
  /\ \A k, l \in DOMAIN queue : Ending(queue[k]) /\ Ending(queue[l]) => k = l
  /\ EndTimer => \A k \in DOMAIN queue : ~ Ending(queue[k])
  /\ ~ (mem.finish # None /\ mem.next)
FinishOK(r) == mem.phase = "crashed" /\ r = mem.round
NextOK == mem.phase = "crashed" /\ round[mem.round].status = "FINISHED"
EndsOK ==
  /\ mem.finish # None => FinishOK(mem.finish)
  /\ mem.next => NextOK
  /\ \A k \in DOMAIN queue :
       /\ queue[k].kind = "finish" => FinishOK(queue[k].round)
       /\ queue[k].kind = "next" => NextOK

CycleOK ==
  /\ mem.phase = "idle" => mem.round = None
  /\ mem.phase \in {"betting", "flying"} => round[mem.round].status = "OPEN"

(* A timer or a job of the flight belongs to a round that was opened, and   *)
(* when it is the round of the memory the flight has begun.                 *)
FlightOf(r) == /\ round[r].status # "NONE"
               /\ r = mem.round => mem.phase \in {"flying", "crashed"}
AutoOK(u, r) == FlightOf(r) /\ (r = mem.round => mem.bets[u].auto <= mem.crash)
TimersOK ==
  /\ \A t \in mem.autos : AutoOK(t.user, t.round)
  /\ \A t \in mem.crashTimer :
       FlightOf(t.round) /\ (t.round = mem.round => t.due = CrashAt)
  /\ \A k \in DOMAIN queue :
       /\ queue[k].kind = "auto" => AutoOK(queue[k].user, queue[k].round)
       /\ queue[k].kind = "crash" => FlightOf(queue[k].round)

(* What the round of the memory has paid is within its crash point.         *)
Paid(r, x) == \A u \in Users : bet[r][u].cashout <= x
PaidOK ==
  /\ mem.phase = "betting" => Paid(mem.round, 0)
  /\ mem.phase \in {"flying", "crashed"} => Paid(mem.round, mem.crash)
  /\ mem.phase = "crashed" /\ round[mem.round].status = "FINISHED" =>
       round[mem.round].crash = mem.crash

FinishedPaid == \A r \in Rounds, u \in Users :
  round[r].status = "FINISHED" => bet[r][u].cashout <= round[r].crash

(* Every bet of the round in play is in memory.                             *)
AllInMemory == mem.round \in Rounds => \A u \in Users :
  bet[mem.round][u].amount # 0 => mem.bets[u].amount # 0

RInv ==
  /\ OneEnd /\ EndsOK /\ CycleOK /\ TimersOK /\ PaidOK /\ FinishedPaid
  /\ NoLostBet => AllInMemory /\ AutoHonored

-----------------------------------------------------------------------------
(* The constants, the queue and the operators on coins.                     *)

Outcome == {"ok", "fail", "lost"}

LEMMA NoBetIsBet ==
  /\ NoBet \in [amount : Amounts \cup {0}, auto : Autos \cup {0}, cashout : Nat]
  /\ NoBets \in MemBets
  /\ NoBet.amount = 0 /\ NoBet.auto = 0 /\ NoBet.cashout = 0
BY DEF NoBet, NoBets, MemBets

LEMMA BlankIsMemory ==
  /\ Blank \in Memories
  /\ Blank.phase = "idle" /\ Blank.round = None /\ Blank.bets = NoBets
  /\ Blank.finish = None /\ Blank.next = FALSE /\ Blank.autos = {} /\ Blank.crashTimer = {}
BY NoBetIsBet DEF Blank, Memories

LEMMA NoneIsNoRound == None \notin Rounds /\ None \notin Users
BY JetpackAssumption

LEMMA CrashesAreMultipliers ==
  \A x \in Crashes \cup (Autos \ {0}) :
    x \in DOMAIN MsTo /\ x \in Nat /\ x >= 100 /\ MsTo[x] \in Nat
BY JetpackAssumption

LEMMA PayoutIsPositive ==
  ASSUME NEW a \in Amounts, NEW x \in Nat, x >= 100
  PROVE  Payout(a, x) \in Nat /\ Payout(a, x) > 0
<1>1. a \in Nat /\ a >= 1
  BY JetpackAssumption
<1>2. a * x \in Nat /\ a * x >= 100
  <2>1. a - 1 \in Nat /\ (a - 1) * x \in Nat
    BY <1>1
  <2>2. a * x = (a - 1) * x + x
    BY <1>1
  <2>. QED BY <2>1, <2>2
<1>3. \A n \in Nat : n >= 100 => n \div 100 \in Nat /\ n \div 100 > 0
  OBVIOUS
<1>. QED BY <1>2, <1>3 DEF Payout

LEMMA NatMin ==
  ASSUME NEW S \in SUBSET Nat, S # {}
  PROVE  \E x \in S : \A y \in S : x <= y
<1>1. PICK x \in S : \A y \in S : ~ (<<y, x>> \in OpToRel(<, Nat))
  BY NatLessThanWellFounded, WFMin
<1>2. \A y \in S : ~ (y < x)
  BY <1>1 DEF OpToRel
<1>. QED BY <1>2

LEMMA LeastIsIn ==
  ASSUME NEW S \in SUBSET Nat, S # {}
  PROVE  Least(S) \in S /\ \A y \in S : Least(S) <= y
BY NatMin DEF Least

(* The multiplier of a flight of ms exists: of those reached, the one that  *)
(* was reached last.                                                       *)
LEMMA MultiplierReached ==
  ASSUME NEW ms \in Nat
  PROVE  X100At(ms) \in DOMAIN MsTo
<1>. DEFINE Left == {ms - MsTo[x] : x \in {y \in DOMAIN MsTo : MsTo[y] <= ms}}
<1>1. Left \in SUBSET Nat /\ Left # {}
  BY JetpackAssumption
<1>2. PICK l \in Left : \A k \in Left : l <= k
  BY <1>1, NatMin
<1>3. PICK x \in DOMAIN MsTo : MsTo[x] <= ms /\ l = ms - MsTo[x]
  OBVIOUS
<1>4. ASSUME NEW y \in DOMAIN MsTo, MsTo[y] <= ms PROVE y <= x
  <2>1. ms - MsTo[x] <= ms - MsTo[y]
    BY <1>2, <1>3, <1>4
  <2>. QED BY <2>1, <1>3, <1>4, JetpackAssumption
<1>. QED BY <1>3, <1>4 DEF X100At

LEMMA AppendQ ==
  ASSUME NEW q \in Seq(Jobs), NEW j \in Jobs
  PROVE  /\ Append(q, j) \in Seq(Jobs)
         /\ \A k \in DOMAIN q : k \in DOMAIN Append(q, j) /\ Append(q, j)[k] = q[k]
         /\ \A k \in DOMAIN Append(q, j) :
              \/ k \in DOMAIN q /\ Append(q, j)[k] = q[k]
              \/ k = Len(q) + 1 /\ Append(q, j)[k] = j
         /\ Len(q) \in Nat /\ \A k \in DOMAIN q : k \in Nat /\ k <= Len(q)
OBVIOUS

LEMMA TailQ ==
  ASSUME NEW q \in Seq(Jobs), q # <<>>
  PROVE  /\ 1 \in DOMAIN q /\ Head(q) = q[1] /\ Head(q) \in Jobs
         /\ Tail(q) \in Seq(Jobs)
         /\ \A k \in DOMAIN Tail(q) :
              k \in Nat /\ k + 1 \in DOMAIN q /\ Tail(q)[k] = q[k + 1] /\ k + 1 # 1
OBVIOUS

LEMMA FirstQ ==
  ASSUME NEW q \in Seq(Jobs), q # <<>>, NEW f \in Jobs
  PROVE  /\ <<f>> \o Tail(q) \in Seq(Jobs)
         /\ (<<f>> \o Tail(q))[1] = f
         /\ \A k \in DOMAIN (<<f>> \o Tail(q)) :
              \/ k = 1
              \/ k \in DOMAIN q /\ k # 1 /\ (<<f>> \o Tail(q))[k] = q[k]
         /\ \A k \in DOMAIN q : k \in Nat /\ k >= 1
OBVIOUS

LEMMA JobIsJob ==
  ASSUME TypeOK, NEW kind \in {"wake", "bet", "cashout", "launch", "finish", "next", "crash", "auto"},
         NEW u \in Users \cup {None}, NEW r \in Rounds \cup {None}
  PROVE  /\ Job(kind, u, r) \in Jobs
         /\ Job(kind, u, r).kind = kind /\ Job(kind, u, r).user = u /\ Job(kind, u, r).round = r
         /\ Job(kind, u, r).at = now
BY DEF TypeOK, Job, Jobs

LEMMA Counted ==
  ASSUME TypeOK, NEW step, NEW o \in Outcomes(step), Count(o)
  PROVE  faults' \in 0 .. MaxFaults /\ o \in Outcome
<1>1. faults \in Int /\ 0 <= faults /\ faults <= MaxFaults /\ MaxFaults \in Int
  BY JetpackAssumption DEF TypeOK
<1>2. o \in Outcome /\ (o = "ok" \/ faults < MaxFaults)
  BY DEF Outcomes, Outcome
<1>3. faults' = faults \/ (faults' = faults + 1 /\ faults < MaxFaults)
  BY <1>2 DEF Count
<1>. QED BY <1>1, <1>2, <1>3

(* The rows of a bet in the journal, and what they should be.               *)
RowsIn(rows, u, r) == {x \in rows : x.user = u /\ x.ref = r}
Account(u, r, b, status) ==
  (IF b.amount = 0 THEN {} ELSE {Row(u, "JETPACK_BET", r, - b.amount)}) \cup
  (IF b.cashout = 0 THEN {} ELSE {Row(u, "JETPACK_WIN", r, Payout(b.amount, b.cashout))}) \cup
  (IF b.amount # 0 /\ b.cashout = 0 /\ status = "VOIDED"
   THEN {Row(u, "JETPACK_REFUND", r, b.amount)} ELSE {})
Accounted(rows, bets, rounds) == \A r \in Rounds, u \in Users :
  RowsIn(rows, u, r) = Account(u, r, bets[r][u], rounds[r].status)

LEMMA AccountedIs == BetsAccounted <=> Accounted(ledger.rows, bet, round)
BY DEF BetsAccounted, Accounted, RowsOf, RowsIn, Account

LEMMA OneRowMore ==
  ASSUME NEW rows, NEW v, NEW k, NEW s, NEW d
  PROVE  \A u, r : RowsIn(rows \cup {Row(v, k, s, d)}, u, r) =
           RowsIn(rows, u, r) \cup (IF u = v /\ r = s THEN {Row(v, k, s, d)} ELSE {})
BY DEF RowsIn, Row

LEMMA RowIsRow ==
  ASSUME NEW u \in Users, NEW r \in Rounds, NEW d \in Int,
         NEW k \in {"JETPACK_BET", "JETPACK_WIN", "JETPACK_REFUND"}
  PROVE  Row(u, k, r, d) \in CoinRows
BY DEF Row, CoinRows

-----------------------------------------------------------------------------
(* The first invariant: steps that leave the database alone.                *)

SameCore ==
  /\ mem'.phase = mem.phase /\ mem'.round = mem.round /\ mem'.launchedAt = mem.launchedAt
  /\ mem'.crash = mem.crash /\ mem'.bets = mem.bets

LEMMA MemStep ==
  ASSUME IInv, Up, UNCHANGED <<round, bet, ledger, process>>,
         TypeOK', JobsOK', MemOK', PhaseOK'
  PROVE  IInv'
<1>1. RowsOK' /\ TargetKept'
  BY DEF IInv, RowsOK, TargetKept
<1>2. DownIsBlank'
  BY DEF DownIsBlank, Up
<1>3. BetsAccounted'
  BY DEF IInv, BetsAccounted, RowsOf
<1>. QED BY <1>1, <1>2, <1>3 DEF IInv

LEMMA QuietStep ==
  ASSUME IInv, Up, UNCHANGED <<dbVars, process>>, SameCore,
         now' \in Nat, faults' \in 0 .. MaxFaults, mem' \in Memories,
         queue' \in Seq(Jobs), JobsOK'
  PROVE  IInv'
<1>1. TypeOK'
  BY DEF IInv, TypeOK, dbVars
<1>2. MemOK'
  BY DEF IInv, MemOK, SameCore, dbVars
<1>3. PhaseOK'
  BY DEF IInv, PhaseOK, SameCore, dbVars
<1>. QED BY <1>1, <1>2, <1>3, MemStep DEF dbVars

LEMMA DoneKeepsJobs ==
  ASSUME TypeOK, JobsOK, queue # <<>>, Done
  PROVE  queue' \in Seq(Jobs) /\ JobsOK'
BY TailQ DEF TypeOK, JobsOK, Done

LEMMA EnqueueKeepsJobs ==
  ASSUME TypeOK, JobsOK, NEW j \in Jobs, JobOK(j), Enqueue(j)
  PROVE  queue' \in Seq(Jobs) /\ JobsOK'
BY AppendQ DEF TypeOK, JobsOK, Enqueue

LEMMA HeadIsJob ==
  ASSUME TypeOK, JobsOK, queue # <<>>
  PROVE  Head(queue) \in Jobs /\ JobOK(Head(queue)) /\ 1 \in DOMAIN queue /\ Head(queue) = queue[1]
BY TailQ DEF TypeOK, JobsOK

LEMMA TypeParts ==
  ASSUME IInv
  PROVE  /\ TypeOK /\ JobsOK /\ now \in Nat /\ faults \in 0 .. MaxFaults
         /\ mem \in Memories /\ queue \in Seq(Jobs)
BY DEF IInv, TypeOK

LEMMA DropStep == ASSUME IInv, Up, queue # <<>>, Drop PROVE IInv'
<1>1. queue' \in Seq(Jobs) /\ JobsOK'
  BY TypeParts, DoneKeepsJobs DEF Drop
<1>. QED BY <1>1, TypeParts, QuietStep DEF Drop, SameCore

LEMMA TickStep == ASSUME IInv, Tick PROVE IInv'
<1>1. TypeOK' /\ JobsOK' /\ RowsOK' /\ MemOK' /\ PhaseOK'
  BY DEF Tick, dbVars, IInv, TypeOK, JobsOK, RowsOK, MemOK, PhaseOK
<1>2. DownIsBlank' /\ TargetKept' /\ BetsAccounted'
  BY DEF Tick, dbVars, IInv, DownIsBlank, TargetKept, BetsAccounted, RowsOf, Up
<1>. QED BY <1>1, <1>2 DEF IInv

LEMMA RequestStep ==
  ASSUME IInv, NEW j \in Jobs, JobOK(j), Request(j)
  PROVE  IInv'
<1>1. queue' \in Seq(Jobs) /\ JobsOK'
  BY TypeParts, EnqueueKeepsJobs DEF Request
<1>. QED BY <1>1, TypeParts, QuietStep DEF Request, SameCore

(* The jobs the players ask for.                                           *)
BetJob(u, a, x) == [Job("bet", u, None) EXCEPT !.amount = a, !.auto = x]
LEMMA PlayersJobs ==
  ASSUME IInv, NEW u \in Users
  PROVE  /\ OpenPage(u) => \E j \in Jobs : JobOK(j) /\ j.kind = "wake" /\ Request(j)
         /\ AskCashout(u) => \E j \in Jobs :
              JobOK(j) /\ j.kind = "cashout" /\ j.at = now /\ Request(j)
         /\ \A a \in Amounts, x \in Autos :
              AskBet(u, a, x) => \E j \in Jobs : JobOK(j) /\ j.kind = "bet" /\ Request(j)
<1>1. ASSUME NEW kind \in {"wake", "cashout"}
      PROVE  LET j == Job(kind, u, None)
             IN  j \in Jobs /\ JobOK(j) /\ j.kind = kind /\ j.at = now
  BY TypeParts, JobIsJob DEF JobOK
<1>2. ASSUME NEW a \in Amounts, NEW x \in Autos
      PROVE  BetJob(u, a, x) \in Jobs /\ JobOK(BetJob(u, a, x)) /\ BetJob(u, a, x).kind = "bet"
  <2>1. Job("bet", u, None) \in Jobs /\ Job("bet", u, None).kind = "bet"
         /\ Job("bet", u, None).user = u
    BY TypeParts, JobIsJob
  <2>. QED BY <2>1 DEF BetJob, Jobs, JobOK
<1>. QED BY <1>1, <1>2 DEF OpenPage, AskCashout, AskBet, BetJob

LEMMA PlayersStep == ASSUME IInv, Players PROVE IInv'
BY PlayersJobs, RequestStep DEF Players

LEMMA FireStep == ASSUME IInv, Fire PROVE IInv'
<1>0. Up /\ UNCHANGED <<now, dbVars, process, faults>> /\ TypeOK /\ JobsOK /\ mem \in Memories
  BY TypeParts DEF Fire
<1>1. SUFFICES ASSUME NEW j \in Jobs, JobOK(j), Enqueue(j), mem' \in Memories, SameCore
               PROVE  IInv'
  <2>1. CASE FireLaunch
    <3>1. mem.launch \in Rounds
      BY <1>0, <2>1 DEF FireLaunch, Memories
    <3>2. mem' \in Memories /\ SameCore
      BY <1>0, <2>1 DEF FireLaunch, Memories, SameCore
    <3>3. Job("launch", None, mem.launch) \in Jobs /\ JobOK(Job("launch", None, mem.launch))
      BY <1>0, <3>1, JobIsJob DEF JobOK
    <3>. QED BY <1>1, <2>1, <3>2, <3>3 DEF FireLaunch
  <2>2. CASE FireFinish
    <3>1. mem.finish \in Rounds
      BY <1>0, <2>2 DEF FireFinish, Memories
    <3>2. mem' \in Memories /\ SameCore
      BY <1>0, <2>2 DEF FireFinish, Memories, SameCore
    <3>3. Job("finish", None, mem.finish) \in Jobs /\ JobOK(Job("finish", None, mem.finish))
      BY <1>0, <3>1, JobIsJob DEF JobOK
    <3>. QED BY <1>1, <2>2, <3>2, <3>3 DEF FireFinish
  <2>3. CASE FireNext
    <3>2. mem' \in Memories /\ SameCore
      BY <1>0, <2>3 DEF FireNext, Memories, SameCore
    <3>3. Job("next", None, None) \in Jobs /\ JobOK(Job("next", None, None))
      BY <1>0, JobIsJob DEF JobOK
    <3>. QED BY <1>1, <2>3, <3>2, <3>3 DEF FireNext
  <2>4. CASE FireCrash
    <3>1. PICK t \in mem.crashTimer : mem' = [mem EXCEPT !.crashTimer = {}]
                                       /\ Enqueue(Job("crash", None, t.round))
      BY <2>4 DEF FireCrash
    <3>2. t.round \in Rounds
      BY <1>0 DEF Memories
    <3>3. mem' \in Memories /\ SameCore
      BY <1>0, <3>1 DEF Memories, SameCore
    <3>4. Job("crash", None, t.round) \in Jobs /\ JobOK(Job("crash", None, t.round))
      BY <1>0, <3>2, JobIsJob DEF JobOK
    <3>. QED BY <1>1, <3>1, <3>3, <3>4
  <2>5. CASE FireAuto
    <3>1. PICK t \in mem.autos : mem' = [mem EXCEPT !.autos = @ \ {t}]
                                  /\ Enqueue(Job("auto", t.user, t.round))
      BY <2>5 DEF FireAuto
    <3>2. t.round \in Rounds /\ t.user \in Users
      BY <1>0 DEF Memories
    <3>3. mem' \in Memories /\ SameCore
      BY <1>0, <3>1 DEF Memories, SameCore
    <3>4. Job("auto", t.user, t.round) \in Jobs /\ JobOK(Job("auto", t.user, t.round))
      BY <1>0, <3>2, JobIsJob DEF JobOK
    <3>. QED BY <1>1, <3>1, <3>3, <3>4
  <2>. QED BY <2>1, <2>2, <2>3, <2>4, <2>5 DEF Fire
<1>2. queue' \in Seq(Jobs) /\ JobsOK'
  BY <1>0, <1>1, EnqueueKeepsJobs
<1>. QED BY <1>0, <1>1, <1>2, TypeParts, QuietStep

-----------------------------------------------------------------------------
(* The first invariant: the round opens, flies and ends.                    *)

LEMMA StatusStep ==
  ASSUME IInv, UNCHANGED <<bet, ledger>>,
         \A r \in Rounds : /\ round'[r].status = "VOIDED" <=> round[r].status = "VOIDED"
                           /\ round'[r].status = "NONE" => round[r].status = "NONE"
  PROVE  RowsOK' /\ TargetKept' /\ BetsAccounted'
<1>1. RowsOK' /\ TargetKept'
  BY DEF IInv, RowsOK, TargetKept
<1>2. BetsAccounted'
  BY DEF IInv, BetsAccounted, RowsOf
<1>. QED BY <1>1, <1>2

Opened(row) == [row EXCEPT !.status = "OPEN"]
LEMMA OpenedRow ==
  ASSUME NEW row \in RoundRows
  PROVE  Opened(row) \in RoundRows /\ Opened(row).status = "OPEN"
BY DEF Opened, RoundRows

LEMMA RetriedMem ==
  ASSUME NEW m \in Memories
  PROVE  LET w == [m EXCEPT !.phase = "idle", !.next = TRUE]
         IN  w \in Memories /\ w.phase = "idle" /\ w.round = m.round /\ w.bets = m.bets
BY DEF Memories

OpenedMem(m, r) ==
  [m EXCEPT !.phase = "betting", !.round = r, !.launchedAt = 0, !.crash = 0,
            !.bets = NoBets, !.launch = r]
LEMMA OpenedMemory ==
  ASSUME NEW m \in Memories, NEW r \in Rounds
  PROVE  /\ OpenedMem(m, r) \in Memories /\ OpenedMem(m, r).phase = "betting"
         /\ OpenedMem(m, r).round = r /\ OpenedMem(m, r).bets = NoBets
         /\ OpenedMem(m, r).crash = 0 /\ OpenedMem(m, r).launchedAt = 0
         /\ OpenedMem(m, r).finish = m.finish /\ OpenedMem(m, r).next = m.next
         /\ OpenedMem(m, r).autos = m.autos /\ OpenedMem(m, r).crashTimer = m.crashTimer
BY NoBetIsBet DEF OpenedMem, Memories

(* What is left of OpenOrRetry() for the proofs.                            *)
LEMMA OpenCases ==
  ASSUME OpenOrRetry
  PROVE  \E r \in Unopened, o \in Outcomes("open") :
           /\ round' = IF o = "fail" THEN round ELSE [round EXCEPT ![r] = Opened(round[r])]
           /\ mem' = IF o = "ok" THEN OpenedMem(mem, r)
                     ELSE [mem EXCEPT !.phase = "idle", !.next = TRUE]
           /\ Count(o) /\ Done
           /\ UNCHANGED <<now, bet, ledger, xp, process>>
BY DEF OpenOrRetry, Opened, OpenedMem

LEMMA OpenStep == ASSUME IInv, Up, queue # <<>>, OpenOrRetry PROVE IInv'
<1>1. PICK r \in Unopened, o \in Outcomes("open") :
        /\ round' = IF o = "fail" THEN round ELSE [round EXCEPT ![r] = Opened(round[r])]
        /\ mem' = IF o = "ok" THEN OpenedMem(mem, r)
                  ELSE [mem EXCEPT !.phase = "idle", !.next = TRUE]
        /\ Count(o) /\ Done
        /\ UNCHANGED <<now, bet, ledger, xp, process>>
  BY OpenCases
<1>2. r \in Rounds /\ round[r].status = "NONE" /\ mem \in Memories
  BY <1>1, TypeParts DEF Unopened
<1>3. round \in [Rounds -> RoundRows] /\ Opened(round[r]) \in RoundRows
      /\ Opened(round[r]).status = "OPEN"
  <2>1. round \in [Rounds -> RoundRows]
    BY DEF IInv, TypeOK
  <2>. QED BY <2>1, <1>2, OpenedRow
<1>4. /\ round' \in [Rounds -> RoundRows]
      /\ \A s \in Rounds : round'[s] = round[s] \/ (s = r /\ o # "fail" /\ round'[s].status = "OPEN")
      /\ o # "fail" => round'[r].status = "OPEN"
  BY <1>1, <1>2, <1>3
<1>5. mem' \in Memories
  BY <1>1, <1>2, OpenedMemory, RetriedMem
<1>6. queue' \in Seq(Jobs) /\ JobsOK'
  BY <1>1, TypeParts, DoneKeepsJobs
<1>7. TypeOK'
  BY <1>1, <1>4, <1>5, <1>6, TypeParts, Counted DEF IInv, TypeOK
<1>8. RowsOK' /\ TargetKept' /\ BetsAccounted'
  BY <1>1, <1>2, <1>4, StatusStep
<1>9. MemOK'
  <2>1. CASE o = "ok"
    <3>1. mem'.bets = NoBets
      BY <1>1, <1>2, <2>1, OpenedMemory
    <3>. QED BY <3>1, NoBetIsBet DEF MemOK, NoBets
  <2>2. CASE o # "ok"
    <3>1. mem'.bets = mem.bets /\ mem'.round = mem.round
      BY <1>1, <1>2, <2>2, RetriedMem
    <3>. QED BY <3>1, <1>1 DEF IInv, MemOK
  <2>. QED BY <2>1, <2>2
<1>10. PhaseOK'
  <2>1. CASE o = "ok"
    <3>1. mem'.phase = "betting" /\ mem'.round = r
      BY <1>1, <1>2, <2>1, OpenedMemory
    <3>. QED BY <3>1, <1>2, <1>4, <2>1 DEF PhaseOK
  <2>2. CASE o # "ok"
    <3>1. mem'.round = mem.round /\ mem'.phase = "idle"
      BY <1>1, <1>2, <2>2, RetriedMem
    <3>. QED BY <3>1, <1>2, <1>4 DEF IInv, PhaseOK
  <2>. QED BY <2>1, <2>2
<1>11. DownIsBlank'
  BY <1>1 DEF DownIsBlank, Up
<1>. QED BY <1>6, <1>7, <1>8, <1>9, <1>10, <1>11 DEF IInv

LEMMA SleepStep == ASSUME IInv, Up, queue # <<>>, Sleep PROVE IInv'
<1>. DEFINE m == [mem EXCEPT !.phase = "idle", !.round = None, !.launchedAt = 0, !.crash = 0,
                             !.bets = NoBets]
<1>1. mem \in Memories /\ queue' \in Seq(Jobs) /\ JobsOK'
  BY TypeParts, DoneKeepsJobs DEF Sleep
<1>2. mem' \in Memories /\ mem'.phase = "idle" /\ mem'.round = None /\ mem'.bets = NoBets
  BY <1>1, NoBetIsBet DEF Sleep, Memories
<1>3. TypeOK'
  BY <1>1, <1>2 DEF Sleep, IInv, TypeOK, dbVars
<1>4. MemOK' /\ PhaseOK'
  BY <1>2, NoneIsNoRound, NoBetIsBet DEF MemOK, PhaseOK, NoBets
<1>. QED BY <1>1, <1>3, <1>4, MemStep DEF Sleep, dbVars

LEMMA WakeStep == ASSUME IInv, RunWake PROVE IInv'
BY OpenStep, DropStep DEF RunWake, Running

LEMMA NextStep == ASSUME IInv, RunNext PROVE IInv'
BY OpenStep, SleepStep DEF RunNext, Running

(* The memory of a flight that begins now.                                  *)
Launching(r, x) ==
  [mem EXCEPT !.phase = "flying", !.launchedAt = now, !.crash = x,
     !.crashTimer = {[round |-> r, due |-> now + MsTo[x]]},
     !.autos = {[user |-> u, round |-> r, due |-> now + MsTo[mem.bets[u].auto]] :
                  u \in {v \in Users : mem.bets[v].auto # 0 /\ mem.bets[v].auto <= x}}]

LEMMA LaunchedMem ==
  ASSUME mem \in Memories, now \in Nat, NEW r \in Rounds, NEW x \in Crashes
  PROVE  LET m == Launching(r, x)
         IN  /\ m \in Memories /\ m.phase = "flying" /\ m.launchedAt = now /\ m.crash = x
             /\ m.round = mem.round /\ m.bets = mem.bets
             /\ m.finish = mem.finish /\ m.next = mem.next
             /\ m.crashTimer = {[round |-> r, due |-> now + MsTo[x]]}
             /\ m.autos = {[user |-> u, round |-> r, due |-> now + MsTo[mem.bets[u].auto]] :
                  u \in {v \in Users : mem.bets[v].auto # 0 /\ mem.bets[v].auto <= x}}
<1>1. {[round |-> r, due |-> now + MsTo[x]]} \in SUBSET [round : Rounds, due : Nat]
  BY CrashesAreMultipliers
<1>2. ASSUME NEW u \in Users, mem.bets[u].auto # 0
      PROVE  [user |-> u, round |-> r, due |-> now + MsTo[mem.bets[u].auto]]
               \in [user : Users, round : Rounds, due : Nat]
  <2>1. mem.bets[u].auto \in Autos \ {0}
    BY <1>2 DEF Memories, MemBets
  <2>. QED BY <2>1, CrashesAreMultipliers
<1>. DEFINE A == {[user |-> u, round |-> r, due |-> now + MsTo[mem.bets[u].auto]] :
                  u \in {v \in Users : mem.bets[v].auto # 0 /\ mem.bets[v].auto <= x}}
            T == {[round |-> r, due |-> now + MsTo[x]]}
<1>3. A \in SUBSET [user : Users, round : Rounds, due : Nat]
  BY <1>2
<1>4. Launching(r, x) = [mem EXCEPT !.phase = "flying", !.launchedAt = now, !.crash = x,
                                    !.crashTimer = T, !.autos = A]
  BY DEF Launching
<1>. HIDE DEF A, T
<1>5. LET m == [mem EXCEPT !.phase = "flying", !.launchedAt = now, !.crash = x,
                          !.crashTimer = T, !.autos = A]
      IN  /\ m \in Memories /\ m.phase = "flying" /\ m.launchedAt = now /\ m.crash = x
          /\ m.round = mem.round /\ m.bets = mem.bets
          /\ m.finish = mem.finish /\ m.next = mem.next
          /\ m.crashTimer = T /\ m.autos = A
  BY <1>1, <1>3 DEF Memories, T
<1>. QED BY <1>4, <1>5 DEF A, T

LEMMA LaunchCases ==
  ASSUME RunLaunch
  PROVE  /\ Up /\ queue # <<>> /\ Head(queue).kind = "launch"
         /\ \/ Drop
            \/ /\ mem.phase = "betting" /\ mem.round = Head(queue).round
               /\ \E x \in Crashes : mem' = Launching(Head(queue).round, x)
               /\ Done /\ UNCHANGED <<now, dbVars, process, faults>>
BY DEF RunLaunch, Running, Launching

LEMMA LaunchStep == ASSUME IInv, RunLaunch PROVE IInv'
<1>. DEFINE r == Head(queue).round
<1>0. Up /\ queue # <<>> /\ Head(queue).kind = "launch" /\ mem \in Memories /\ now \in Nat
  BY LaunchCases, TypeParts
<1>1. CASE Drop
  BY <1>0, <1>1, DropStep
<1>2. ASSUME mem.phase = "betting" /\ mem.round = r,
             NEW x \in Crashes, mem' = Launching(r, x),
             Done /\ UNCHANGED <<now, dbVars, process, faults>>
      PROVE  IInv'
  <2>1. r \in Rounds
    BY <1>0, TypeParts, HeadIsJob DEF JobOK
  <2>2. mem' \in Memories /\ mem'.phase = "flying" /\ mem'.round = mem.round
        /\ mem'.bets = mem.bets /\ mem'.crash = x
    BY <1>0, <1>2, <2>1, LaunchedMem
  <2>3. queue' \in Seq(Jobs) /\ JobsOK'
    BY <1>0, <1>2, TypeParts, DoneKeepsJobs
  <2>4. TypeOK'
    BY <1>2, <2>2, <2>3 DEF IInv, TypeOK, dbVars
  <2>5. MemOK'
    BY <1>2, <2>2 DEF IInv, MemOK, dbVars
  <2>6. PhaseOK'
    BY <1>2, <2>1, <2>2 DEF IInv, PhaseOK, dbVars
  <2>. QED BY <1>0, <1>2, <2>3, <2>4, <2>5, <2>6, MemStep DEF dbVars
<1>. QED BY <1>1, <1>2, LaunchCases

LEMMA CrashStep == ASSUME IInv, RunCrash PROVE IInv'
<1>. DEFINE r == Head(queue).round
<1>0. Up /\ queue # <<>> /\ Head(queue).kind = "crash" /\ mem \in Memories /\ now \in Nat
  BY TypeParts DEF RunCrash, Running
<1>1. CASE mem.round # r \/ mem.phase # "flying"
  BY <1>0, <1>1, DropStep DEF RunCrash
<1>2. ASSUME mem.round = r /\ mem.phase = "flying" PROVE IInv'
  <2>1. r \in Rounds /\ mem.crash \in Crashes /\ MsTo[mem.crash] \in Nat /\ mem.launchedAt \in Nat
    <3>1. r \in Rounds
      BY <1>0, TypeParts, HeadIsJob DEF JobOK
    <3>2. mem.crash \in Crashes
      BY <1>2 DEF IInv, PhaseOK
    <3>. QED BY <1>0, <3>1, <3>2, CrashesAreMultipliers DEF Memories
  <2>2. UNCHANGED <<now, dbVars, process, faults>>
    BY <1>2 DEF RunCrash
  <2>3. CASE now < CrashAt
    <3>1. mem' = [mem EXCEPT !.crashTimer = {[round |-> r, due |-> CrashAt]}] /\ Done
      BY <1>2, <2>3 DEF RunCrash
    <3>2. {[round |-> r, due |-> CrashAt]} \in SUBSET [round : Rounds, due : Nat]
      BY <2>1 DEF CrashAt
    <3>3. mem' \in Memories /\ SameCore
      BY <1>0, <3>1, <3>2 DEF Memories, SameCore
    <3>. QED BY <1>0, <2>2, <3>1, <3>3, TypeParts, DoneKeepsJobs, QuietStep
  <2>4. CASE ~ (now < CrashAt)
    <3>1. mem' = [mem EXCEPT !.phase = "crashed", !.autos = {}]
          /\ queue' = <<Job("finish", None, r)>> \o Tail(queue)
      BY <1>2, <2>4 DEF RunCrash
    <3>2. mem' \in Memories /\ mem'.phase = "crashed" /\ mem'.round = r
          /\ mem'.crash = mem.crash /\ mem'.bets = mem.bets
      BY <1>0, <1>2, <3>1 DEF Memories
    <3>3. Job("finish", None, r) \in Jobs /\ JobOK(Job("finish", None, r))
      <4>. HIDE DEF r
      <4>1. LET j == Job("finish", None, r)
            IN  j \in Jobs /\ j.kind = "finish" /\ j.round = r
        <5>1. TypeOK
          BY TypeParts
        <5>. QED BY <2>1, <5>1, JobIsJob
      <4>. QED BY <2>1, <4>1 DEF JobOK
    <3>4. queue' \in Seq(Jobs) /\ JobsOK'
      BY <1>0, <3>1, <3>3, TypeParts, FirstQ DEF JobsOK
    <3>5. TypeOK'
      BY <2>2, <3>2, <3>4 DEF IInv, TypeOK, dbVars
    <3>6. MemOK'
      BY <1>2, <2>2, <3>2 DEF IInv, MemOK, dbVars
    <3>7. PhaseOK'
      BY <1>2, <2>1, <2>2, <3>2 DEF IInv, PhaseOK, dbVars
    <3>. QED BY <1>0, <2>2, <3>4, <3>5, <3>6, <3>7, MemStep DEF dbVars
  <2>. QED BY <2>3, <2>4
<1>. QED BY <1>1, <1>2

-----------------------------------------------------------------------------
(* The first invariant: bets and payouts.                                   *)

BetRow == [amount : Amounts \cup {0}, auto : Autos \cup {0}, cashout : Nat]
NewBet(j) == [amount |-> j.amount, auto |-> j.auto, cashout |-> 0]
Cashed(b, x) == [b EXCEPT !.cashout = x]
PutBet(B, r, u, b) == [B EXCEPT ![r][u] = b]
PutMem(m, u, b) == [m EXCEPT !.bets[u] = b]

LEMMA PutBetIs ==
  ASSUME NEW B \in [Rounds -> MemBets], NEW r \in Rounds, NEW u \in Users, NEW b \in BetRow
  PROVE  /\ PutBet(B, r, u, b) \in [Rounds -> MemBets]
         /\ \A s \in Rounds, v \in Users :
              PutBet(B, r, u, b)[s][v] = IF s = r /\ v = u THEN b ELSE B[s][v]
BY DEF PutBet, MemBets, BetRow

LEMMA PutMemIs ==
  ASSUME NEW m \in Memories, NEW u \in Users, NEW b \in BetRow
  PROVE  LET w == PutMem(m, u, b)
         IN  /\ w \in Memories /\ w.phase = m.phase /\ w.round = m.round
             /\ w.launchedAt = m.launchedAt /\ w.crash = m.crash
             /\ w.finish = m.finish /\ w.next = m.next
             /\ w.autos = m.autos /\ w.crashTimer = m.crashTimer
             /\ \A v \in Users : w.bets[v] = IF v = u THEN b ELSE m.bets[v]
BY DEF PutMem, Memories, MemBets, BetRow

LEMMA CashedIs ==
  ASSUME NEW b \in BetRow, NEW x \in Nat
  PROVE  /\ Cashed(b, x) \in BetRow /\ Cashed(b, x).amount = b.amount
         /\ Cashed(b, x).auto = b.auto /\ Cashed(b, x).cashout = x
BY DEF Cashed, BetRow

LEMMA BetsAreRows ==
  ASSUME IInv
  PROVE  /\ bet \in [Rounds -> MemBets] /\ mem \in Memories
         /\ \A r \in Rounds, u \in Users : bet[r][u] \in BetRow
         /\ \A u \in Users : mem.bets[u] \in BetRow
         /\ ledger.balance \in [Users -> Nat] /\ ledger.rows \subseteq CoinRows
BY DEF IInv, TypeOK, Memories, MemBets, BetRow

(* A movement of coins of one player in one round, and the row of the bet   *)
(* it goes with.                                                           *)
LEMMA MoveAccounted ==
  ASSUME IInv, NEW r \in Rounds, NEW u \in Users, NEW k, NEW d, NEW b \in BetRow,
         UNCHANGED round,
         ledger'.rows = ledger.rows \cup {Row(u, k, r, d)},
         bet' = PutBet(bet, r, u, b),
         Account(u, r, b, round[r].status) =
           Account(u, r, bet[r][u], round[r].status) \cup {Row(u, k, r, d)}
  PROVE  BetsAccounted'
<1>1. Accounted(ledger.rows, bet, round)
  BY AccountedIs DEF IInv
<1>2. \A s \in Rounds, v \in Users : bet'[s][v] = IF s = r /\ v = u THEN b ELSE bet[s][v]
  BY BetsAreRows, PutBetIs
<1>3. Accounted(ledger'.rows, bet', round')
  <2>. SUFFICES ASSUME NEW s \in Rounds, NEW v \in Users
                PROVE  RowsIn(ledger'.rows, v, s) = Account(v, s, bet'[s][v], round[s].status)
    BY DEF Accounted
  <2>1. RowsIn(ledger.rows, v, s) = Account(v, s, bet[s][v], round[s].status)
    BY <1>1 DEF Accounted
  <2>2. RowsIn(ledger'.rows, v, s) =
          RowsIn(ledger.rows, v, s) \cup (IF v = u /\ s = r THEN {Row(u, k, r, d)} ELSE {})
    BY OneRowMore
  <2>. QED BY <1>2, <2>1, <2>2
<1>4. BetsAccounted' <=> Accounted(ledger'.rows, bet', round')
  BY DEF BetsAccounted, Accounted, RowsOf, RowsIn, Account
<1>. QED BY <1>3, <1>4

(* bet() of a player who had none.                                         *)
Placed(j) ==
  /\ ledger' = Charge(ledger, j.user, j.amount, "JETPACK_BET", mem.round)
  /\ bet' = PutBet(bet, mem.round, j.user, NewBet(j))
  /\ xp' = xp \cup {<<j.user, mem.round>>}
  /\ UNCHANGED round

LEMMA PlacedLedger ==
  ASSUME IInv, NEW u \in Users, NEW r \in Rounds, NEW a \in Amounts,
         CanCharge(ledger, u, a, "JETPACK_BET", r)
  PROVE  LET L == Charge(ledger, u, a, "JETPACK_BET", r)
         IN  /\ L \in [balance : [Users -> Nat], rows : SUBSET CoinRows]
             /\ L.rows = ledger.rows \cup {Row(u, "JETPACK_BET", r, - a)}
<1>1. a \in Nat /\ a > 0 /\ - a \in Int
  BY JetpackAssumption
<1>2. ledger.balance \in [Users -> Nat] /\ ledger.rows \subseteq CoinRows /\ ledger.balance[u] >= a
  BY <1>1, BetsAreRows DEF CanCharge
<1>3. Row(u, "JETPACK_BET", r, - a) \in CoinRows
  BY <1>1, RowIsRow
<1>4. Charge(ledger, u, a, "JETPACK_BET", r) = Move(ledger, u, - a, "JETPACK_BET", r)
  BY <1>1 DEF Charge
<1>5. ledger.balance[u] + (- a) \in Nat
  BY <1>1, <1>2
<1>. QED BY <1>2, <1>3, <1>4, <1>5 DEF Move

LEMMA BetPlaced ==
  ASSUME IInv, NEW j \in Jobs, j.user \in Users, j.amount \in Amounts, mem.round \in Rounds,
         round[mem.round].status # "VOIDED", round[mem.round].status # "NONE",
         bet[mem.round][j.user].amount = 0,
         CanCharge(ledger, j.user, j.amount, "JETPACK_BET", mem.round), Placed(j)
  PROVE  /\ bet' \in [Rounds -> MemBets] /\ NewBet(j) \in BetRow
         /\ ledger' \in [balance : [Users -> Nat], rows : SUBSET CoinRows]
         /\ xp' \subseteq Users \X Rounds
         /\ RowsOK' /\ TargetKept' /\ BetsAccounted'
         /\ \A s \in Rounds, v \in Users :
              bet'[s][v] = IF s = mem.round /\ v = j.user THEN NewBet(j) ELSE bet[s][v]
<1>. DEFINE u == j.user
            r == mem.round
            b == NewBet(j)
<1>1. b \in BetRow /\ b.amount = j.amount /\ b.cashout = 0 /\ j.amount # 0
  BY JetpackAssumption DEF NewBet, BetRow, Jobs
<1>2. /\ bet' \in [Rounds -> MemBets]
      /\ \A s \in Rounds, v \in Users : bet'[s][v] = IF s = r /\ v = u THEN b ELSE bet[s][v]
  <2>. HIDE DEF b
  <2>. QED BY <1>1, BetsAreRows, PutBetIs DEF Placed, b
<1>3. /\ ledger' \in [balance : [Users -> Nat], rows : SUBSET CoinRows]
      /\ ledger'.rows = ledger.rows \cup {Row(u, "JETPACK_BET", r, - j.amount)}
  BY PlacedLedger DEF Placed
<1>4. xp' \subseteq Users \X Rounds
  BY DEF Placed, IInv, TypeOK
<1>. HIDE DEF b
<1>5. RowsOK' /\ TargetKept'
  <2>1. UNCHANGED round
    BY DEF Placed
  <2>. QED BY <1>1, <1>2, <2>1 DEF IInv, RowsOK, TargetKept
<1>6. BetsAccounted'
  <2>1. bet[r][u].cashout = 0
    BY NoBetIsBet DEF IInv, RowsOK
  <2>2. Account(u, r, b, round[r].status) =
          Account(u, r, bet[r][u], round[r].status) \cup {Row(u, "JETPACK_BET", r, - j.amount)}
    BY <1>1, <2>1 DEF Account
  <2>3. bet' = PutBet(bet, r, u, b) /\ UNCHANGED round
    BY DEF Placed, b
  <2>. QED BY <1>1, <1>3, <2>2, <2>3, MoveAccounted
<1>. QED BY <1>1, <1>2, <1>3, <1>4, <1>5, <1>6 DEF b

LEMMA BetCases ==
  ASSUME RunBet
  PROVE  LET j == Head(queue)
         IN  /\ Up /\ queue # <<>> /\ j.kind = "bet"
             /\ \/ Drop
                \/ /\ mem.phase = "betting" /\ mem.bets[j.user].amount = 0
                   /\ bet[mem.round][j.user].amount = 0
                   /\ CanCharge(ledger, j.user, j.amount, "JETPACK_BET", mem.round)
                   /\ \E o \in Outcomes("bet") :
                        /\ IF o = "fail" THEN UNCHANGED dbVars ELSE Placed(j)
                        /\ mem' = IF o = "ok" THEN PutMem(mem, j.user, NewBet(j)) ELSE mem
                        /\ Count(o) /\ Done
                        /\ UNCHANGED <<now, process>>
BY DEF RunBet, Running, Placed, PutMem, PutBet, NewBet

LEMMA BetStep == ASSUME IInv, RunBet PROVE IInv'
<1>. DEFINE j == Head(queue)
            u == j.user
<1>0. /\ Up /\ queue # <<>> /\ j.kind = "bet" /\ mem \in Memories
      /\ j \in Jobs /\ u \in Users /\ j.amount \in Amounts /\ TypeOK
  BY BetCases, TypeParts, HeadIsJob DEF JobOK
<1>1. CASE Drop
  BY <1>0, <1>1, DropStep
<1>2. ASSUME mem.phase = "betting", mem.bets[u].amount = 0,
             bet[mem.round][u].amount = 0,
             CanCharge(ledger, u, j.amount, "JETPACK_BET", mem.round),
             NEW o \in Outcomes("bet"),
             IF o = "fail" THEN UNCHANGED dbVars ELSE Placed(j),
             mem' = IF o = "ok" THEN PutMem(mem, u, NewBet(j)) ELSE mem,
             Count(o), Done, UNCHANGED <<now, process>>
      PROVE  IInv'
  <2>1. queue' \in Seq(Jobs) /\ JobsOK' /\ faults' \in 0 .. MaxFaults /\ o \in Outcome
    BY <1>0, <1>2, TypeParts, DoneKeepsJobs, Counted
  <2>2. mem.round \in Rounds /\ round[mem.round].status \in {"OPEN", "FINISHED"}
    BY <1>2 DEF IInv, PhaseOK
  <2>3. CASE o = "fail"
    <3>1. UNCHANGED <<dbVars, process, now>> /\ mem' = mem
      BY <1>2, <2>3
    <3>. QED BY <1>0, <2>1, <3>1, TypeParts, QuietStep DEF SameCore
  <2>4. CASE o # "fail"
    <3>1. Placed(j)
      BY <1>2, <2>4
    <3>2. /\ bet' \in [Rounds -> MemBets] /\ NewBet(j) \in BetRow
          /\ ledger' \in [balance : [Users -> Nat], rows : SUBSET CoinRows]
          /\ xp' \subseteq Users \X Rounds
          /\ RowsOK' /\ TargetKept' /\ BetsAccounted'
          /\ \A s \in Rounds, v \in Users :
               bet'[s][v] = IF s = mem.round /\ v = u THEN NewBet(j) ELSE bet[s][v]
      BY <1>0, <1>2, <2>2, <3>1, BetPlaced
    <3>3. /\ mem' \in Memories /\ mem'.phase = mem.phase /\ mem'.round = mem.round
          /\ mem'.crash = mem.crash
          /\ \A v \in Users : mem'.bets[v] = IF v = u /\ o = "ok" THEN NewBet(j) ELSE mem.bets[v]
      BY <1>0, <1>2, <3>2, PutMemIs
    <3>4. UNCHANGED round
      BY <3>1 DEF Placed
    <3>5. TypeOK'
      BY <1>0, <1>2, <2>1, <3>2, <3>3, <3>4 DEF TypeOK
    <3>6. MemOK'
      <4>1. NewBet(j).cashout = 0 /\ NewBet(j).amount # 0
        BY <1>0, JetpackAssumption DEF NewBet
      <4>. SUFFICES ASSUME NEW v \in Users
                    PROVE  /\ mem'.bets[v].amount = 0 => mem'.bets[v] = NoBet
                           /\ mem'.bets[v].amount # 0 =>
                                mem'.round \in Rounds /\ MatchesRow(mem'.bets[v], bet'[mem'.round][v])
        BY DEF MemOK, MatchesRow
      <4>2. CASE v = u /\ o = "ok"
        BY <2>2, <3>2, <3>3, <4>1, <4>2 DEF MatchesRow
      <4>3. CASE v = u /\ o # "ok"
        BY <1>2, <3>3, <4>3 DEF IInv, MemOK
      <4>4. CASE v # u
        BY <2>2, <3>2, <3>3, <4>4 DEF IInv, MemOK
      <4>. QED BY <4>2, <4>3, <4>4
    <3>7. PhaseOK'
      BY <3>3, <3>4 DEF IInv, PhaseOK
    <3>8. DownIsBlank'
      BY <1>0, <1>2 DEF DownIsBlank, Up
    <3>. QED BY <2>1, <3>2, <3>5, <3>6, <3>7, <3>8 DEF IInv
  <2>. QED BY <2>3, <2>4
<1>. QED BY <1>1, <1>2, BetCases

(* payOut() at a multiplier the rules allow.                                *)
Allowed(u, x) ==
  /\ mem.round \in Rounds /\ Riding(u)
  /\ x \in Nat /\ x >= 100
  /\ mem.bets[u].auto # 0 => x <= mem.bets[u].auto

Takes(u, o) == bet[mem.round][u].cashout = 0 /\ o # "fail"

LEMMA PayCases ==
  ASSUME NEW u \in Users, NEW x, NEW o, PayOut(u, x, o)
  PROVE  LET n == Payout(bet[mem.round][u].amount, x)
         IN  /\ IF Takes(u, o)
                THEN /\ CanCredit(ledger, u, n, "JETPACK_WIN", mem.round)
                     /\ bet' = PutBet(bet, mem.round, u, Cashed(bet[mem.round][u], x))
                     /\ ledger' = Credit(ledger, u, n, "JETPACK_WIN", mem.round)
                ELSE UNCHANGED <<bet, ledger>>
             /\ UNCHANGED <<round, xp>>
BY DEF PayOut, Takes, PutBet, Cashed

LEMMA PaidLedger ==
  ASSUME IInv, NEW u \in Users, NEW r \in Rounds, NEW n \in Nat, n > 0
  PROVE  LET L == Credit(ledger, u, n, "JETPACK_WIN", r)
         IN  /\ L \in [balance : [Users -> Nat], rows : SUBSET CoinRows]
             /\ L.rows = ledger.rows \cup {Row(u, "JETPACK_WIN", r, n)}
<1>1. ledger.balance \in [Users -> Nat] /\ ledger.rows \subseteq CoinRows
  BY BetsAreRows
<1>2. Row(u, "JETPACK_WIN", r, n) \in CoinRows
  BY RowIsRow
<1>3. Credit(ledger, u, n, "JETPACK_WIN", r) = Move(ledger, u, n, "JETPACK_WIN", r)
  BY DEF Credit
<1>4. ledger.balance[u] + n \in Nat
  BY <1>1
<1>. QED BY <1>1, <1>2, <1>3, <1>4 DEF Move

LEMMA PaidOut ==
  ASSUME IInv, NEW u \in Users, NEW x, NEW o, Allowed(u, x), PayOut(u, x, o)
  PROVE  /\ bet' \in [Rounds -> MemBets]
         /\ ledger' \in [balance : [Users -> Nat], rows : SUBSET CoinRows]
         /\ RowsOK' /\ TargetKept' /\ BetsAccounted' /\ UNCHANGED <<round, xp>>
         /\ \A s \in Rounds, v \in Users :
              bet'[s][v] = IF s = mem.round /\ v = u /\ Takes(u, o)
                           THEN Cashed(bet[s][v], x) ELSE bet[s][v]
<1>. DEFINE r == mem.round
            b == Cashed(bet[r][u], x)
            n == Payout(bet[r][u].amount, x)
<1>0. UNCHANGED <<round, xp>> /\ r \in Rounds /\ x \in Nat /\ x >= 100
  BY PayCases DEF Allowed
<1>1. CASE ~ Takes(u, o)
  <2>1. UNCHANGED <<bet, ledger>>
    BY <1>1, PayCases
  <2>2. bet' \in [Rounds -> MemBets]
        /\ ledger' \in [balance : [Users -> Nat], rows : SUBSET CoinRows]
    BY <2>1 DEF IInv, TypeOK
  <2>3. RowsOK' /\ TargetKept' /\ BetsAccounted'
    BY <1>0, <2>1, StatusStep
  <2>. QED BY <1>0, <1>1, <2>1, <2>2, <2>3
<1>2. CASE Takes(u, o)
  <2>1. bet' = PutBet(bet, r, u, b) /\ ledger' = Credit(ledger, u, n, "JETPACK_WIN", r)
    BY <1>2, PayCases
  <2>2. /\ bet[r][u].cashout = 0 /\ bet[r][u] \in BetRow
        /\ bet[r][u].amount \in Amounts /\ bet[r][u].amount # 0
        /\ bet[r][u].auto = mem.bets[u].auto
    <3>1. bet[r][u].cashout = 0 /\ bet[r][u] \in BetRow
      BY <1>0, <1>2, BetsAreRows DEF Takes
    <3>2. MatchesRow(mem.bets[u], bet[r][u]) /\ mem.bets[u].amount # 0
      BY DEF Allowed, Riding, IInv, MemOK
    <3>. QED BY <3>1, <3>2 DEF MatchesRow, BetRow
  <2>3. b \in BetRow /\ b.amount = bet[r][u].amount /\ b.auto = bet[r][u].auto /\ b.cashout = x
    BY <1>0, <2>2, CashedIs
  <2>4. n \in Nat /\ n > 0
    BY <1>0, <2>2, PayoutIsPositive
  <2>5. round[r].status \in {"OPEN", "FINISHED"}
    BY <1>0 DEF IInv, PhaseOK
  <2>. HIDE DEF b, n
  <2>6. /\ bet' \in [Rounds -> MemBets]
        /\ \A s \in Rounds, v \in Users : bet'[s][v] = IF s = r /\ v = u THEN b ELSE bet[s][v]
    BY <1>0, <2>1, <2>3, BetsAreRows, PutBetIs
  <2>7. /\ ledger' \in [balance : [Users -> Nat], rows : SUBSET CoinRows]
        /\ ledger'.rows = ledger.rows \cup {Row(u, "JETPACK_WIN", r, n)}
    BY <1>0, <2>1, <2>4, PaidLedger
  <2>8. RowsOK'
    BY <1>0, <2>2, <2>3, <2>5, <2>6 DEF IInv, RowsOK
  <2>9. TargetKept'
    BY <1>0, <2>2, <2>3, <2>6 DEF IInv, TargetKept, Allowed
  <2>10. BetsAccounted'
    <3>1. Account(u, r, b, round[r].status) =
            Account(u, r, bet[r][u], round[r].status) \cup {Row(u, "JETPACK_WIN", r, n)}
      <4>1. n = Payout(b.amount, b.cashout) /\ b.cashout # 0
        BY <1>0, <2>3 DEF n
      <4>. QED BY <2>2, <2>3, <2>5, <4>1 DEF Account
    <3>. QED BY <1>0, <2>1, <2>3, <2>7, <3>1, MoveAccounted
  <2>11. \A s \in Rounds, v \in Users :
              bet'[s][v] = IF s = r /\ v = u /\ Takes(u, o)
                           THEN Cashed(bet[s][v], x) ELSE bet[s][v]
    BY <1>2, <2>6 DEF b
  <2>. QED BY <1>0, <2>6, <2>7, <2>8, <2>9, <2>10, <2>11
<1>. QED BY <1>1, <1>2

(* The memory after it: the bet as the row has it, or only a timer.         *)
PaidMem(u, x, o) ==
  IF o = "ok" THEN mem' = PutMem(mem, u, PaidBet(u, x))
  ELSE mem' = mem \/ mem' = [mem EXCEPT !.finish = mem.round]

LEMMA PaidBetIs ==
  ASSUME IInv, NEW u \in Users, NEW x \in Nat, mem.round \in Rounds
  PROVE  /\ PaidBet(u, x) \in BetRow /\ PaidBet(u, x).amount = mem.bets[u].amount
         /\ PaidBet(u, x).auto = mem.bets[u].auto
         /\ PaidBet(u, x).cashout = IF bet[mem.round][u].cashout = 0 THEN x
                                    ELSE bet[mem.round][u].cashout
BY BetsAreRows DEF PaidBet, BetRow

LEMMA PaidMemIs ==
  ASSUME IInv, NEW u \in Users, NEW x, NEW o, Allowed(u, x), PaidMem(u, x, o)
  PROVE  /\ mem' \in Memories /\ mem'.phase = mem.phase /\ mem'.round = mem.round
         /\ mem'.launchedAt = mem.launchedAt /\ mem'.crash = mem.crash
         /\ mem'.next = mem.next /\ mem'.autos = mem.autos /\ mem'.crashTimer = mem.crashTimer
         /\ mem'.finish = mem.finish \/ (o # "ok" /\ mem'.finish = mem.round)
         /\ \A v \in Users : mem'.bets[v] = IF v = u /\ o = "ok" THEN PaidBet(u, x) ELSE mem.bets[v]
<1>1. x \in Nat /\ mem.round \in Rounds /\ mem \in Memories
  BY TypeParts DEF Allowed
<1>2. CASE o = "ok"
  <2>1. PaidBet(u, x) \in BetRow
    BY <1>1, PaidBetIs
  <2>. QED BY <1>1, <1>2, <2>1, PutMemIs DEF PaidMem
<1>3. CASE o # "ok"
  BY <1>1, <1>3 DEF PaidMem, Memories
<1>. QED BY <1>2, <1>3

LEMMA PayStep ==
  ASSUME IInv, Up, NEW u \in Users, NEW x, NEW o \in Outcome, Allowed(u, x),
         PayOut(u, x, o), PaidMem(u, x, o), faults' \in 0 .. MaxFaults,
         queue' \in Seq(Jobs), JobsOK', UNCHANGED <<now, process>>
  PROVE  IInv'
<1>1. /\ bet' \in [Rounds -> MemBets]
      /\ ledger' \in [balance : [Users -> Nat], rows : SUBSET CoinRows]
      /\ RowsOK' /\ TargetKept' /\ BetsAccounted' /\ UNCHANGED <<round, xp>>
      /\ \A s \in Rounds, v \in Users :
           bet'[s][v] = IF s = mem.round /\ v = u /\ Takes(u, o)
                        THEN Cashed(bet[s][v], x) ELSE bet[s][v]
  BY PaidOut
<1>2. /\ mem' \in Memories /\ mem'.phase = mem.phase /\ mem'.round = mem.round
      /\ mem'.crash = mem.crash
      /\ \A v \in Users : mem'.bets[v] = IF v = u /\ o = "ok" THEN PaidBet(u, x) ELSE mem.bets[v]
  BY PaidMemIs
<1>3. TypeOK'
  BY <1>1, <1>2 DEF IInv, TypeOK
<1>4. x \in Nat /\ x # 0 /\ mem.round \in Rounds /\ Riding(u) /\ bet[mem.round][u] \in BetRow
  BY BetsAreRows DEF Allowed
<1>5. /\ Cashed(bet[mem.round][u], x).amount = bet[mem.round][u].amount
      /\ Cashed(bet[mem.round][u], x).auto = bet[mem.round][u].auto
      /\ Cashed(bet[mem.round][u], x).cashout = x
  BY <1>4, CashedIs
<1>6. MemOK'
  <2>. SUFFICES ASSUME NEW v \in Users
                PROVE  /\ mem'.bets[v].amount = 0 => mem'.bets[v] = NoBet
                       /\ mem'.bets[v].amount # 0 =>
                            mem'.round \in Rounds /\ MatchesRow(mem'.bets[v], bet'[mem'.round][v])
    BY DEF MemOK, MatchesRow
  <2>1. CASE v # u
    BY <1>1, <1>2, <1>4, <2>1 DEF IInv, MemOK
  <2>2. CASE v = u
    <3>1. mem.bets[u].amount # 0 /\ mem.bets[u].cashout = 0
          /\ MatchesRow(mem.bets[u], bet[mem.round][u])
      BY <1>4 DEF Riding, IInv, MemOK
    <3>2. bet'[mem.round][u] = IF Takes(u, o) THEN Cashed(bet[mem.round][u], x) ELSE bet[mem.round][u]
      BY <1>1, <1>4
    <3>3. CASE o = "ok"
      <4>1. /\ mem'.bets[u].amount = mem.bets[u].amount /\ mem'.bets[u].auto = mem.bets[u].auto
            /\ mem'.bets[u].cashout = IF bet[mem.round][u].cashout = 0 THEN x
                                      ELSE bet[mem.round][u].cashout
        BY <1>2, <1>4, <3>3, PaidBetIs
      <4>. QED BY <1>2, <1>4, <1>5, <2>2, <3>1, <3>2, <3>3, <4>1 DEF MatchesRow, Takes
    <3>4. CASE o # "ok"
      BY <1>2, <1>4, <1>5, <2>2, <3>1, <3>2, <3>4 DEF MatchesRow
    <3>. QED BY <3>3, <3>4
  <2>. QED BY <2>1, <2>2
<1>7. PhaseOK' /\ DownIsBlank'
  BY <1>1, <1>2 DEF IInv, PhaseOK, DownIsBlank, Up
<1>. QED BY <1>1, <1>3, <1>6, <1>7 DEF IInv

-----------------------------------------------------------------------------
(* The three ways to a payout.                                              *)

LEMMA PaysStep ==
  ASSUME IInv, Up, queue # <<>>, NEW u \in Users, NEW x, NEW o,
         Allowed(u, x), o \in Outcome, PayOut(u, x, o), PaidMem(u, x, o),
         faults' \in 0 .. MaxFaults, Done \/ UNCHANGED queue, UNCHANGED <<now, process>>
  PROVE  IInv'
<1>1. queue' \in Seq(Jobs) /\ JobsOK'
  <2>1. CASE Done
    BY <2>1, TypeParts, DoneKeepsJobs
  <2>2. CASE UNCHANGED queue
    BY <2>2, TypeParts DEF JobsOK
  <2>. QED BY <2>1, <2>2
<1>. QED BY <1>1, PayStep

LEMMA PayJobIs ==
  ASSUME TypeOK, NEW u \in Users, NEW x, PayJob(u, x)
  PROVE  \E o \in Outcome : /\ PayOut(u, x, o) /\ PaidMem(u, x, o) /\ faults' \in 0 .. MaxFaults
                            /\ Done /\ UNCHANGED <<now, process>>
                            /\ o # "ok" => mem' = mem
<1>1. PICK o \in Outcomes("payout") :
        /\ PayOut(u, x, o)
        /\ mem' = IF o = "ok" THEN [mem EXCEPT !.bets[u] = PaidBet(u, x)] ELSE mem
        /\ Count(o) /\ Done /\ UNCHANGED <<now, process>>
  BY DEF PayJob
<1>2. o \in Outcome /\ faults' \in 0 .. MaxFaults
  BY <1>1, Counted
<1>. QED BY <1>1, <1>2 DEF PaidMem, PutMem

(* The multiplier of a cashout: within the flight, the crash and the target. *)
CashoutX(j) == Least({X100At(j.at - mem.launchedAt), mem.crash} \cup
                     (IF mem.bets[j.user].auto = 0 THEN {} ELSE {mem.bets[j.user].auto}))

LEMMA CashoutXIs ==
  ASSUME IInv, NEW j \in Jobs, j.user \in Users, mem.phase = "flying", j.at >= mem.launchedAt
  PROVE  /\ CashoutX(j) \in Nat /\ CashoutX(j) >= 100 /\ CashoutX(j) <= mem.crash
         /\ mem.bets[j.user].auto # 0 => CashoutX(j) <= mem.bets[j.user].auto
<1>. DEFINE a == mem.bets[j.user].auto
            S == {X100At(j.at - mem.launchedAt), mem.crash} \cup (IF a = 0 THEN {} ELSE {a})
<1>1. j.at - mem.launchedAt \in Nat
  BY TypeParts DEF Jobs, Memories
<1>2. X100At(j.at - mem.launchedAt) \in DOMAIN MsTo
  BY <1>1, MultiplierReached
<1>3. mem.crash \in Crashes
  BY DEF IInv, PhaseOK
<1>4. a = 0 \/ a \in Autos \ {0}
  BY BetsAreRows DEF BetRow
<1>5. S \in SUBSET Nat /\ S # {} /\ \A y \in S : y >= 100
  <2>1. X100At(j.at - mem.launchedAt) \in Nat /\ X100At(j.at - mem.launchedAt) >= 100
    BY <1>2, JetpackAssumption
  <2>2. mem.crash \in Nat /\ mem.crash >= 100 /\ (a # 0 => a \in Nat /\ a >= 100)
    BY <1>3, <1>4, CrashesAreMultipliers
  <2>. QED BY <2>1, <2>2
<1>6. Least(S) \in S /\ \A y \in S : Least(S) <= y
  <2>. HIDE DEF S
  <2>. QED BY <1>5, LeastIsIn
<1>7. mem.crash \in S /\ (a # 0 => a \in S)
  OBVIOUS
<1>8. CashoutX(j) = Least(S)
  BY DEF CashoutX
<1>. HIDE DEF S
<1>. QED BY <1>5, <1>6, <1>7, <1>8

LEMMA CashoutCases ==
  ASSUME IInv, RunCashout
  PROVE  /\ Up /\ queue # <<>> /\ Head(queue).kind = "cashout"
         /\ \/ Drop
            \/ /\ mem.phase = "flying" /\ Head(queue).user \in Users
               /\ Allowed(Head(queue).user, CashoutX(Head(queue)))
               /\ CashoutX(Head(queue)) <= mem.crash
               /\ PayJob(Head(queue).user, CashoutX(Head(queue)))
<1>. DEFINE j == Head(queue)
            u == j.user
<1>1. Up /\ queue # <<>> /\ j.kind = "cashout"
  BY DEF RunCashout, Running
<1>2. j \in Jobs /\ u \in Users
  BY <1>1, TypeParts, HeadIsJob DEF JobOK
<1>3. CASE ~ (Riding(u) /\ mem.phase = "flying" /\ j.at >= mem.launchedAt /\ j.at < CrashAt)
  BY <1>1, <1>3 DEF RunCashout
<1>4. CASE Riding(u) /\ mem.phase = "flying" /\ j.at >= mem.launchedAt /\ j.at < CrashAt
  <2>1. PayJob(u, CashoutX(j))
    BY <1>4 DEF RunCashout, CashoutX
  <2>2. mem.round \in Rounds
    BY <1>4 DEF IInv, PhaseOK
  <2>3. Allowed(u, CashoutX(j)) /\ CashoutX(j) <= mem.crash
    BY <1>2, <1>4, <2>2, CashoutXIs DEF Allowed
  <2>. QED BY <1>1, <1>2, <1>4, <2>1, <2>3
<1>. QED BY <1>3, <1>4

LEMMA AutoCases ==
  ASSUME IInv, RunAuto
  PROVE  LET j == Head(queue)
             x == mem.bets[j.user].auto
         IN  /\ Up /\ queue # <<>> /\ j.kind = "auto"
             /\ \/ Drop
                \/ /\ mem.phase = "flying" /\ j.user \in Users /\ j.round = mem.round
                   /\ Allowed(j.user, x) /\ PayJob(j.user, x)
<1>. DEFINE j == Head(queue)
            u == j.user
            x == mem.bets[u].auto
<1>1. Up /\ queue # <<>> /\ j.kind = "auto"
  BY DEF RunAuto, Running
<1>2. u \in Users /\ j.round \in Rounds
  BY <1>1, TypeParts, HeadIsJob DEF JobOK
<1>3. CASE ~ (mem.round = j.round /\ mem.phase = "flying" /\ Riding(u) /\ x # 0)
  BY <1>1, <1>3 DEF RunAuto
<1>4. CASE mem.round = j.round /\ mem.phase = "flying" /\ Riding(u) /\ x # 0
  <2>1. PayJob(u, x)
    BY <1>4 DEF RunAuto
  <2>2. x \in Autos \ {0}
    BY <1>2, <1>4, BetsAreRows DEF BetRow
  <2>3. x \in Nat /\ x >= 100
    BY <2>2, CrashesAreMultipliers
  <2>. QED BY <1>1, <1>2, <1>4, <2>1, <2>3 DEF Allowed
<1>. QED BY <1>3, <1>4

FinishPays(u, x, o) ==
  /\ x <= mem.crash /\ Allowed(u, x) /\ PayOut(u, x, o)
  /\ faults' \in 0 .. MaxFaults /\ UNCHANGED <<now, process>>
  /\ \/ o = "ok" /\ mem' = PutMem(mem, u, PaidBet(u, x)) /\ UNCHANGED queue
     \/ o # "ok" /\ mem' = [mem EXCEPT !.finish = mem.round] /\ Done

LEMMA FinishPayCases ==
  ASSUME IInv, FinishPay
  PROVE  /\ Up /\ queue # <<>> /\ Head(queue).kind = "finish"
         /\ \E u \in Users, o \in Outcome : FinishPays(u, mem.bets[u].auto, o)
<1>1. PICK u \in Owed, o \in Outcomes("payout") :
        /\ Running("finish")
        /\ PayOut(u, mem.bets[u].auto, o)
        /\ IF o = "ok"
           THEN mem' = [mem EXCEPT !.bets[u] = PaidBet(u, mem.bets[u].auto)] /\ UNCHANGED queue
           ELSE mem' = RetryFinish(o) /\ Done
        /\ Count(o)
        /\ UNCHANGED <<now, process>>
  BY DEF FinishPay
<1>2. u \in Users /\ Riding(u) /\ mem.bets[u].auto # 0 /\ mem.bets[u].auto <= mem.crash
  BY <1>1 DEF Owed
<1>3. mem.bets[u].auto \in Nat /\ mem.bets[u].auto >= 100
  <2>1. mem.bets[u].auto \in Autos \ {0}
    BY <1>2, BetsAreRows DEF BetRow
  <2>. QED BY <2>1, CrashesAreMultipliers
<1>4. mem.round \in Rounds
  BY <1>2 DEF Riding, IInv, MemOK
<1>5. Allowed(u, mem.bets[u].auto)
  BY <1>2, <1>3, <1>4 DEF Allowed
<1>6. o \in Outcome /\ faults' \in 0 .. MaxFaults
  BY <1>1, TypeParts, Counted
<1>7. \/ o = "ok" /\ mem' = PutMem(mem, u, PaidBet(u, mem.bets[u].auto)) /\ UNCHANGED queue
      \/ o # "ok" /\ mem' = [mem EXCEPT !.finish = mem.round] /\ Done
  BY <1>1 DEF PutMem, RetryFinish
<1>8. Up /\ queue # <<>> /\ Head(queue).kind = "finish"
  BY <1>1 DEF Running
<1>9. FinishPays(u, mem.bets[u].auto, o)
  BY <1>1, <1>2, <1>5, <1>6, <1>7 DEF FinishPays
<1>. QED BY <1>2, <1>6, <1>8, <1>9

LEMMA CashoutStep == ASSUME IInv, RunCashout PROVE IInv'
BY CashoutCases, DropStep, TypeParts, PayJobIs, PaysStep

LEMMA AutoStep == ASSUME IInv, RunAuto PROVE IInv'
BY AutoCases, DropStep, TypeParts, PayJobIs, PaysStep

LEMMA FinishPayStep == ASSUME IInv, FinishPay PROVE IInv'
<1>. PICK u \in Users, o \in Outcome : FinishPays(u, mem.bets[u].auto, o)
  BY FinishPayCases
<1>. DEFINE x == mem.bets[u].auto
<1>1. /\ Allowed(u, x) /\ PayOut(u, x, o) /\ PaidMem(u, x, o)
      /\ faults' \in 0 .. MaxFaults /\ UNCHANGED <<now, process>> /\ (Done \/ UNCHANGED queue)
  BY DEF FinishPays, PaidMem
<1>2. Up /\ queue # <<>>
  BY FinishPayCases
<1>. HIDE DEF x
<1>. QED BY <1>1, <1>2, PaysStep

-----------------------------------------------------------------------------
(* The first invariant: the end of a round, death and restart.              *)

FinishedRow == [status |-> "FINISHED", crash |-> mem.crash]

LEMMA FinishCases ==
  ASSUME IInv, FinishRow
  PROVE  LET r == Head(queue).round
         IN  /\ Up /\ queue # <<>> /\ Head(queue).kind = "finish" /\ r \in Rounds
             /\ Owed = {} /\ Done /\ UNCHANGED <<now, bet, ledger, xp, process>>
             /\ \E o \in Outcome :
                  /\ round' = IF o # "fail" /\ round[r].status = "OPEN"
                              THEN [round EXCEPT ![r] = FinishedRow] ELSE round
                  /\ mem' = IF o = "ok" THEN [mem EXCEPT !.next = TRUE]
                            ELSE [mem EXCEPT !.finish = mem.round]
                  /\ faults' \in 0 .. MaxFaults
<1>. DEFINE r == Head(queue).round
<1>1. Up /\ queue # <<>> /\ Head(queue).kind = "finish"
  BY DEF FinishRow, Running
<1>2. r \in Rounds
  BY <1>1, TypeParts, HeadIsJob DEF JobOK
<1>3. PICK o \in Outcomes("finish") :
        /\ round' = IF o # "fail" /\ round[r].status = "OPEN"
                    THEN [round EXCEPT ![r] = FinishedRow] ELSE round
        /\ mem' = IF o = "ok" THEN [mem EXCEPT !.next = TRUE]
                  ELSE [mem EXCEPT !.finish = mem.round]
        /\ Count(o)
  BY DEF FinishRow, FinishedRow, RetryFinish
<1>4. o \in Outcome /\ faults' \in 0 .. MaxFaults
  BY <1>3, TypeParts, Counted
<1>. QED BY <1>1, <1>2, <1>3, <1>4 DEF FinishRow

LEMMA FinishedRowIs ==
  ASSUME IInv, NEW r \in Rounds
  PROVE  LET R == [round EXCEPT ![r] = FinishedRow]
         IN  /\ R \in [Rounds -> RoundRows]
             /\ \A s \in Rounds : s # r => R[s] = round[s]
             /\ R[r].status = "FINISHED" /\ R[r].crash = mem.crash
BY DEF IInv, TypeOK, RoundRows, FinishedRow, Memories

LEMMA FinishStep == ASSUME IInv, FinishRow PROVE IInv'
<1>. DEFINE r == Head(queue).round
<1>0. /\ Up /\ queue # <<>> /\ r \in Rounds /\ Done /\ UNCHANGED <<now, bet, ledger, xp, process>>
      /\ mem \in Memories /\ round \in [Rounds -> RoundRows]
  BY FinishCases, TypeParts DEF IInv, TypeOK
<1>1. PICK o \in Outcome :
        /\ round' = IF o # "fail" /\ round[r].status = "OPEN"
                    THEN [round EXCEPT ![r] = FinishedRow] ELSE round
        /\ mem' = IF o = "ok" THEN [mem EXCEPT !.next = TRUE]
                  ELSE [mem EXCEPT !.finish = mem.round]
        /\ faults' \in 0 .. MaxFaults
  BY FinishCases
<1>. HIDE DEF r
<1>2. /\ round' \in [Rounds -> RoundRows]
      /\ \A s \in Rounds : \/ round'[s] = round[s]
                           \/ round[s].status = "OPEN" /\ round'[s].status = "FINISHED"
  BY <1>0, <1>1, FinishedRowIs
<1>3. mem' \in Memories /\ SameCore
  BY <1>0, <1>1 DEF Memories, SameCore
<1>4. queue' \in Seq(Jobs) /\ JobsOK'
  BY <1>0, TypeParts, DoneKeepsJobs
<1>5. TypeOK'
  BY <1>0, <1>1, <1>2, <1>3, <1>4 DEF IInv, TypeOK
<1>6. RowsOK' /\ TargetKept' /\ BetsAccounted'
  BY <1>0, <1>2, StatusStep
<1>7. MemOK'
  BY <1>0, <1>3 DEF IInv, MemOK, SameCore
<1>8. PhaseOK'
  BY <1>2, <1>3 DEF IInv, PhaseOK, SameCore
<1>9. DownIsBlank'
  BY <1>0 DEF DownIsBlank, Up
<1>. QED BY <1>4, <1>5, <1>6, <1>7, <1>8, <1>9 DEF IInv

LEMMA BlankMem ==
  ASSUME mem' = Blank, queue' = <<>>
  PROVE  mem' \in Memories /\ queue' \in Seq(Jobs) /\ JobsOK' /\ MemOK' /\ PhaseOK' /\ DownIsBlank'
<1>1. mem' \in Memories /\ mem'.phase = "idle" /\ mem'.round = None /\ mem'.bets = NoBets
  BY BlankIsMemory
<1>2. queue' \in Seq(Jobs) /\ DOMAIN queue' = {}
  OBVIOUS
<1>3. JobsOK'
  BY <1>2 DEF JobsOK
<1>4. MemOK' /\ PhaseOK'
  BY <1>1, NoneIsNoRound, NoBetIsBet DEF MemOK, PhaseOK, NoBets
<1>. QED BY <1>1, <1>2, <1>3, <1>4 DEF DownIsBlank

LEMMA DieStep == ASSUME IInv, Die PROVE IInv'
<1>1. mem' = Blank /\ queue' = <<>> /\ UNCHANGED <<now, dbVars>>
  BY DEF Die
<1>2. mem' \in Memories /\ queue' \in Seq(Jobs) /\ JobsOK' /\ MemOK' /\ PhaseOK' /\ DownIsBlank'
  BY <1>1, BlankMem
<1>3. faults' \in 0 .. MaxFaults
  BY JetpackAssumption DEF Die, IInv, TypeOK
<1>4. process' \in [mode : {"up", "down", "boot"}, todo : SUBSET Rounds]
  BY DEF Die
<1>5. TypeOK'
  BY <1>1, <1>2, <1>3, <1>4 DEF IInv, TypeOK, dbVars
<1>6. RowsOK' /\ TargetKept' /\ BetsAccounted'
  BY <1>1, StatusStep DEF dbVars
<1>. QED BY <1>2, <1>5, <1>6 DEF IInv

LEMMA BootReadStep == ASSUME IInv, BootRead PROVE IInv'
<1>1. PICK o \in Outcomes("boot") \ {"lost"} :
        /\ process' = [mode |-> "boot",
             todo |-> IF o = "ok" THEN {r \in Rounds : round[r].status = "OPEN"} ELSE {}]
        /\ Count(o)
  BY DEF BootRead
<1>2. UNCHANGED <<now, dbVars, mem, queue>> /\ mem = Blank /\ queue = <<>>
  BY DEF BootRead, IInv, DownIsBlank, Up
<1>3. faults' \in 0 .. MaxFaults
  BY <1>1, TypeParts, Counted
<1>4. process' \in [mode : {"up", "down", "boot"}, todo : SUBSET Rounds]
  BY <1>1
<1>5. mem' \in Memories /\ queue' \in Seq(Jobs) /\ JobsOK' /\ MemOK' /\ PhaseOK' /\ DownIsBlank'
  BY <1>2, BlankMem
<1>6. TypeOK'
  BY <1>2, <1>3, <1>4, <1>5 DEF IInv, TypeOK, dbVars
<1>7. RowsOK' /\ TargetKept' /\ BetsAccounted'
  BY <1>2, StatusStep DEF dbVars
<1>. QED BY <1>5, <1>6, <1>7 DEF IInv

LEMMA BootDoneStep == ASSUME IInv, BootDone PROVE IInv'
<1>1. UNCHANGED <<now, dbVars, mem, queue, faults>> /\ mem = Blank /\ queue = <<>>
  BY DEF BootDone, IInv, DownIsBlank, Up
<1>2. process' \in [mode : {"up", "down", "boot"}, todo : SUBSET Rounds]
  BY DEF BootDone, IInv, TypeOK
<1>3. mem' \in Memories /\ queue' \in Seq(Jobs) /\ JobsOK' /\ MemOK' /\ PhaseOK' /\ DownIsBlank'
  BY <1>1, BlankMem
<1>4. TypeOK'
  BY <1>1, <1>2, <1>3 DEF IInv, TypeOK, dbVars
<1>5. RowsOK' /\ TargetKept' /\ BetsAccounted'
  BY <1>1, StatusStep DEF dbVars
<1>. QED BY <1>3, <1>4, <1>5 DEF IInv

(* The refunds of a voided round.                                           *)
Voided(row) == [row EXCEPT !.status = "VOIDED"]
RefundRow(u, r) == Row(u, "JETPACK_REFUND", r, bet[r][u].amount)

LEMMA RefundedIs ==
  ASSUME IInv, NEW r \in Rounds
  PROVE  /\ Refunded(r) \in [balance : [Users -> Nat], rows : SUBSET CoinRows]
         /\ Refunded(r).rows = ledger.rows \cup {RefundRow(u, r) : u \in Unsettled(r)}
<1>1. ledger.balance \in [Users -> Nat] /\ ledger.rows \subseteq CoinRows
      /\ \A u \in Users : bet[r][u].amount \in Nat
  <2>1. \A u \in Users : bet[r][u].amount \in Amounts \cup {0}
    BY BetsAreRows DEF BetRow
  <2>2. Amounts \cup {0} \subseteq Nat
    BY JetpackAssumption
  <2>. QED BY <2>1, <2>2, BetsAreRows
<1>2. \A u \in Users : RefundRow(u, r) \in CoinRows
  BY <1>1, RowIsRow DEF RefundRow
<1>3. ledger.rows \cup {RefundRow(u, r) : u \in Unsettled(r)} \in SUBSET CoinRows
  BY <1>1, <1>2 DEF Unsettled
<1>. DEFINE B == [u \in Users |-> ledger.balance[u] +
                   (IF u \in Unsettled(r) THEN bet[r][u].amount ELSE 0)]
            R == ledger.rows \cup {RefundRow(u, r) : u \in Unsettled(r)}
<1>4. B \in [Users -> Nat]
  BY <1>1
<1>5. Refunded(r) = [balance |-> B, rows |-> R]
  BY DEF Refunded, RefundRow
<1>. HIDE DEF B
<1>. QED BY <1>3, <1>4, <1>5

LEMMA BootVoidCases ==
  ASSUME IInv, BootVoid
  PROVE  /\ process.mode = "boot" /\ mem = Blank /\ queue = <<>>
         /\ UNCHANGED <<now, bet, xp, mem, queue>> /\ faults' \in 0 .. MaxFaults
         /\ \E r \in process.todo, o \in Outcomes("boot") :
              /\ r \in Rounds
              /\ process' = [process EXCEPT !.todo = @ \ {r}]
              /\ IF o # "fail" /\ round[r].status = "OPEN"
                 THEN /\ round' = [round EXCEPT ![r] = Voided(round[r])]
                      /\ ledger' = Refunded(r)
                 ELSE UNCHANGED <<round, ledger>>
<1>1. PICK r \in process.todo, o \in Outcomes("boot") :
        /\ process.mode = "boot"
        /\ IF o # "fail" /\ round[r].status = "OPEN"
           THEN /\ round' = [round EXCEPT ![r].status = "VOIDED"]
                /\ ledger' = Refunded(r)
           ELSE UNCHANGED <<round, ledger>>
        /\ process' = [process EXCEPT !.todo = @ \ {r}]
        /\ Count(o)
        /\ UNCHANGED <<now, bet, xp, mem, queue>>
  BY DEF BootVoid
<1>2. mem = Blank /\ queue = <<>>
  BY <1>1 DEF IInv, DownIsBlank, Up
<1>3. faults' \in 0 .. MaxFaults
  BY <1>1, TypeParts, Counted
<1>4. r \in Rounds
  BY <1>1 DEF IInv, TypeOK
<1>. QED BY <1>1, <1>2, <1>3, <1>4 DEF Voided

LEMMA VoidedRow ==
  ASSUME IInv, NEW r \in Rounds
  PROVE  LET R == [round EXCEPT ![r] = Voided(round[r])]
         IN  /\ R \in [Rounds -> RoundRows]
             /\ \A s \in Rounds : s # r => R[s] = round[s]
             /\ R[r].status = "VOIDED" /\ R[r].crash = round[r].crash
<1>1. round \in [Rounds -> RoundRows]
  BY DEF IInv, TypeOK
<1>2. Voided(round[r]) \in RoundRows /\ Voided(round[r]).status = "VOIDED"
      /\ Voided(round[r]).crash = round[r].crash
  BY <1>1 DEF Voided, RoundRows
<1>. QED BY <1>1, <1>2

LEMMA BootVoidStep == ASSUME IInv, BootVoid PROVE IInv'
<1>0. /\ process.mode = "boot" /\ mem = Blank /\ queue = <<>>
      /\ UNCHANGED <<now, bet, xp, mem, queue>> /\ faults' \in 0 .. MaxFaults
  BY BootVoidCases
<1>1. PICK r \in process.todo, o \in Outcomes("boot") :
        /\ r \in Rounds
        /\ process' = [process EXCEPT !.todo = @ \ {r}]
        /\ IF o # "fail" /\ round[r].status = "OPEN"
           THEN /\ round' = [round EXCEPT ![r] = Voided(round[r])]
                /\ ledger' = Refunded(r)
           ELSE UNCHANGED <<round, ledger>>
  BY BootVoidCases
<1>2. mem' \in Memories /\ queue' \in Seq(Jobs) /\ JobsOK' /\ MemOK' /\ PhaseOK' /\ DownIsBlank'
  BY <1>0, BlankMem
<1>3. process' \in [mode : {"up", "down", "boot"}, todo : SUBSET Rounds]
  BY <1>1 DEF IInv, TypeOK
<1>4. CASE o # "fail" /\ round[r].status = "OPEN"
  <2>1. round' = [round EXCEPT ![r] = Voided(round[r])] /\ ledger' = Refunded(r)
    BY <1>1, <1>4
  <2>2. /\ round' \in [Rounds -> RoundRows]
        /\ \A s \in Rounds : s # r => round'[s] = round[s]
        /\ round'[r].status = "VOIDED"
    BY <1>1, <2>1, VoidedRow
  <2>3. /\ ledger' \in [balance : [Users -> Nat], rows : SUBSET CoinRows]
        /\ ledger'.rows = ledger.rows \cup {RefundRow(u, r) : u \in Unsettled(r)}
    BY <1>1, <2>1, RefundedIs
  <2>4. TypeOK'
    BY <1>0, <1>2, <1>3, <2>2, <2>3 DEF IInv, TypeOK
  <2>5. RowsOK' /\ TargetKept'
    BY <1>0, <1>1, <1>4, <2>2 DEF IInv, RowsOK, TargetKept
  <2>6. Accounted(ledger'.rows, bet', round')
    <3>. SUFFICES ASSUME NEW s \in Rounds, NEW v \in Users
                  PROVE  RowsIn(ledger'.rows, v, s) = Account(v, s, bet[s][v], round'[s].status)
      BY <1>0 DEF Accounted
    <3>1. RowsIn(ledger.rows, v, s) = Account(v, s, bet[s][v], round[s].status)
      BY AccountedIs DEF IInv, Accounted
    <3>2. RowsIn(ledger'.rows, v, s) = RowsIn(ledger.rows, v, s) \cup
            (IF s = r /\ v \in Unsettled(r) THEN {RefundRow(v, r)} ELSE {})
      BY <2>3 DEF RowsIn, RefundRow, Row
    <3>3. CASE s # r
      BY <2>2, <3>1, <3>2, <3>3
    <3>4. CASE s = r
      BY <1>4, <2>2, <3>1, <3>2, <3>4 DEF Account, Unsettled, RefundRow
    <3>. QED BY <3>3, <3>4
  <2>7. BetsAccounted'
    <3>1. BetsAccounted' <=> Accounted(ledger'.rows, bet', round')
      BY DEF BetsAccounted, Accounted, RowsOf, RowsIn, Account
    <3>. QED BY <2>6, <3>1
  <2>. QED BY <1>2, <2>4, <2>5, <2>7 DEF IInv
<1>5. CASE ~ (o # "fail" /\ round[r].status = "OPEN")
  <2>1. UNCHANGED <<round, ledger>>
    BY <1>1, <1>5
  <2>2. TypeOK'
    BY <1>0, <1>2, <1>3, <2>1 DEF IInv, TypeOK
  <2>3. RowsOK' /\ TargetKept' /\ BetsAccounted'
    BY <1>0, <2>1, StatusStep
  <2>. QED BY <1>2, <2>2, <2>3 DEF IInv
<1>. QED BY <1>4, <1>5

-----------------------------------------------------------------------------
LEMMA InitIInv == Init => IInv
<1>. SUFFICES ASSUME Init PROVE IInv
  OBVIOUS
<1>1. mem = Blank /\ queue = <<>> /\ bet = [r \in Rounds |-> NoBets]
      /\ round = [r \in Rounds |-> [status |-> "NONE", crash |-> 0]] /\ ledger = NewLedger
  BY DEF Init
<1>2. mem \in Memories /\ mem.phase = "idle" /\ mem.round = None /\ mem.bets = NoBets
  BY <1>1, BlankIsMemory
<1>3. queue \in Seq(Jobs) /\ JobsOK
  BY <1>1 DEF JobsOK
<1>4. bet \in [Rounds -> MemBets] /\ \A r \in Rounds, u \in Users : bet[r][u] = NoBet
  BY <1>1, NoBetIsBet DEF NoBets
<1>5. round \in [Rounds -> RoundRows] /\ \A r \in Rounds : round[r].status = "NONE"
  BY <1>1 DEF RoundRows
<1>6. ledger \in [balance : [Users -> Nat], rows : SUBSET CoinRows] /\ ledger.rows = {}
  BY <1>1, StartingCoinsAssumption DEF NewLedger
<1>7. TypeOK
  BY <1>2, <1>3, <1>4, <1>5, <1>6, JetpackAssumption DEF Init, TypeOK
<1>8. RowsOK /\ TargetKept
  BY <1>4, NoBetIsBet DEF RowsOK, TargetKept
<1>9. MemOK /\ PhaseOK
  BY <1>2, NoneIsNoRound, NoBetIsBet DEF MemOK, PhaseOK, NoBets
<1>10. DownIsBlank
  BY <1>1 DEF DownIsBlank
<1>11. BetsAccounted
  BY <1>4, <1>6, NoBetIsBet DEF BetsAccounted, RowsOf
<1>. QED BY <1>3, <1>7, <1>8, <1>9, <1>10, <1>11 DEF IInv

LEMMA StutterStep == ASSUME IInv, UNCHANGED vars PROVE IInv'
<1>1. TypeOK' /\ JobsOK' /\ RowsOK' /\ MemOK' /\ PhaseOK'
  BY DEF vars, dbVars, IInv, TypeOK, JobsOK, RowsOK, MemOK, PhaseOK
<1>2. DownIsBlank' /\ TargetKept' /\ BetsAccounted'
  BY DEF vars, dbVars, IInv, DownIsBlank, TargetKept, BetsAccounted, RowsOf, Up
<1>. QED BY <1>1, <1>2 DEF IInv

LEMMA NextIInv == IInv /\ [Next]_vars => IInv'
<1>. SUFFICES ASSUME IInv, [Next]_vars PROVE IInv'
  OBVIOUS
<1>1. CASE Run
  BY <1>1, WakeStep, NextStep, BetStep, LaunchStep, CashoutStep, AutoStep, CrashStep,
     FinishPayStep, FinishStep DEF Run
<1>2. CASE Fire \/ BootRead \/ BootVoid \/ BootDone \/ Die
  BY <1>2, FireStep, BootReadStep, BootVoidStep, BootDoneStep, DieStep
<1>3. CASE Tick \/ Players \/ UNCHANGED vars
  BY <1>3, TickStep, PlayersStep, StutterStep
<1>. QED BY <1>1, <1>2, <1>3 DEF Next, Service

(* Every reachable state satisfies the first invariant.                     *)
THEOREM Invariance == Spec => []IInv
BY InitIInv, NextIInv, PTL DEF Spec

(* Memory, queue, timers and rows stay of their types.                      *)
THEOREM TypeCorrect == Spec => []TypeOK
<1>1. IInv => TypeOK
  BY DEF IInv
<1>. QED BY <1>1, Invariance, PTL

(* A bet is charged once, paid as its cashout says, given back only with a  *)
(* voided round and never both, whatever fails and wherever the process     *)
(* dies.                                                                   *)
THEOREM BetsStayAccounted == Spec => []BetsAccounted
<1>1. IInv => BetsAccounted
  BY DEF IInv
<1>. QED BY <1>1, Invariance, PTL

-----------------------------------------------------------------------------
(* The second invariant: steps that move jobs but neither the flight nor    *)
(* its end.                                                                *)

Plain(j) == ~ Ending(j) /\ j.kind \notin {"crash", "auto"} /\ (j.kind = "cashout" => j.at = now)
Moved == \/ queue' = queue
         \/ queue # <<>> /\ Done
         \/ \E j \in Jobs : Plain(j) /\ Enqueue(j)
SameFlight ==
  /\ mem'.phase = mem.phase /\ mem'.round = mem.round
  /\ mem'.launchedAt = mem.launchedAt /\ mem'.crash = mem.crash
SameEnds == mem'.finish = mem.finish /\ mem'.next = mem.next

LEMMA EndsMoved ==
  ASSUME IInv, OneEnd, EndsOK, Moved, SameFlight, SameEnds,
         round[mem.round].status = "FINISHED" => round'[mem.round].status = "FINISHED"
  PROVE  OneEnd' /\ EndsOK'
<1>0. queue \in Seq(Jobs)
  BY TypeParts
<1>1. EndTimer' <=> EndTimer
  BY DEF EndTimer, SameEnds
<1>2. OneEnd'
  <2>1. CASE queue' = queue
    BY <1>1, <2>1 DEF OneEnd, SameEnds
  <2>2. CASE queue # <<>> /\ Done
    <3>1. \A k \in DOMAIN queue' : k \in Nat /\ k + 1 \in DOMAIN queue /\ queue'[k] = queue[k + 1]
      BY <1>0, <2>2, TailQ DEF Done
    <3>. QED BY <1>1, <3>1 DEF OneEnd, SameEnds
  <2>3. CASE \E j \in Jobs : Plain(j) /\ Enqueue(j)
    <3>1. PICK j \in Jobs : Plain(j) /\ queue' = Append(queue, j)
      BY <2>3 DEF Enqueue
    <3>2. \A k \in DOMAIN queue' : Ending(queue'[k]) => k \in DOMAIN queue /\ queue'[k] = queue[k]
      BY <1>0, <3>1, AppendQ DEF Plain
    <3>. QED BY <1>1, <3>2 DEF OneEnd, SameEnds
  <2>. QED BY <2>1, <2>2, <2>3 DEF Moved
<1>3. \A k \in DOMAIN queue' : Ending(queue'[k]) => \E l \in DOMAIN queue : queue'[k] = queue[l]
  BY <1>0, TailQ, AppendQ DEF Moved, Done, Enqueue, Plain
<1>4. /\ \A r : FinishOK(r)' <=> FinishOK(r)
      /\ NextOK => NextOK'
  BY DEF FinishOK, NextOK, SameFlight
<1>5. EndsOK'
  BY <1>3, <1>4 DEF EndsOK, SameEnds, Ending, FinishOK, SameFlight
<1>. QED BY <1>2, <1>5

(* The crash timer of the flight may be set anew.                           *)
CrashTimers == mem.crashTimer \cup
  (IF mem.phase = "flying" THEN {[round |-> mem.round, due |-> CrashAt]} ELSE {})

LEMMA TimersMoved ==
  ASSUME IInv, TimersOK, CycleOK, Moved, SameFlight,
         mem'.autos \subseteq mem.autos, mem'.crashTimer \subseteq CrashTimers,
         \A u \in Users : mem'.bets[u].auto = mem.bets[u].auto,
         \A r \in Rounds : round'[r].status = "NONE" => round[r].status = "NONE"
  PROVE  TimersOK'
<1>0. queue \in Seq(Jobs) /\ mem \in Memories /\ JobsOK
  BY TypeParts
<1>1. \A k \in DOMAIN queue' : queue'[k].kind \in {"auto", "crash"} =>
        \E l \in DOMAIN queue : queue'[k] = queue[l]
  BY <1>0, TailQ, AppendQ DEF Moved, Done, Enqueue, Plain
<1>2. \A r \in Rounds : FlightOf(r) => FlightOf(r)'
  BY DEF FlightOf, SameFlight
<1>3. \A r \in Rounds, u \in Users : AutoOK(u, r) => AutoOK(u, r)'
  BY <1>2 DEF AutoOK, SameFlight
<1>4. \A t \in mem.autos : t.user \in Users /\ t.round \in Rounds
  BY <1>0 DEF Memories
<1>5. \A t \in CrashTimers : /\ t.round \in Rounds /\ FlightOf(t.round)
                             /\ t.round = mem.round => t.due = CrashAt
  <2>1. \A t \in mem.crashTimer : t.round \in Rounds
    BY <1>0 DEF Memories
  <2>2. mem.phase = "flying" => mem.round \in Rounds /\ FlightOf(mem.round)
    BY DEF IInv, PhaseOK, CycleOK, FlightOf
  <2>. QED BY <2>1, <2>2 DEF CrashTimers, TimersOK
<1>6. \A k \in DOMAIN queue :
        /\ queue[k].kind = "auto" => queue[k].user \in Users /\ queue[k].round \in Rounds
        /\ queue[k].kind = "crash" => queue[k].round \in Rounds
  BY <1>0 DEF JobsOK, JobOK
<1>7. \A t \in mem'.autos : AutoOK(t.user, t.round)'
  BY <1>3, <1>4 DEF TimersOK
<1>8. \A t \in mem'.crashTimer : FlightOf(t.round)' /\ (t.round = mem'.round => t.due = CrashAt')
  BY <1>2, <1>5 DEF SameFlight, CrashAt
<1>9. \A k \in DOMAIN queue' :
        /\ queue'[k].kind = "auto" => AutoOK(queue[k].user, queue[k].round)'
        /\ queue'[k].kind = "crash" => FlightOf(queue[k].round)'
  BY <1>1, <1>2, <1>3, <1>6 DEF TimersOK
<1>. QED BY <1>7, <1>8, <1>9 DEF TimersOK

LEMMA StillStep ==
  ASSUME IInv, RInv, Moved, SameCore, SameEnds,
         mem'.autos \subseteq mem.autos, mem'.crashTimer \subseteq CrashTimers,
         UNCHANGED <<dbVars, process>>
  PROVE  RInv'
<1>0. SameFlight /\ mem'.bets = mem.bets
  BY DEF SameFlight, SameCore
<1>1. OneEnd' /\ EndsOK'
  BY <1>0, EndsMoved DEF RInv, dbVars
<1>2. TimersOK'
  BY <1>0, TimersMoved DEF RInv, dbVars
<1>3. CycleOK' /\ PaidOK' /\ FinishedPaid'
  BY <1>0 DEF RInv, CycleOK, PaidOK, FinishedPaid, Paid, dbVars, SameFlight
<1>4. NoLostBet => AllInMemory' /\ AutoHonored'
  BY <1>0 DEF RInv, AllInMemory, AutoHonored, dbVars, SameFlight
<1>. QED BY <1>1, <1>2, <1>3, <1>4 DEF RInv

LEMMA SameMem ==
  ASSUME mem' = mem
  PROVE  SameCore /\ SameEnds /\ mem'.autos \subseteq mem.autos /\ mem'.crashTimer \subseteq CrashTimers
BY DEF SameCore, SameEnds, CrashTimers

LEMMA DropR == ASSUME IInv, RInv, queue # <<>>, Drop PROVE RInv'
BY TypeParts, SameMem, StillStep DEF Drop, Moved

LEMMA TickR == ASSUME IInv, RInv, Tick PROVE RInv'
BY TypeParts, SameMem, StillStep DEF Tick, Moved

LEMMA PlayersR == ASSUME IInv, RInv, Players PROVE RInv'
<1>1. ASSUME NEW j \in Jobs, Plain(j), Request(j) PROVE RInv'
  BY <1>1, TypeParts, SameMem, StillStep DEF Request, Moved
<1>2. \A j : j.kind \in {"wake", "bet"} \/ (j.kind = "cashout" /\ j.at = now) => Plain(j)
  BY DEF Plain, Ending
<1>. QED BY <1>1, <1>2, PlayersJobs DEF Players

-----------------------------------------------------------------------------
(* The second invariant: the timers.                                        *)

LEMMA FireLaunchR ==
  ASSUME IInv, RInv, FireLaunch, UNCHANGED <<now, dbVars, process>>
  PROVE  RInv'
<1>1. TypeOK /\ mem \in Memories /\ mem.launch \in Rounds
  BY TypeParts DEF FireLaunch, Memories
<1>. DEFINE j == Job("launch", None, mem.launch)
<1>2. j \in Jobs /\ j.kind = "launch"
  BY <1>1, JobIsJob
<1>. HIDE DEF j
<1>3. Moved
  BY <1>2 DEF FireLaunch, Moved, Plain, Ending, j
<1>4. SameCore /\ SameEnds /\ mem'.autos = mem.autos /\ mem'.crashTimer \subseteq CrashTimers
  BY <1>1 DEF FireLaunch, SameCore, SameEnds, Memories, CrashTimers
<1>. QED BY <1>3, <1>4, TypeParts, StillStep

(* A job that is added leaves what is said of the others.                   *)
LEMMA Added ==
  ASSUME IInv, RInv, NEW j \in Jobs, Enqueue(j), j.kind \in {"finish", "next", "crash", "auto"},
         SameCore, mem'.autos \subseteq mem.autos, mem'.crashTimer \subseteq mem.crashTimer,
         UNCHANGED <<now, dbVars, process>>,
         OneEnd', EndsOK',
         j.kind = "auto" => AutoOK(j.user, j.round),
         j.kind = "crash" => FlightOf(j.round)
  PROVE  RInv'
<1>0. /\ queue \in Seq(Jobs) /\ mem \in Memories /\ JobsOK /\ queue' = Append(queue, j)
      /\ SameFlight /\ mem'.bets = mem.bets /\ UNCHANGED <<now, round, bet, process>>
  BY TypeParts DEF SameFlight, SameCore, Enqueue, dbVars
<1>1. /\ \A k \in DOMAIN queue' : (k \in DOMAIN queue /\ queue'[k] = queue[k])
                                    \/ (k = Len(queue) + 1 /\ queue'[k] = j)
      /\ \A k \in DOMAIN queue : k <= Len(queue) /\ k \in Nat
      /\ Len(queue) \in Nat
  BY <1>0, AppendQ
<1>2. TimersOK'
  <2>1. \A r : FlightOf(r)' <=> FlightOf(r)
    BY <1>0 DEF FlightOf, SameFlight
  <2>2. \A u, r : AutoOK(u, r)' <=> AutoOK(u, r)
    BY <1>0, <2>1 DEF AutoOK, SameFlight
  <2>3. \A t \in mem'.autos : AutoOK(t.user, t.round)'
    BY <2>2 DEF RInv, TimersOK
  <2>4. \A t \in mem'.crashTimer : FlightOf(t.round)' /\ (t.round = mem'.round => t.due = CrashAt')
    BY <1>0, <2>1 DEF RInv, TimersOK, SameFlight, CrashAt
  <2>5. \A k \in DOMAIN queue' :
          /\ queue'[k].kind = "auto" => AutoOK(queue[k].user, queue[k].round)'
          /\ queue'[k].kind = "crash" => FlightOf(queue[k].round)'
    <3>1. \A k \in DOMAIN queue' :
            /\ queue'[k].kind = "auto" => AutoOK(queue'[k].user, queue'[k].round)
            /\ queue'[k].kind = "crash" => FlightOf(queue'[k].round)
      BY <1>1 DEF RInv, TimersOK
    <3>. QED BY <1>0, <3>1 DEF FlightOf, AutoOK, SameFlight
  <2>. QED BY <2>3, <2>4, <2>5 DEF TimersOK
<1>3. CycleOK' /\ PaidOK' /\ FinishedPaid'
  BY <1>0 DEF RInv, CycleOK, PaidOK, FinishedPaid, Paid, SameFlight
<1>4. NoLostBet => AllInMemory' /\ AutoHonored'
  BY <1>0 DEF RInv, AllInMemory, AutoHonored, SameFlight
<1>. QED BY <1>2, <1>3, <1>4 DEF RInv

LEMMA FireEndR ==
  ASSUME IInv, RInv, FireFinish \/ FireNext, UNCHANGED <<now, dbVars, process>>
  PROVE  RInv'
<1>0. TypeOK /\ mem \in Memories /\ queue \in Seq(Jobs)
  BY TypeParts
<1>1. PICK j \in Jobs : /\ Enqueue(j)
                        /\ \/ FireFinish /\ j.kind = "finish" /\ j.round = mem.finish
                           \/ FireNext /\ j.kind = "next"
  <2>1. CASE FireFinish
    <3>1. mem.finish \in Rounds
      BY <1>0, <2>1 DEF FireFinish, Memories
    <3>2. LET j == Job("finish", None, mem.finish)
          IN  j \in Jobs /\ j.kind = "finish" /\ j.round = mem.finish
      BY <1>0, <3>1, JobIsJob
    <3>. QED BY <2>1, <3>2 DEF FireFinish
  <2>2. CASE FireNext
    <3>1. LET j == Job("next", None, None) IN j \in Jobs /\ j.kind = "next"
      BY <1>0, JobIsJob
    <3>. QED BY <2>2, <3>1 DEF FireNext
  <2>. QED BY <2>1, <2>2
<1>2. /\ SameCore /\ mem'.autos = mem.autos /\ mem'.crashTimer = mem.crashTimer
      /\ FireFinish => mem.finish # None /\ mem'.finish = None /\ mem'.next = mem.next
      /\ FireNext => mem.next /\ mem'.next = FALSE /\ mem'.finish = mem.finish
  BY <1>0 DEF FireFinish, FireNext, SameCore, Memories
<1>3. EndTimer /\ ~ EndTimer' /\ \A k \in DOMAIN queue : ~ Ending(queue[k])
  BY <1>1, <1>2 DEF RInv, OneEnd, EndTimer
<1>4. \A k \in DOMAIN queue' : (k \in DOMAIN queue /\ queue'[k] = queue[k])
                               \/ (k = Len(queue) + 1 /\ queue'[k] = j)
  BY <1>0, <1>1, AppendQ DEF Enqueue
<1>5. OneEnd'
  BY <1>3, <1>4 DEF OneEnd, EndTimer
<1>6. EndsOK'
  <2>1. \A k \in DOMAIN queue' :
          /\ queue'[k].kind = "finish" => FinishOK(queue'[k].round)
          /\ queue'[k].kind = "next" => NextOK
    BY <1>1, <1>2, <1>3, <1>4 DEF RInv, EndsOK, Ending
  <2>2. UNCHANGED <<round, mem.phase, mem.round>>
    BY <1>2 DEF SameCore, dbVars
  <2>. QED BY <1>3, <2>1, <2>2 DEF EndsOK, EndTimer, FinishOK, NextOK
<1>. QED BY <1>1, <1>2, <1>5, <1>6, Added

LEMMA FlightEnds ==
  ASSUME IInv, RInv, NEW j \in Jobs, ~ Ending(j), Enqueue(j), SameCore, SameEnds, UNCHANGED round
  PROVE  OneEnd' /\ EndsOK'
<1>0. /\ queue \in Seq(Jobs) /\ queue' = Append(queue, j)
      /\ mem'.phase = mem.phase /\ mem'.round = mem.round
  BY TypeParts DEF SameCore, Enqueue
<1>1. \A k \in DOMAIN queue' : (k \in DOMAIN queue /\ queue'[k] = queue[k]) \/ queue'[k] = j
  BY <1>0, AppendQ
<1>2. OneEnd'
  BY <1>1 DEF RInv, OneEnd, EndTimer, SameEnds
<1>3. EndsOK'
  <2>1. \A k \in DOMAIN queue' :
          /\ queue'[k].kind = "finish" => FinishOK(queue'[k].round)
          /\ queue'[k].kind = "next" => NextOK
    BY <1>1 DEF RInv, EndsOK, Ending
  <2>. QED BY <1>0, <2>1 DEF RInv, EndsOK, FinishOK, NextOK, SameEnds
<1>. QED BY <1>2, <1>3

LEMMA FireCrashR ==
  ASSUME IInv, RInv, FireCrash, UNCHANGED <<now, dbVars, process>>
  PROVE  RInv'
<1>0. TypeOK /\ mem \in Memories /\ now \in Nat
  BY TypeParts
<1>1. PICK t \in mem.crashTimer : /\ now + EarlyBy >= t.due
                                  /\ mem' = [mem EXCEPT !.crashTimer = {}]
                                  /\ Enqueue(Job("crash", None, t.round))
  BY DEF FireCrash
<1>2. t.round \in Rounds
  BY <1>0 DEF Memories
<1>. DEFINE j == Job("crash", None, t.round)
<1>3. j \in Jobs /\ j.kind = "crash" /\ j.round = t.round
  BY <1>0, <1>2, JobIsJob
<1>. HIDE DEF j
<1>4. SameCore /\ SameEnds /\ mem'.autos = mem.autos /\ mem'.crashTimer = {} /\ Enqueue(j)
  BY <1>0, <1>1 DEF SameCore, SameEnds, Memories, j
<1>5. FlightOf(j.round)
  BY <1>1, <1>3 DEF RInv, TimersOK
<1>6. OneEnd' /\ EndsOK'
  BY <1>3, <1>4, FlightEnds DEF Ending, dbVars
<1>. QED BY <1>3, <1>4, <1>5, <1>6, Added

LEMMA FireAutoR ==
  ASSUME IInv, RInv, FireAuto, UNCHANGED <<now, dbVars, process>>
  PROVE  RInv'
<1>0. TypeOK /\ mem \in Memories
  BY TypeParts
<1>1. PICK t \in mem.autos : /\ mem' = [mem EXCEPT !.autos = @ \ {t}]
                             /\ Enqueue(Job("auto", t.user, t.round))
  BY DEF FireAuto
<1>2. t.round \in Rounds /\ t.user \in Users
  BY <1>0 DEF Memories
<1>. DEFINE j == Job("auto", t.user, t.round)
<1>3. j \in Jobs /\ j.kind = "auto" /\ j.round = t.round /\ j.user = t.user
  BY <1>0, <1>2, JobIsJob
<1>. HIDE DEF j
<1>4. /\ SameCore /\ SameEnds /\ mem'.autos \subseteq mem.autos
      /\ mem'.crashTimer = mem.crashTimer /\ Enqueue(j)
  BY <1>0, <1>1 DEF SameCore, SameEnds, Memories, j
<1>5. AutoOK(j.user, j.round)
  BY <1>3 DEF RInv, TimersOK
<1>6. OneEnd' /\ EndsOK'
  BY <1>3, <1>4, FlightEnds DEF Ending, dbVars
<1>. QED BY <1>3, <1>4, <1>5, <1>6, Added

LEMMA FireR == ASSUME IInv, RInv, Fire PROVE RInv'
BY FireLaunchR, FireEndR, FireCrashR, FireAutoR DEF Fire

-----------------------------------------------------------------------------
(* The second invariant: the cycle from the end of a round to a flight.     *)

NoEnds == ~ EndTimer /\ \A k \in DOMAIN queue : ~ Ending(queue[k])

LEMMA NoEndsOK == ASSUME NoEnds' PROVE OneEnd' /\ EndsOK'
BY DEF NoEnds, OneEnd, EndsOK, EndTimer, Ending

LEMMA HeadEnds ==
  ASSUME IInv, RInv, queue # <<>>, Ending(Head(queue)), Done
  PROVE  ~ EndTimer /\ \A k \in DOMAIN queue' : ~ Ending(queue'[k])
<1>1. queue \in Seq(Jobs)
  BY TypeParts
<1>2. 1 \in DOMAIN queue /\ Ending(queue[1])
  BY <1>1, TailQ
<1>3. \A k \in DOMAIN queue' : k \in Nat /\ k + 1 \in DOMAIN queue /\ queue'[k] = queue[k + 1]
                               /\ k + 1 # 1
  BY <1>1, TailQ DEF Done
<1>. QED BY <1>2, <1>3 DEF RInv, OneEnd

LEMMA EndsAfterCrash == ASSUME RInv, mem.phase # "crashed" PROVE NoEnds
BY DEF RInv, EndsOK, FinishOK, NextOK, NoEnds, EndTimer, Ending

LEMMA NoEndsDone ==
  ASSUME IInv, NoEnds, queue # <<>>, Done, SameEnds
  PROVE  NoEnds'
<1>1. queue \in Seq(Jobs)
  BY TypeParts
<1>2. \A k \in DOMAIN queue' : k + 1 \in DOMAIN queue /\ queue'[k] = queue[k + 1]
  BY <1>1, TailQ DEF Done
<1>. QED BY <1>2 DEF NoEnds, EndTimer, SameEnds

(* Between flights no timer is about the round of the memory.               *)
LEMMA TimersOther ==
  ASSUME IInv, RInv, queue # <<>>, Done,
         mem'.autos = mem.autos, mem'.crashTimer = mem.crashTimer,
         \A r \in Rounds : FlightOf(r) => r # mem'.round,
         \A r \in Rounds : round'[r].status = "NONE" => round[r].status = "NONE"
  PROVE  TimersOK'
<1>0. queue \in Seq(Jobs) /\ mem \in Memories /\ JobsOK
  BY TypeParts
<1>1. \A k \in DOMAIN queue' : k + 1 \in DOMAIN queue /\ queue'[k] = queue[k + 1]
  BY <1>0, TailQ DEF Done
<1>2. \A r \in Rounds : FlightOf(r) => r # mem'.round /\ FlightOf(r)'
  BY DEF FlightOf
<1>3. /\ \A t \in mem'.autos : t.round \in Rounds /\ FlightOf(t.round)
      /\ \A t \in mem'.crashTimer : t.round \in Rounds /\ FlightOf(t.round)
  BY <1>0 DEF RInv, TimersOK, AutoOK, Memories
<1>4. \A k \in DOMAIN queue : queue[k].kind \in {"auto", "crash"} =>
        queue[k].round \in Rounds /\ FlightOf(queue[k].round)
  BY <1>0 DEF RInv, TimersOK, AutoOK, JobsOK, JobOK
<1>5. \A k \in DOMAIN queue' : queue'[k].kind \in {"auto", "crash"} =>
        queue'[k].round # mem'.round /\ FlightOf(queue[k].round)'
  BY <1>1, <1>2, <1>4
<1>. QED BY <1>2, <1>3, <1>5 DEF TimersOK, AutoOK

LEMMA OpenR ==
  ASSUME NoOpenFaults, IInv, RInv, Up, queue # <<>>, OpenOrRetry,
         ~ EndTimer /\ \A k \in DOMAIN queue' : ~ Ending(queue'[k]),
         mem.phase = "idle" \/ NextOK
  PROVE  RInv'
<1>1. PICK r \in Unopened, o \in Outcomes("open") :
        /\ round' = IF o = "fail" THEN round ELSE [round EXCEPT ![r] = Opened(round[r])]
        /\ mem' = IF o = "ok" THEN OpenedMem(mem, r)
                  ELSE [mem EXCEPT !.phase = "idle", !.next = TRUE]
        /\ Count(o) /\ Done
        /\ UNCHANGED <<now, bet, ledger, xp, process>>
  BY OpenCases
<1>2. o = "ok"
  BY <1>1 DEF NoOpenFaults, Outcomes
<1>3. r \in Rounds /\ round[r].status = "NONE" /\ mem \in Memories
      /\ round \in [Rounds -> RoundRows]
  BY <1>1, TypeParts DEF Unopened, IInv, TypeOK
<1>4. /\ mem'.phase = "betting" /\ mem'.round = r /\ mem'.bets = NoBets
      /\ SameEnds /\ mem'.autos = mem.autos /\ mem'.crashTimer = mem.crashTimer
  BY <1>1, <1>2, <1>3, OpenedMemory DEF SameEnds
<1>5. /\ \A s \in Rounds : s # r => round'[s] = round[s]
      /\ round'[r].status = "OPEN"
  BY <1>1, <1>2, <1>3, OpenedRow
<1>6. \A u \in Users : bet'[r][u] = NoBet
  BY <1>1, <1>3 DEF IInv, RowsOK
<1>7. OneEnd' /\ EndsOK'
  BY <1>4, NoEndsOK DEF NoEnds, EndTimer, SameEnds
<1>8. CycleOK'
  BY <1>4, <1>5 DEF CycleOK
<1>9. TimersOK'
  <2>1. \A s \in Rounds : FlightOf(s) => s # r
    BY <1>3 DEF FlightOf
  <2>. QED BY <1>1, <1>3, <1>4, <1>5, <2>1, TimersOther
<1>10. PaidOK'
  BY <1>4, <1>6, NoBetIsBet DEF PaidOK, Paid
<1>11. FinishedPaid'
  BY <1>1, <1>5 DEF RInv, FinishedPaid
<1>12. AllInMemory'
  BY <1>4, <1>6, NoBetIsBet DEF AllInMemory
<1>13. NoLostBet => AutoHonored'
  BY <1>1, <1>5 DEF RInv, AutoHonored
<1>. QED BY <1>7, <1>8, <1>9, <1>10, <1>11, <1>12, <1>13 DEF RInv

LEMMA SleepR ==
  ASSUME IInv, RInv, Up, queue # <<>>, Sleep, NextOK,
         ~ EndTimer /\ \A k \in DOMAIN queue' : ~ Ending(queue'[k])
  PROVE  RInv'
<1>1. Done /\ UNCHANGED <<now, dbVars, process, faults>> /\ mem \in Memories
  BY TypeParts DEF Sleep
<1>2. /\ mem'.phase = "idle" /\ mem'.round = None
      /\ SameEnds /\ mem'.autos = mem.autos /\ mem'.crashTimer = mem.crashTimer
  BY <1>1 DEF Sleep, SameEnds, Memories
<1>3. OneEnd' /\ EndsOK'
  BY <1>2, NoEndsOK DEF NoEnds, EndTimer, SameEnds
<1>4. TimersOK'
  BY <1>1, <1>2, NoneIsNoRound, TimersOther DEF dbVars
<1>5. CycleOK' /\ PaidOK' /\ AllInMemory'
  BY <1>2, NoneIsNoRound DEF CycleOK, PaidOK, AllInMemory
<1>6. FinishedPaid' /\ (NoLostBet => AutoHonored')
  BY <1>1 DEF RInv, FinishedPaid, AutoHonored, dbVars
<1>. QED BY <1>3, <1>4, <1>5, <1>6 DEF RInv

LEMMA WakeR == ASSUME NoOpenFaults, IInv, RInv, RunWake PROVE RInv'
<1>1. Up /\ queue # <<>> /\ queue \in Seq(Jobs)
  BY TypeParts DEF RunWake, Running
<1>2. CASE Asleep /\ Unopened # {}
  <2>1. OpenOrRetry /\ mem.phase = "idle"
    BY <1>2 DEF RunWake, Asleep
  <2>2. NoEnds /\ Done
    BY <2>1, EndsAfterCrash, OpenCases
  <2>3. \A k \in DOMAIN queue' : ~ Ending(queue'[k])
    BY <1>1, <2>2, TailQ DEF NoEnds, Done
  <2>. QED BY <1>1, <2>1, <2>2, <2>3, OpenR DEF NoEnds
<1>3. CASE ~ (Asleep /\ Unopened # {})
  BY <1>1, <1>3, DropR DEF RunWake
<1>. QED BY <1>2, <1>3

LEMMA NextR == ASSUME NoOpenFaults, IInv, RInv, RunNext PROVE RInv'
<1>1. Up /\ queue # <<>> /\ Head(queue).kind = "next"
  BY DEF RunNext, Running
<1>2. Done
  BY OpenCases DEF RunNext, Sleep
<1>3. ~ EndTimer /\ \A k \in DOMAIN queue' : ~ Ending(queue'[k])
  BY <1>1, <1>2, HeadEnds DEF Ending
<1>4. NextOK
  BY <1>1, TypeParts, HeadIsJob DEF RInv, EndsOK
<1>. QED BY <1>1, <1>3, <1>4, OpenR, SleepR DEF RunNext

LEMMA BetR == ASSUME IInv, RInv, RunBet PROVE RInv'
<1>. DEFINE j == Head(queue)
            u == j.user
            r == mem.round
<1>0. /\ Up /\ queue # <<>> /\ j.kind = "bet" /\ mem \in Memories /\ now \in Nat
      /\ j \in Jobs /\ u \in Users /\ j.amount \in Amounts /\ TypeOK
  BY BetCases, TypeParts, HeadIsJob DEF JobOK
<1>1. CASE Drop
  BY <1>0, <1>1, DropR
<1>2. ASSUME mem.phase = "betting", mem.bets[u].amount = 0,
             bet[r][u].amount = 0,
             CanCharge(ledger, u, j.amount, "JETPACK_BET", r),
             NEW o \in Outcomes("bet"),
             IF o = "fail" THEN UNCHANGED dbVars ELSE Placed(j),
             mem' = IF o = "ok" THEN PutMem(mem, u, NewBet(j)) ELSE mem,
             Count(o), Done, UNCHANGED <<now, process>>
      PROVE  RInv'
  <2>1. CASE o = "fail"
    <3>1. UNCHANGED <<dbVars, process, now>> /\ mem' = mem
      BY <1>2, <2>1
    <3>2. Moved
      BY <1>0, <1>2 DEF Moved
    <3>. QED BY <1>0, <3>1, <3>2, SameMem, StillStep
  <2>2. CASE o # "fail"
    <3>1. r \in Rounds /\ round[r].status = "OPEN"
      BY <1>2 DEF IInv, PhaseOK, RInv, CycleOK
    <3>2. Placed(j) /\ UNCHANGED round
      BY <1>2, <2>2 DEF Placed
    <3>3. /\ NewBet(j) \in BetRow
          /\ \A s \in Rounds, v \in Users :
               bet'[s][v] = IF s = r /\ v = u THEN NewBet(j) ELSE bet[s][v]
      BY <1>0, <1>2, <3>1, <3>2, BetPlaced
    <3>4. /\ mem'.phase = "betting" /\ mem'.round = r /\ SameEnds
          /\ mem'.autos = mem.autos /\ mem'.crashTimer = mem.crashTimer
          /\ \A v \in Users : mem'.bets[v] = IF v = u /\ o = "ok" THEN NewBet(j) ELSE mem.bets[v]
      BY <1>0, <1>2, <3>3, PutMemIs DEF SameEnds
    <3>5. NewBet(j).cashout = 0 /\ NewBet(j).amount # 0
      BY <1>0, JetpackAssumption DEF NewBet
    <3>6. OneEnd' /\ EndsOK'
      BY <1>0, <1>2, <3>4, EndsAfterCrash, NoEndsDone, NoEndsOK
    <3>7. TimersOK'
      <4>1. \A s \in Rounds : FlightOf(s) => s # r
        BY <1>2 DEF FlightOf
      <4>. QED BY <1>0, <1>2, <3>2, <3>4, <4>1, TimersOther
    <3>8. CycleOK' /\ PaidOK'
      <4>1. Paid(r, 0)
        BY <1>2 DEF RInv, PaidOK
      <4>2. \A v \in Users : bet'[r][v].cashout <= 0
        BY <3>1, <3>3, <3>5, <4>1 DEF Paid
      <4>. QED BY <3>1, <3>2, <3>4, <4>2 DEF CycleOK, PaidOK, Paid
    <3>9. FinishedPaid' /\ (NoLostBet => AutoHonored')
      BY <3>1, <3>2, <3>3 DEF RInv, FinishedPaid, AutoHonored
    <3>10. NoLostBet => AllInMemory'
      <4>1. NoLostBet => o = "ok"
        BY <1>2, <2>2 DEF NoLostBet, Outcomes
      <4>. QED BY <3>1, <3>3, <3>4, <3>5, <4>1 DEF RInv, AllInMemory
    <3>. QED BY <3>6, <3>7, <3>8, <3>9, <3>10 DEF RInv
  <2>. QED BY <2>1, <2>2
<1>. QED BY <1>1, <1>2, BetCases

-----------------------------------------------------------------------------
(* The second invariant: the flight, its payouts and its end.               *)

LEMMA LaunchR == ASSUME IInv, RInv, RunLaunch PROVE RInv'
<1>. DEFINE r == Head(queue).round
<1>0. Up /\ queue # <<>> /\ mem \in Memories /\ now \in Nat /\ queue \in Seq(Jobs) /\ JobsOK
  BY LaunchCases, TypeParts
<1>1. CASE Drop
  BY <1>0, <1>1, DropR
<1>2. ASSUME mem.phase = "betting" /\ mem.round = r,
             NEW x \in Crashes, mem' = Launching(r, x),
             Done /\ UNCHANGED <<now, dbVars, process, faults>>
      PROVE  RInv'
  <2>1. r \in Rounds /\ round[r].status = "OPEN" /\ UNCHANGED <<round, bet>>
    BY <1>2 DEF IInv, PhaseOK, RInv, CycleOK, dbVars
  <2>2. /\ mem'.phase = "flying" /\ mem'.round = r /\ mem'.launchedAt = now /\ mem'.crash = x
        /\ mem'.bets = mem.bets /\ SameEnds
        /\ mem'.crashTimer = {[round |-> r, due |-> now + MsTo[x]]}
        /\ mem'.autos = {[user |-> u, round |-> r, due |-> now + MsTo[mem.bets[u].auto]] :
                  u \in {v \in Users : mem.bets[v].auto # 0 /\ mem.bets[v].auto <= x}}
    BY <1>0, <1>2, <2>1, LaunchedMem DEF SameEnds
  <2>3. OneEnd' /\ EndsOK'
    BY <1>0, <1>2, <2>2, EndsAfterCrash, NoEndsDone, NoEndsOK
  <2>4. \A s \in Rounds : FlightOf(s) => s # r /\ round[s].status # "NONE"
    BY <1>2 DEF FlightOf
  <2>5. \A k \in DOMAIN queue' : queue'[k].kind \in {"auto", "crash"} =>
          /\ queue'[k].round # r /\ round[queue'[k].round].status # "NONE"
    <3>1. \A k \in DOMAIN queue : queue[k].kind \in {"auto", "crash"} =>
            queue[k].round \in Rounds /\ FlightOf(queue[k].round)
      BY <1>0 DEF RInv, TimersOK, AutoOK, JobsOK, JobOK
    <3>2. \A k \in DOMAIN queue' : k + 1 \in DOMAIN queue /\ queue'[k] = queue[k + 1]
      BY <1>0, <1>2, TailQ DEF Done
    <3>. QED BY <2>4, <3>1, <3>2
  <2>6. TimersOK'
    <3>1. \A k \in DOMAIN queue' : queue'[k].kind \in {"auto", "crash"} =>
            FlightOf(queue[k].round)' /\ AutoOK(queue[k].user, queue[k].round)'
      BY <2>1, <2>2, <2>5 DEF FlightOf, AutoOK
    <3>2. \A u \in Users : mem.bets[u].auto <= x => AutoOK(u, mem.round)'
      BY <1>2, <2>1, <2>2 DEF FlightOf, AutoOK
    <3>3. \A t \in mem'.autos : AutoOK(t.user, t.round)'
      <4>. SUFFICES ASSUME NEW t \in mem'.autos PROVE AutoOK(t.user, t.round)'
        OBVIOUS
      <4>1. t.user \in Users /\ mem.bets[t.user].auto <= x /\ t.round = r
        BY <2>2
      <4>. QED BY <1>2, <2>1, <2>2, <4>1 DEF FlightOf, AutoOK
    <3>4. \A t \in mem'.crashTimer : FlightOf(t.round)' /\ (t.round = mem'.round => t.due = CrashAt')
      BY <2>1, <2>2 DEF FlightOf, CrashAt
    <3>. QED BY <3>1, <3>3, <3>4 DEF TimersOK
  <2>7. CycleOK' /\ PaidOK'
    <3>1. \A u \in Users : bet[r][u].cashout <= x
      <4>1. \A u \in Users : bet[r][u].cashout <= 0 /\ bet[r][u].cashout \in Nat
        BY <1>2, <2>1, BetsAreRows DEF RInv, PaidOK, Paid, BetRow
      <4>. QED BY <4>1, CrashesAreMultipliers
    <3>. QED BY <2>1, <2>2, <3>1 DEF CycleOK, PaidOK, Paid
  <2>8. FinishedPaid' /\ (NoLostBet => AllInMemory' /\ AutoHonored')
    BY <1>2, <2>1, <2>2 DEF RInv, FinishedPaid, AllInMemory, AutoHonored
  <2>. QED BY <2>3, <2>6, <2>7, <2>8 DEF RInv
<1>. QED BY <1>1, <1>2, LaunchCases

LEMMA CrashR == ASSUME IInv, RInv, RunCrash PROVE RInv'
<1>. DEFINE r == Head(queue).round
<1>0. /\ Up /\ queue # <<>> /\ Head(queue).kind = "crash" /\ mem \in Memories /\ now \in Nat
      /\ queue \in Seq(Jobs) /\ TypeOK
  BY TypeParts DEF RunCrash, Running
<1>1. CASE mem.round # r \/ mem.phase # "flying"
  BY <1>0, <1>1, DropR DEF RunCrash
<1>2. ASSUME mem.round = r, mem.phase = "flying" PROVE RInv'
  <2>1. /\ UNCHANGED <<now, dbVars, process, faults>> /\ UNCHANGED <<round, bet>>
        /\ r \in Rounds /\ round[r].status = "OPEN"
    BY <1>2 DEF RunCrash, IInv, PhaseOK, RInv, CycleOK, dbVars
  <2>2. CASE now < CrashAt
    <3>1. mem' = [mem EXCEPT !.crashTimer = {[round |-> r, due |-> CrashAt]}] /\ Done
      BY <1>2, <2>2 DEF RunCrash
    <3>2. SameCore /\ SameEnds /\ mem'.autos = mem.autos /\ mem'.crashTimer \subseteq CrashTimers
      BY <1>0, <1>2, <3>1 DEF SameCore, SameEnds, CrashTimers, Memories
    <3>3. Moved
      BY <1>0, <3>1 DEF Moved
    <3>. QED BY <1>0, <2>1, <3>2, <3>3, StillStep
  <2>3. CASE ~ (now < CrashAt)
    <3>1. mem' = [mem EXCEPT !.phase = "crashed", !.autos = {}]
          /\ queue' = <<Job("finish", None, r)>> \o Tail(queue)
      BY <1>2, <2>3 DEF RunCrash
    <3>2. /\ mem'.phase = "crashed" /\ mem'.round = r /\ mem'.crash = mem.crash
          /\ mem'.launchedAt = mem.launchedAt /\ mem'.bets = mem.bets /\ mem'.autos = {}
          /\ mem'.crashTimer = mem.crashTimer /\ SameEnds
      BY <1>0, <1>2, <3>1 DEF Memories, SameEnds
    <3>. DEFINE f == Job("finish", None, r)
    <3>3. f \in Jobs /\ f.kind = "finish" /\ f.round = r
      <4>1. r \in Rounds \cup {None} /\ None \in Users \cup {None}
        BY <2>1
      <4>2. TypeOK
        BY TypeParts
      <4>3. LET j == Job("finish", None, r) IN j \in Jobs /\ j.kind = "finish" /\ j.round = r
        <5>. HIDE DEF r
        <5>. QED BY <4>1, <4>2, JobIsJob
      <4>. QED BY <4>3
    <3>. HIDE DEF f
    <3>4. /\ \A k \in DOMAIN queue' : \/ k = 1 /\ queue'[k] = f
                                      \/ k \in DOMAIN queue /\ k # 1 /\ queue'[k] = queue[k]
          /\ \A k \in DOMAIN queue : k \in Nat /\ k >= 1
      BY <1>0, <3>1, <3>3, FirstQ DEF f
    <3>5. NoEnds
      BY <1>2, EndsAfterCrash
    <3>6. ~ EndTimer'
      BY <3>2, <3>5 DEF NoEnds, EndTimer, SameEnds
    <3>7. OneEnd'
      BY <3>4, <3>5, <3>6 DEF OneEnd, NoEnds, EndTimer
    <3>8. EndsOK'
      <4>1. \A k \in DOMAIN queue' :
              /\ queue'[k].kind = "finish" => queue'[k].round = r
              /\ queue'[k].kind # "next"
        BY <3>3, <3>4, <3>5 DEF NoEnds, Ending
      <4>. QED BY <3>2, <3>6, <4>1 DEF EndsOK, EndTimer, FinishOK
    <3>9. TimersOK'
      <4>1. \A s : FlightOf(s) => FlightOf(s)'
        BY <2>1, <3>2 DEF FlightOf
      <4>2. \A u, s : AutoOK(u, s) => AutoOK(u, s)'
        BY <1>2, <3>2, <4>1 DEF AutoOK
      <4>3. \A t \in mem'.crashTimer : FlightOf(t.round)' /\ (t.round = mem'.round => t.due = CrashAt')
        BY <1>2, <3>2, <4>1 DEF RInv, TimersOK, CrashAt
      <4>4. \A k \in DOMAIN queue' :
              /\ queue'[k].kind = "auto" => AutoOK(queue[k].user, queue[k].round)'
              /\ queue'[k].kind = "crash" => FlightOf(queue[k].round)'
        <5>1. \A k \in DOMAIN queue' :
                /\ queue'[k].kind = "auto" => AutoOK(queue'[k].user, queue'[k].round)
                /\ queue'[k].kind = "crash" => FlightOf(queue'[k].round)
          BY <3>3, <3>4 DEF RInv, TimersOK
        <5>. QED BY <1>2, <2>1, <3>2, <5>1 DEF AutoOK, FlightOf
      <4>. QED BY <3>2, <4>3, <4>4 DEF TimersOK
    <3>10. CycleOK' /\ PaidOK'
      <4>1. Paid(r, mem.crash)
        BY <1>2 DEF RInv, PaidOK
      <4>. QED BY <2>1, <3>2, <4>1 DEF CycleOK, PaidOK, Paid
    <3>11. FinishedPaid' /\ (NoLostBet => AllInMemory' /\ AutoHonored')
      BY <1>2, <2>1, <3>2 DEF RInv, FinishedPaid, AllInMemory, AutoHonored
    <3>. QED BY <3>7, <3>8, <3>9, <3>10, <3>11 DEF RInv
  <2>. QED BY <2>2, <2>3
<1>. QED BY <1>1, <1>2

(* What a payout within the crash point leaves true, the end of the round   *)
(* aside.                                                                  *)
FlightParts ==
  /\ TimersOK /\ CycleOK /\ PaidOK /\ FinishedPaid
  /\ NoLostBet => AllInMemory /\ AutoHonored

LEMMA PaysR ==
  ASSUME IInv, RInv, Up, NEW u \in Users, NEW x, NEW o \in Outcome, Allowed(u, x),
         PayOut(u, x, o), PaidMem(u, x, o), x <= mem.crash,
         mem.phase \in {"flying", "crashed"}, Moved, UNCHANGED <<now, process>>
  PROVE  FlightParts' /\ SameFlight /\ UNCHANGED round
<1>. DEFINE r == mem.round
<1>0. r \in Rounds /\ x \in Nat /\ x # 0 /\ now \in Nat /\ Riding(u)
      /\ bet[r][u] \in BetRow /\ mem.bets[u] \in BetRow
  BY TypeParts, BetsAreRows DEF Allowed
<1>1. /\ UNCHANGED round
      /\ \A s \in Rounds, v \in Users :
           bet'[s][v] = IF s = r /\ v = u /\ Takes(u, o) THEN Cashed(bet[s][v], x) ELSE bet[s][v]
  BY PaidOut
<1>2. /\ SameFlight /\ mem'.autos = mem.autos /\ mem'.crashTimer = mem.crashTimer
      /\ \A v \in Users : mem'.bets[v] = IF v = u /\ o = "ok" THEN PaidBet(u, x) ELSE mem.bets[v]
  BY PaidMemIs DEF SameFlight
<1>3. /\ Cashed(bet[r][u], x).amount = bet[r][u].amount
      /\ Cashed(bet[r][u], x).auto = bet[r][u].auto
      /\ Cashed(bet[r][u], x).cashout = x
  BY <1>0, CashedIs
<1>4. /\ PaidBet(u, x).amount = mem.bets[u].amount /\ PaidBet(u, x).auto = mem.bets[u].auto
      /\ PaidBet(u, x).cashout # 0
  BY <1>0, PaidBetIs
<1>5. \A s \in Rounds, v \in Users :
        /\ bet'[s][v].amount = bet[s][v].amount /\ bet'[s][v].auto = bet[s][v].auto
        /\ bet'[s][v].cashout = bet[s][v].cashout \/ (s = r /\ bet'[s][v].cashout = x)
        /\ bet[s][v].cashout # 0 => bet'[s][v].cashout # 0
  BY <1>0, <1>1, <1>3 DEF Takes
<1>6. \A v \in Users : /\ mem'.bets[v].amount = mem.bets[v].amount
                       /\ mem'.bets[v].auto = mem.bets[v].auto
  BY <1>2, <1>4
<1>7. TimersOK'
  BY <1>1, <1>2, <1>6, TimersMoved DEF RInv, CrashTimers
<1>8. CycleOK'
  BY <1>1, <1>2 DEF RInv, CycleOK, SameFlight
<1>9. PaidOK'
  <2>1. Paid(r, mem.crash)
    BY DEF RInv, PaidOK
  <2>2. Paid(r, mem.crash)'
    BY <1>0, <1>2, <1>5, <2>1 DEF Paid, SameFlight
  <2>. QED BY <1>1, <1>2, <2>2 DEF RInv, PaidOK, SameFlight
<1>10. FinishedPaid'
  <2>1. round[r].status = "FINISHED" => round[r].crash = mem.crash
    BY DEF RInv, PaidOK, CycleOK
  <2>. QED BY <1>1, <1>5, <2>1 DEF RInv, FinishedPaid
<1>11. NoLostBet => AllInMemory' /\ AutoHonored'
  BY <1>1, <1>2, <1>5, <1>6 DEF RInv, AllInMemory, AutoHonored, SameFlight
<1>. QED BY <1>1, <1>2, <1>7, <1>8, <1>9, <1>10, <1>11 DEF FlightParts

LEMMA PayJobR ==
  ASSUME IInv, RInv, Up, queue # <<>>, mem.phase = "flying",
         NEW u \in Users, NEW x, Allowed(u, x), x <= mem.crash, PayJob(u, x)
  PROVE  RInv'
<1>1. PICK o \in Outcome : /\ PayOut(u, x, o) /\ PaidMem(u, x, o) /\ Done
                           /\ UNCHANGED <<now, process>>
                           /\ o # "ok" => mem' = mem
  BY TypeParts, PayJobIs
<1>2. Moved
  BY <1>1 DEF Moved
<1>3. FlightParts' /\ SameFlight /\ UNCHANGED round
  BY <1>1, <1>2, PaysR
<1>4. SameEnds
  <2>1. CASE o = "ok"
    BY <1>1, <2>1, PaidMemIs DEF SameEnds
  <2>2. CASE o # "ok"
    BY <1>1, <2>2 DEF SameEnds
  <2>. QED BY <2>1, <2>2
<1>5. OneEnd' /\ EndsOK'
  BY <1>2, <1>3, <1>4, EndsMoved DEF RInv
<1>. QED BY <1>3, <1>5 DEF RInv, FlightParts

LEMMA CashoutR == ASSUME IInv, RInv, RunCashout PROVE RInv'
BY CashoutCases, DropR, PayJobR

LEMMA AutoR == ASSUME IInv, RInv, RunAuto PROVE RInv'
<1>. DEFINE j == Head(queue)
            x == mem.bets[j.user].auto
<1>1. Up /\ queue # <<>> /\ j.kind = "auto"
  BY AutoCases
<1>2. AutoOK(j.user, j.round)
  BY <1>1, TypeParts, HeadIsJob DEF RInv, TimersOK
<1>3. CASE Drop
  BY <1>1, <1>3, DropR
<1>4. CASE /\ mem.phase = "flying" /\ j.user \in Users /\ j.round = mem.round
           /\ Allowed(j.user, x) /\ PayJob(j.user, x)
  <2>1. x <= mem.crash
    BY <1>2, <1>4 DEF AutoOK
  <2>. QED BY <1>1, <1>4, <2>1, PayJobR
<1>. QED BY <1>3, <1>4, AutoCases

LEMMA FinishPayR == ASSUME IInv, RInv, FinishPay PROVE RInv'
<1>1. Up /\ queue # <<>> /\ Head(queue).kind = "finish"
  BY FinishPayCases
<1>. PICK u \in Users, o \in Outcome : FinishPays(u, mem.bets[u].auto, o)
  BY FinishPayCases
<1>. DEFINE x == mem.bets[u].auto
<1>2. FinishPays(u, x, o)
  OBVIOUS
<1>. HIDE DEF x
<1>3. /\ Allowed(u, x) /\ PayOut(u, x, o) /\ PaidMem(u, x, o) /\ x <= mem.crash
      /\ UNCHANGED <<now, process>>
  BY <1>2 DEF FinishPays, PaidMem
<1>4. mem.phase = "crashed"
  BY <1>1, TypeParts, HeadIsJob DEF RInv, EndsOK, FinishOK
<1>5. Moved
  BY <1>1, <1>2 DEF FinishPays, Moved
<1>6. FlightParts' /\ SameFlight /\ UNCHANGED round
  BY <1>1, <1>3, <1>4, <1>5, PaysR
<1>7. OneEnd' /\ EndsOK'
  <2>1. CASE o = "ok"
    <3>1. SameEnds
      BY <1>3, <2>1, PaidMemIs DEF SameEnds
    <3>. QED BY <1>5, <1>6, <3>1, EndsMoved DEF RInv
  <2>2. CASE o # "ok"
    <3>1. mem' = [mem EXCEPT !.finish = mem.round] /\ Done
      BY <1>2, <2>2 DEF FinishPays
    <3>2. ~ EndTimer /\ \A k \in DOMAIN queue' : ~ Ending(queue'[k])
      BY <1>1, <3>1, HeadEnds DEF Ending
    <3>3. mem'.finish = mem.round /\ mem'.next = FALSE
      BY <3>1, <3>2, TypeParts DEF Memories, EndTimer
    <3>. QED BY <1>4, <1>6, <3>2, <3>3 DEF OneEnd, EndsOK, FinishOK, SameFlight, Ending
  <2>. QED BY <2>1, <2>2
<1>. QED BY <1>6, <1>7 DEF RInv, FlightParts

LEMMA FinishR == ASSUME IInv, RInv, FinishRow PROVE RInv'
<1>. DEFINE r == Head(queue).round
<1>0. /\ Up /\ queue # <<>> /\ Head(queue).kind = "finish" /\ r \in Rounds
      /\ Owed = {} /\ Done /\ UNCHANGED <<now, bet, ledger, xp, process>>
      /\ mem \in Memories /\ now \in Nat
  BY FinishCases, TypeParts
<1>1. PICK o \in Outcome :
        /\ round' = IF o # "fail" /\ round[r].status = "OPEN"
                    THEN [round EXCEPT ![r] = FinishedRow] ELSE round
        /\ mem' = IF o = "ok" THEN [mem EXCEPT !.next = TRUE]
                  ELSE [mem EXCEPT !.finish = mem.round]
  BY FinishCases
<1>2. mem.phase = "crashed" /\ r = mem.round
  BY <1>0, TypeParts, HeadIsJob DEF RInv, EndsOK, FinishOK
<1>. HIDE DEF r
<1>3. round[r].status \in {"OPEN", "FINISHED"}
  BY <1>0, <1>2 DEF IInv, PhaseOK
<1>4. /\ \A s \in Rounds : s # r => round'[s] = round[s]
      /\ \/ round'[r] = round[r] /\ (o # "fail" => round[r].status = "FINISHED")
         \/ round[r].status = "OPEN" /\ round'[r].status = "FINISHED" /\ round'[r].crash = mem.crash
  BY <1>0, <1>1, <1>3, FinishedRowIs
<1>5. ~ EndTimer /\ \A k \in DOMAIN queue' : ~ Ending(queue'[k])
  BY <1>0, HeadEnds DEF Ending
<1>6. /\ SameFlight /\ mem'.bets = mem.bets
      /\ mem'.autos = mem.autos /\ mem'.crashTimer = mem.crashTimer
      /\ \/ o = "ok" /\ mem'.next = TRUE /\ mem'.finish = None
         \/ o # "ok" /\ mem'.next = FALSE /\ mem'.finish = r
  BY <1>0, <1>1, <1>2, <1>5 DEF SameFlight, Memories, EndTimer
<1>7. OneEnd' /\ EndsOK'
  <2>1. o = "ok" => NextOK'
    BY <1>2, <1>4, <1>6 DEF NextOK, SameFlight
  <2>2. mem'.finish # None => mem'.phase = "crashed" /\ mem'.finish = mem'.round
    BY <1>2, <1>6 DEF SameFlight
  <2>. QED BY <1>5, <1>6, <2>1, <2>2 DEF OneEnd, EndsOK, Ending, FinishOK
<1>8. Moved
  BY <1>0 DEF Moved
<1>9. TimersOK'
  <2>1. \A s \in Rounds : round'[s].status = "NONE" => round[s].status = "NONE"
    BY <1>3, <1>4
  <2>. QED BY <1>6, <1>8, <2>1, TimersMoved DEF RInv, CrashTimers
<1>10. Paid(r, mem.crash)
  BY <1>2 DEF RInv, PaidOK
<1>11. CycleOK' /\ PaidOK'
  <2>1. round'[r].status = "FINISHED" => round'[r].crash = mem.crash
    BY <1>2, <1>3, <1>4 DEF RInv, PaidOK
  <2>. QED BY <1>0, <1>2, <1>6, <1>10, <2>1 DEF CycleOK, PaidOK, Paid, SameFlight
<1>12. FinishedPaid'
  BY <1>0, <1>4, <1>10 DEF RInv, FinishedPaid, Paid
<1>13. ASSUME NoLostBet PROVE AllInMemory' /\ AutoHonored'
  <2>1. AllInMemory /\ AutoHonored
    BY <1>13 DEF RInv
  <2>2. AllInMemory'
    BY <1>0, <1>6, <2>1 DEF AllInMemory, SameFlight
  <2>3. ASSUME NEW u \in Users, bet[r][u].auto # 0, bet[r][u].auto <= mem.crash
        PROVE  bet[r][u].cashout # 0
    <3>1. bet[r][u].amount # 0
      BY <1>0, <2>3, NoBetIsBet DEF IInv, RowsOK
    <3>2. mem.bets[u].amount # 0 /\ MatchesRow(mem.bets[u], bet[r][u])
      BY <1>0, <1>2, <2>1, <3>1 DEF AllInMemory, IInv, MemOK
    <3>3. ~ Riding(u)
      BY <1>0, <2>3, <3>2 DEF Owed, MatchesRow
    <3>. QED BY <3>2, <3>3 DEF Riding, MatchesRow
  <2>4. AutoHonored'
    BY <1>0, <1>4, <2>1, <2>3 DEF AutoHonored
  <2>. QED BY <2>2, <2>4
<1>. QED BY <1>7, <1>9, <1>11, <1>12, <1>13 DEF RInv

-----------------------------------------------------------------------------
(* The second invariant: death and restart.                                 *)

LEMMA BlankR ==
  ASSUME mem = Blank, queue = <<>>
  PROVE  OneEnd /\ EndsOK /\ CycleOK /\ TimersOK /\ PaidOK /\ AllInMemory
<1>1. /\ mem.phase = "idle" /\ mem.round = None /\ mem.finish = None /\ mem.next = FALSE
      /\ mem.autos = {} /\ mem.crashTimer = {} /\ DOMAIN queue = {}
  BY BlankIsMemory
<1>2. OneEnd /\ EndsOK /\ TimersOK
  BY <1>1 DEF OneEnd, EndsOK, TimersOK, EndTimer
<1>3. CycleOK /\ PaidOK /\ AllInMemory
  BY <1>1, NoneIsNoRound DEF CycleOK, PaidOK, AllInMemory
<1>. QED BY <1>2, <1>3

LEMMA BlankNext ==
  ASSUME mem' = Blank, queue' = <<>>
  PROVE  OneEnd' /\ EndsOK' /\ CycleOK' /\ TimersOK' /\ PaidOK' /\ AllInMemory'
<1>1. /\ mem'.phase = "idle" /\ mem'.round = None /\ mem'.finish = None /\ mem'.next = FALSE
      /\ mem'.autos = {} /\ mem'.crashTimer = {} /\ DOMAIN queue' = {}
  BY BlankIsMemory
<1>2. OneEnd' /\ EndsOK' /\ TimersOK'
  BY <1>1 DEF OneEnd, EndsOK, TimersOK, EndTimer
<1>3. CycleOK' /\ PaidOK' /\ AllInMemory'
  BY <1>1, NoneIsNoRound DEF CycleOK, PaidOK, AllInMemory
<1>. QED BY <1>2, <1>3

LEMMA DieR == ASSUME IInv, RInv, Die PROVE RInv'
<1>1. mem' = Blank /\ queue' = <<>> /\ UNCHANGED <<round, bet>> /\ process'.mode = "down"
  BY DEF Die, dbVars
<1>2. FinishedPaid' /\ (NoLostBet => AutoHonored')
  BY <1>1 DEF RInv, FinishedPaid, AutoHonored
<1>. QED BY <1>1, <1>2, BlankNext DEF RInv

LEMMA BootReadR == ASSUME IInv, RInv, BootRead PROVE RInv'
<1>1. /\ mem' = Blank /\ queue' = <<>> /\ UNCHANGED <<round, bet>>
  BY DEF BootRead, IInv, DownIsBlank, Up, dbVars
<1>2. FinishedPaid' /\ (NoLostBet => AutoHonored')
  BY <1>1 DEF RInv, FinishedPaid, AutoHonored
<1>. QED BY <1>1, <1>2, BlankNext DEF RInv

LEMMA BootVoidR == ASSUME IInv, RInv, BootVoid PROVE RInv'
<1>0. process.mode = "boot" /\ mem' = Blank /\ queue' = <<>> /\ UNCHANGED bet
  BY BootVoidCases
<1>1. PICK r \in process.todo, o \in Outcomes("boot") :
        /\ r \in Rounds
        /\ process' = [process EXCEPT !.todo = @ \ {r}]
        /\ IF o # "fail" /\ round[r].status = "OPEN"
           THEN /\ round' = [round EXCEPT ![r] = Voided(round[r])]
                /\ ledger' = Refunded(r)
           ELSE UNCHANGED <<round, ledger>>
  BY BootVoidCases
<1>2. /\ \A s \in Rounds : round'[s] = round[s] \/ (s = r /\ round'[s].status = "VOIDED")
      /\ o # "fail" => round'[r].status # "OPEN"
  BY <1>1, VoidedRow
<1>3. FinishedPaid' /\ (NoLostBet => AutoHonored')
  BY <1>0, <1>2 DEF RInv, FinishedPaid, AutoHonored
<1>. QED BY <1>0, <1>3, BlankNext DEF RInv

LEMMA BootDoneR == ASSUME IInv, RInv, BootDone PROVE RInv'
<1>1. /\ process.mode = "boot" /\ process.todo = {} /\ process'.mode = "up"
      /\ mem' = Blank /\ queue' = <<>> /\ UNCHANGED <<round, bet>>
  BY DEF BootDone, IInv, TypeOK, DownIsBlank, Up, dbVars
<1>2. FinishedPaid' /\ (NoLostBet => AutoHonored')
  BY <1>1 DEF RInv, FinishedPaid, AutoHonored
<1>. QED BY <1>1, <1>2, BlankNext DEF RInv

LEMMA StutterR == ASSUME IInv, RInv, UNCHANGED vars PROVE RInv'
<1>1. Moved /\ mem' = mem /\ UNCHANGED <<dbVars, process>> /\ now' = now
  BY DEF vars, Moved
<1>. QED BY <1>1, SameMem, StillStep

LEMMA InitRInv == Init => RInv
<1>. SUFFICES ASSUME Init PROVE RInv
  OBVIOUS
<1>1. /\ mem = Blank /\ queue = <<>> /\ process.mode = "up"
      /\ \A r \in Rounds : round[r].status = "NONE"
  BY DEF Init
<1>2. FinishedPaid /\ AutoHonored
  BY <1>1 DEF FinishedPaid, AutoHonored
<1>. QED BY <1>1, <1>2, BlankR DEF RInv

LEMMA NextRInv ==
  ASSUME NoOpenFaults
  PROVE  IInv /\ RInv /\ [Next]_vars => RInv'
<1>. SUFFICES ASSUME IInv, RInv, [Next]_vars PROVE RInv'
  OBVIOUS
<1>1. CASE Run
  BY <1>1, WakeR, NextR, BetR, LaunchR, CashoutR, AutoR, CrashR, FinishPayR, FinishR DEF Run
<1>2. CASE Fire \/ BootRead \/ BootVoid \/ BootDone \/ Die
  BY <1>2, FireR, BootReadR, BootVoidR, BootDoneR, DieR
<1>3. CASE Tick \/ Players \/ UNCHANGED vars
  BY <1>3, TickR, PlayersR, StutterR
<1>. QED BY <1>1, <1>2, <1>3 DEF Next, Service

(* With every new round written as soon as it is asked for, every reachable *)
(* state satisfies the second invariant as well.                            *)
THEOREM CycleInvariance ==
  ASSUME NoOpenFaults
  PROVE  Spec => []RInv
<1>1. IInv /\ RInv /\ [Next]_vars => RInv'
  BY NextRInv
<1>. QED BY <1>1, InitRInv, Invariance, PTL DEF Spec

(* No cashout beats the crash or the target of its own player, with         *)
(* payouts, bets, finishing transactions and starts that fail or lose their *)
(* answers and a process that dies, but every opening written.              *)
THEOREM CashoutsStayInRule ==
  ASSUME NoOpenFaults
  PROVE  Spec => []CashoutInRule
<1>1. IInv /\ RInv => CashoutInRule
  BY DEF IInv, RInv, TargetKept, FinishedPaid, CashoutInRule
<1>. QED BY <1>1, Invariance, CycleInvariance, PTL

(* A finished round has paid every target its flight reached, as long as    *)
(* moreover no bet is charged without its answer.                           *)
THEOREM AutosAreHonored ==
  ASSUME NoOpenFaults, NoLostBet
  PROVE  Spec => []AutoHonored
<1>1. RInv => AutoHonored
  BY DEF RInv
<1>. QED BY <1>1, CycleInvariance, PTL

-----------------------------------------------------------------------------
(* Whoever asks in time is served first, whatever fails and however early   *)
(* the timer of the crash fires.                                            *)

(* A crash is of a round that was opened and has left the ground; the timer *)
(* of the flight is set to its end.                                         *)
Flown(r) == round[r].status # "NONE" /\ (r = mem.round => mem.phase # "betting")
CrashesOK ==
  /\ \A t \in mem.crashTimer :
       Flown(t.round) /\ (t.round = mem.round /\ mem.phase = "flying" => t.due = CrashAt)
  /\ \A k \in DOMAIN queue : queue[k].kind = "crash" => Flown(queue[k].round)

(* The crash is in the queue from EarlyBy before its moment on, behind      *)
(* whoever asked before that.                                               *)
CrashJob(j) == j.kind = "crash" /\ j.round = mem.round
LateAfter(n) == \A k \in DOMAIN queue :
  k > n /\ queue[k].kind = "cashout" => queue[k].at + EarlyBy >= CrashAt
OrderOK ==
  /\ mem.phase = "flying" => \A k \in DOMAIN queue :
       CrashJob(queue[k]) => now + EarlyBy >= CrashAt /\ LateAfter(k)
  /\ mem.phase = "crashed" => now >= CrashAt

OInv == CrashesOK /\ OrderOK /\ EarlierServedFirst

(* Steps that move jobs, none of them a crash.                              *)
Quiet(j) == j.kind # "crash" /\ (j.kind = "cashout" => j.at = now)
Stirred == \/ queue' = queue
           \/ queue # <<>> /\ Done
           \/ \E j \in Jobs : Quiet(j) /\ Enqueue(j)

(* The jobs that stay keep their order, and what comes after them is quiet. *)
LEMMA StirredJobs ==
  ASSUME queue \in Seq(Jobs), Stirred
  PROVE  \E d \in {0, 1} : \A k \in DOMAIN queue' :
           /\ k \in Nat
           /\ \/ k + d \in DOMAIN queue /\ queue'[k] = queue[k + d]
              \/ queue'[k] \in Jobs /\ Quiet(queue'[k])
<1>1. CASE queue' = queue
  <2>1. \A k \in DOMAIN queue' : k \in Nat /\ k + 0 \in DOMAIN queue /\ queue'[k] = queue[k + 0]
    BY <1>1
  <2>. QED BY <2>1
<1>2. CASE queue # <<>> /\ Done
  BY <1>2, TailQ DEF Done
<1>3. CASE \E j \in Jobs : Quiet(j) /\ Enqueue(j)
  <2>1. PICK j \in Jobs : Quiet(j) /\ queue' = Append(queue, j)
    BY <1>3 DEF Enqueue
  <2>2. \A k \in DOMAIN queue' : \/ k \in DOMAIN queue /\ queue'[k] = queue[k]
                                 \/ k = Len(queue) + 1 /\ queue'[k] = j
    BY <2>1, AppendQ
  <2>3. \A k \in DOMAIN queue' : k \in Nat /\ k + 0 = k
    BY <2>2, AppendQ
  <2>4. \A k \in DOMAIN queue' :
          /\ k \in Nat
          /\ \/ k + 0 \in DOMAIN queue /\ queue'[k] = queue[k + 0]
             \/ queue'[k] \in Jobs /\ Quiet(queue'[k])
    BY <2>1, <2>2, <2>3
  <2>. QED BY <2>4
<1>. QED BY <1>1, <1>2, <1>3 DEF Stirred

LEMMA CrashMoment ==
  ASSUME IInv, mem.phase \in {"flying", "crashed"}
  PROVE  CrashAt \in Nat /\ EarlyBy \in Nat /\ mem.round \in Rounds
<1>1. MsTo[mem.crash] \in Nat
  BY CrashesAreMultipliers DEF IInv, PhaseOK
<1>. QED BY <1>1, TypeParts, JetpackAssumption DEF CrashAt, Memories, IInv, PhaseOK

LEMMA OrderStirred ==
  ASSUME IInv, OInv, Stirred, SameFlight, now' \in Nat, now' >= now,
         mem'.crashTimer \subseteq CrashTimers,
         \A u \in Users : Riding(u)' => Riding(u),
         \A r \in Rounds : round'[r].status = "NONE" => round[r].status = "NONE"
  PROVE  OInv'
<1>0. queue \in Seq(Jobs) /\ now \in Nat /\ mem \in Memories /\ JobsOK
  BY TypeParts
<1>1. PICK d \in {0, 1} : \A k \in DOMAIN queue' :
        /\ k \in Nat
        /\ \/ k + d \in DOMAIN queue /\ queue'[k] = queue[k + d]
           \/ queue'[k] \in Jobs /\ Quiet(queue'[k])
  BY <1>0, StirredJobs
<1>2. CrashAt' = CrashAt
  BY DEF CrashAt, SameFlight
<1>3. CrashesOK'
  <2>1. \A r \in Rounds : Flown(r) => Flown(r)'
    BY DEF Flown, SameFlight
  <2>2. \A t \in CrashTimers :
          /\ t.round \in Rounds /\ Flown(t.round)
          /\ t.round = mem.round /\ mem.phase = "flying" => t.due = CrashAt
    <3>1. \A t \in mem.crashTimer : t.round \in Rounds
      BY <1>0 DEF Memories
    <3>2. mem.phase = "flying" => mem.round \in Rounds /\ Flown(mem.round)
      BY DEF IInv, PhaseOK, Flown
    <3>. QED BY <3>1, <3>2 DEF CrashTimers, OInv, CrashesOK
  <2>3. \A k \in DOMAIN queue : queue[k].kind = "crash" =>
          queue[k].round \in Rounds /\ Flown(queue[k].round)
    BY <1>0 DEF JobsOK, JobOK, OInv, CrashesOK
  <2>4. \A k \in DOMAIN queue' : queue'[k].kind = "crash" => Flown(queue[k].round)'
    BY <1>1, <2>1, <2>3 DEF Quiet
  <2>5. \A t \in mem'.crashTimer :
          Flown(t.round)' /\ (t.round = mem'.round /\ mem'.phase = "flying" => t.due = CrashAt')
    BY <1>2, <2>1, <2>2 DEF SameFlight
  <2>. QED BY <2>4, <2>5 DEF CrashesOK
<1>4. OrderOK'
  <2>1. ASSUME mem.phase = "flying", NEW k \in DOMAIN queue', CrashJob(queue[k])'
        PROVE  now' + EarlyBy >= CrashAt /\ LateAfter(k)'
    <3>0. CrashAt \in Nat /\ EarlyBy \in Nat
      BY <2>1, CrashMoment
    <3>1. queue'[k].kind = "crash" /\ queue'[k].round = mem.round
      BY <2>1 DEF CrashJob, SameFlight
    <3>2. k \in Nat /\ k + d \in DOMAIN queue /\ queue'[k] = queue[k + d]
      BY <1>1, <2>1, <3>1 DEF Quiet
    <3>3. now + EarlyBy >= CrashAt /\ LateAfter(k + d)
      BY <2>1, <3>1, <3>2 DEF OInv, OrderOK, CrashJob
    <3>4. ASSUME NEW n \in DOMAIN queue', n > k, queue'[n].kind = "cashout"
          PROVE  queue'[n].at + EarlyBy >= CrashAt
      <4>1. CASE n + d \in DOMAIN queue /\ queue'[n] = queue[n + d]
        <5>1. n \in Nat /\ n + d > k + d
          BY <1>1, <3>2, <3>4
        <5>. QED BY <3>3, <3>4, <4>1, <5>1 DEF LateAfter
      <4>2. CASE Quiet(queue'[n])
        BY <3>3, <3>4, <4>2 DEF Quiet
      <4>. QED BY <1>1, <4>1, <4>2
    <3>5. LateAfter(k)'
      BY <1>2, <3>4 DEF LateAfter
    <3>6. now' + EarlyBy >= CrashAt
      <4>1. now \in Nat /\ now' \in Nat /\ now' >= now
        BY <1>0
      <4>2. now + EarlyBy >= CrashAt
        BY <3>3
      <4>3. \A a, b, c, d1 \in Nat : b >= a /\ a + c >= d1 => b + c >= d1
        OBVIOUS
      <4>. QED BY ONLY <3>0, <4>1, <4>2, <4>3
    <3>. QED BY <3>5, <3>6
  <2>2. mem.phase = "crashed" => now' >= CrashAt
    BY <1>0, CrashMoment DEF OInv, OrderOK
  <2>. QED BY <1>2, <2>1, <2>2 DEF OrderOK, SameFlight
<1>5. EarlierServedFirst'
  <2>. SUFFICES ASSUME mem.phase = "crashed", NEW k \in DOMAIN queue', AskedInTime(queue[k])'
                PROVE  FALSE
    BY DEF EarlierServedFirst, SameFlight
  <2>0. CrashAt \in Nat /\ EarlyBy \in Nat
    BY CrashMoment
  <2>1. /\ queue'[k].kind = "cashout" /\ queue'[k].at >= mem.launchedAt
        /\ queue'[k].at < CrashAt - EarlyBy
        /\ queue'[k].user \in Users => Riding(queue'[k].user)
    BY <1>2 DEF AskedInTime, AskedBy, SameFlight, Riding
  <2>2. now >= CrashAt /\ \A l \in DOMAIN queue : ~ AskedInTime(queue[l])
    BY DEF OInv, OrderOK, EarlierServedFirst
  <2>3. CASE k + d \in DOMAIN queue /\ queue'[k] = queue[k + d]
    BY <1>0, <2>1, <2>2, <2>3 DEF AskedInTime, AskedBy, JobsOK, JobOK
  <2>4. CASE Quiet(queue'[k])
    BY <1>0, <2>0, <2>1, <2>2, <2>4 DEF Quiet
  <2>. QED BY <1>1, <2>3, <2>4
<1>. QED BY <1>3, <1>4, <1>5 DEF OInv

(* Steps that leave rows and bets alone.                                    *)
LEMMA OrderStill ==
  ASSUME IInv, OInv, Stirred, SameCore, UNCHANGED dbVars, now' \in Nat, now' >= now,
         mem'.crashTimer \subseteq CrashTimers
  PROVE  OInv'
<1>1. SameFlight /\ UNCHANGED round /\ \A u \in Users : Riding(u)' => Riding(u)
  BY DEF SameFlight, SameCore, dbVars, Riding
<1>. QED BY <1>1, OrderStirred

LEMMA DropO == ASSUME IInv, OInv, queue # <<>>, Drop PROVE OInv'
<1>1. now' = now /\ now \in Nat /\ mem' = mem /\ UNCHANGED dbVars /\ Stirred
  BY TypeParts DEF Drop, Stirred
<1>. QED BY <1>1, SameMem, OrderStill

LEMMA TickO == ASSUME IInv, OInv, Tick PROVE OInv'
<1>1. now' \in Nat /\ now' >= now /\ mem' = mem /\ UNCHANGED dbVars /\ Stirred
  BY TypeParts DEF Tick, Stirred
<1>. QED BY <1>1, SameMem, OrderStill

LEMMA StutterO == ASSUME IInv, OInv, UNCHANGED vars PROVE OInv'
<1>1. now' = now /\ now \in Nat /\ mem' = mem /\ UNCHANGED dbVars /\ Stirred
  BY TypeParts DEF vars, Stirred
<1>. QED BY <1>1, SameMem, OrderStill

LEMMA PlayersO == ASSUME IInv, OInv, Players PROVE OInv'
<1>1. ASSUME NEW j \in Jobs, Quiet(j), Request(j) PROVE OInv'
  <2>1. now' = now /\ now \in Nat /\ mem' = mem /\ UNCHANGED dbVars /\ Stirred
    BY <1>1, TypeParts DEF Request, Stirred
  <2>. QED BY <2>1, SameMem, OrderStill
<1>2. \A j : j.kind \in {"wake", "bet"} \/ (j.kind = "cashout" /\ j.at = now) => Quiet(j)
  BY DEF Quiet
<1>. QED BY <1>1, <1>2, PlayersJobs DEF Players

(* A timer other than the crash puts a job of its kind.                     *)
LEMMA FireO == ASSUME IInv, OInv, Fire PROVE OInv'
<1>0. /\ UNCHANGED <<now, dbVars, process, faults>> /\ UNCHANGED round
      /\ TypeOK /\ JobsOK /\ mem \in Memories /\ now \in Nat /\ queue \in Seq(Jobs)
  BY TypeParts DEF Fire, dbVars
<1>1. ASSUME NEW kind \in {"launch", "finish", "next", "auto"},
             NEW u \in Users \cup {None}, NEW r \in Rounds \cup {None},
             Enqueue(Job(kind, u, r)), SameCore, mem'.crashTimer = mem.crashTimer
      PROVE  OInv'
  <2>. DEFINE j == Job(kind, u, r)
  <2>0. TypeOK
    BY <1>0
  <2>1. j \in Jobs /\ j.kind = kind
    BY <2>0, JobIsJob
  <2>2. Stirred
    BY <1>1, <2>1 DEF Stirred, Quiet
  <2>3. mem'.crashTimer \subseteq CrashTimers /\ now' \in Nat /\ now' >= now
    BY <1>0, <1>1 DEF CrashTimers
  <2>. QED BY <1>0, <1>1, <2>2, <2>3, OrderStill
<1>2. CASE FireLaunch
  <2>1. mem.launch \in Rounds /\ SameCore /\ mem'.crashTimer = mem.crashTimer
    BY <1>0, <1>2 DEF FireLaunch, Memories, SameCore
  <2>. QED BY <1>1, <1>2, <2>1 DEF FireLaunch
<1>3. CASE FireFinish
  <2>1. mem.finish \in Rounds /\ SameCore /\ mem'.crashTimer = mem.crashTimer
    BY <1>0, <1>3 DEF FireFinish, Memories, SameCore
  <2>. QED BY <1>1, <1>3, <2>1 DEF FireFinish
<1>4. CASE FireNext
  <2>1. SameCore /\ mem'.crashTimer = mem.crashTimer
    BY <1>0, <1>4 DEF FireNext, Memories, SameCore
  <2>. QED BY <1>1, <1>4, <2>1 DEF FireNext
<1>5. CASE FireAuto
  <2>1. PICK t \in mem.autos : /\ mem' = [mem EXCEPT !.autos = @ \ {t}]
                               /\ Enqueue(Job("auto", t.user, t.round))
    BY <1>5 DEF FireAuto
  <2>2. t.round \in Rounds /\ t.user \in Users
    BY <1>0 DEF Memories
  <2>3. SameCore /\ mem'.crashTimer = mem.crashTimer
    BY <1>0, <2>1 DEF Memories, SameCore
  <2>. QED BY <1>1, <2>1, <2>2, <2>3
<1>6. CASE FireCrash
  <2>1. PICK t \in mem.crashTimer : /\ now + EarlyBy >= t.due
                                    /\ mem' = [mem EXCEPT !.crashTimer = {}]
                                    /\ Enqueue(Job("crash", None, t.round))
    BY <1>6 DEF FireCrash
  <2>2. t.round \in Rounds /\ TypeOK
    BY <1>0 DEF Memories
  <2>. DEFINE j == Job("crash", None, t.round)
  <2>3. j \in Jobs /\ j.kind = "crash" /\ j.round = t.round
    BY <2>2, JobIsJob
  <2>. HIDE DEF j
  <2>4. /\ SameFlight /\ mem'.bets = mem.bets /\ mem'.crashTimer = {}
        /\ queue' = Append(queue, j)
    BY <1>0, <2>1 DEF SameFlight, Memories, Enqueue, j
  <2>5. /\ \A k \in DOMAIN queue' : (k \in DOMAIN queue /\ queue'[k] = queue[k])
                                      \/ (k = Len(queue) + 1 /\ queue'[k] = j)
        /\ \A k \in DOMAIN queue : k <= Len(queue) /\ k \in Nat
        /\ Len(queue) \in Nat
    BY <1>0, <2>3, <2>4, AppendQ
  <2>6. CrashAt' = CrashAt
    BY <2>4 DEF CrashAt, SameFlight
  <2>7. CrashesOK'
    <3>1. \A k \in DOMAIN queue' : queue'[k].kind = "crash" => Flown(queue'[k].round)
      BY <2>3, <2>5 DEF OInv, CrashesOK
    <3>. QED BY <1>0, <2>4, <3>1 DEF CrashesOK, Flown, SameFlight
  <2>8. OrderOK'
    <3>1. ASSUME mem.phase = "flying", NEW k \in DOMAIN queue', CrashJob(queue[k])'
          PROVE  now + EarlyBy >= CrashAt /\ LateAfter(k)'
      <4>1. queue'[k].kind = "crash" /\ queue'[k].round = mem.round
        BY <2>4, <3>1 DEF CrashJob, SameFlight
      <4>2. CASE k \in DOMAIN queue /\ queue'[k] = queue[k]
        <5>1. now + EarlyBy >= CrashAt /\ LateAfter(k)
          BY <3>1, <4>1, <4>2 DEF OInv, OrderOK, CrashJob
        <5>2. LateAfter(k)'
          BY <2>3, <2>5, <2>6, <5>1 DEF LateAfter
        <5>. QED BY <5>1, <5>2
      <4>3. CASE k = Len(queue) + 1 /\ queue'[k] = j
        <5>1. t.due = CrashAt
          BY <2>3, <3>1, <4>1, <4>3 DEF OInv, CrashesOK
        <5>2. LateAfter(k)'
          BY <2>5, <4>3 DEF LateAfter
        <5>. QED BY <2>1, <5>1, <5>2
      <4>. QED BY <2>5, <4>2, <4>3
    <3>. QED BY <1>0, <2>4, <2>6, <3>1 DEF OInv, OrderOK, SameFlight
  <2>9. EarlierServedFirst'
    <3>. SUFFICES ASSUME mem.phase = "crashed", NEW k \in DOMAIN queue', AskedInTime(queue[k])'
                  PROVE  FALSE
      BY <2>4 DEF EarlierServedFirst, SameFlight
    <3>1. k \in DOMAIN queue /\ AskedInTime(queue[k])
      BY <2>3, <2>4, <2>5, <2>6 DEF AskedInTime, AskedBy, SameFlight, Riding
    <3>. QED BY <3>1 DEF OInv, EarlierServedFirst
  <2>. QED BY <2>7, <2>8, <2>9 DEF OInv
<1>. QED BY <1>2, <1>3, <1>4, <1>5, <1>6 DEF Fire

(* On the ground there is nothing to keep but the rounds of the crashes.    *)
LEMMA GroundO ==
  ASSUME IInv, OInv, queue # <<>>, Done, mem'.phase \in {"idle", "betting"},
         mem'.crashTimer = mem.crashTimer, \A r \in Rounds : Flown(r) => Flown(r)'
  PROVE  OInv'
<1>0. queue \in Seq(Jobs) /\ mem \in Memories /\ JobsOK
  BY TypeParts
<1>1. \A k \in DOMAIN queue' : k + 1 \in DOMAIN queue /\ queue'[k] = queue[k + 1]
  BY <1>0, TailQ DEF Done
<1>2. \A k \in DOMAIN queue : queue[k].kind = "crash" =>
        queue[k].round \in Rounds /\ Flown(queue[k].round)
  BY <1>0 DEF JobsOK, JobOK, OInv, CrashesOK
<1>3. \A k \in DOMAIN queue' : queue'[k].kind = "crash" => Flown(queue[k].round)'
  BY <1>1, <1>2
<1>4. \A t \in mem'.crashTimer : Flown(t.round)'
  BY <1>0 DEF Memories, OInv, CrashesOK
<1>. QED BY <1>3, <1>4 DEF OInv, CrashesOK, OrderOK, EarlierServedFirst

LEMMA OpenO == ASSUME IInv, OInv, queue # <<>>, OpenOrRetry PROVE OInv'
<1>1. PICK r \in Unopened, o \in Outcomes("open") :
        /\ round' = IF o = "fail" THEN round ELSE [round EXCEPT ![r] = Opened(round[r])]
        /\ mem' = IF o = "ok" THEN OpenedMem(mem, r)
                  ELSE [mem EXCEPT !.phase = "idle", !.next = TRUE]
        /\ Count(o) /\ Done
        /\ UNCHANGED <<now, bet, ledger, xp, process>>
  BY OpenCases
<1>2. r \in Rounds /\ round[r].status = "NONE" /\ mem \in Memories
      /\ round \in [Rounds -> RoundRows]
  BY <1>1, TypeParts DEF Unopened, IInv, TypeOK
<1>3. \A s \in Rounds : round[s].status # "NONE" => round'[s].status # "NONE"
  BY <1>1, <1>2
<1>4. /\ mem'.crashTimer = mem.crashTimer
      /\ \/ mem'.phase = "betting" /\ mem'.round = r
         \/ mem'.phase = "idle"
  <2>1. CASE o = "ok"
    BY <1>1, <1>2, <2>1, OpenedMemory
  <2>2. CASE o # "ok"
    BY <1>1, <1>2, <2>2 DEF Memories
  <2>. QED BY <2>1, <2>2
<1>5. \A s \in Rounds : Flown(s) => Flown(s)'
  BY <1>2, <1>3, <1>4 DEF Flown
<1>. QED BY <1>1, <1>4, <1>5, GroundO

LEMMA SleepO == ASSUME IInv, OInv, queue # <<>>, Sleep PROVE OInv'
<1>1. Done /\ UNCHANGED round /\ mem'.phase = "idle" /\ mem'.crashTimer = mem.crashTimer
  BY TypeParts DEF Sleep, dbVars, Memories
<1>2. \A s \in Rounds : Flown(s) => Flown(s)'
  BY <1>1 DEF Flown
<1>. QED BY <1>1, <1>2, GroundO

LEMMA BetO == ASSUME IInv, OInv, RunBet PROVE OInv'
<1>. DEFINE j == Head(queue)
<1>0. /\ queue # <<>> /\ j.kind = "bet" /\ mem \in Memories
      /\ j \in Jobs /\ j.user \in Users /\ j.amount \in Amounts
  BY BetCases, TypeParts, HeadIsJob DEF JobOK
<1>1. CASE Drop
  BY <1>0, <1>1, DropO
<1>2. ASSUME mem.phase = "betting", NEW o \in Outcomes("bet"),
             IF o = "fail" THEN UNCHANGED dbVars ELSE Placed(j),
             mem' = IF o = "ok" THEN PutMem(mem, j.user, NewBet(j)) ELSE mem, Done
      PROVE  OInv'
  <2>1. UNCHANGED round
    BY <1>2 DEF Placed, dbVars
  <2>2. NewBet(j) \in BetRow
    BY <1>0, JetpackAssumption DEF NewBet, BetRow, Jobs
  <2>3. mem'.phase = "betting" /\ mem'.round = mem.round /\ mem'.crashTimer = mem.crashTimer
    <3>1. CASE o = "ok"
      <4>. DEFINE b == NewBet(j)
      <4>1. mem' = PutMem(mem, j.user, b)
        BY <1>2, <3>1
      <4>. HIDE DEF b
      <4>2. b \in BetRow
        BY <2>2 DEF b
      <4>. QED BY <1>0, <1>2, <4>1, <4>2, PutMemIs
    <3>2. CASE o # "ok"
      BY <1>2, <3>2
    <3>. QED BY <3>1, <3>2
  <2>4. \A s \in Rounds : Flown(s) => Flown(s)'
    BY <1>2, <2>1, <2>3 DEF Flown
  <2>. QED BY <1>0, <1>2, <2>3, <2>4, GroundO
<1>. QED BY <1>1, <1>2, BetCases

LEMMA LaunchO == ASSUME IInv, OInv, RunLaunch PROVE OInv'
<1>. DEFINE r == Head(queue).round
<1>0. queue # <<>> /\ mem \in Memories /\ now \in Nat /\ queue \in Seq(Jobs) /\ JobsOK
  BY LaunchCases, TypeParts
<1>1. CASE Drop
  BY <1>0, <1>1, DropO
<1>2. ASSUME mem.phase = "betting" /\ mem.round = r,
             NEW x \in Crashes, mem' = Launching(r, x),
             Done /\ UNCHANGED <<now, dbVars, process, faults>>
      PROVE  OInv'
  <2>1. r \in Rounds /\ round[r].status # "NONE" /\ UNCHANGED round
    BY <1>2 DEF IInv, PhaseOK, dbVars
  <2>2. /\ mem'.phase = "flying" /\ mem'.round = r /\ mem'.launchedAt = now /\ mem'.crash = x
        /\ mem'.crashTimer = {[round |-> r, due |-> now + MsTo[x]]}
    BY <1>0, <1>2, <2>1, LaunchedMem
  <2>3. \A k \in DOMAIN queue' : queue'[k].kind = "crash" =>
          queue'[k].round # r /\ round[queue'[k].round].status # "NONE"
    <3>1. \A k \in DOMAIN queue : queue[k].kind = "crash" =>
            queue[k].round # r /\ round[queue[k].round].status # "NONE"
      BY <1>2 DEF OInv, CrashesOK, Flown
    <3>2. \A k \in DOMAIN queue' : k + 1 \in DOMAIN queue /\ queue'[k] = queue[k + 1]
      BY <1>0, <1>2, TailQ DEF Done
    <3>. QED BY <3>1, <3>2
  <2>4. CrashesOK'
    <3>1. \A t \in mem'.crashTimer :
            Flown(t.round)' /\ (t.round = mem'.round /\ mem'.phase = "flying" => t.due = CrashAt')
      BY <2>1, <2>2 DEF Flown, CrashAt
    <3>2. \A k \in DOMAIN queue' : queue'[k].kind = "crash" => Flown(queue[k].round)'
      BY <2>1, <2>2, <2>3 DEF Flown
    <3>. QED BY <3>1, <3>2 DEF CrashesOK
  <2>5. \A k \in DOMAIN queue' : ~ CrashJob(queue[k])'
    BY <2>2, <2>3 DEF CrashJob
  <2>. QED BY <2>2, <2>4, <2>5 DEF OInv, OrderOK, EarlierServedFirst
<1>. QED BY <1>1, <1>2, LaunchCases

LEMMA CrashO == ASSUME IInv, OInv, RunCrash PROVE OInv'
<1>. DEFINE r == Head(queue).round
<1>0. /\ queue # <<>> /\ Head(queue).kind = "crash" /\ mem \in Memories /\ now \in Nat
      /\ queue \in Seq(Jobs) /\ TypeOK /\ JobsOK
  BY TypeParts DEF RunCrash, Running
<1>1. CASE mem.round # r \/ mem.phase # "flying"
  BY <1>0, <1>1, DropO DEF RunCrash
<1>2. ASSUME mem.round = r, mem.phase = "flying" PROVE OInv'
  <2>1. UNCHANGED <<now, dbVars, process, faults>> /\ UNCHANGED round /\ r \in Rounds
        /\ CrashAt \in Nat /\ EarlyBy \in Nat
    BY <1>2, CrashMoment DEF RunCrash, dbVars
  <2>2. CASE now < CrashAt
    <3>1. mem' = [mem EXCEPT !.crashTimer = {[round |-> r, due |-> CrashAt]}] /\ Done
      BY <1>2, <2>2 DEF RunCrash
    <3>2. SameCore /\ mem'.crashTimer \subseteq CrashTimers
      BY <1>0, <1>2, <3>1 DEF SameCore, CrashTimers, Memories
    <3>3. Stirred /\ now' \in Nat /\ now' >= now
      BY <1>0, <2>1, <3>1 DEF Stirred
    <3>. QED BY <2>1, <3>2, <3>3, OrderStill
  <2>3. CASE ~ (now < CrashAt)
    <3>1. mem' = [mem EXCEPT !.phase = "crashed", !.autos = {}]
          /\ queue' = <<Job("finish", None, r)>> \o Tail(queue)
      BY <1>2, <2>3 DEF RunCrash
    <3>2. /\ mem'.phase = "crashed" /\ mem'.round = r /\ mem'.crash = mem.crash
          /\ mem'.launchedAt = mem.launchedAt /\ mem'.bets = mem.bets
          /\ mem'.crashTimer = mem.crashTimer /\ CrashAt' = CrashAt
      BY <1>0, <1>2, <3>1 DEF Memories, CrashAt
    <3>. DEFINE f == Job("finish", None, r)
    <3>3. f \in Jobs /\ f.kind = "finish"
      <4>1. r \in Rounds \cup {None} /\ None \in Users \cup {None}
        BY <2>1
      <4>2. LET j == Job("finish", None, r) IN j \in Jobs /\ j.kind = "finish"
        <5>. HIDE DEF r
        <5>. QED BY <1>0, <4>1, JobIsJob
      <4>. QED BY <4>2
    <3>. HIDE DEF f
    <3>4. /\ \A k \in DOMAIN queue' : \/ k = 1 /\ queue'[k] = f
                                      \/ k \in DOMAIN queue /\ k # 1 /\ queue'[k] = queue[k]
          /\ \A k \in DOMAIN queue : k \in Nat /\ k >= 1
      BY <1>0, <3>1, <3>3, FirstQ DEF f
    <3>5. CrashesOK'
      <4>1. \A s : Flown(s) => Flown(s)'
        BY <2>1, <3>2 DEF Flown
      <4>2. \A k \in DOMAIN queue' : queue'[k].kind = "crash" => Flown(queue'[k].round)
        BY <3>3, <3>4 DEF OInv, CrashesOK
      <4>3. \A k \in DOMAIN queue' : queue'[k].kind = "crash" => Flown(queue[k].round)'
        BY <2>1, <3>2, <4>2 DEF Flown
      <4>. QED BY <3>2, <4>1, <4>3 DEF OInv, CrashesOK
    <3>6. 1 \in DOMAIN queue /\ CrashJob(queue[1])
      BY <1>0, <1>2, TailQ DEF CrashJob
    <3>7. LateAfter(1)
      BY <1>2, <3>6 DEF OInv, OrderOK
    <3>8. \A k \in DOMAIN queue' : queue'[k].kind = "cashout" =>
            queue'[k].at + EarlyBy >= CrashAt /\ queue'[k].at \in Nat
      <4>1. \A k \in DOMAIN queue : queue[k] \in Jobs
        BY <1>0
      <4>2. \A k \in DOMAIN queue : queue[k].at \in Nat
        BY <4>1 DEF Jobs
      <4>. QED BY <3>3, <3>4, <3>7, <4>2 DEF LateAfter
    <3>9. OrderOK'
      BY <1>0, <2>1, <2>3, <3>2 DEF OrderOK
    <3>10. EarlierServedFirst'
      BY <2>1, <3>2, <3>8 DEF EarlierServedFirst, AskedInTime, AskedBy
    <3>. QED BY <3>5, <3>9, <3>10 DEF OInv
  <2>. QED BY <2>2, <2>3
<1>. QED BY <1>1, <1>2

(* A payout takes a player off the flight, or leaves it to a retry.         *)
LEMMA PaysO ==
  ASSUME IInv, OInv, NEW u \in Users, NEW x, NEW o, Allowed(u, x),
         PayOut(u, x, o), PaidMem(u, x, o), Stirred, UNCHANGED now
  PROVE  OInv'
<1>0. x \in Nat /\ x # 0 /\ now \in Nat /\ mem.round \in Rounds
      /\ bet[mem.round][u] \in BetRow
  BY TypeParts, BetsAreRows DEF Allowed
<1>1. UNCHANGED round
  BY PaidOut
<1>2. /\ SameFlight /\ mem'.crashTimer = mem.crashTimer
      /\ \A v \in Users : mem'.bets[v] = IF v = u /\ o = "ok" THEN PaidBet(u, x) ELSE mem.bets[v]
  BY PaidMemIs DEF SameFlight
<1>3. PaidBet(u, x).cashout # 0
  BY <1>0, PaidBetIs DEF BetRow
<1>4. \A v \in Users : Riding(v)' => Riding(v)
  BY <1>2, <1>3 DEF Riding
<1>5. mem'.crashTimer \subseteq CrashTimers /\ now' \in Nat /\ now' >= now
  BY <1>0, <1>2 DEF CrashTimers
<1>. QED BY <1>1, <1>2, <1>4, <1>5, OrderStirred

LEMMA PayJobO ==
  ASSUME IInv, OInv, queue # <<>>, NEW u \in Users, NEW x, Allowed(u, x), PayJob(u, x)
  PROVE  OInv'
<1>1. PICK o \in Outcome : PayOut(u, x, o) /\ PaidMem(u, x, o) /\ Done /\ UNCHANGED now
  BY TypeParts, PayJobIs
<1>. QED BY <1>1, PaysO DEF Stirred

LEMMA CashoutO == ASSUME IInv, OInv, RunCashout PROVE OInv'
BY CashoutCases, DropO, PayJobO

LEMMA AutoO == ASSUME IInv, OInv, RunAuto PROVE OInv'
BY AutoCases, DropO, PayJobO

LEMMA FinishPayO == ASSUME IInv, OInv, FinishPay PROVE OInv'
<1>1. queue # <<>>
  BY FinishPayCases
<1>2. PICK u \in Users, o \in Outcome : FinishPays(u, mem.bets[u].auto, o)
  BY FinishPayCases
<1>. DEFINE x == mem.bets[u].auto
<1>3. FinishPays(u, x, o)
  BY <1>2
<1>. HIDE DEF x
<1>4. /\ Allowed(u, x) /\ PayOut(u, x, o) /\ PaidMem(u, x, o)
      /\ UNCHANGED now /\ Stirred
  BY <1>1, <1>3 DEF FinishPays, PaidMem, Stirred
<1>. QED BY <1>4, PaysO

LEMMA FinishRowO == ASSUME IInv, OInv, FinishRow PROVE OInv'
<1>. DEFINE r == Head(queue).round
<1>0. queue # <<>> /\ r \in Rounds /\ Done /\ UNCHANGED now /\ mem \in Memories /\ now \in Nat
  BY FinishCases, TypeParts
<1>1. PICK o \in Outcome :
        /\ round' = IF o # "fail" /\ round[r].status = "OPEN"
                    THEN [round EXCEPT ![r] = FinishedRow] ELSE round
        /\ mem' = IF o = "ok" THEN [mem EXCEPT !.next = TRUE]
                  ELSE [mem EXCEPT !.finish = mem.round]
  BY FinishCases
<1>. HIDE DEF r
<1>2. \A s \in Rounds : round'[s].status = "NONE" => round[s].status = "NONE"
  BY <1>0, <1>1, FinishedRowIs
<1>3. SameFlight /\ mem'.bets = mem.bets /\ mem'.crashTimer = mem.crashTimer
  BY <1>0, <1>1 DEF SameFlight, Memories
<1>4. \A v \in Users : Riding(v)' => Riding(v)
  BY <1>3 DEF Riding
<1>5. /\ Stirred /\ now' \in Nat /\ now' >= now
      /\ mem'.crashTimer \subseteq CrashTimers
  BY <1>0, <1>3 DEF Stirred, CrashTimers
<1>. QED BY <1>2, <1>3, <1>4, <1>5, OrderStirred

LEMMA BlankO == ASSUME mem' = Blank, queue' = <<>> PROVE OInv'
<1>1. mem'.phase = "idle" /\ mem'.crashTimer = {} /\ DOMAIN queue' = {}
  BY BlankIsMemory
<1>. QED BY <1>1 DEF OInv, CrashesOK, OrderOK, EarlierServedFirst

LEMMA InitOInv == Init => OInv
<1>. SUFFICES ASSUME Init PROVE OInv
  OBVIOUS
<1>1. mem.phase = "idle" /\ mem.crashTimer = {} /\ DOMAIN queue = {}
  BY BlankIsMemory DEF Init
<1>. QED BY <1>1 DEF OInv, CrashesOK, OrderOK, EarlierServedFirst

LEMMA NextOInv == IInv /\ OInv /\ [Next]_vars => OInv'
<1>. SUFFICES ASSUME IInv, OInv, [Next]_vars PROVE OInv'
  OBVIOUS
<1>1. CASE RunWake \/ RunNext
  BY <1>1, OpenO, SleepO, DropO DEF RunWake, RunNext, Running
<1>2. CASE RunBet \/ RunLaunch \/ RunCrash \/ RunCashout \/ RunAuto \/ FinishPay \/ FinishRow
  BY <1>2, BetO, LaunchO, CrashO, CashoutO, AutoO, FinishPayO, FinishRowO
<1>3. CASE BootRead \/ BootVoid \/ BootDone \/ Die
  <2>1. mem' = Blank /\ queue' = <<>>
    BY <1>3, BootVoidCases DEF BootRead, BootDone, Die, IInv, DownIsBlank, Up
  <2>. QED BY <2>1, BlankO
<1>4. CASE Fire \/ Tick \/ Players \/ UNCHANGED vars
  BY <1>4, FireO, TickO, PlayersO, StutterO
<1>. QED BY <1>1, <1>2, <1>3, <1>4 DEF Next, Service, Run

(* Whoever asks more than EarlyBy before the crash is served before it,     *)
(* whatever fails or loses its answer, however many jobs wait and however   *)
(* early the timer of the crash fires.                                      *)
THEOREM EarlierIsServedFirst == Spec => []EarlierServedFirst
<1>1. OInv => EarlierServedFirst
  BY DEF OInv
<1>. QED BY <1>1, InitOInv, NextOInv, Invariance, PTL DEF Spec

-----------------------------------------------------------------------------
(* The game implements the coin ledger.                                    *)

LEMMA BetPosts ==
  ASSUME IInv, Booked(ledger), RunBet
  PROVE  Settles(ledger, ledger')
<1>. DEFINE j == Head(queue)
<1>1. Up /\ queue # <<>> /\ j.kind = "bet"
  BY BetCases
<1>2. j.user \in Users /\ j.amount \in Amounts
  BY <1>1, TypeParts, HeadIsJob DEF JobOK
<1>3. j.amount \in Nat
  BY <1>2, JetpackAssumption
<1>4. \/ ledger' = ledger
      \/ /\ CanCharge(ledger, j.user, j.amount, "JETPACK_BET", mem.round)
         /\ ledger' = Charge(ledger, j.user, j.amount, "JETPACK_BET", mem.round)
  BY BetCases DEF Drop, dbVars, Placed
<1>. HIDE DEF j
<1>. QED BY <1>2, <1>3, <1>4, ChargePosts DEF Settles

LEMMA PayPosts ==
  ASSUME IInv, Booked(ledger), NEW u \in Users, NEW x, NEW o, Allowed(u, x), PayOut(u, x, o)
  PROVE  Settles(ledger, ledger')
<1>. DEFINE r == mem.round
            n == Payout(bet[r][u].amount, x)
<1>1. CASE ~ Takes(u, o)
  BY <1>1, PayCases DEF Settles
<1>2. CASE Takes(u, o)
  <2>1. /\ CanCredit(ledger, u, n, "JETPACK_WIN", r)
        /\ ledger' = Credit(ledger, u, n, "JETPACK_WIN", r)
    BY <1>2, PayCases
  <2>2. n \in Nat
    <3>1. r \in Rounds /\ x \in Nat /\ x >= 100
      BY DEF Allowed
    <3>2. MatchesRow(mem.bets[u], bet[r][u]) /\ mem.bets[u].amount # 0
      BY DEF Allowed, Riding, IInv, MemOK
    <3>3. bet[r][u] \in BetRow
      BY <3>1, BetsAreRows
    <3>4. bet[r][u].amount \in Amounts
      BY <3>2, <3>3 DEF MatchesRow, BetRow
    <3>. QED BY <3>1, <3>4, PayoutIsPositive
  <2>. HIDE DEF n
  <2>. QED BY <2>1, <2>2, CreditPosts
<1>. QED BY <1>1, <1>2

(* An open round has given nothing back yet.                               *)
LEMMA RefundedPosts ==
  ASSUME IInv, Booked(ledger), NEW r \in Rounds, round[r].status = "OPEN"
  PROVE  Settles(ledger, Refunded(r))
<1>. DEFINE U == Unsettled(r)
            K == Refunded(r)
            amount == [u \in U |-> bet[r][u].amount]
            ref == [u \in U |-> r]
<1>1. U \subseteq Users
  BY DEF Unsettled
<1>2. \A u \in U : amount[u] \in Nat /\ ref[u] = r
  <2>1. \A u \in Users : bet[r][u].amount \in Amounts \cup {0}
    BY BetsAreRows DEF BetRow
  <2>2. Amounts \cup {0} \subseteq Nat
    BY JetpackAssumption
  <2>. QED BY <1>1, <2>1, <2>2
<1>3. ASSUME NEW u \in Users
      PROVE  Fresh(ledger, u, "JETPACK_REFUND", r)
  <2>1. RowsOf(u, r) =
          (IF bet[r][u].amount = 0 THEN {} ELSE {Row(u, "JETPACK_BET", r, - bet[r][u].amount)}) \cup
          (IF bet[r][u].cashout = 0 THEN {}
           ELSE {Row(u, "JETPACK_WIN", r, Payout(bet[r][u].amount, bet[r][u].cashout))})
    BY DEF IInv, BetsAccounted
  <2>2. \A y \in RowsOf(u, r) : y.kind # "JETPACK_REFUND"
    BY <2>1 DEF Row
  <2>. QED BY <2>2 DEF RowsOf, Fresh
<1>4. {Row(u, "JETPACK_REFUND", ref[u], amount[u]) : u \in U}
        = {Row(u, "JETPACK_REFUND", r, bet[r][u].amount) : u \in Unsettled(r)}
  OBVIOUS
<1>5. ForEach(ledger, K, U, amount, "JETPACK_REFUND", ref)
  <2>1. K.rows = ledger.rows \cup {Row(u, "JETPACK_REFUND", ref[u], amount[u]) : u \in U}
    BY <1>4 DEF Refunded
  <2>2. K.balance = [u \in Users |-> ledger.balance[u] + IF u \in U THEN amount[u] ELSE 0]
    BY DEF Refunded
  <2>. HIDE DEF K, U, amount, ref
  <2>. QED BY <1>1, <2>1, <2>2 DEF ForEach
<1>6. \A u \in U : amount[u] \in Nat /\ Fresh(ledger, u, "JETPACK_REFUND", ref[u])
  BY <1>1, <1>2, <1>3
<1>. HIDE DEF K, U, amount, ref
<1>7. Settles(ledger, K)
  BY <1>5, <1>6, ForEachPosts DEF Settles
<1>. QED BY <1>7 DEF K

LEMMA LedgerPosts ==
  ASSUME NEW L, NEW K
  PROVE  Posts(L, K) => Ledger!Posts([balance |-> L.balance, rows |-> L.rows],
                                     [balance |-> K.balance, rows |-> K.rows])
<1>1. ASSUME NEW f, NEW S PROVE Ledger!SumFunctionOnSet(f, S) = SumFunctionOnSet(f, S)
  <2>1. Ledger!SumFunctionOnSet(f, S) = PartialSums(f, S)[S]
    BY DEF Ledger!SumFunctionOnSet, Ledger!FoldFunctionOnSet, Ledger!MapThenFoldSet,
           PartialSums, Defines, Chosen
  <2>. QED BY <2>1, SumIsPartialSum
<1>2. ASSUME NEW rows, NEW u PROVE Ledger!SumDelta(rows, u) = SumDelta(rows, u)
  BY <1>1 DEF Ledger!SumDelta, SumDelta
<1>. QED BY <1>2 DEF Ledger!Posts, Posts, Ledger!KeysUnique, KeysUnique

(* A step posts to the ledger or leaves it alone.                          *)
LEMMA LedgerStep ==
  ASSUME IInv, Booked(ledger), [Next]_vars
  PROVE  Settles(ledger, ledger')
<1>0. TypeOK
  BY DEF IInv
<1>1. CASE ledger' = ledger
  BY <1>1 DEF Settles
<1>2. CASE RunBet
  BY <1>2, BetPosts
<1>3. ASSUME NEW u \in Users, NEW x, Allowed(u, x), PayJob(u, x)
      PROVE  Settles(ledger, ledger')
  BY <1>0, <1>3, PayJobIs, PayPosts
<1>4. CASE RunCashout
  BY <1>1, <1>3, <1>4, CashoutCases DEF Drop, dbVars
<1>5. CASE RunAuto
  BY <1>1, <1>3, <1>5, AutoCases DEF Drop, dbVars
<1>6. CASE FinishPay
  BY <1>6, FinishPayCases, PayPosts DEF FinishPays
<1>7. CASE BootVoid
  BY <1>1, <1>7, BootVoidCases, RefundedPosts
<1>8. CASE RunWake \/ RunNext \/ RunLaunch \/ RunCrash \/ FinishRow
  BY <1>1, <1>8
     DEF RunWake, RunNext, OpenOrRetry, Sleep, RunLaunch, RunCrash, FinishRow, Drop, dbVars
<1>9. CASE Fire \/ BootRead \/ BootDone \/ Die
  BY <1>1, <1>9 DEF Fire, BootRead, BootDone, Die, dbVars
<1>10. CASE Tick \/ Players \/ UNCHANGED vars
  BY <1>1, <1>10 DEF Tick, Players, OpenPage, AskBet, AskCashout, Request, dbVars, vars
<1>. QED
  BY <1>2, <1>4, <1>5, <1>6, <1>7, <1>8, <1>9, <1>10 DEF Next, Service, Run

(* The game implements the coin ledger: whatever answers get lost and        *)
(* wherever the process dies, balances are the journal, and no event has    *)
(* two rows.                                                               *)
THEOREM ImplementsLedger == Spec => CoinLedgerSpec
<1>1. Init => ledger = NewLedger /\ Booked(ledger)
  BY NewIsBooked DEF Init
<1>2. IInv /\ Booked(ledger) /\ [Next]_vars => Booked(ledger)' /\ [Ledger!Post]_<<ledger.balance, ledger.rows>>
  <2>. SUFFICES ASSUME IInv, Booked(ledger), [Next]_vars
                PROVE  Booked(ledger)' /\ [Ledger!Post]_<<ledger.balance, ledger.rows>>
    OBVIOUS
  <2>1. Settles(ledger, ledger')
    BY LedgerStep
  <2>. QED BY <2>1, LedgerPosts DEF Ledger!Post, Settles
<1>3. ledger = NewLedger => Ledger!Init
  BY DEF Ledger!Init, NewLedger
<1>. QED BY <1>1, <1>2, <1>3, Invariance, PTL DEF Spec, CoinLedgerSpec, Ledger!Spec

==============================================================================
