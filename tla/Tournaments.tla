------------------------------ MODULE Tournaments ------------------------------
(***************************************************************************)
(* A trading tournament from its lobby to its prizes.  Entry fees and the   *)
(* top-up of the creator are charged as people come, refunded as they go,   *)
(* and paid out as prizes once.  An operation on the lobby is a transaction *)
(* that first locks the row of the tournament: it reads when it gets the    *)
(* lock and writes when it commits.  The early end and the final take no    *)
(* lock, only a condition on the status in the UPDATE.                      *)
(***************************************************************************)
EXTENDS BattlePass, Functions

CONSTANTS
  None,
  Runner,     \* the job that starts and finishes tournaments
  Offers,     \* what the form of a new tournament may say
  Hosts,      \* who opens tournaments
  Owners,     \* owners of the service
  Balances,   \* results of trading, over the starting deposit
  Xp, XpPerOpponent, \* experience for a tournament
  Duration,   \* from the start to the end
  Grace,      \* FINAL_GRACE_MS
  LastCall,   \* bound: people act up to this time
  MaxTime,    \* bound: last value of the clock
  MaxFailures \* bound: transactions and ticks that fail

(* shares: percents by place, never more for a lower one; size: places of a *)
(* team; lead: time to the start, if the tournament has one.               *)
SumSeq(s) == SumFunction(s)

ValidShares(shares) ==
  /\ shares \in Seq(1 .. 100) /\ shares # << >>
  /\ SumSeq(shares) = 100
  /\ \A i, j \in DOMAIN shares : i <= j => shares[j] <= shares[i]

IsOffer(o) ==
  /\ o.fee \in Nat /\ o.bonus \in Nat /\ o.max \in Nat \ {0} /\ o.size \in Nat
  /\ o.teams \in BOOLEAN /\ o.scheduled \in BOOLEAN /\ o.lead \in Nat
  /\ ValidShares(o.shares)
  /\ o.teams => o.size > 0 /\ o.max = 2 * o.size

ASSUME TournamentsAssumption ==
  /\ {None, Runner} \cap Users = {} /\ None # Runner
  /\ \A o \in Offers : IsOffer(o)
  /\ Hosts \subseteq Users /\ Owners \subseteq Users /\ Balances \subseteq Nat
  /\ Xp \in Nat /\ XpPerOpponent \in Nat /\ "game.tournament" \in Sources
  /\ Duration \in Nat /\ Grace \in Nat /\ LastCall \in Nat
  /\ MaxTime \in Nat /\ MaxFailures \in Nat

VARIABLES
  now,
  row,      \* the tournament: status, offer, creator, startsAt, endsAt
  member,   \* [Users -> row of TournamentParticipant]
  session,  \* [Users -> the trading session of the tournament]
  ledger,   \* balances and coin journal
  pass,     \* experience
  lock,     \* who holds the row FOR UPDATE
  tx,       \* [Users \cup {Runner} -> transaction in progress]
  runner,   \* the tick: where it is, and the places and prizes it has counted
  failures

vars == <<now, row, member, session, ledger, pass, lock, tx, runner, failures>>
world == <<now, pass, runner, failures>>

Callers == Users \cup {Runner}
Teams == {0, 1}

NoRow == [status |-> "none", offer |-> None, creator |-> None, startsAt |-> 0, endsAt |-> 0]
NotIn == [in |-> FALSE, at |-> 0, ready |-> FALSE, team |-> None, place |-> 0, prize |-> 0]
NoSession == [status |-> "none", balance |-> 0]
NoTx == [op |-> "none", arg |-> None, row |-> NoRow, member |-> [u \in Users |-> NotIn]]
Resting == [pc |-> "idle"]

Init ==
  /\ now = 0
  /\ row = NoRow
  /\ member = [u \in Users |-> NotIn]
  /\ session = [u \in Users |-> NoSession]
  /\ ledger = NewLedger
  /\ pass = NewPass
  /\ lock = None
  /\ tx = [c \in Callers |-> NoTx]
  /\ runner = Resting
  /\ failures = 0

-----------------------------------------------------------------------------
(* Keys of the journal.  A fee is keyed by the time of joining: leaving and *)
(* joining again is another participation.  In a mutant the refund of the   *)
(* top-up has no key of its own.                                            *)
FeeRef(at) == <<"fee", at>>
TournamentRef == <<"tournament", 0>>
BonusUnderFeeKey == FeeRef(0)
BonusRef == <<"bonus", 0>>

Refund(L, u, n, ref) == Credit(L, u, n, "TOURNAMENT_REFUND", ref)
CanRefund(L, u, n, ref) == CanCredit(L, u, n, "TOURNAMENT_REFUND", ref)

In(m) == {u \in Users : m[u].in}
InTeam(m, k) == {u \in In(m) : m[u].team = k}
BothTeams(m) == \A k \in Teams : InTeam(m, k) # {}

Joined(team) == [NotIn EXCEPT !.in = TRUE, !.at = now, !.team = team]

(* create(): the row, the creator's place, the fee and the top-up.         *)
Create(u, o) ==
  LET paid == Charge(ledger, u, o.fee, "TOURNAMENT_FEE", FeeRef(now))
  IN  /\ row.status = "none" /\ now <= LastCall
      /\ o.teams \/ Len(o.shares) < o.max
      /\ CanCharge(ledger, u, o.fee, "TOURNAMENT_FEE", FeeRef(now))
      /\ CanCharge(paid, u, o.bonus, "TOURNAMENT_BONUS", TournamentRef)
      /\ row' = [NoRow EXCEPT !.status = "lobby", !.offer = o, !.creator = u,
                              !.startsAt = now + o.lead]
      /\ member' = [member EXCEPT ![u] = Joined(IF o.teams THEN 0 ELSE None)]
      /\ ledger' = Charge(paid, u, o.bonus, "TOURNAMENT_BONUS", TournamentRef)
      /\ UNCHANGED <<session, lock, tx, world>>

(* A transaction gets the lock and reads.  The mutant does not wait.       *)
NoLock(c) == TRUE
Unlocked(c) == lock = None

Read(op, arg) == [op |-> op, arg |-> arg, row |-> row, member |-> member]

(* It ends: by commit, refusal or failure.                                 *)
End(c) ==
  /\ tx' = [tx EXCEPT ![c] = NoTx]
  /\ lock' = IF lock = c THEN None ELSE lock

Doing(c, op) == tx[c].op = op

(* launch(): the condition on the status, and a session for everybody who  *)
(* is in by then.                                                          *)
Launched(m) ==
  /\ row' = [row EXCEPT !.status = "running", !.endsAt = now + Duration]
  /\ session' = [u \in Users |-> IF m[u].in THEN [status |-> "active", balance |-> 0]
                                            ELSE session[u]]
NotLaunched == UNCHANGED <<row, session>>

(* launchIfReady(), on the composition the transaction leaves behind.  The  *)
(* mutant starts as soon as somebody is ready.                              *)
SomebodyReady(r, m) ==
  /\ ~ r.offer.scheduled
  /\ IF r.offer.teams THEN BothTeams(m)
     ELSE Cardinality(In(m)) > Len(r.offer.shares)
  /\ \E u \in In(m) : m[u].ready
EverybodyReady(r, m) ==
  /\ ~ r.offer.scheduled
  /\ IF r.offer.teams THEN BothTeams(m)
     ELSE Cardinality(In(m)) > Len(r.offer.shares)
  /\ \A u \in In(m) : m[u].ready

LaunchIfReady(r, seen, written) ==
  IF EverybodyReady(r, seen) /\ row.status = "lobby" THEN Launched(written) ELSE NotLaunched

-----------------------------------------------------------------------------
(* Operations on the lobby.  s is what the transaction read.               *)

Open(s) == s.row.status = "lobby"

HasRoom(s, team) ==
  /\ Cardinality(In(s.member)) < s.row.offer.max
  /\ s.row.offer.teams =>
       team \in Teams /\ Cardinality(InTeam(s.member, team)) < s.row.offer.size

CanJoin(s, u) ==
  /\ Open(s) /\ ~ s.member[u].in /\ HasRoom(s, s.arg)
  /\ CanCharge(ledger, u, s.row.offer.fee, "TOURNAMENT_FEE", FeeRef(now))

Join(u) ==
  LET s == tx[u]
  IN  /\ Doing(u, "join") /\ CanJoin(s, u)
      /\ member' = [member EXCEPT ![u] = Joined(IF s.row.offer.teams THEN s.arg ELSE None)]
      /\ ledger' = Charge(ledger, u, s.row.offer.fee, "TOURNAMENT_FEE", FeeRef(now))
      /\ End(u)
      /\ UNCHANGED <<row, session, world>>

CanMove(s, c) ==
  LET u == s.arg.user
  IN  /\ Open(s) /\ s.row.creator = c /\ s.row.offer.teams
      /\ s.member[u].in /\ s.member[u].team # s.arg.team
      /\ Cardinality(InTeam(s.member, s.arg.team)) < s.row.offer.size

MoveTeam(c) ==
  LET s == tx[c]
  IN  /\ Doing(c, "move") /\ CanMove(s, c)
      /\ member' = [member EXCEPT ![s.arg.user].team = s.arg.team]
      /\ End(c)
      /\ UNCHANGED <<row, session, ledger, world>>

CanLeave(s, u) ==
  /\ Open(s) /\ s.row.creator # u /\ s.member[u].in
  /\ CanRefund(ledger, u, s.row.offer.fee, FeeRef(s.member[u].at))

Leave(u) ==
  LET s == tx[u]
      left == [s.member EXCEPT ![u] = NotIn]
  IN  /\ Doing(u, "leave") /\ CanLeave(s, u)
      /\ member' = [member EXCEPT ![u] = NotIn]
      /\ ledger' = Refund(ledger, u, s.row.offer.fee, FeeRef(s.member[u].at))
      /\ LaunchIfReady(s.row, left, member')
      /\ End(u)
      /\ UNCHANGED world

CanSetReady(s, u) == Open(s) /\ ~ s.row.offer.scheduled /\ s.member[u].in

SetReady(u) ==
  LET s == tx[u]
      set == [s.member EXCEPT ![u].ready = s.arg]
  IN  /\ Doing(u, "ready") /\ CanSetReady(s, u)
      /\ member' = [member EXCEPT ![u].ready = s.arg]
      /\ LaunchIfReady(s.row, set, member')
      /\ End(u)
      /\ UNCHANGED <<ledger, world>>

(* refundLobby(): the fees under the keys of the participations, the top-up *)
(* to the creator under a key of its own.  In the mutant it is forgotten.    *)
RefundFees(L, s) ==
  [balance |-> [u \in Users |-> L.balance[u] + IF s.member[u].in THEN s.row.offer.fee ELSE 0],
   rows |-> L.rows \cup (IF s.row.offer.fee = 0 THEN {} ELSE
     {Row(u, "TOURNAMENT_REFUND", FeeRef(s.member[u].at), s.row.offer.fee) : u \in In(s.member)})]
RefundFeesOnly(L, s) == RefundFees(L, s)
RefundLobby(L, s) ==
  Refund(RefundFees(L, s), s.row.creator, s.row.offer.bonus, BonusRef)
CanRefundLobby(L, s) ==
  /\ \A u \in In(s.member) : CanRefund(L, u, s.row.offer.fee, FeeRef(s.member[u].at))
  /\ CanRefund(RefundFees(L, s), s.row.creator, s.row.offer.bonus, BonusRef)

(* remove(): coins move only out of a lobby.  The mutant refunds whatever   *)
(* the status.                                                              *)
RefundAlways(s) == TRUE
RefundsOnRemove(s) == Open(s)
CanRemove(s, c) ==
  /\ s.row.creator = c /\ s.row.status # "running"
  /\ RefundsOnRemove(s) => CanRefundLobby(ledger, s)

RemoveLobby(c) ==
  LET s == tx[c]
  IN  /\ Doing(c, "remove") /\ CanRemove(s, c)
      /\ row' = [row EXCEPT !.status = "removed"]
      /\ member' = [u \in Users |-> NotIn]
      /\ session' = [u \in Users |-> NoSession]
      /\ ledger' = IF RefundsOnRemove(s) THEN RefundLobby(ledger, s) ELSE ledger
      /\ End(c)
      /\ UNCHANGED world

(* A request reads under the lock; one that is refused on what it reads     *)
(* writes nothing and is left out.                                         *)
Begin(u, s, allowed) ==
  /\ tx[u].op = "none" /\ Unlocked(u) /\ allowed
  /\ lock' = u /\ tx' = [tx EXCEPT ![u] = s]
  /\ UNCHANGED <<row, member, session, ledger, world>>

Request(u) ==
  /\ now <= LastCall /\ row.status \notin {"none", "removed"}
  /\ \/ \E k \in IF row.offer.teams THEN Teams ELSE {None} :
          LET s == Read("join", k) IN Begin(u, s, CanJoin(s, u))
     \/ \E v \in Users, k \in Teams :
          LET s == Read("move", [user |-> v, team |-> k]) IN Begin(u, s, CanMove(s, u))
     \/ \E b \in BOOLEAN : LET s == Read("ready", b) IN Begin(u, s, CanSetReady(s, u))
     \/ LET s == Read("leave", None) IN Begin(u, s, CanLeave(s, u))
     \/ LET s == Read("remove", None) IN Begin(u, s, CanRemove(s, u))

(* The transaction throws: nothing of it stays.                            *)
Abort(u) ==
  /\ tx[u].op # "none"
  /\ End(u)
  /\ UNCHANGED <<row, member, session, ledger, world>>

Commit(u) == Join(u) \/ MoveTeam(u) \/ Leave(u) \/ SetReady(u) \/ RemoveLobby(u) \/ Abort(u)

(* finishEarly(): the end becomes now, on the condition that it still runs; *)
(* whose tournament it is does not change after the read.                   *)
FinishEarly(u) ==
  /\ u = row.creator \/ u \in Owners
  /\ row.status = "running" /\ now <= LastCall
  /\ row' = [row EXCEPT !.endsAt = now]
  /\ UNCHANGED <<member, session, ledger, lock, tx, world>>

(* Orders of a player and of the engine change the balance of an active    *)
(* session; one let in before the end may commit after it.  Of the changes  *)
(* only those after the end are shown: the earlier ones are forgotten.      *)
Trade(u, b) ==
  /\ session[u].status = "active" /\ now >= row.endsAt
  /\ session' = [session EXCEPT ![u].balance = b]
  /\ UNCHANGED <<row, member, ledger, lock, tx, world>>

(* The clock is coarse: a transaction takes no time of it, and it waits for *)
(* a start that is more than a tick late, so that MaxTime is far enough.    *)
Tick ==
  /\ now < MaxTime /\ lock = None
  /\ row.status = "lobby" /\ row.offer.scheduled => now <= row.startsAt
  /\ now' = now + 1
  /\ UNCHANGED <<row, member, session, ledger, pass, lock, tx, runner, failures>>

-----------------------------------------------------------------------------
(* A tick of the runner: what is due to start, what is due to finish.  A    *)
(* tick that finds nothing changes nothing.                                *)

At(pc) == runner.pc = pc
Goto(pc) == runner' = [pc |-> pc]
outside == <<now, failures>>

Due == row.status = "lobby" /\ row.offer.scheduled /\ row.startsAt <= now
DueForFinal == row.status = "running" /\ row.endsAt + Grace <= now

StartDue ==
  /\ At("idle") /\ Due
  /\ Goto("start")
  /\ UNCHANGED <<row, member, session, ledger, pass, lock, tx, outside>>

LockToStart ==
  /\ At("start") /\ Unlocked(Runner)
  /\ lock' = Runner
  /\ tx' = [tx EXCEPT ![Runner] = Read("start", now)]
  /\ Goto("starting")
  /\ UNCHANGED <<row, member, session, ledger, pass, outside>>

(* startScheduled(): two are enough, or one in each team; else the lobby   *)
(* is canceled and its money returned.                                     *)
Enough(s) == IF s.row.offer.teams THEN BothTeams(s.member)
             ELSE Cardinality(In(s.member)) >= 2
StillDue(s) == Open(s) /\ s.row.offer.scheduled /\ s.row.startsAt <= s.arg

StartScheduled ==
  LET s == tx[Runner]
  IN  /\ At("starting") /\ StillDue(s) /\ Enough(s)
      /\ IF row.status = "lobby" THEN Launched(member) ELSE NotLaunched
      /\ End(Runner) /\ Goto("idle")
      /\ UNCHANGED <<member, ledger, pass, outside>>

CancelScheduled ==
  LET s == tx[Runner]
  IN  /\ At("starting") /\ StillDue(s) /\ ~ Enough(s) /\ CanRefundLobby(ledger, s)
      /\ row' = [row EXCEPT !.status = "cancelled"]
      /\ ledger' = RefundLobby(ledger, s)
      /\ End(Runner) /\ Goto("idle")
      /\ UNCHANGED <<member, session, pass, outside>>

NothingToStart ==
  LET s == tx[Runner]
  IN  /\ At("starting")
      /\ ~ StillDue(s) \/ (~ Enough(s) /\ ~ CanRefundLobby(ledger, s))
      /\ End(Runner) /\ Goto("idle")
      /\ UNCHANGED <<row, member, session, ledger, pass, outside>>

FinishDue ==
  /\ At("idle") /\ DueForFinal
  /\ Goto("closing")
  /\ UNCHANGED <<row, member, session, ledger, pass, lock, tx, outside>>

(* finishTournamentSession(): what is open is closed at the final price,    *)
(* one session after another.  The mutant finalizes without it.             *)
NothingToClose == {}
ToClose == {u \in Users : session[u].status = "active"}

CloseSession(b) ==
  /\ At("closing") /\ ToClose # {}
  /\ LET u == CHOOSE v \in ToClose : TRUE
     IN  session' = [session EXCEPT ![u] = [status |-> "finished", balance |-> b]]
  /\ UNCHANGED <<row, member, ledger, pass, lock, tx, runner, outside>>

(* rankParticipants(): by result, then by the time of joining; equal times  *)
(* come in the order the rows were read.                                   *)
Better(m, ss, u, v) ==
  \/ ss[u].balance > ss[v].balance
  \/ ss[u].balance = ss[v].balance /\ m[u].at < m[v].at
Rankings(m, ss) ==
  {p \in [In(m) -> 1 .. Cardinality(In(m))] :
     \A u, v \in In(m) : /\ p[u] = p[v] => u = v
                         /\ Better(m, ss, u, v) => p[u] < p[v]}

PrizePool(o, n) == o.fee * n + o.bonus

(* payouts(): shares rounded down, the rest to the first place.            *)
Payouts(pool, shares) ==
  LET raw == [i \in DOMAIN shares |-> (pool * shares[i]) \div 100]
  IN  [raw EXCEPT ![1] = @ + pool - SumSeq(raw)]

ArenaPrizes(o, m, rank) ==
  LET n == Cardinality(In(m))
      filled == IF n < Len(o.shares) THEN n ELSE Len(o.shares)
      prizes == Payouts(PrizePool(o, n), SubSeq(o.shares, 1, filled))
  IN  [u \in In(m) |-> IF rank[u] <= Len(o.shares) THEN prizes[rank[u]] ELSE 0]

(* teamOutcome(): the better average, compared without dividing; equal     *)
(* averages go to the team of the best player.                             *)
TeamSum(m, ss, k) == SumFunction([u \in InTeam(m, k) |-> ss[u].balance])
Winner(m, ss, rank) ==
  LET a == TeamSum(m, ss, 0) * Cardinality(InTeam(m, 1))
      b == TeamSum(m, ss, 1) * Cardinality(InTeam(m, 0))
  IN  IF a > b THEN 0 ELSE IF b > a THEN 1
      ELSE m[CHOOSE u \in In(m) : rank[u] = 1].team

(* teamPrizes(): the pool in equal parts, the rest to the best of them.    *)
TeamPrizes(o, m, rank, winner) ==
  LET won   == InTeam(m, winner)
      pool  == PrizePool(o, Cardinality(In(m)))
      share == pool \div Cardinality(won)
      first == CHOOSE u \in won : \A v \in won : rank[u] <= rank[v]
  IN  [u \in In(m) |-> IF u \notin won THEN 0
                       ELSE IF u = first THEN pool - share * (Cardinality(won) - 1)
                       ELSE share]

Result(o, m, ss, rank) ==
  IF o.teams
  THEN LET w == Winner(m, ss, rank)
       IN  [place |-> [u \in In(m) |-> IF m[u].team = w THEN 1 ELSE 2],
            prize |-> TeamPrizes(o, m, rank, w)]
  ELSE [place |-> rank, prize |-> ArenaPrizes(o, m, rank)]

PrizeRows(prize) ==
  {Row(u, "TOURNAMENT_PRIZE", TournamentRef, prize[u]) : u \in {v \in DOMAIN prize : prize[v] > 0}}
PayPrizes(L, prize) ==
  [balance |-> [u \in Users |-> L.balance[u] + IF u \in DOMAIN prize THEN prize[u] ELSE 0],
   rows |-> L.rows \cup PrizeRows(prize)]

TournamentXp(size, place) == Xp + XpPerOpponent * (IF size > place THEN size - place ELSE 0)
AwardPlayers(P, o, place) ==
  LET size == IF o.teams THEN 2 ELSE Cardinality(DOMAIN place)
  IN  Award(P, [u \in DOMAIN place |-> TournamentXp(size, place[u])],
            "game.tournament", TournamentRef, now)

(* finalize() reads and counts outside its transaction.                    *)
FinalRead ==
  /\ At("closing") /\ ToClose = {}
  /\ \E rank \in Rankings(member, session) :
       LET result == Result(row.offer, member, session, rank)
       IN  runner' = [pc |-> "final", place |-> result.place, prize |-> result.prize]
  /\ UNCHANGED <<row, member, session, ledger, pass, lock, tx, outside>>

(* One transaction, conditional on the status: with one worker there is    *)
(* nobody else to have changed it.                                         *)
Finalize ==
  LET ranked == DOMAIN runner.place
  IN  /\ At("final") /\ row.status = "running"
      /\ member' = [u \in Users |-> IF u \in ranked
           THEN [member[u] EXCEPT !.place = runner.place[u], !.prize = runner.prize[u]]
           ELSE member[u]]
      /\ ledger' = PayPrizes(ledger, runner.prize)
      /\ pass' = AwardPlayers(pass, row.offer, runner.place)
      /\ row' = [row EXCEPT !.status = "finished"]
      /\ runner' = Resting
      /\ UNCHANGED <<session, lock, tx, outside>>

(* A price is missing, a statement throws, or the worker dies: the tick is  *)
(* over, the transaction in progress is rolled back.                        *)
RunnerFails ==
  /\ failures < MaxFailures /\ ~ At("idle")
  /\ failures' = failures + 1
  /\ runner' = Resting
  /\ End(Runner)
  /\ UNCHANGED <<now, row, member, session, ledger, pass>>

RunnerStep ==
  \/ StartDue \/ LockToStart \/ StartScheduled \/ CancelScheduled \/ NothingToStart
  \/ FinishDue \/ FinalRead \/ Finalize
  \/ \E b \in Balances : CloseSession(b)

-----------------------------------------------------------------------------
Next ==
  \/ \E u \in Hosts, o \in Offers : Create(u, o)
  \/ \E u \in Users : Request(u) \/ Commit(u) \/ FinishEarly(u)
  \/ \E u \in Users, b \in Balances : Trade(u, b)
  \/ RunnerStep \/ RunnerFails \/ Tick

Spec == Init /\ [][Next]_vars

(* The row lock is granted in the order it is asked for, so that requests   *)
(* which hold it again and again do not keep the runner out.               *)
Fairness ==
  /\ SF_vars(Tick) /\ SF_vars(RunnerStep)
  /\ WF_vars(\E u \in Users : Commit(u))
FairSpec == Spec /\ Fairness
-----------------------------------------------------------------------------
(* Properties.                                                             *)

Statuses == {"none", "lobby", "running", "finished", "cancelled", "removed"}
Members == [in : BOOLEAN, at : 0 .. MaxTime, ready : BOOLEAN,
            team : Teams \cup {None}, place : Nat, prize : Nat]

(* Every variable stays in its type, and a balance is never negative.      *)
TypeOK ==
  /\ now \in 0 .. MaxTime
  /\ row \in [status : Statuses, offer : Offers \cup {None}, creator : Users \cup {None},
             startsAt : Nat, endsAt : Nat]
  /\ row.status # "none" => row.offer \in Offers /\ row.creator \in Users
  /\ member \in [Users -> Members]
  /\ session \in [Users -> [status : {"none", "active", "finished"}, balance : Nat]]
  /\ ledger = [balance |-> ledger.balance, rows |-> ledger.rows]
  /\ ledger.balance \in [Users -> Nat] /\ IsFiniteSet(ledger.rows)
  /\ \A r \in ledger.rows : r.user \in Users /\ r.delta \in Int
  /\ lock \in Callers \cup {None}
  /\ DOMAIN tx = Callers
  /\ \A u \in Users :
       /\ Doing(u, "join") => tx[u].arg \in Teams \cup {None}
       /\ Doing(u, "move") => tx[u].arg \in [user : Users, team : Teams]
       /\ Doing(u, "ready") => tx[u].arg \in BOOLEAN
  /\ runner.pc \in {"idle", "start", "starting", "closing", "final"}
  /\ runner.pc = "final" => runner.place \in [In(member) -> Nat] /\ runner.prize \in [In(member) -> Nat]
  /\ failures \in 0 .. MaxFailures

(* What the tournament has taken from a user, less what it has given.      *)
SumOf(rows) == SumFunction([r \in rows |-> r.delta])
Net(u) == - SumOf({r \in ledger.rows : r.user = u})
Stake(u) == (IF member[u].in THEN row.offer.fee ELSE 0) +
            (IF u = row.creator THEN row.offer.bonus ELSE 0)

(* Coins and membership are one fact: who is in has paid the fee once, who  *)
(* left or was canceled has it back, and a finished tournament has given    *)
(* out its whole pool, to the coin ("взнос списан, а участника нет").       *)
CoinsFollowMembership ==
  CASE row.status \in {"lobby", "running"} -> \A u \in Users : Net(u) = Stake(u)
    [] row.status = "finished" ->
         /\ \A u \in Users : Net(u) = Stake(u) - member[u].prize
         /\ SumFunction([u \in Users |-> member[u].prize])
              = PrizePool(row.offer, Cardinality(In(member)))
    [] row.status = "cancelled" -> \A u \in Users : Net(u) = 0
    [] OTHER -> SumFunction([u \in Users |-> Net(u)]) = 0

(* Who is in a tournament that has started has a session, and nobody else; *)
(* places and teams are never oversold, however requests race for the last  *)
(* place (the comment of lock()).                                           *)
PlayersHaveSessions ==
  /\ row.status = "running" =>
       {u \in Users : session[u].status # "none"} = In(member)
  /\ row.status \in {"lobby", "running"} =>
       /\ Cardinality(In(member)) <= row.offer.max
       /\ row.offer.teams =>
            /\ \A u \in In(member) : member[u].team \in Teams
            /\ \A k \in Teams : Cardinality(InTeam(member, k)) <= row.offer.size

(* The places tell the results of the sessions as they are, not as they     *)
(* were read: nobody is placed below a worse result, or paid less for a     *)
(* better place.                                                            *)
PlacesAreDeserved ==
  row.status = "finished" =>
    \A u, v \in In(member) :
      /\ member[u].place < member[v].place => member[u].prize >= member[v].prize
      /\ ~ row.offer.teams /\ session[u].balance > session[v].balance =>
           member[u].place < member[v].place

(* A tournament without a time starts only when everybody in it is ready:  *)
(* nobody who has just joined is started behind their back.                *)
NobodyIsDragged ==
  [][row.status = "lobby" /\ row'.status = "running" /\ ~ row.offer.scheduled =>
       \A u \in In(member') : member'[u].ready]_vars

(* Results are final: places, prizes, sessions and the coins of the         *)
(* tournament do not change after the final, whatever fails or repeats.     *)
ResultsAreFinal ==
  [][row.status = "finished" =>
       /\ row'.status \in {"finished", "removed"}
       /\ ledger' = ledger /\ pass' = pass
       /\ row'.status = "finished" => member' = member /\ session' = session]_vars

(* A scheduled lobby does not hang past its time, and a tournament that     *)
(* runs is finished: both come to an end and give the money out.            *)
TournamentsResolve ==
  row.status = "running" \/ (row.status = "lobby" /\ row.offer.scheduled)
    ~> row.status \in {"finished", "cancelled", "removed"}

(* Every step that moves coins posts to the ledger of the economy.         *)
Ledger == INSTANCE CoinLedger WITH coins <- ledger.balance, journal <- ledger.rows
CoinLedgerSpec == Ledger!Spec

==============================================================================
