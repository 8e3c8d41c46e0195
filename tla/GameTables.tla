------------------------------ MODULE GameTables ------------------------------
(***************************************************************************)
(* A poker table: seats bought with coins, stacks, and the hand whose bets  *)
(* leave the stacks for a row that insures them.  GamesService seats, cashes *)
(* out, closes and voids; PokerService plays the hand in the memory of the  *)
(* one games process and commits it.  The rules of the hand are left open:  *)
(* any player may bet, fold or win, as long as the pot is paid out whole.   *)
(***************************************************************************)
EXTENDS Coins

CONSTANTS
  None,
  SeatIds,      \* ids of game_seats rows
  Hands,        \* ids of game_hands rows
  MaxSeats,     \* seats of the table
  BuyIns,       \* what a player may sit down with
  Bets,         \* chips a step of a hand puts in
  Faults,       \* <<step, outcome>> pairs that may happen
  MaxFaults     \* bound: how many of them

ASSUME GameTablesAssumption ==
  /\ None \notin Users \cup SeatIds \cup Hands
  /\ MaxSeats \in Nat \ {0} /\ BuyIns \subseteq Nat \ {0} /\ Bets \subseteq Nat \ {0}
  /\ MaxFaults \in Nat /\ IsFiniteSet(Hands)

VARIABLES
  status,    \* game_tables.status
  seat,      \* game_seats: [Users -> [id, index, stack]], id None for no row
  hand,      \* game_hands: [Hands -> [status, put]]
  ledger,    \* balances and coin journal
  join,      \* join() in progress: what its transaction has read
  closing,   \* close() has found the table open
  mem,       \* the hand in memory: [hand, put, players, folded]
  leaving,   \* who holds the queue of the table to leave it, None for nobody
  process,   \* [mode, todo]: up, down or booting, hands left to void
  faults

tableVars == <<status, seat, hand, ledger>>
vars == <<tableVars, join, closing, mem, leaving, process, faults>>

NoSeat == [id |-> None, index |-> 0, stack |-> 0]
Nothing == [u \in Users |-> 0]
NoHand == [hand |-> None, put |-> Nothing, players |-> {}, folded |-> {}]
NoJoin == [pc |-> "none", index |-> 0, buyIn |-> 0]

Init ==
  /\ status = "open"
  /\ seat = [u \in Users |-> NoSeat]
  /\ hand = [h \in Hands |-> [status |-> "NONE", put |-> Nothing]]
  /\ ledger = NewLedger
  /\ join = [u \in Users |-> NoJoin]
  /\ closing = FALSE
  /\ mem = NoHand
  /\ leaving = None
  /\ process = [mode |-> "up", todo |-> {}]
  /\ faults = 0

-----------------------------------------------------------------------------
Up == process.mode = "up"
Seated == {u \in Users : seat[u].id # None}
Taken == {seat[u].index : u \in Seated}
Live == mem.hand # None
Outcomes(step) ==
  {"ok"} \cup {o \in {"fail", "lost"} : <<step, o>> \in Faults /\ faults < MaxFaults}
Count(o) == faults' = IF o = "ok" THEN faults ELSE faults + 1

(* join(): the table and its seats are read, the first free number taken.  *)
JoinRead(u, b) ==
  /\ Up /\ join[u].pc = "none"
  /\ status = "open" /\ u \notin Seated
  /\ \E i \in 0 .. MaxSeats - 1 :
       /\ i \notin Taken /\ \A k \in 0 .. i - 1 : k \in Taken
       /\ join' = [join EXCEPT ![u] = [pc |-> "read", index |-> i, buyIn |-> b]]
  /\ UNCHANGED <<tableVars, closing, mem, leaving, process, faults>>

(* The rest of the transaction: the unique keys of the seat, the charge.   *)
JoinCommit(u) ==
  LET j == join[u]
      seatable == u \notin Seated /\ j.index \notin Taken
  IN  /\ Up /\ j.pc = "read"
      /\ \E id \in SeatIds :
           /\ \A r \in ledger.rows : r.ref # id
           /\ IF seatable /\ CanCharge(ledger, u, j.buyIn, "GAME_BUYIN", id)
              THEN /\ seat' = [seat EXCEPT ![u] =
                                 [id |-> id, index |-> j.index, stack |-> j.buyIn]]
                   /\ ledger' = Charge(ledger, u, j.buyIn, "GAME_BUYIN", id)
              ELSE UNCHANGED <<seat, ledger>>
      /\ join' = [join EXCEPT ![u] = NoJoin]
      /\ UNCHANGED <<status, hand, closing, mem, leaving, process, faults>>

(* close(): a read, then an update on condition that there are no seats.   *)
CloseRead ==
  /\ Up /\ ~ closing /\ status = "open"
  /\ closing' = TRUE
  /\ UNCHANGED <<tableVars, join, mem, leaving, process, faults>>

CloseCommit ==
  /\ Up /\ closing
  /\ status' = IF Seated = {} THEN "closed" ELSE status
  /\ closing' = FALSE
  /\ UNCHANGED <<seat, hand, ledger, join, mem, leaving, process, faults>>

-----------------------------------------------------------------------------
(* The hand: one operation of the queue is one step.                       *)

Queue == Up /\ leaving = None

Pot(put) == SumFunction(put)

(* What a hand pays: nothing yet, or its pot to one of those still in it.  *)
PotTo(put, w) == [u \in Users |-> IF u = w THEN Pot(put) ELSE 0]
Ends(put, playing) ==
  {PotTo(put, w) : w \in playing} \cup (IF Cardinality(playing) > 1 THEN {Nothing} ELSE {})
(* The row of the hand; the mutant writes the puts from before the step.   *)
WrittenBefore(put, payouts) ==
  [status |-> IF payouts = Nothing THEN "OPEN" ELSE "DONE", put |-> mem.put]
Written(put, payouts) == [status |-> IF payouts = Nothing THEN "OPEN" ELSE "DONE", put |-> put]

(* tryStart(): who is seated with chips is dealt in and blinds go in, which *)
(* may be all there is to bet.                                             *)
StartHand(h, blinds) ==
  LET players == {u \in Seated : seat[u].stack > 0}
      post == [u \in Users |-> IF u \in blinds THEN 1 ELSE 0]
  IN  /\ Queue /\ ~ Live /\ status = "open"
      /\ Cardinality(players) >= 2 /\ blinds \subseteq players /\ blinds # {}
      /\ hand[h].status = "NONE"
      /\ \E payouts \in Ends(post, players), o \in Outcomes("start") :
           /\ IF o = "fail" THEN UNCHANGED <<seat, hand>>
              ELSE /\ hand' = [hand EXCEPT ![h] = Written(post, payouts)]
                   /\ seat' = [u \in Users |->
                                 [seat[u] EXCEPT !.stack = @ - post[u] + payouts[u]]]
           /\ mem' = IF o # "ok" \/ payouts # Nothing THEN mem
                     ELSE [hand |-> h, put |-> post, players |-> players, folded |-> {}]
           /\ Count(o)
      /\ UNCHANGED <<status, ledger, join, closing, leaving, process>>

(* commit(): the difference of the puts leaves the stacks, the puts go to   *)
(* the row, and a finished hand pays its pot: one transaction.              *)
Commit(put, folded, payouts, o) ==
  /\ IF o = "fail" THEN UNCHANGED <<seat, hand>>
     ELSE /\ seat' = [u \in Users |->
               [seat[u] EXCEPT !.stack = @ - (put[u] - mem.put[u]) + payouts[u]]]
          /\ hand' = [hand EXCEPT ![mem.hand] = Written(put, payouts)]
  /\ mem' = IF o # "ok" THEN mem
            ELSE IF payouts # Nothing THEN NoHand ELSE [mem EXCEPT !.put = put, !.folded = folded]
  /\ Count(o)

Playing == mem.players \ mem.folded

Act(u) ==
  /\ Queue /\ Live /\ u \in Playing
  /\ \E n \in Bets \cup {0}, out \in SUBSET {u} :
       LET put == [mem.put EXCEPT ![u] = @ + IF out = {} THEN n ELSE 0]
           folded == mem.folded \cup out
       IN  /\ n <= seat[u].stack
           /\ \E payouts \in Ends(put, mem.players \ folded), o \in Outcomes("commit") :
                Commit(put, folded, payouts, o)
  /\ UNCHANGED <<status, ledger, join, closing, leaving, process>>

-----------------------------------------------------------------------------
(* leave(): in the queue of the table, the fold and then the cash-out.     *)

(* onLeaving(): a player still in the hand folds; a failure ends leave().   *)
LeaveFold(u) ==
  /\ Queue /\ u \in Seated
  /\ IF Live /\ u \in Playing
     THEN \E payouts \in Ends(mem.put, Playing \ {u}), o \in Outcomes("commit") :
            /\ Commit(mem.put, mem.folded \cup {u}, payouts, o)
            /\ leaving' = IF o = "ok" THEN u ELSE None
     ELSE leaving' = u /\ UNCHANGED <<seat, hand, mem, faults>>
  /\ UNCHANGED <<status, ledger, join, closing, process>>

(* cashOut(): the deleted row is what is credited.                         *)
CashOut(u) ==
  /\ Up /\ leaving = u
  /\ \E o \in Outcomes("cashout") :
       /\ IF o = "fail" THEN UNCHANGED <<seat, ledger>>
          ELSE /\ CanCredit(ledger, u, seat[u].stack, "GAME_CASHOUT", seat[u].id)
               /\ ledger' = Credit(ledger, u, seat[u].stack, "GAME_CASHOUT", seat[u].id)
               /\ seat' = [seat EXCEPT ![u] = NoSeat]
       /\ Count(o)
  /\ leaving' = None
  /\ UNCHANGED <<status, hand, join, closing, mem, process>>

-----------------------------------------------------------------------------
(* The process dies; what it finds open when it starts is given back.      *)

Die ==
  /\ process.mode # "down" /\ <<"process", "fail">> \in Faults /\ faults < MaxFaults
  /\ mem' = NoHand /\ leaving' = None /\ closing' = FALSE
  /\ join' = [u \in Users |-> NoJoin]
  /\ process' = [mode |-> "down", todo |-> {}]
  /\ faults' = faults + 1
  /\ UNCHANGED tableVars

Interrupted == {h \in Hands : hand[h].status = "OPEN"}

BootRead ==
  /\ process.mode = "down"
  /\ process' = [mode |-> "boot", todo |-> Interrupted]
  /\ UNCHANGED <<tableVars, join, closing, mem, leaving, faults>>

(* voidHand(): to the seat, or in coins to who has left it, whom the mutant *)
(* forgets.                                                                 *)
GoneForgotten(h) == {}
Gone(h) == {u \in Users \ Seated : hand[h].put[u] > 0}

VoidHand == \E h \in process.todo, o \in Outcomes("boot") :
  /\ process.mode = "boot"
  /\ IF o # "fail" /\ hand[h].status = "OPEN"
     THEN /\ hand' = [hand EXCEPT ![h].status = "VOIDED"]
          /\ seat' = [u \in Users |-> IF u \in Seated
                        THEN [seat[u] EXCEPT !.stack = @ + hand[h].put[u]] ELSE seat[u]]
          /\ ledger' =
               [balance |-> [u \in Users |-> ledger.balance[u] +
                               (IF u \in Gone(h) THEN hand[h].put[u] ELSE 0)],
                rows |-> ledger.rows \cup {Row(u, "GAME_REFUND", h, hand[h].put[u]) : u \in Gone(h)}]
     ELSE UNCHANGED <<hand, seat, ledger>>
  /\ process' = [process EXCEPT !.todo = @ \ {h}]
  /\ Count(o)
  /\ UNCHANGED <<status, join, closing, mem, leaving>>

BootDone ==
  /\ process.mode = "boot" /\ process.todo = {}
  /\ process' = [process EXCEPT !.mode = "up"]
  /\ UNCHANGED <<tableVars, join, closing, mem, leaving, faults>>

-----------------------------------------------------------------------------
Next ==
  \/ \E u \in Users :
       \/ \E b \in BuyIns : JoinRead(u, b)
       \/ JoinCommit(u) \/ Act(u) \/ LeaveFold(u) \/ CashOut(u)
  \/ CloseRead \/ CloseCommit
  \/ \E h \in Hands, blinds \in SUBSET Users : StartHand(h, blinds)
  \/ Die \/ BootRead \/ VoidHand \/ BootDone

Spec == Init /\ [][Next]_vars

-----------------------------------------------------------------------------
Puts == [Users -> Nat]
SeatRows == [Users -> [id : SeatIds \cup {None}, index : 0 .. MaxSeats - 1, stack : Nat]]
HandRows == [Hands -> [status : {"NONE", "OPEN", "DONE", "VOIDED"}, put : Puts]]
TypeOK ==
  /\ status \in {"open", "closed"} /\ seat \in SeatRows /\ hand \in HandRows
  /\ ledger.balance \in [Users -> Nat]
  /\ join \in [Users -> [pc : {"none", "read"}, index : 0 .. MaxSeats - 1,
                         buyIn : BuyIns \cup {0}]]
  /\ closing \in BOOLEAN
  /\ mem \in [hand : Hands \cup {None}, put : Puts, players : SUBSET Users, folded : SUBSET Users]
  /\ leaving \in Users \cup {None}
  /\ process \in [mode : {"up", "down", "boot"}, todo : SUBSET Hands]
  /\ faults \in 0 .. MaxFaults

Staked(u) == [h \in Hands |-> IF hand[h].status = "OPEN" THEN hand[h].put[u] ELSE 0]

(* Coins become chips and chips become coins, and none are made or lost: on *)
(* balances, on the stacks of who is seated and in open hands there is what   *)
(* everybody began with.                                                     *)
Stack(u) == IF u \in Seated THEN seat[u].stack ELSE 0
ChipsConserved ==
  SumFunction([u \in Users |-> ledger.balance[u] + Stack(u) + SumFunction(Staked(u))])
    = Cardinality(Users) * StartingCoins

(* The row insures exactly what the hand in memory has taken in, and no     *)
(* chips are out of play: an open row is the hand being played.             *)
RowInsuresMemory ==
  Up => /\ Live => hand[mem.hand].status = "OPEN" /\ hand[mem.hand].put = mem.put
        /\ \A h \in Hands : hand[h].status = "OPEN" => mem.hand = h

(* A closed table has nobody's money on it (the comment of close()).        *)
ClosedIsEmpty == status = "closed" => Seated = {}

(* Every step that moves coins posts to the ledger of the economy.         *)
Ledger == INSTANCE CoinLedger WITH coins <- ledger.balance, journal <- ledger.rows
CoinLedgerSpec == Ledger!Spec
==============================================================================
