--------------------------- MODULE GameTablesProofs ----------------------------
(***************************************************************************)
(* Proofs about GameTables, for any number of players, seats and hands and  *)
(* any number of faults: the types, where the chips of a hand are, and that *)
(* no chip is made or lost.                                                *)
(***************************************************************************)
EXTENDS GameTables, SumTheorems

(* The faults the tables are proved against: an answer that is lost after   *)
(* the commit of a hand is not among them, and, for the row to be all there *)
(* is, neither is that of its start, nor a void that fails.                 *)
NoLostCommit == <<"commit", "lost">> \notin Faults
Survived == NoLostCommit /\ <<"start", "lost">> \notin Faults /\ <<"boot", "fail">> \notin Faults

-----------------------------------------------------------------------------
(* Lemmas on the pot and on what a hand pays.                              *)

(* The pot is a number of chips.                                           *)
LEMMA PotType ==
  ASSUME NEW put \in Puts
  PROVE  Pot(put) = SumFunctionOnSet(put, Users) /\ Pot(put) \in Nat
<1>1. DOMAIN put = Users /\ \A u \in Users : put[u] \in Nat
  BY DEF Puts
<1>2. Pot(put) = SumFunctionOnSet(put, Users)
  BY <1>1 DEF Pot, SumFunction
<1>. QED BY <1>1, <1>2, SumNat, UsersAssumption

(* What goes to one player is the whole pot.                               *)
LEMMA PotToOne ==
  ASSUME NEW put \in Puts, NEW w \in Users
  PROVE  /\ PotTo(put, w) \in Puts
         /\ SumFunctionOnSet(PotTo(put, w), Users) = Pot(put)
<1>. DEFINE f == PotTo(put, w)
<1>1. f \in Puts /\ f[w] = Pot(put) /\ \A u \in Users \ {w} : f[u] = Nothing[u]
  BY PotType DEF PotTo, Puts, Nothing
<1>2. \A u \in Users : f[u] \in Int /\ Nothing[u] \in Int /\ Nothing[u] = 0
  BY <1>1 DEF Puts, Nothing
<1>. HIDE DEF f
<1>3. SumFunctionOnSet(f, Users) = SumFunctionOnSet(Nothing, Users) + f[w] - Nothing[w]
  BY <1>1, <1>2, SumChange, UsersAssumption
<1>4. SumFunctionOnSet(Nothing, Users) = 0 * Cardinality(Users)
  BY <1>2, SumConst, UsersAssumption
<1>5. Cardinality(Users) \in Nat
  BY UsersAssumption, FS_CardinalityType
<1>6. SumFunctionOnSet(f, Users) = Pot(put)
  BY <1>1, <1>2, <1>3, <1>4, <1>5, PotType
<1>. QED BY <1>1, <1>6 DEF f

(* A hand pays nothing yet, or all that was put in, to those in it.        *)
LEMMA EndsPay ==
  ASSUME NEW put \in Puts, NEW playing \in SUBSET Users, NEW payouts \in Ends(put, playing)
  PROVE  /\ payouts \in Puts
         /\ \A u \in Users : payouts[u] # 0 => u \in playing
         /\ payouts # Nothing =>
              SumFunctionOnSet(payouts, Users) = SumFunctionOnSet(put, Users)
<1>1. CASE payouts = Nothing
  BY <1>1 DEF Nothing, Puts
<1>2. ASSUME NEW w \in playing, payouts = PotTo(put, w)
      PROVE  /\ payouts \in Puts
             /\ \A u \in Users : payouts[u] # 0 => u \in playing
             /\ SumFunctionOnSet(payouts, Users) = SumFunctionOnSet(put, Users)
  <2>1. w \in Users
    OBVIOUS
  <2>2. \A u \in Users : payouts[u] # 0 => u = w
    BY <1>2 DEF PotTo
  <2>. QED BY <1>2, <2>1, <2>2, PotToOne, PotType
<1>. QED BY <1>1, <1>2 DEF Ends

(* What a commit moves between the players, and that it sums to nothing.    *)
Shift(put, payouts) ==
  [u \in Users |-> payouts[u] - (IF payouts = Nothing THEN 0 ELSE put[u])]

LEMMA ShiftIsZero ==
  ASSUME NEW put \in Puts, NEW payouts \in Puts,
         payouts # Nothing => SumFunctionOnSet(payouts, Users) = SumFunctionOnSet(put, Users)
  PROVE  /\ Shift(put, payouts) \in [Users -> Int]
         /\ SumFunctionOnSet(Shift(put, payouts), Users) = 0
<1>. DEFINE f == Shift(put, payouts)
            Sum(e) == SumFunctionOnSet(e, Users)
<1>1. f \in [Users -> Int]
  BY DEF Shift, Puts
<1>2. \A u \in Users : payouts[u] \in Int /\ put[u] \in Int
  BY DEF Puts
<1>3. CASE payouts = Nothing
  <2>1. \A u \in Users : f[u] = 0
    BY <1>3 DEF Shift, Nothing
  <2>. HIDE DEF f
  <2>2. Sum(f) = 0 * Cardinality(Users) /\ Cardinality(Users) \in Nat
    BY <2>1, SumConst, UsersAssumption, FS_CardinalityType
  <2>3. Sum(f) = 0
    BY <2>2
  <2>. QED BY <1>1, <2>3 DEF f
<1>4. CASE payouts # Nothing
  <2>1. \A u \in Users : f[u] \in Int /\ payouts[u] = f[u] + put[u]
    BY <1>1, <1>2, <1>4 DEF Shift
  <2>. HIDE DEF f
  <2>2. Sum(payouts) = Sum(f) + Sum(put)
    BY <1>2, <2>1, SumPlus, UsersAssumption
  <2>3. Sum(f) \in Int /\ Sum(put) \in Int /\ Sum(payouts) = Sum(put)
    BY <1>2, <1>4, <2>1, SumType, UsersAssumption
  <2>. HIDE DEF Sum
  <2>4. Sum(f) = 0
    BY <2>2, <2>3
  <2>. QED BY <1>1, <2>4 DEF f, Sum
<1>. QED BY <1>3, <1>4

-----------------------------------------------------------------------------
(* Lemmas on what the open hands hold of a player.                         *)

Held(row, u) == IF row.status = "OPEN" THEN row.put[u] ELSE 0
StakedIn(rows, u) == [h \in Hands |-> Held(rows[h], u)]
StakeOf(rows, u) == SumFunctionOnSet(StakedIn(rows, u), Hands)

(* Staked(), the sum the property is about, for any value of the rows.     *)
LEMMA StakedIsStake ==
  ASSUME NEW u \in Users
  PROVE  /\ SumFunction(Staked(u)) = StakeOf(hand, u)
         /\ SumFunction(Staked(u))' = StakeOf(hand', u)
BY DEF Staked, StakeOf, StakedIn, Held, SumFunction

(* A stake is a number of chips.                                           *)
LEMMA StakeType ==
  ASSUME NEW rows \in HandRows, NEW u \in Users
  PROVE  StakeOf(rows, u) \in Nat
<1>1. \A h \in Hands : StakedIn(rows, u)[h] \in Nat
  BY DEF HandRows, Puts, StakedIn, Held
<1>. QED BY <1>1, SumNat, GameTablesAssumption DEF StakeOf

(* A change of one row changes the stake by what the row holds.            *)
LEMMA StakeChange ==
  ASSUME NEW rows \in HandRows, NEW new \in HandRows, NEW h \in Hands, NEW u \in Users,
         \A g \in Hands \ {h} : new[g] = rows[g]
  PROVE  StakeOf(new, u) = StakeOf(rows, u) + Held(new[h], u) - Held(rows[h], u)
<1>. DEFINE f == StakedIn(rows, u)
            g == StakedIn(new, u)
<1>1. \A x \in Hands : f[x] \in Int /\ g[x] \in Int
  BY DEF HandRows, Puts, StakedIn, Held
<1>2. \A x \in Hands \ {h} : g[x] = f[x]
  BY DEF StakedIn
<1>3. f[h] = Held(rows[h], u) /\ g[h] = Held(new[h], u)
  BY DEF StakedIn
<1>. HIDE DEF f, g
<1>4. SumFunctionOnSet(g, Hands) = SumFunctionOnSet(f, Hands) + g[h] - f[h]
  BY <1>1, <1>2, SumChange, GameTablesAssumption
<1>. QED BY <1>3, <1>4 DEF f, g, StakeOf

-----------------------------------------------------------------------------
(* The inductive invariant.                                                *)

(* What the row insures: the first half of RowInsuresMemory, which must     *)
(* hold for the chips to be right.                                         *)
Insured == Live => hand[mem.hand].status = "OPEN" /\ hand[mem.hand].put = mem.put

(* Who plays has a seat to be paid to, and does not stand up meanwhile.     *)
PlayersSit ==
  /\ Live => Playing \subseteq Seated \ {leaving}
  /\ leaving # None => leaving \in Seated

(* A process that is not up has no hand in memory.                         *)
DownHasNone == ~ Up => ~ Live /\ leaving = None

Wealth(u) == ledger.balance[u] + Stack(u) + SumFunction(Staked(u))

IInv == TypeOK /\ Insured /\ PlayersSit /\ DownHasNone /\ ChipsConserved

(* The types of what the invariant adds up.                                *)
LEMMA WealthFacts ==
  ASSUME TypeOK
  PROVE  \A u \in Users : /\ Stack(u) \in Nat /\ ledger.balance[u] \in Nat
                         /\ SumFunction(Staked(u)) = StakeOf(hand, u)
                         /\ StakeOf(hand, u) \in Nat
                         /\ Wealth(u) = ledger.balance[u] + Stack(u) + StakeOf(hand, u)
BY StakedIsStake, StakeType DEF TypeOK, SeatRows, Stack, Wealth

(* Chips that only move from one player to another are conserved.           *)
LEMMA Moved ==
  ASSUME TypeOK, TypeOK', ChipsConserved, NEW d \in [Users -> Int],
         SumFunctionOnSet(d, Users) = 0,
         \A u \in Users :
           ledger'.balance[u] + Stack(u)' + StakeOf(hand', u)
             = ledger.balance[u] + Stack(u) + StakeOf(hand, u) + d[u]
  PROVE  ChipsConserved'
<1>. DEFINE f == [u \in Users |-> Wealth(u)]
            g == [u \in Users |-> Wealth(u)']
<1>1. \A u \in Users : Wealth(u) \in Int /\ Wealth(u)' = Wealth(u) + d[u]
  <2>. SUFFICES ASSUME NEW u \in Users PROVE Wealth(u) \in Int /\ Wealth(u)' = Wealth(u) + d[u]
    OBVIOUS
  <2>1. Wealth(u) = ledger.balance[u] + Stack(u) + StakeOf(hand, u) /\ Wealth(u) \in Int
    BY WealthFacts
  <2>2. Wealth(u)' = ledger'.balance[u] + Stack(u)' + StakeOf(hand', u)
    BY StakedIsStake DEF Wealth
  <2>. QED BY <2>1, <2>2
<1>2. \A u \in Users : f[u] \in Int /\ d[u] \in Int /\ g[u] = f[u] + d[u]
  BY <1>1
<1>3. SumFunction(f) = Cardinality(Users) * StartingCoins
  BY DEF ChipsConserved, Wealth
<1>4. SumFunction(f) = SumFunctionOnSet(f, Users) /\ SumFunction(g) = SumFunctionOnSet(g, Users)
  BY DEF SumFunction
<1>5. ChipsConserved' <=> SumFunction(g) = Cardinality(Users) * StartingCoins
  BY DEF ChipsConserved, Wealth
<1>. HIDE DEF f, g
<1>6. SumFunctionOnSet(g, Users) = SumFunctionOnSet(f, Users) + SumFunctionOnSet(d, Users)
  BY <1>2, SumPlus, UsersAssumption
<1>7. SumFunctionOnSet(f, Users) \in Int
  BY <1>2, SumType, UsersAssumption
<1>. QED BY <1>3, <1>4, <1>5, <1>6, <1>7

-----------------------------------------------------------------------------
(* Types.                                                                  *)

(* The hand of a commit, with the chips its step puts in.                  *)
LEMMA CommitTypes ==
  ASSUME TypeOK, Live, NEW put \in Puts, NEW folded \in SUBSET Users, NEW payouts \in Puts,
         NEW o \in Outcomes("commit"), Commit(put, folded, payouts, o),
         \A u \in Users : put[u] - mem.put[u] <= seat[u].stack
  PROVE  /\ seat' \in SeatRows /\ hand' \in HandRows /\ faults' \in 0 .. MaxFaults
         /\ mem' \in [hand : Hands \cup {None}, put : Puts, players : SUBSET Users,
                     folded : SUBSET Users]
<1>1. seat \in SeatRows /\ hand \in HandRows /\ faults \in 0 .. MaxFaults /\ mem.hand \in Hands
      /\ mem \in [hand : Hands \cup {None}, put : Puts, players : SUBSET Users,
                 folded : SUBSET Users]
  BY DEF TypeOK, Live
<1>2. seat' \in SeatRows
  <2>1. CASE o = "fail"
    BY <1>1, <2>1 DEF Commit
  <2>2. CASE o # "fail"
    <3>1. \A u \in Users : seat[u].stack - (put[u] - mem.put[u]) + payouts[u] \in Nat
      BY <1>1 DEF SeatRows, Puts
    <3>2. seat' = [u \in Users |->
                     [seat[u] EXCEPT !.stack = @ - (put[u] - mem.put[u]) + payouts[u]]]
      BY <2>2 DEF Commit
    <3>. QED BY <1>1, <3>1, <3>2 DEF SeatRows
  <2>. QED BY <2>1, <2>2
<1>3. hand' \in HandRows
  BY <1>1 DEF Commit, Written, HandRows
<1>4. faults' \in 0 .. MaxFaults
  BY <1>1, GameTablesAssumption DEF Commit, Count, Outcomes
<1>5. mem' \in [hand : Hands \cup {None}, put : Puts, players : SUBSET Users,
                     folded : SUBSET Users]
  BY <1>1 DEF Commit, NoHand, Nothing, Puts
<1>. QED BY <1>2, <1>3, <1>4, <1>5

(* What Act(u) puts in and pays.                                           *)
LEMMA ActFacts ==
  ASSUME TypeOK, NEW u \in Users, Act(u)
  PROVE  /\ Queue /\ Live /\ u \in Playing
         /\ \E put \in Puts, folded \in SUBSET Users, payouts \in Puts,
               o \in Outcomes("commit") :
              /\ Commit(put, folded, payouts, o)
              /\ folded \in {mem.folded, mem.folded \cup {u}}
              /\ put[u] >= mem.put[u] /\ put[u] - mem.put[u] <= seat[u].stack
              /\ \A v \in Users \ {u} : put[v] = mem.put[v]
              /\ \A v \in Users : payouts[v] # 0 => v \in Playing
              /\ payouts # Nothing =>
                   SumFunctionOnSet(payouts, Users) = SumFunctionOnSet(put, Users)
<1>1. mem.put \in Puts /\ mem.folded \in SUBSET Users /\ mem.players \in SUBSET Users
      /\ seat[u].stack \in Nat
  BY DEF TypeOK, SeatRows
<1>2. PICK n \in Bets \cup {0}, out \in SUBSET {u} :
        LET put == [mem.put EXCEPT ![u] = @ + IF out = {} THEN n ELSE 0]
            folded == mem.folded \cup out
        IN  /\ n <= seat[u].stack
            /\ \E payouts \in Ends(put, mem.players \ folded), o \in Outcomes("commit") :
                 Commit(put, folded, payouts, o)
  BY DEF Act
<1>. DEFINE put == [mem.put EXCEPT ![u] = @ + IF out = {} THEN n ELSE 0]
            folded == mem.folded \cup out
<1>3. PICK payouts \in Ends(put, mem.players \ folded), o \in Outcomes("commit") :
        Commit(put, folded, payouts, o)
  BY <1>2
<1>4. n \in Nat /\ n <= seat[u].stack
  BY <1>2, GameTablesAssumption
<1>5. /\ put \in Puts /\ \A v \in Users \ {u} : put[v] = mem.put[v]
      /\ put[u] >= mem.put[u] /\ put[u] - mem.put[u] <= seat[u].stack
  BY <1>1, <1>4 DEF Puts
<1>6. folded \in SUBSET Users /\ folded \in {mem.folded, mem.folded \cup {u}}
  BY <1>1
<1>7. mem.players \ folded \in SUBSET Users /\ mem.players \ folded \subseteq Playing
  BY <1>1 DEF Playing
<1>. HIDE DEF put, folded
<1>8. /\ payouts \in Puts /\ \A v \in Users : payouts[v] # 0 => v \in Playing
      /\ payouts # Nothing => SumFunctionOnSet(payouts, Users) = SumFunctionOnSet(put, Users)
  BY <1>3, <1>5, <1>7, EndsPay
<1>9. Queue /\ Live /\ u \in Playing
  BY DEF Act
<1>. QED BY <1>3, <1>5, <1>6, <1>8, <1>9

(* The same for a fold on leaving.                                         *)
LEMMA FoldFacts ==
  ASSUME TypeOK, NEW u \in Users, LeaveFold(u), Live, u \in Playing
  PROVE  /\ Queue /\ u \in Seated
         /\ \E payouts \in Puts, o \in Outcomes("commit") :
              /\ Commit(mem.put, mem.folded \cup {u}, payouts, o)
              /\ leaving' = IF o = "ok" THEN u ELSE None
              /\ \A v \in Users : payouts[v] # 0 => v \in Playing
              /\ payouts # Nothing =>
                   SumFunctionOnSet(payouts, Users) = SumFunctionOnSet(mem.put, Users)
<1>1. mem.put \in Puts /\ Playing \ {u} \in SUBSET Users
  BY DEF TypeOK, Playing
<1>2. PICK payouts \in Ends(mem.put, Playing \ {u}), o \in Outcomes("commit") :
        /\ Commit(mem.put, mem.folded \cup {u}, payouts, o)
        /\ leaving' = IF o = "ok" THEN u ELSE None
  BY DEF LeaveFold
<1>3. /\ payouts \in Puts /\ \A v \in Users : payouts[v] # 0 => v \in Playing
      /\ payouts # Nothing => SumFunctionOnSet(payouts, Users) = SumFunctionOnSet(mem.put, Users)
  BY <1>1, EndsPay
<1>. QED BY <1>2, <1>3 DEF LeaveFold

(* The blinds and what a hand that starts pays.                            *)
LEMMA StartFacts ==
  ASSUME TypeOK, NEW h \in Hands, NEW blinds \in SUBSET Users, StartHand(h, blinds)
  PROVE  /\ Queue /\ ~ Live /\ hand[h].status = "NONE"
         /\ \E post \in Puts, payouts \in Puts, o \in Outcomes("start"), players \in SUBSET Seated :
              /\ \A u \in Users : post[u] <= seat[u].stack
              /\ \A u \in Users : payouts[u] # 0 \/ post[u] # 0 => u \in players
              /\ payouts # Nothing =>
                   SumFunctionOnSet(payouts, Users) = SumFunctionOnSet(post, Users)
              /\ IF o = "fail" THEN UNCHANGED <<seat, hand>>
                 ELSE /\ hand' = [hand EXCEPT ![h] = Written(post, payouts)]
                      /\ seat' = [u \in Users |->
                                    [seat[u] EXCEPT !.stack = @ - post[u] + payouts[u]]]
              /\ mem' = IF o # "ok" \/ payouts # Nothing THEN mem
                        ELSE [hand |-> h, put |-> post, players |-> players, folded |-> {}]
              /\ Count(o)
<1>. DEFINE players == {u \in Seated : seat[u].stack > 0}
            post == [u \in Users |-> IF u \in blinds THEN 1 ELSE 0]
<1>1. PICK payouts \in Ends(post, players), o \in Outcomes("start") :
        /\ IF o = "fail" THEN UNCHANGED <<seat, hand>>
           ELSE /\ hand' = [hand EXCEPT ![h] = Written(post, payouts)]
                /\ seat' = [u \in Users |->
                              [seat[u] EXCEPT !.stack = @ - post[u] + payouts[u]]]
        /\ mem' = IF o # "ok" \/ payouts # Nothing THEN mem
                  ELSE [hand |-> h, put |-> post, players |-> players, folded |-> {}]
        /\ Count(o)
  BY DEF StartHand
<1>2. post \in Puts
  BY DEF Puts
<1>3. blinds \subseteq players
  BY DEF StartHand
<1>4. \A u \in Users : post[u] <= seat[u].stack
  BY <1>3 DEF TypeOK, SeatRows
<1>5. players \in SUBSET Users /\ players \in SUBSET Seated
  BY DEF Seated
<1>6. \A u \in Users : post[u] # 0 => u \in players
  BY <1>3
<1>. HIDE DEF post, players
<1>7. /\ payouts \in Puts /\ \A u \in Users : payouts[u] # 0 => u \in players
      /\ payouts # Nothing => SumFunctionOnSet(payouts, Users) = SumFunctionOnSet(post, Users)
  BY <1>2, <1>5, EndsPay
<1>8. Queue /\ ~ Live /\ hand[h].status = "NONE"
  BY DEF StartHand
<1>. QED BY <1>1, <1>2, <1>4, <1>5, <1>6, <1>7, <1>8

(* What a movement of coins does to the balances.                          *)
LEMMA CreditBalance ==
  ASSUME NEW L, L.balance \in [Users -> Nat], NEW u \in Users, NEW n \in Nat, NEW kind, NEW ref
  PROVE  Credit(L, u, n, kind, ref).balance = [L.balance EXCEPT ![u] = @ + n]
BY DEF Credit, Move

LEMMA ChargeBalance ==
  ASSUME NEW L, L.balance \in [Users -> Nat], NEW u \in Users, NEW n \in Nat, NEW kind, NEW ref,
         CanCharge(L, u, n, kind, ref)
  PROVE  /\ Charge(L, u, n, kind, ref).balance = [L.balance EXCEPT ![u] = @ - n]
         /\ L.balance[u] - n \in Nat
BY DEF CanCharge, Charge, Move

(* What a void gives back, and to whom.                                    *)
LEMMA VoidFacts ==
  ASSUME VoidHand
  PROVE  \E h \in process.todo, o \in Outcomes("boot") :
           /\ process.mode = "boot"
           /\ IF o # "fail" /\ hand[h].status = "OPEN"
              THEN /\ hand' = [hand EXCEPT ![h].status = "VOIDED"]
                   /\ seat' = [u \in Users |-> IF u \in Seated
                         THEN [seat[u] EXCEPT !.stack = @ + hand[h].put[u]] ELSE seat[u]]
                   /\ ledger'.balance = [u \in Users |-> ledger.balance[u] +
                         (IF u \in Gone(h) THEN hand[h].put[u] ELSE 0)]
              ELSE UNCHANGED <<hand, seat, ledger>>
           /\ process' = [process EXCEPT !.todo = @ \ {h}]
           /\ Count(o)
<1>1. PICK h \in process.todo, o \in Outcomes("boot") :
        /\ process.mode = "boot"
        /\ IF o # "fail" /\ hand[h].status = "OPEN"
           THEN /\ hand' = [hand EXCEPT ![h].status = "VOIDED"]
                /\ seat' = [u \in Users |-> IF u \in Seated
                      THEN [seat[u] EXCEPT !.stack = @ + hand[h].put[u]] ELSE seat[u]]
                /\ ledger' =
                     [balance |-> [u \in Users |-> ledger.balance[u] +
                                     (IF u \in Gone(h) THEN hand[h].put[u] ELSE 0)],
                      rows |-> ledger.rows \cup
                               {Row(u, "GAME_REFUND", h, hand[h].put[u]) : u \in Gone(h)}]
           ELSE UNCHANGED <<hand, seat, ledger>>
        /\ process' = [process EXCEPT !.todo = @ \ {h}]
        /\ Count(o)
  BY DEF VoidHand
<1>2. CASE o # "fail" /\ hand[h].status = "OPEN"
  <2>1. ledger'.balance = [u \in Users |-> ledger.balance[u] +
                             (IF u \in Gone(h) THEN hand[h].put[u] ELSE 0)]
    BY <1>1, <1>2
  <2>. QED BY <1>1, <1>2, <2>1, Zenon
<1>3. CASE ~ (o # "fail" /\ hand[h].status = "OPEN")
  BY <1>1, <1>3, Zenon
<1>. QED BY <1>2, <1>3

(* Every step keeps the types.                                             *)
LEMMA TypeStep ==
  ASSUME TypeOK, [Next]_vars
  PROVE  TypeOK'
<1>0. /\ seat \in SeatRows /\ hand \in HandRows
      /\ process \in [mode : {"up", "down", "boot"}, todo : SUBSET Hands]
  BY DEF TypeOK
<1>a. ledger.balance \in [Users -> Nat]
  BY DEF TypeOK
<1>b. join \in [Users -> [pc : {"none", "read"}, index : 0 .. MaxSeats - 1,
                        buyIn : BuyIns \cup {0}]]
  BY DEF TypeOK
<1>c. faults \in 0 .. MaxFaults /\ 0 \in 0 .. MaxSeats - 1
  BY GameTablesAssumption DEF TypeOK
<1>1. ASSUME NEW u \in Users, NEW b \in BuyIns, JoinRead(u, b)
      PROVE  TypeOK'
  <2>1. PICK i \in 0 .. MaxSeats - 1 :
          join' = [join EXCEPT ![u] = [pc |-> "read", index |-> i, buyIn |-> b]]
    BY <1>1 DEF JoinRead
  <2>. QED BY <1>b, <1>1, <2>1 DEF JoinRead, tableVars, TypeOK
<1>2. ASSUME NEW u \in Users, JoinCommit(u)
      PROVE  TypeOK'
  <2>. DEFINE j == join[u]
  <2>1. j.buyIn \in Nat /\ j.index \in 0 .. MaxSeats - 1
    <3>1. j \in [pc : {"none", "read"}, index : 0 .. MaxSeats - 1, buyIn : BuyIns \cup {0}]
      BY <1>b
    <3>2. j.buyIn \in BuyIns \cup {0} /\ j.index \in 0 .. MaxSeats - 1
      BY <3>1
    <3>3. \A b \in BuyIns : b \in Nat
      BY GameTablesAssumption
    <3>. QED BY <3>2, <3>3
  <2>2. PICK id \in SeatIds :
          IF u \notin Seated /\ j.index \notin Taken
             /\ CanCharge(ledger, u, j.buyIn, "GAME_BUYIN", id)
          THEN /\ seat' = [seat EXCEPT ![u] = [id |-> id, index |-> j.index, stack |-> j.buyIn]]
               /\ ledger' = Charge(ledger, u, j.buyIn, "GAME_BUYIN", id)
          ELSE UNCHANGED <<seat, ledger>>
    BY <1>2 DEF JoinCommit
  <2>3. seat' \in SeatRows
    BY <1>0, <2>1, <2>2 DEF SeatRows
  <2>4. ledger'.balance \in [Users -> Nat]
    <3>1. CASE ledger' = Charge(ledger, u, j.buyIn, "GAME_BUYIN", id)
               /\ CanCharge(ledger, u, j.buyIn, "GAME_BUYIN", id)
      <4>. HIDE DEF j
      <4>1. /\ ledger'.balance = [ledger.balance EXCEPT ![u] = @ - j.buyIn]
            /\ ledger.balance[u] - j.buyIn \in Nat
        BY <1>a, <2>1, <3>1, ChargeBalance
      <4>. QED BY <1>a, <4>1
    <3>. QED BY <1>a, <2>2, <3>1
  <2>5. join' \in [Users -> [pc : {"none", "read"}, index : 0 .. MaxSeats - 1,
                            buyIn : BuyIns \cup {0}]]
    BY <1>b, <1>c, <1>2 DEF JoinCommit, NoJoin
  <2>. QED BY <1>2, <2>3, <2>4, <2>5 DEF JoinCommit, TypeOK
<1>3. CASE CloseRead \/ CloseCommit
  BY <1>3 DEF CloseRead, CloseCommit, tableVars, TypeOK
<1>4. ASSUME NEW u \in Users, Act(u)
      PROVE  TypeOK'
  <2>0. mem.put \in Puts
    BY DEF TypeOK
  <2>1. PICK put \in Puts, folded \in SUBSET Users, payouts \in Puts, o \in Outcomes("commit") :
          /\ Commit(put, folded, payouts, o)
          /\ put[u] - mem.put[u] <= seat[u].stack
          /\ \A v \in Users \ {u} : put[v] = mem.put[v]
    BY <1>4, ActFacts
  <2>2. \A v \in Users : put[v] - mem.put[v] <= seat[v].stack
    BY <1>0, <2>0, <2>1 DEF SeatRows, Puts
  <2>3. Live
    BY <1>4, ActFacts
  <2>. QED BY <1>4, <2>1, <2>2, <2>3, CommitTypes DEF Act, TypeOK
<1>5. ASSUME NEW u \in Users, LeaveFold(u)
      PROVE  TypeOK'
  <2>1. CASE Live /\ u \in Playing
    <3>0. mem.put \in Puts /\ mem.folded \cup {u} \in SUBSET Users
      BY DEF TypeOK
    <3>1. PICK payouts \in Puts, o \in Outcomes("commit") :
            /\ Commit(mem.put, mem.folded \cup {u}, payouts, o)
            /\ leaving' = IF o = "ok" THEN u ELSE None
      BY <1>5, <2>1, FoldFacts
    <3>2. \A v \in Users : mem.put[v] - mem.put[v] <= seat[v].stack
      BY <1>0, <3>0 DEF SeatRows, Puts
    <3>. QED BY <1>5, <2>1, <3>0, <3>1, <3>2, CommitTypes DEF LeaveFold, TypeOK
  <2>2. CASE ~ (Live /\ u \in Playing)
    BY <1>5, <2>2 DEF LeaveFold, TypeOK
  <2>. QED BY <2>1, <2>2
<1>6. ASSUME NEW u \in Users, CashOut(u)
      PROVE  TypeOK'
  <2>1. PICK o \in Outcomes("cashout") :
          /\ IF o = "fail" THEN UNCHANGED <<seat, ledger>>
             ELSE /\ ledger' = Credit(ledger, u, seat[u].stack, "GAME_CASHOUT", seat[u].id)
                  /\ seat' = [seat EXCEPT ![u] = NoSeat]
          /\ Count(o)
    BY <1>6 DEF CashOut
  <2>2. seat' \in SeatRows
    BY <1>0, <1>c, <2>1 DEF SeatRows, NoSeat
  <2>3. seat[u].stack \in Nat
    BY <1>0 DEF SeatRows
  <2>4. ledger'.balance \in [Users -> Nat]
    <3>1. CASE ledger' = Credit(ledger, u, seat[u].stack, "GAME_CASHOUT", seat[u].id)
      <4>0. Credit(ledger, u, seat[u].stack, "GAME_CASHOUT", seat[u].id).balance
              = [ledger.balance EXCEPT ![u] = @ + seat[u].stack]
        BY <1>a, <2>3, CreditBalance
      <4>1. ledger'.balance = [ledger.balance EXCEPT ![u] = @ + seat[u].stack]
        BY <3>1, <4>0
      <4>. QED BY <1>a, <2>3, <4>1
    <3>. QED BY <1>a, <2>1, <3>1
  <2>5. faults' \in 0 .. MaxFaults
    BY <1>c, <2>1, GameTablesAssumption DEF Count, Outcomes
  <2>. QED BY <1>6, <2>2, <2>4, <2>5 DEF CashOut, TypeOK
<1>7. ASSUME NEW h \in Hands, NEW blinds \in SUBSET Users, StartHand(h, blinds)
      PROVE  TypeOK'
  <2>1. PICK post \in Puts, payouts \in Puts, o \in Outcomes("start"), players \in SUBSET Seated :
          /\ \A u \in Users : post[u] <= seat[u].stack
          /\ IF o = "fail" THEN UNCHANGED <<seat, hand>>
             ELSE /\ hand' = [hand EXCEPT ![h] = Written(post, payouts)]
                  /\ seat' = [u \in Users |->
                                [seat[u] EXCEPT !.stack = @ - post[u] + payouts[u]]]
          /\ mem' = IF o # "ok" \/ payouts # Nothing THEN mem
                    ELSE [hand |-> h, put |-> post, players |-> players, folded |-> {}]
          /\ Count(o)
    BY <1>7, StartFacts
  <2>2. seat' \in SeatRows
    <3>1. \A u \in Users : seat[u].stack - post[u] + payouts[u] \in Nat
      BY <1>0, <2>1 DEF SeatRows, Puts
    <3>2. CASE seat' = [u \in Users |-> [seat[u] EXCEPT !.stack = @ - post[u] + payouts[u]]]
      BY <1>0, <3>1, <3>2 DEF SeatRows
    <3>. QED BY <1>0, <2>1, <3>2
  <2>3. hand' \in HandRows
    BY <1>0, <2>1 DEF HandRows, Written
  <2>4. players \in SUBSET Users
    BY <2>1 DEF Seated
  <2>5. mem' \in [hand : Hands \cup {None}, put : Puts, players : SUBSET Users,
                 folded : SUBSET Users]
    BY <2>1, <2>4 DEF TypeOK
  <2>6. faults' \in 0 .. MaxFaults
    BY <1>c, <2>1, GameTablesAssumption DEF Count, Outcomes
  <2>. QED BY <1>7, <2>2, <2>3, <2>5, <2>6 DEF StartHand, TypeOK
<1>8. CASE Die
  <2>1. faults' \in 0 .. MaxFaults
    BY <1>c, <1>8, GameTablesAssumption DEF Die
  <2>2. mem' \in [hand : Hands \cup {None}, put : Puts, players : SUBSET Users,
                 folded : SUBSET Users]
    BY <1>8 DEF Die, NoHand, Nothing, Puts
  <2>3. join' \in [Users -> [pc : {"none", "read"}, index : 0 .. MaxSeats - 1,
                            buyIn : BuyIns \cup {0}]]
    BY <1>b, <1>c, <1>8 DEF Die, NoJoin
  <2>. QED BY <1>8, <2>1, <2>2, <2>3 DEF Die, tableVars, TypeOK
<1>9. CASE BootRead \/ BootDone
  BY <1>0, <1>9 DEF BootRead, BootDone, Interrupted, tableVars, TypeOK
<1>10. CASE VoidHand
  <2>1. PICK h \in process.todo, o \in Outcomes("boot") :
          /\ IF o # "fail" /\ hand[h].status = "OPEN"
             THEN /\ hand' = [hand EXCEPT ![h].status = "VOIDED"]
                  /\ seat' = [u \in Users |-> IF u \in Seated
                        THEN [seat[u] EXCEPT !.stack = @ + hand[h].put[u]] ELSE seat[u]]
                  /\ ledger'.balance = [u \in Users |-> ledger.balance[u] +
                        (IF u \in Gone(h) THEN hand[h].put[u] ELSE 0)]
             ELSE UNCHANGED <<hand, seat, ledger>>
          /\ process' = [process EXCEPT !.todo = @ \ {h}]
          /\ Count(o)
    BY <1>10, VoidFacts
  <2>2. h \in Hands /\ \A u \in Users : hand[h].put[u] \in Nat
    BY <1>0, <2>1 DEF HandRows, Puts
  <2>3. seat' \in SeatRows
    BY <1>0, <2>1, <2>2 DEF SeatRows
  <2>4. hand' \in HandRows
    BY <1>0, <2>1, <2>2 DEF HandRows
  <2>5. ledger'.balance \in [Users -> Nat]
    BY <1>a, <2>1, <2>2
  <2>6. faults' \in 0 .. MaxFaults
    BY <1>c, <2>1, GameTablesAssumption DEF Count, Outcomes
  <2>7. process' \in [mode : {"up", "down", "boot"}, todo : SUBSET Hands]
    BY <1>0, <2>1
  <2>. QED BY <1>10, <2>3, <2>4, <2>5, <2>6, <2>7 DEF VoidHand, TypeOK
<1>11. CASE UNCHANGED vars
  BY <1>11 DEF vars, tableVars, TypeOK
<1>. QED
  BY <1>1, <1>2, <1>3, <1>4, <1>5, <1>6, <1>7, <1>8, <1>9, <1>10, <1>11 DEF Next

-----------------------------------------------------------------------------
(* The seats and the memory.                                               *)

(* Who is seated after a commit is who was.                                *)
LEMMA CommitKeepsSeats ==
  ASSUME TypeOK, NEW put, NEW folded, NEW payouts, NEW o, Commit(put, folded, payouts, o)
  PROVE  Seated' = Seated
<1>1. \A u \in Users : seat'[u].id = seat[u].id
  BY DEF Commit, TypeOK, SeatRows
<1>. QED BY <1>1 DEF Seated

(* What the memory holds after it.                                         *)
LEMMA CommitMemory ==
  ASSUME TypeOK, NEW put \in Puts, NEW folded \in SUBSET Users, NEW payouts, NEW o,
         Commit(put, folded, payouts, o)
  PROVE  \/ o # "ok" /\ mem' = mem
         \/ payouts # Nothing /\ ~ Live'
         \/ /\ payouts = Nothing /\ mem'.hand = mem.hand /\ mem'.put = put
            /\ mem'.players = mem.players /\ mem'.folded = folded
<1>0. mem \in [hand : Hands \cup {None}, put : Puts, players : SUBSET Users, folded : SUBSET Users]
  BY DEF TypeOK
<1>1. mem' = IF o # "ok" THEN mem
             ELSE IF payouts # Nothing THEN NoHand ELSE [mem EXCEPT !.put = put, !.folded = folded]
  BY DEF Commit
<1>2. CASE o # "ok"
  BY <1>1, <1>2
<1>3. CASE o = "ok" /\ payouts # Nothing
  BY <1>1, <1>3 DEF NoHand, Live
<1>4. CASE o = "ok" /\ payouts = Nothing
  BY <1>0, <1>1, <1>4
<1>. QED BY <1>2, <1>3, <1>4

LEMMA PlayersSitStep ==
  ASSUME TypeOK, PlayersSit, DownHasNone, [Next]_vars
  PROVE  PlayersSit'
<1>0. /\ Live => Playing \subseteq Seated \ {leaving}
      /\ leaving # None => leaving \in Seated
      /\ None \notin Users /\ None \notin SeatIds
      /\ mem \in [hand : Hands \cup {None}, put : Puts, players : SUBSET Users,
                 folded : SUBSET Users]
  BY GameTablesAssumption DEF PlayersSit, TypeOK
<1>1. CASE Seated' = Seated /\ leaving' = leaving /\ mem' = mem
  BY <1>0, <1>1 DEF PlayersSit, Live, Playing
<1>2. ASSUME NEW u \in Users, JoinCommit(u)
      PROVE  PlayersSit'
  <2>1. Seated \subseteq Seated'
    BY <1>0, <1>2 DEF JoinCommit, TypeOK, SeatRows, Seated
  <2>2. leaving' = leaving /\ mem' = mem
    BY <1>2 DEF JoinCommit
  <2>. QED BY <1>0, <2>1, <2>2 DEF PlayersSit, Live, Playing
<1>3. ASSUME NEW u \in Users, Act(u)
      PROVE  PlayersSit'
  <2>1. PICK put \in Puts, folded \in SUBSET Users, payouts \in Puts, o \in Outcomes("commit") :
          /\ Commit(put, folded, payouts, o)
          /\ folded \in {mem.folded, mem.folded \cup {u}}
    BY <1>3, ActFacts
  <2>2. Seated' = Seated /\ leaving' = leaving /\ leaving = None /\ Live
    BY <1>3, <2>1, CommitKeepsSeats DEF Act, Queue
  <2>4. Live' => Playing' \subseteq Playing
    <3>1. \/ mem' = mem \/ ~ Live'
          \/ mem'.players = mem.players /\ mem'.folded = folded
      BY <2>1, CommitMemory
    <3>. QED BY <2>1, <3>1 DEF Playing
  <2>. QED BY <1>0, <2>2, <2>4 DEF PlayersSit
<1>4. ASSUME NEW u \in Users, LeaveFold(u)
      PROVE  PlayersSit'
  <2>1. CASE Live /\ u \in Playing
    <3>1. PICK payouts \in Puts, o \in Outcomes("commit") :
            /\ Commit(mem.put, mem.folded \cup {u}, payouts, o)
            /\ leaving' = IF o = "ok" THEN u ELSE None
      BY <1>4, <2>1, FoldFacts
    <3>2. Seated' = Seated /\ u \in Seated
      BY <1>4, <3>1, CommitKeepsSeats DEF LeaveFold
    <3>3. \/ o # "ok" /\ mem' = mem
          \/ ~ Live'
          \/ mem'.players = mem.players /\ mem'.folded = mem.folded \cup {u}
      BY <1>0, <3>1, CommitMemory
    <3>4. Live' => Playing' \subseteq Playing
      BY <3>3 DEF Playing
    <3>5. o = "ok" /\ Live' => u \notin Playing'
      BY <3>3 DEF Playing
    <3>. QED BY <1>0, <2>1, <3>1, <3>2, <3>4, <3>5 DEF PlayersSit, Playing
  <2>2. CASE ~ (Live /\ u \in Playing)
    <3>1. leaving' = u /\ u \in Seated /\ Seated' = Seated /\ mem' = mem
      BY <1>4, <2>2 DEF LeaveFold, Seated
    <3>. QED BY <1>0, <2>2, <3>1 DEF PlayersSit, Live, Playing
  <2>. QED BY <2>1, <2>2
<1>5. ASSUME NEW u \in Users, CashOut(u)
      PROVE  PlayersSit'
  <2>1. leaving' = None /\ leaving = u /\ mem' = mem
    BY <1>5 DEF CashOut
  <2>2. Seated \ {u} \subseteq Seated'
    BY <1>5 DEF CashOut, Seated, TypeOK, SeatRows
  <2>. QED BY <1>0, <2>1, <2>2 DEF PlayersSit, Live, Playing
<1>6. ASSUME NEW h \in Hands, NEW blinds \in SUBSET Users, StartHand(h, blinds)
      PROVE  PlayersSit'
  <2>1. PICK post \in Puts, payouts \in Puts, o \in Outcomes("start"), players \in SUBSET Seated :
          /\ \A u \in Users : post[u] <= seat[u].stack
          /\ IF o = "fail" THEN UNCHANGED <<seat, hand>>
             ELSE /\ hand' = [hand EXCEPT ![h] = Written(post, payouts)]
                  /\ seat' = [u \in Users |->
                                [seat[u] EXCEPT !.stack = @ - post[u] + payouts[u]]]
          /\ mem' = IF o # "ok" \/ payouts # Nothing THEN mem
                    ELSE [hand |-> h, put |-> post, players |-> players, folded |-> {}]
          /\ Count(o)
    BY <1>6, StartFacts
  <2>2. \A u \in Users : seat'[u].id = seat[u].id
    BY <2>1 DEF TypeOK, SeatRows
  <2>3. Seated' = Seated
    BY <2>2 DEF Seated
  <2>4. leaving = None /\ leaving' = None /\ ~ Live
    BY <1>6 DEF StartHand, Queue
  <2>5. Live' => Playing' \subseteq Seated
    BY <2>1, <2>4 DEF Live, Playing
  <2>6. None \notin Seated
    BY <1>0 DEF Seated
  <2>. QED BY <2>3, <2>4, <2>5, <2>6 DEF PlayersSit
<1>7. CASE Die
  BY <1>0, <1>7 DEF Die, NoHand, Live, PlayersSit
<1>8. CASE VoidHand
  <2>1. ~ Live /\ leaving = None /\ mem' = mem /\ leaving' = leaving
    BY <1>8 DEF VoidHand, DownHasNone, Up
  <2>. QED BY <2>1 DEF PlayersSit, Live
<1>9. ASSUME NEW u \in Users, NEW b \in BuyIns, JoinRead(u, b)
      PROVE  PlayersSit'
  BY <1>1, <1>9 DEF JoinRead, tableVars, Seated
<1>10. CASE CloseRead \/ CloseCommit \/ BootRead \/ BootDone
  BY <1>1, <1>10 DEF CloseRead, CloseCommit, BootRead, BootDone, tableVars, Seated
<1>11. CASE UNCHANGED vars
  BY <1>1, <1>11 DEF vars, tableVars, Seated
<1>. QED
  BY <1>2, <1>3, <1>4, <1>5, <1>6, <1>7, <1>8, <1>9, <1>10, <1>11 DEF Next

LEMMA DownStep ==
  ASSUME TypeOK, DownHasNone, [Next]_vars
  PROVE  DownHasNone'
<1>0. process.mode # "up" => mem.hand = None /\ leaving = None
  BY DEF DownHasNone, Up, Live
<1>1. CASE Die
  BY <1>1 DEF Die, DownHasNone, Live, NoHand
<1>2. CASE BootRead \/ BootDone
  BY <1>0, <1>2 DEF BootRead, BootDone, DownHasNone, Up, Live
<1>3. CASE VoidHand
  BY <1>0, <1>3 DEF VoidHand, DownHasNone, Up, Live
<1>4. ASSUME Up, process' = process
      PROVE  DownHasNone'
  BY <1>4 DEF DownHasNone, Up
<1>5. CASE UNCHANGED vars
  BY <1>0, <1>5 DEF vars, DownHasNone, Up, Live
<1>. QED
  BY <1>1, <1>2, <1>3, <1>4, <1>5
     DEF Next, JoinRead, JoinCommit, Act, LeaveFold, CashOut, CloseRead, CloseCommit, StartHand,
         Queue

-----------------------------------------------------------------------------
(* The row and the hand in memory.                                         *)

(* A commit that is answered leaves in the row what the memory holds.      *)
LEMMA CommitInsures ==
  ASSUME TypeOK, Insured, Live, NEW put \in Puts, NEW folded \in SUBSET Users, NEW payouts,
         NEW o \in {"ok", "fail"}, Commit(put, folded, payouts, o)
  PROVE  Insured'
<1>0. mem.hand \in Hands /\ hand \in HandRows /\ mem.hand # None
  BY DEF TypeOK, Live
<1>1. o = "fail" => hand' = hand
  BY DEF Commit
<1>2. o # "fail" => hand'[mem.hand] = Written(put, payouts)
  BY <1>0 DEF Commit, HandRows
<1>3. payouts = Nothing => Written(put, payouts).status = "OPEN" /\ Written(put, payouts).put = put
  BY DEF Written
<1>4. \/ o # "ok" /\ mem' = mem
      \/ payouts # Nothing /\ ~ Live'
      \/ payouts = Nothing /\ mem'.hand = mem.hand /\ mem'.put = put
  BY CommitMemory
<1>5. CASE o = "fail" /\ mem' = mem
  BY <1>1, <1>5 DEF Insured, Live
<1>6. CASE o = "fail" /\ mem' # mem
  BY <1>6 DEF Commit
<1>7. CASE o # "fail" /\ ~ Live'
  BY <1>7 DEF Insured
<1>8. CASE o # "fail" /\ payouts = Nothing /\ mem'.hand = mem.hand /\ mem'.put = put
  BY <1>2, <1>3, <1>8 DEF Insured
<1>. QED
  BY <1>4, <1>5, <1>6, <1>7, <1>8

LEMMA NotLost ==
  ASSUME NoLostCommit, NEW o \in Outcomes("commit")
  PROVE  o \in {"ok", "fail"}
BY DEF NoLostCommit, Outcomes

LEMMA InsuredStep ==
  ASSUME NoLostCommit, TypeOK, Insured, DownHasNone, [Next]_vars
  PROVE  Insured'
<1>0. /\ Live => hand[mem.hand].status = "OPEN" /\ hand[mem.hand].put = mem.put
      /\ hand \in HandRows /\ None \notin Hands
  BY GameTablesAssumption DEF Insured, TypeOK
<1>1. CASE hand' = hand /\ mem' = mem
  BY <1>0, <1>1 DEF Insured, Live
<1>2. ASSUME NEW u \in Users, Act(u)
      PROVE  Insured'
  <2>1. PICK put \in Puts, folded \in SUBSET Users, payouts \in Puts, o \in Outcomes("commit") :
          Commit(put, folded, payouts, o)
    BY <1>2, ActFacts
  <2>2. Live
    BY <1>2, ActFacts
  <2>. QED BY <2>1, <2>2, NotLost, CommitInsures
<1>3. ASSUME NEW u \in Users, LeaveFold(u)
      PROVE  Insured'
  <2>1. CASE Live /\ u \in Playing
    <3>1. PICK payouts \in Puts, o \in Outcomes("commit") :
            Commit(mem.put, mem.folded \cup {u}, payouts, o)
      BY <1>3, <2>1, FoldFacts
    <3>2. mem.put \in Puts /\ mem.folded \cup {u} \in SUBSET Users
      BY DEF TypeOK
    <3>. QED BY <2>1, <3>1, <3>2, NotLost, CommitInsures
  <2>2. CASE ~ (Live /\ u \in Playing)
    BY <1>1, <1>3, <2>2 DEF LeaveFold
  <2>. QED BY <2>1, <2>2
<1>4. ASSUME NEW h \in Hands, NEW blinds \in SUBSET Users, StartHand(h, blinds)
      PROVE  Insured'
  <2>1. PICK post \in Puts, payouts \in Puts, o \in Outcomes("start"), players \in SUBSET Seated :
          /\ \A u \in Users : post[u] <= seat[u].stack
          /\ IF o = "fail" THEN UNCHANGED <<seat, hand>>
             ELSE /\ hand' = [hand EXCEPT ![h] = Written(post, payouts)]
                  /\ seat' = [u \in Users |->
                                [seat[u] EXCEPT !.stack = @ - post[u] + payouts[u]]]
          /\ mem' = IF o # "ok" \/ payouts # Nothing THEN mem
                    ELSE [hand |-> h, put |-> post, players |-> players, folded |-> {}]
          /\ Count(o)
    BY <1>4, StartFacts
  <2>2. ~ Live
    BY <1>4, StartFacts
  <2>3. CASE o = "ok" /\ payouts = Nothing
    <3>1. hand'[h] = Written(post, payouts) /\ mem'.hand = h /\ mem'.put = post
      BY <1>0, <2>1, <2>3 DEF HandRows
    <3>. QED BY <2>3, <3>1 DEF Insured, Written
  <2>4. CASE ~ (o = "ok" /\ payouts = Nothing)
    BY <2>1, <2>2, <2>4 DEF Insured, Live
  <2>. QED BY <2>3, <2>4
<1>5. CASE Die
  BY <1>5 DEF Die, Insured, Live, NoHand
<1>6. CASE VoidHand
  BY <1>6 DEF VoidHand, DownHasNone, Insured, Up, Live
<1>7. CASE UNCHANGED vars
  BY <1>1, <1>7 DEF vars, tableVars
<1>. QED
  BY <1>1, <1>2, <1>3, <1>4, <1>5, <1>6, <1>7
     DEF Next, JoinRead, JoinCommit, CashOut, CloseRead, CloseCommit, BootRead, BootDone, tableVars

-----------------------------------------------------------------------------
(* The chips.                                                              *)

(* What does not touch balances, seats and rows moves nothing.             *)
LEMMA NothingMoved ==
  ASSUME ChipsConserved, ledger' = ledger, seat' = seat, hand' = hand
  PROVE  ChipsConserved'
BY DEF ChipsConserved, Stack, Seated, Staked

(* One player's chips change their form.                                   *)
LEMMA Exchanged ==
  ASSUME TypeOK, TypeOK', ChipsConserved,
         \A u \in Users : ledger'.balance[u] + Stack(u)' + StakeOf(hand', u)
                           = ledger.balance[u] + Stack(u) + StakeOf(hand, u)
  PROVE  ChipsConserved'
<1>. DEFINE d == [u \in Users |-> 0]
<1>1. d \in [Users -> Int] /\ \A u \in Users : d[u] = 0
  OBVIOUS
<1>2. \A u \in Users : ledger.balance[u] + Stack(u) + StakeOf(hand, u) \in Int
  BY WealthFacts
<1>. HIDE DEF d
<1>3. SumFunctionOnSet(d, Users) = 0 * Cardinality(Users) /\ Cardinality(Users) \in Nat
  BY <1>1, SumConst, UsersAssumption, FS_CardinalityType
<1>4. SumFunctionOnSet(d, Users) = 0
  BY <1>3
<1>5. \A u \in Users : ledger'.balance[u] + Stack(u)' + StakeOf(hand', u)
                        = ledger.balance[u] + Stack(u) + StakeOf(hand, u) + d[u]
  BY <1>1, <1>2
<1>. QED BY <1>1, <1>4, <1>5, Moved

(* A commit moves the pot.                                                 *)
LEMMA CommitConserves ==
  ASSUME TypeOK, TypeOK', Insured, Live, ChipsConserved, ledger' = ledger,
         NEW put \in Puts, NEW folded \in SUBSET Users, NEW payouts \in Puts,
         NEW o \in {"ok", "fail"}, Commit(put, folded, payouts, o),
         \A u \in Users : payouts[u] # 0 \/ put[u] # mem.put[u] => u \in Seated,
         payouts # Nothing => SumFunctionOnSet(payouts, Users) = SumFunctionOnSet(put, Users)
  PROVE  ChipsConserved'
<1>0. /\ seat \in SeatRows /\ hand \in HandRows /\ hand' \in HandRows /\ mem.hand \in Hands
      /\ mem.put \in Puts /\ ledger.balance \in [Users -> Nat]
      /\ hand[mem.hand].status = "OPEN" /\ hand[mem.hand].put = mem.put
  BY DEF TypeOK, Insured, Live
<1>1. CASE o = "fail"
  BY <1>1, NothingMoved DEF Commit
<1>2. CASE o = "ok"
  <2>1. /\ seat' = [u \in Users |->
                     [seat[u] EXCEPT !.stack = @ - (put[u] - mem.put[u]) + payouts[u]]]
        /\ hand' = [hand EXCEPT ![mem.hand] = Written(put, payouts)]
    BY <1>2 DEF Commit
  <2>2. Seated' = Seated
    BY CommitKeepsSeats
  <2>. DEFINE d == Shift(put, payouts)
  <2>3. ASSUME NEW u \in Users
        PROVE  ledger'.balance[u] + Stack(u)' + StakeOf(hand', u)
                 = ledger.balance[u] + Stack(u) + StakeOf(hand, u) + d[u]
    <3>1. Stack(u)' = Stack(u) - (put[u] - mem.put[u]) + payouts[u]
      <4>0. seat[u].stack \in Nat /\ put[u] \in Nat /\ mem.put[u] \in Nat /\ payouts[u] \in Nat
        BY <1>0 DEF SeatRows, Puts
      <4>1. seat'[u].stack = seat[u].stack - (put[u] - mem.put[u]) + payouts[u]
        BY <1>0, <2>1 DEF SeatRows
      <4>2. CASE u \in Seated
        BY <2>2, <4>1, <4>2 DEF Stack
      <4>3. CASE u \notin Seated
        BY <2>2, <4>0, <4>3 DEF Stack
      <4>. QED BY <4>2, <4>3
    <3>2. StakeOf(hand', u) = StakeOf(hand, u) + Held(hand'[mem.hand], u) - Held(hand[mem.hand], u)
      <4>1. \A g \in Hands \ {mem.hand} : hand'[g] = hand[g]
        BY <1>0, <2>1 DEF HandRows
      <4>. QED BY <1>0, <4>1, StakeChange
    <3>3. Held(hand[mem.hand], u) = mem.put[u]
      BY <1>0 DEF Held
    <3>4. Held(hand'[mem.hand], u) = IF payouts = Nothing THEN put[u] ELSE 0
      <4>1. hand'[mem.hand] = Written(put, payouts)
        BY <1>0, <2>1 DEF HandRows
      <4>. QED BY <4>1 DEF Held, Written
    <3>5. d[u] = payouts[u] - (IF payouts = Nothing THEN 0 ELSE put[u])
      BY DEF Shift
    <3>6. /\ put[u] \in Int /\ payouts[u] \in Int /\ mem.put[u] \in Int /\ Stack(u) \in Int
          /\ StakeOf(hand, u) \in Int /\ ledger.balance[u] \in Int
      BY <1>0, WealthFacts DEF Puts
    <3>. HIDE DEF d
    <3>7. CASE payouts = Nothing
      BY <3>1, <3>2, <3>3, <3>4, <3>5, <3>6, <3>7
    <3>8. CASE payouts # Nothing
      BY <3>1, <3>2, <3>3, <3>4, <3>5, <3>6, <3>8
    <3>. QED BY <3>7, <3>8
  <2>4. d \in [Users -> Int] /\ SumFunctionOnSet(d, Users) = 0
    BY ShiftIsZero
  <2>. HIDE DEF d
  <2>. QED BY <2>3, <2>4, Moved
<1>. QED BY <1>1, <1>2

(* A hand that starts takes the blinds from the stacks into its row.       *)
LEMMA StartConserves ==
  ASSUME TypeOK, TypeOK', ChipsConserved,
         NEW h \in Hands, NEW blinds \in SUBSET Users, StartHand(h, blinds)
  PROVE  ChipsConserved'
<1>0. seat \in SeatRows /\ hand \in HandRows /\ hand' \in HandRows /\ ledger' = ledger
  BY DEF TypeOK, StartHand
<1>1. PICK post \in Puts, payouts \in Puts, o \in Outcomes("start"), players \in SUBSET Seated :
        /\ \A u \in Users : payouts[u] # 0 \/ post[u] # 0 => u \in players
        /\ payouts # Nothing => SumFunctionOnSet(payouts, Users) = SumFunctionOnSet(post, Users)
        /\ IF o = "fail" THEN UNCHANGED <<seat, hand>>
           ELSE /\ hand' = [hand EXCEPT ![h] = Written(post, payouts)]
                /\ seat' = [u \in Users |->
                              [seat[u] EXCEPT !.stack = @ - post[u] + payouts[u]]]
  BY StartFacts
<1>2. hand[h].status = "NONE"
  BY StartFacts
<1>3. CASE o = "fail"
  BY <1>0, <1>1, <1>3, NothingMoved
<1>4. CASE o # "fail"
  <2>1. /\ seat' = [u \in Users |-> [seat[u] EXCEPT !.stack = @ - post[u] + payouts[u]]]
        /\ hand' = [hand EXCEPT ![h] = Written(post, payouts)]
    BY <1>1, <1>4
  <2>2. Seated' = Seated
    <3>1. \A u \in Users : seat'[u].id = seat[u].id
      BY <1>0, <2>1 DEF SeatRows
    <3>. QED BY <3>1 DEF Seated
  <2>. DEFINE d == Shift(post, payouts)
  <2>3. ASSUME NEW u \in Users
        PROVE  ledger'.balance[u] + Stack(u)' + StakeOf(hand', u)
                 = ledger.balance[u] + Stack(u) + StakeOf(hand, u) + d[u]
    <3>0. /\ seat[u].stack \in Nat /\ post[u] \in Int /\ payouts[u] \in Int /\ Stack(u) \in Int
          /\ StakeOf(hand, u) \in Int /\ ledger.balance[u] \in Int
      BY <1>0, WealthFacts DEF SeatRows, Puts
    <3>1. Stack(u)' = Stack(u) - post[u] + payouts[u]
      <4>1. seat'[u].stack = seat[u].stack - post[u] + payouts[u]
        BY <1>0, <2>1 DEF SeatRows
      <4>2. CASE u \in Seated
        BY <2>2, <4>1, <4>2 DEF Stack
      <4>3. CASE u \notin Seated
        BY <1>1, <2>2, <3>0, <4>3 DEF Stack
      <4>. QED BY <4>2, <4>3
    <3>2. StakeOf(hand', u) = StakeOf(hand, u) + Held(hand'[h], u) - Held(hand[h], u)
      <4>1. \A g \in Hands \ {h} : hand'[g] = hand[g]
        BY <1>0, <2>1 DEF HandRows
      <4>. QED BY <1>0, <4>1, StakeChange
    <3>3. Held(hand[h], u) = 0
      BY <1>2 DEF Held
    <3>4. Held(hand'[h], u) = IF payouts = Nothing THEN post[u] ELSE 0
      <4>1. hand'[h] = Written(post, payouts)
        BY <1>0, <2>1 DEF HandRows
      <4>. QED BY <4>1 DEF Held, Written
    <3>5. d[u] = payouts[u] - (IF payouts = Nothing THEN 0 ELSE post[u])
      BY DEF Shift
    <3>. HIDE DEF d
    <3>7. CASE payouts = Nothing
      BY <1>0, <3>0, <3>1, <3>2, <3>3, <3>4, <3>5, <3>7
    <3>8. CASE payouts # Nothing
      BY <1>0, <3>0, <3>1, <3>2, <3>3, <3>4, <3>5, <3>8
    <3>. QED BY <3>7, <3>8
  <2>4. d \in [Users -> Int] /\ SumFunctionOnSet(d, Users) = 0
    BY <1>1, ShiftIsZero
  <2>. HIDE DEF d
  <2>. QED BY <2>3, <2>4, Moved
<1>. QED BY <1>3, <1>4

(* Coins become chips when one sits down.                                  *)
LEMMA JoinConserves ==
  ASSUME TypeOK, TypeOK', ChipsConserved, NEW u \in Users, JoinCommit(u)
  PROVE  ChipsConserved'
<1>. DEFINE n == join[u].buyIn
<1>0. ledger.balance \in [Users -> Nat] /\ seat \in SeatRows /\ hand' = hand /\ None \notin SeatIds
  BY GameTablesAssumption DEF TypeOK, JoinCommit
<1>1. n \in Nat
  <2>1. n \in BuyIns \cup {0} /\ \A b \in BuyIns : b \in Nat
    BY GameTablesAssumption DEF TypeOK
  <2>. QED BY <2>1
<1>2. PICK id \in SeatIds :
        IF u \notin Seated /\ join[u].index \notin Taken
           /\ CanCharge(ledger, u, n, "GAME_BUYIN", id)
        THEN /\ seat' = [seat EXCEPT ![u] = [id |-> id, index |-> join[u].index, stack |-> n]]
             /\ ledger' = Charge(ledger, u, n, "GAME_BUYIN", id)
        ELSE UNCHANGED <<seat, ledger>>
  BY DEF JoinCommit
<1>. HIDE DEF n
<1>3. CASE UNCHANGED <<seat, ledger>>
  BY <1>0, <1>3, NothingMoved
<1>4. CASE /\ u \notin Seated /\ CanCharge(ledger, u, n, "GAME_BUYIN", id)
           /\ seat' = [seat EXCEPT ![u] = [id |-> id, index |-> join[u].index, stack |-> n]]
           /\ ledger' = Charge(ledger, u, n, "GAME_BUYIN", id)
  <2>1. ledger'.balance = [ledger.balance EXCEPT ![u] = @ - n]
    BY <1>0, <1>1, <1>4, ChargeBalance
  <2>2. Stack(u) = 0 /\ Stack(u)' = n
    BY <1>0, <1>4 DEF Stack, Seated, SeatRows
  <2>3. \A v \in Users \ {u} : Stack(v)' = Stack(v)
    BY <1>0, <1>4 DEF Stack, Seated, SeatRows
  <2>4. \A v \in Users : ledger.balance[v] \in Int /\ Stack(v) \in Int /\ StakeOf(hand, v) \in Int
    BY WealthFacts
  <2>5. ASSUME NEW v \in Users
        PROVE  ledger'.balance[v] + Stack(v)' + StakeOf(hand', v)
                 = ledger.balance[v] + Stack(v) + StakeOf(hand, v)
    <3>1. CASE v = u
      BY <1>0, <1>1, <2>1, <2>2, <2>4, <3>1
    <3>2. CASE v # u
      BY <1>0, <2>1, <2>3, <3>2
    <3>. QED BY <3>1, <3>2
  <2>. QED BY <2>5, Exchanged
<1>. QED BY <1>2, <1>3, <1>4

(* And chips become coins when one stands up.                              *)
LEMMA CashOutConserves ==
  ASSUME TypeOK, TypeOK', PlayersSit, ChipsConserved, NEW u \in Users, CashOut(u)
  PROVE  ChipsConserved'
<1>. DEFINE n == seat[u].stack
<1>0. /\ ledger.balance \in [Users -> Nat] /\ seat \in SeatRows /\ hand' = hand
      /\ None \notin Users /\ u \in Seated
  BY GameTablesAssumption DEF TypeOK, CashOut, PlayersSit
<1>1. n \in Nat
  BY <1>0 DEF SeatRows
<1>2. \/ UNCHANGED <<seat, ledger>>
      \/ /\ ledger' = Credit(ledger, u, n, "GAME_CASHOUT", seat[u].id)
         /\ seat' = [seat EXCEPT ![u] = NoSeat]
  BY DEF CashOut
<1>3. CASE UNCHANGED <<seat, ledger>>
  BY <1>0, <1>3, NothingMoved
<1>4. CASE /\ ledger' = Credit(ledger, u, n, "GAME_CASHOUT", seat[u].id)
           /\ seat' = [seat EXCEPT ![u] = NoSeat]
  <2>1. ledger'.balance = [ledger.balance EXCEPT ![u] = @ + n]
    <3>. HIDE DEF n
    <3>. QED BY <1>0, <1>1, <1>4, CreditBalance
  <2>2. Stack(u) = n /\ Stack(u)' = 0
    BY <1>0, <1>4 DEF Stack, Seated, SeatRows, NoSeat
  <2>3. \A v \in Users \ {u} : Stack(v)' = Stack(v)
    BY <1>0, <1>4 DEF Stack, Seated, SeatRows
  <2>4. \A v \in Users : ledger.balance[v] \in Int /\ Stack(v) \in Int /\ StakeOf(hand, v) \in Int
    BY WealthFacts
  <2>5. ASSUME NEW v \in Users
        PROVE  ledger'.balance[v] + Stack(v)' + StakeOf(hand', v)
                 = ledger.balance[v] + Stack(v) + StakeOf(hand, v)
    <3>. HIDE DEF n
    <3>1. CASE v = u
      BY <1>0, <1>1, <2>1, <2>2, <2>4, <3>1
    <3>2. CASE v # u
      BY <1>0, <2>1, <2>3, <3>2
    <3>. QED BY <3>1, <3>2
  <2>. QED BY <2>5, Exchanged
<1>. QED BY <1>2, <1>3, <1>4

(* A void gives the stake back, as chips to the seated and as coins to the  *)
(* others.                                                                  *)
LEMMA VoidConserves ==
  ASSUME TypeOK, TypeOK', ChipsConserved, VoidHand
  PROVE  ChipsConserved'
<1>0. /\ ledger.balance \in [Users -> Nat] /\ seat \in SeatRows /\ hand \in HandRows
      /\ hand' \in HandRows /\ process.todo \subseteq Hands
  BY DEF TypeOK
<1>1. PICK h \in process.todo, o \in Outcomes("boot") :
        IF o # "fail" /\ hand[h].status = "OPEN"
        THEN /\ hand' = [hand EXCEPT ![h].status = "VOIDED"]
             /\ seat' = [u \in Users |-> IF u \in Seated
                   THEN [seat[u] EXCEPT !.stack = @ + hand[h].put[u]] ELSE seat[u]]
             /\ ledger'.balance = [u \in Users |-> ledger.balance[u] +
                   (IF u \in Gone(h) THEN hand[h].put[u] ELSE 0)]
        ELSE UNCHANGED <<hand, seat, ledger>>
  BY VoidFacts, Zenon
<1>2. CASE UNCHANGED <<hand, seat, ledger>>
  BY <1>2, NothingMoved
<1>3. CASE /\ hand[h].status = "OPEN"
           /\ hand' = [hand EXCEPT ![h].status = "VOIDED"]
           /\ seat' = [u \in Users |-> IF u \in Seated
                 THEN [seat[u] EXCEPT !.stack = @ + hand[h].put[u]] ELSE seat[u]]
           /\ ledger'.balance = [u \in Users |-> ledger.balance[u] +
                 (IF u \in Gone(h) THEN hand[h].put[u] ELSE 0)]
  <2>1. h \in Hands /\ \A u \in Users : hand[h].put[u] \in Nat
    BY <1>0 DEF HandRows, Puts
  <2>2. Seated' = Seated
    <3>1. \A u \in Users : seat'[u].id = seat[u].id
      BY <1>0, <1>3 DEF SeatRows
    <3>. QED BY <3>1 DEF Seated
  <2>3. ASSUME NEW u \in Users
        PROVE  ledger'.balance[u] + Stack(u)' + StakeOf(hand', u)
                 = ledger.balance[u] + Stack(u) + StakeOf(hand, u)
    <3>. DEFINE n == hand[h].put[u]
    <3>0. ledger.balance[u] \in Int /\ Stack(u) \in Int /\ StakeOf(hand, u) \in Int
      BY WealthFacts
    <3>1. StakeOf(hand', u) = StakeOf(hand, u) + Held(hand'[h], u) - Held(hand[h], u)
      <4>1. \A g \in Hands \ {h} : hand'[g] = hand[g]
        BY <1>0, <1>3 DEF HandRows
      <4>. QED BY <1>0, <2>1, <4>1, StakeChange
    <3>2. Held(hand[h], u) = n /\ Held(hand'[h], u) = 0
      BY <1>0, <1>3, <2>1 DEF Held, HandRows
    <3>3. CASE u \in Seated
      <4>1. Stack(u)' = Stack(u) + n
        BY <1>0, <1>3, <2>2, <3>3 DEF Stack, SeatRows
      <4>2. ledger'.balance[u] = ledger.balance[u]
        BY <1>3, <3>0, <3>3 DEF Gone
      <4>3. n \in Nat
        BY <2>1
      <4>. HIDE DEF n
      <4>. QED BY <3>0, <3>1, <3>2, <4>1, <4>2, <4>3
    <3>4. CASE u \notin Seated
      <4>1. Stack(u)' = Stack(u)
        BY <2>2, <3>4 DEF Stack
      <4>2. n \in Nat
        BY <2>1
      <4>3. ledger'.balance[u] = ledger.balance[u] + n
        BY <1>3, <3>0, <3>4, <4>2 DEF Gone
      <4>. HIDE DEF n
      <4>. QED BY <3>0, <3>1, <3>2, <4>1, <4>2, <4>3
    <3>. QED BY <3>3, <3>4
  <2>. QED BY <2>3, Exchanged
<1>. QED BY <1>1, <1>2, <1>3

LEMMA ConservedStep ==
  ASSUME NoLostCommit, TypeOK, TypeOK', Insured, PlayersSit, ChipsConserved, [Next]_vars
  PROVE  ChipsConserved'
<1>1. ASSUME NEW u \in Users, Act(u)
      PROVE  ChipsConserved'
  <2>1. Live /\ u \in Playing /\ ledger' = ledger
    BY <1>1, ActFacts DEF Act
  <2>2. PICK put \in Puts, folded \in SUBSET Users, payouts \in Puts, o \in Outcomes("commit") :
          /\ Commit(put, folded, payouts, o)
          /\ \A v \in Users \ {u} : put[v] = mem.put[v]
          /\ \A v \in Users : payouts[v] # 0 => v \in Playing
          /\ payouts # Nothing =>
               SumFunctionOnSet(payouts, Users) = SumFunctionOnSet(put, Users)
    BY <1>1, ActFacts
  <2>3. \A v \in Users : payouts[v] # 0 \/ put[v] # mem.put[v] => v \in Seated
    BY <2>1, <2>2 DEF PlayersSit
  <2>. QED BY <2>1, <2>2, <2>3, NotLost, CommitConserves
<1>2. ASSUME NEW u \in Users, LeaveFold(u)
      PROVE  ChipsConserved'
  <2>0. ledger' = ledger
    BY <1>2 DEF LeaveFold
  <2>1. CASE Live /\ u \in Playing
    <3>1. PICK payouts \in Puts, o \in Outcomes("commit") :
            /\ Commit(mem.put, mem.folded \cup {u}, payouts, o)
            /\ \A v \in Users : payouts[v] # 0 => v \in Playing
            /\ payouts # Nothing =>
                 SumFunctionOnSet(payouts, Users) = SumFunctionOnSet(mem.put, Users)
      BY <1>2, <2>1, FoldFacts
    <3>2. mem.put \in Puts /\ mem.folded \cup {u} \in SUBSET Users
      BY DEF TypeOK
    <3>3. \A v \in Users : payouts[v] # 0 \/ mem.put[v] # mem.put[v] => v \in Seated
      BY <2>1, <3>1 DEF PlayersSit
    <3>. QED BY <2>0, <2>1, <3>1, <3>2, <3>3, NotLost, CommitConserves
  <2>2. CASE ~ (Live /\ u \in Playing)
    BY <1>2, <2>0, <2>2, NothingMoved DEF LeaveFold
  <2>. QED BY <2>1, <2>2
<1>3. ASSUME UNCHANGED <<seat, hand, ledger>>
      PROVE  ChipsConserved'
  BY <1>3, NothingMoved
<1>. QED
  BY <1>1, <1>2, <1>3, StartConserves, JoinConserves, CashOutConserves, VoidConserves
     DEF Next, JoinRead, CloseRead, CloseCommit, Die, BootRead, BootDone, vars, tableVars

-----------------------------------------------------------------------------
(* Theorems.                                                               *)

LEMMA InvInit == Init => IInv
<1>. SUFFICES ASSUME Init PROVE IInv
  OBVIOUS
<1>0. 0 \in 0 .. MaxSeats - 1 /\ 0 \in 0 .. MaxFaults
  BY GameTablesAssumption
<1>1. seat \in SeatRows /\ hand \in HandRows
  BY <1>0 DEF Init, NoSeat, Nothing, SeatRows, HandRows, Puts
<1>2. ledger.balance \in [Users -> Nat] /\ \A u \in Users : ledger.balance[u] = StartingCoins
  BY StartingCoinsAssumption DEF Init, NewLedger
<1>3. mem \in [hand : Hands \cup {None}, put : Puts, players : SUBSET Users, folded : SUBSET Users]
  BY DEF Init, NoHand, Nothing, Puts
<1>4. TypeOK
  BY <1>0, <1>1, <1>2, <1>3 DEF Init, NoJoin, TypeOK
<1>5. ~ Live /\ Up /\ leaving = None
  BY DEF Init, NoHand, Live, Up
<1>6. ChipsConserved
  <2>. DEFINE f == [u \in Users |-> Wealth(u)]
  <2>1. \A u \in Users : Stack(u) = 0 /\ StakeOf(hand, u) = 0
    <3>1. ASSUME NEW u \in Users PROVE Stack(u) = 0
      BY DEF Init, NoSeat, Stack, Seated
    <3>2. ASSUME NEW u \in Users PROVE StakeOf(hand, u) = 0
      <4>1. \A h \in Hands : StakedIn(hand, u)[h] = 0
        BY DEF Init, StakedIn, Held
      <4>2. StakeOf(hand, u) = 0 * Cardinality(Hands) /\ Cardinality(Hands) \in Nat
        BY <4>1, SumConst, FS_CardinalityType, GameTablesAssumption DEF StakeOf
      <4>. QED BY <4>2
    <3>. QED BY <3>1, <3>2
  <2>2. \A u \in Users : f[u] = StartingCoins
    BY <1>2, <1>4, <2>1, WealthFacts, StartingCoinsAssumption
  <2>3. SumFunction(f) = SumFunctionOnSet(f, Users)
    BY DEF SumFunction
  <2>4. ChipsConserved <=> SumFunction(f) = Cardinality(Users) * StartingCoins
    BY DEF ChipsConserved, Wealth
  <2>. HIDE DEF f
  <2>5. SumFunctionOnSet(f, Users) = StartingCoins * Cardinality(Users)
    BY <2>2, SumConst, UsersAssumption, StartingCoinsAssumption
  <2>6. StartingCoins * Cardinality(Users) = Cardinality(Users) * StartingCoins
    BY StartingCoinsAssumption, UsersAssumption, FS_CardinalityType
  <2>. QED BY <2>3, <2>4, <2>5, <2>6
<1>. QED BY <1>4, <1>5, <1>6 DEF IInv, Insured, PlayersSit, DownHasNone

(* Every variable stays in its type, whatever the faults: no stack and no   *)
(* balance falls below zero.                                                *)
THEOREM TypeCorrect == Spec => []TypeOK
<1>1. Init => TypeOK
  BY InvInit DEF IInv
<1>2. TypeOK /\ [Next]_vars => TypeOK'
  BY TypeStep
<1>. QED BY <1>1, <1>2, PTL DEF Spec

(* The inductive invariant of the chips.                                   *)
THEOREM Invariance ==
  ASSUME NoLostCommit
  PROVE  Spec => []IInv
<1>1. IInv /\ [Next]_vars => IInv'
  <2>. SUFFICES ASSUME IInv, [Next]_vars PROVE IInv'
    OBVIOUS
  <2>1. TypeOK'
    BY TypeStep DEF IInv
  <2>. QED
    BY <2>1, InsuredStep, PlayersSitStep, DownStep, ConservedStep DEF IInv
<1>. QED BY <1>1, InvInit, PTL DEF Spec

(* Coins become chips and chips coins, and none are made or lost, through    *)
(* every interleaving of players, commits that fail, deaths of the process  *)
(* and voids, as long as no answer of a commit is lost.                     *)
THEOREM Conserved ==
  ASSUME NoLostCommit
  PROVE  Spec => []ChipsConserved
<1>1. IInv => ChipsConserved
  BY DEF IInv
<1>. QED BY <1>1, Invariance, PTL

-----------------------------------------------------------------------------
(* That the row is all there is.                                           *)

(* Every open row is the hand in memory, or is about to be voided.         *)
OpenIsKnown ==
  \A h \in Hands : hand[h].status = "OPEN" =>
    /\ Up => mem.hand = h
    /\ process.mode = "boot" => h \in process.todo

(* A commit opens no row but that of the hand in memory.                   *)
LEMMA CommitOpens ==
  ASSUME TypeOK, Live, Up, OpenIsKnown, NEW put \in Puts, NEW folded \in SUBSET Users,
         NEW payouts \in Puts, NEW o \in {"ok", "fail"}, Commit(put, folded, payouts, o),
         process' = process
  PROVE  OpenIsKnown'
<1>0. hand \in HandRows /\ mem.hand \in Hands
  BY DEF TypeOK, Live
<1>1. CASE o = "fail"
  BY <1>1 DEF Commit, OpenIsKnown, Up
<1>2. CASE o = "ok"
  <2>1. /\ \A h \in Hands \ {mem.hand} : hand'[h] = hand[h]
        /\ hand'[mem.hand] = Written(put, payouts)
    BY <1>0, <1>2 DEF Commit, HandRows
  <2>2. \/ payouts # Nothing
        \/ payouts = Nothing /\ mem'.hand = mem.hand
    BY <1>2, CommitMemory
  <2>. QED BY <2>1, <2>2 DEF OpenIsKnown, Up, Written
<1>. QED BY <1>1, <1>2

LEMMA OpenStep ==
  ASSUME Survived, TypeOK, DownHasNone, OpenIsKnown, [Next]_vars
  PROVE  OpenIsKnown'
<1>0. hand \in HandRows /\ process \in [mode : {"up", "down", "boot"}, todo : SUBSET Hands]
  BY DEF TypeOK
<1>1. CASE hand' = hand /\ mem' = mem /\ process' = process
  BY <1>1 DEF OpenIsKnown, Up
<1>2. ASSUME NEW u \in Users, Act(u)
      PROVE  OpenIsKnown'
  <2>1. PICK put \in Puts, folded \in SUBSET Users, payouts \in Puts, o \in Outcomes("commit") :
          Commit(put, folded, payouts, o)
    BY <1>2, ActFacts
  <2>2. Live /\ Up /\ process' = process
    BY <1>2 DEF Act, Queue
  <2>. QED BY <2>1, <2>2, NotLost, CommitOpens DEF Survived
<1>3. ASSUME NEW u \in Users, LeaveFold(u)
      PROVE  OpenIsKnown'
  <2>1. CASE Live /\ u \in Playing
    <3>1. PICK payouts \in Puts, o \in Outcomes("commit") :
            Commit(mem.put, mem.folded \cup {u}, payouts, o)
      BY <1>3, <2>1, FoldFacts
    <3>2. mem.put \in Puts /\ mem.folded \cup {u} \in SUBSET Users
      BY DEF TypeOK
    <3>3. Up /\ process' = process
      BY <1>3 DEF LeaveFold, Queue
    <3>. QED BY <2>1, <3>1, <3>2, <3>3, NotLost, CommitOpens DEF Survived
  <2>2. CASE ~ (Live /\ u \in Playing)
    BY <1>1, <1>3, <2>2 DEF LeaveFold
  <2>. QED BY <2>1, <2>2
<1>4. ASSUME NEW h \in Hands, NEW blinds \in SUBSET Users, StartHand(h, blinds)
      PROVE  OpenIsKnown'
  <2>1. PICK post \in Puts, payouts \in Puts, o \in Outcomes("start"), players \in SUBSET Seated :
          /\ \A u \in Users : post[u] <= seat[u].stack
          /\ IF o = "fail" THEN UNCHANGED <<seat, hand>>
             ELSE /\ hand' = [hand EXCEPT ![h] = Written(post, payouts)]
                  /\ seat' = [u \in Users |->
                                [seat[u] EXCEPT !.stack = @ - post[u] + payouts[u]]]
          /\ mem' = IF o # "ok" \/ payouts # Nothing THEN mem
                    ELSE [hand |-> h, put |-> post, players |-> players, folded |-> {}]
          /\ Count(o)
    BY <1>4, StartFacts
  <2>2. Up /\ process' = process /\ ~ Live
    BY <1>4 DEF StartHand, Queue
  <2>3. o \in {"ok", "fail"}
    BY <2>1 DEF Survived, Outcomes
  <2>4. \A g \in Hands : hand[g].status # "OPEN"
    BY <2>2, GameTablesAssumption DEF OpenIsKnown, Live
  <2>5. CASE o = "fail"
    BY <2>1, <2>4, <2>5 DEF OpenIsKnown
  <2>6. CASE o = "ok"
    <3>1. /\ \A g \in Hands \ {h} : hand'[g].status # "OPEN"
          /\ hand'[h].status = "OPEN" => payouts = Nothing
      BY <1>0, <2>1, <2>4, <2>6 DEF HandRows, Written
    <3>2. payouts = Nothing => mem'.hand = h
      BY <2>1, <2>6
    <3>. QED BY <2>2, <3>1, <3>2 DEF OpenIsKnown, Up
  <2>. QED BY <2>3, <2>5, <2>6
<1>5. CASE Die
  BY <1>5 DEF Die, OpenIsKnown, Up
<1>6. CASE BootRead
  BY <1>6 DEF BootRead, Interrupted, tableVars, OpenIsKnown, Up
<1>7. CASE BootDone
  BY <1>0, <1>7 DEF BootDone, tableVars, OpenIsKnown, Up
<1>8. CASE VoidHand
  <2>1. PICK h \in process.todo, o \in Outcomes("boot") :
          /\ process.mode = "boot"
          /\ IF o # "fail" /\ hand[h].status = "OPEN"
             THEN /\ hand' = [hand EXCEPT ![h].status = "VOIDED"]
                  /\ seat' = [u \in Users |-> IF u \in Seated
                        THEN [seat[u] EXCEPT !.stack = @ + hand[h].put[u]] ELSE seat[u]]
                  /\ ledger'.balance = [u \in Users |-> ledger.balance[u] +
                        (IF u \in Gone(h) THEN hand[h].put[u] ELSE 0)]
             ELSE UNCHANGED <<hand, seat, ledger>>
          /\ process' = [process EXCEPT !.todo = @ \ {h}]
    BY <1>8, VoidFacts, Zenon
  <2>2. o # "fail" /\ h \in Hands
    BY <1>0, <2>1 DEF Survived, Outcomes
  <2>3. /\ \A g \in Hands \ {h} : hand'[g] = hand[g]
        /\ hand'[h].status # "OPEN"
    BY <1>0, <2>1, <2>2 DEF HandRows
  <2>4. process'.mode = "boot" /\ process'.todo = process.todo \ {h}
    BY <1>0, <2>1
  <2>. QED BY <2>1, <2>3, <2>4 DEF OpenIsKnown, Up
<1>9. CASE UNCHANGED vars
  BY <1>1, <1>9 DEF vars, tableVars
<1>. QED
  BY <1>1, <1>2, <1>3, <1>4, <1>5, <1>6, <1>7, <1>8, <1>9
     DEF Next, JoinRead, JoinCommit, CashOut, CloseRead, CloseCommit, tableVars

(* What the row insures is exactly what the hand in memory has taken in,     *)
(* and no chips are out of play: a restart gives back all of it and nothing *)
(* else.                                                                    *)
THEOREM RowInsures ==
  ASSUME Survived
  PROVE  Spec => []RowInsuresMemory
<1>1. NoLostCommit
  BY DEF Survived
<1>2. Init => OpenIsKnown
  BY DEF Init, OpenIsKnown
<1>3. IInv /\ OpenIsKnown /\ [Next]_vars => OpenIsKnown'
  BY OpenStep DEF IInv
<1>4. IInv /\ OpenIsKnown => RowInsuresMemory
  BY DEF IInv, Insured, OpenIsKnown, RowInsuresMemory
<1>. QED BY <1>1, <1>2, <1>3, <1>4, Invariance, PTL DEF Spec

-----------------------------------------------------------------------------
(* The tables implement the coin ledger.                                   *)

(* The refunds in the journal are those of hands that are voided, and the   *)
(* hand in memory is none of them.                                         *)
VoidsBooked == \A r \in ledger.rows :
  r.kind = "GAME_REFUND" => r.ref \in Hands /\ hand[r.ref].status = "VOIDED"
LiveIsNotVoid == Live => hand[mem.hand].status # "VOIDED"

(* A commit touches the hand in memory only, and voids nothing.            *)
LEMMA CommitVoidsNothing ==
  ASSUME TypeOK, Live, LiveIsNotVoid, NEW put \in Puts, NEW folded \in SUBSET Users,
         NEW payouts, NEW o, Commit(put, folded, payouts, o)
  PROVE  /\ \A h \in Hands : hand[h].status = "VOIDED" => hand'[h].status = "VOIDED"
         /\ LiveIsNotVoid'
<1>0. hand \in HandRows /\ mem.hand \in Hands
  BY DEF TypeOK, Live
<1>1. CASE hand' = hand
  BY <1>1, CommitMemory DEF LiveIsNotVoid, Live
<1>2. CASE hand' # hand
  <2>1. /\ \A h \in Hands \ {mem.hand} : hand'[h] = hand[h]
        /\ hand'[mem.hand] = Written(put, payouts)
    BY <1>0, <1>2 DEF Commit, HandRows
  <2>2. hand'[mem.hand].status # "VOIDED"
    BY <2>1 DEF Written
  <2>3. hand[mem.hand].status # "VOIDED"
    BY DEF LiveIsNotVoid
  <2>. QED BY <2>1, <2>2, <2>3, CommitMemory DEF LiveIsNotVoid, Live
<1>. QED BY <1>1, <1>2

LEMMA VoidedStays ==
  ASSUME TypeOK, DownHasNone, LiveIsNotVoid, [Next]_vars
  PROVE  /\ \A h \in Hands : hand[h].status = "VOIDED" => hand'[h].status = "VOIDED"
         /\ LiveIsNotVoid'
<1>. DEFINE Stays == /\ \A h \in Hands : hand[h].status = "VOIDED" => hand'[h].status = "VOIDED"
                     /\ LiveIsNotVoid'
<1>0. hand \in HandRows /\ process \in [mode : {"up", "down", "boot"}, todo : SUBSET Hands]
  BY DEF TypeOK
<1>1. CASE hand' = hand /\ mem' = mem
  BY <1>1 DEF LiveIsNotVoid, Live
<1>2. ASSUME NEW u \in Users, Act(u)
      PROVE  Stays
  <2>1. PICK put \in Puts, folded \in SUBSET Users, payouts \in Puts, o \in Outcomes("commit") :
          Commit(put, folded, payouts, o)
    BY <1>2, ActFacts
  <2>2. Live
    BY <1>2 DEF Act
  <2>. QED BY <2>1, <2>2, CommitVoidsNothing
<1>3. ASSUME NEW u \in Users, LeaveFold(u)
      PROVE  Stays
  <2>1. CASE Live /\ u \in Playing
    <3>1. PICK payouts \in Puts, o \in Outcomes("commit") :
            Commit(mem.put, mem.folded \cup {u}, payouts, o)
      BY <1>3, <2>1, FoldFacts
    <3>2. mem.put \in Puts /\ mem.folded \cup {u} \in SUBSET Users
      BY DEF TypeOK
    <3>. QED BY <2>1, <3>1, <3>2, CommitVoidsNothing
  <2>2. CASE ~ (Live /\ u \in Playing)
    BY <1>1, <1>3, <2>2 DEF LeaveFold
  <2>. QED BY <2>1, <2>2
<1>4. ASSUME NEW h \in Hands, NEW blinds \in SUBSET Users, StartHand(h, blinds)
      PROVE  Stays
  <2>1. PICK post \in Puts, payouts \in Puts, o \in Outcomes("start"), players \in SUBSET Seated :
          /\ \A u \in Users : post[u] <= seat[u].stack
          /\ IF o = "fail" THEN UNCHANGED <<seat, hand>>
             ELSE /\ hand' = [hand EXCEPT ![h] = Written(post, payouts)]
                  /\ seat' = [u \in Users |->
                                [seat[u] EXCEPT !.stack = @ - post[u] + payouts[u]]]
          /\ mem' = IF o # "ok" \/ payouts # Nothing THEN mem
                    ELSE [hand |-> h, put |-> post, players |-> players, folded |-> {}]
          /\ Count(o)
    BY <1>4, StartFacts
  <2>2. ~ Live /\ hand[h].status = "NONE"
    BY <1>4 DEF StartHand
  <2>3. CASE o = "fail"
    BY <1>1, <2>1, <2>3
  <2>4. CASE o # "fail"
    <3>1. /\ \A g \in Hands \ {h} : hand'[g] = hand[g]
          /\ hand'[h].status # "VOIDED"
      BY <1>0, <2>1, <2>4 DEF HandRows, Written
    <3>2. mem' = mem \/ mem'.hand = h
      BY <2>1
    <3>. QED BY <2>2, <3>1, <3>2 DEF LiveIsNotVoid, Live
  <2>. QED BY <2>3, <2>4
<1>5. CASE Die
  BY <1>5 DEF Die, NoHand, tableVars, LiveIsNotVoid, Live
<1>6. CASE VoidHand
  <2>1. PICK h \in process.todo : hand' = [hand EXCEPT ![h].status = "VOIDED"] \/ hand' = hand
    BY <1>6, VoidFacts, Zenon
  <2>2. ~ Live /\ mem' = mem
    BY <1>6 DEF VoidHand, DownHasNone, Up
  <2>3. \A g \in Hands : hand[g].status = "VOIDED" => hand'[g].status = "VOIDED"
    BY <1>0, <2>1 DEF HandRows
  <2>. QED BY <2>2, <2>3 DEF LiveIsNotVoid, Live
<1>7. CASE UNCHANGED vars
  BY <1>1, <1>7 DEF vars, tableVars
<1>. QED
  BY <1>1, <1>2, <1>3, <1>4, <1>5, <1>6, <1>7
     DEF Next, JoinRead, JoinCommit, CashOut, CloseRead, CloseCommit, BootRead, BootDone,
         tableVars

(* What a void makes of the ledger.                                        *)
VoidOf(h) ==
  /\ hand' = [hand EXCEPT ![h].status = "VOIDED"]
  /\ ledger'.rows = ledger.rows \cup {Row(u, "GAME_REFUND", h, hand[h].put[u]) : u \in Gone(h)}
  /\ ledger'.balance = [u \in Users |-> ledger.balance[u] +
                          (IF u \in Gone(h) THEN hand[h].put[u] ELSE 0)]

LEMMA VoidBooks ==
  ASSUME TypeOK, VoidHand
  PROVE  \/ ledger' = ledger
         \/ \E h \in Hands : hand[h].status = "OPEN" /\ VoidOf(h)
<1>1. PICK h \in process.todo, o \in Outcomes("boot") :
        IF o # "fail" /\ hand[h].status = "OPEN"
        THEN /\ hand' = [hand EXCEPT ![h].status = "VOIDED"]
             /\ ledger' =
                  [balance |-> [u \in Users |-> ledger.balance[u] +
                                  (IF u \in Gone(h) THEN hand[h].put[u] ELSE 0)],
                   rows |-> ledger.rows \cup
                            {Row(u, "GAME_REFUND", h, hand[h].put[u]) : u \in Gone(h)}]
        ELSE ledger' = ledger
  BY DEF VoidHand
<1>2. h \in Hands
  BY DEF TypeOK
<1>3. CASE o # "fail" /\ hand[h].status = "OPEN"
  <2>1. VoidOf(h)
    BY <1>1, <1>3 DEF VoidOf
  <2>. QED BY <1>2, <1>3, <2>1
<1>. QED BY <1>1, <1>3

(* A void refunds under keys that are free.                                *)
LEMMA VoidPosts ==
  ASSUME TypeOK, VoidsBooked, Booked(ledger), NEW h \in Hands, hand[h].status = "OPEN", VoidOf(h)
  PROVE  Settles(ledger, ledger')
<1>. DEFINE U == Gone(h)
            amount == [u \in U |-> hand[h].put[u]]
            ref == [u \in U |-> h]
<1>1. U \subseteq Users
  BY DEF Gone
<1>2. \A u \in U : amount[u] \in Nat /\ ref[u] = h
  BY <1>1 DEF TypeOK, HandRows, Puts
<1>3. \A u \in U : Fresh(ledger, u, "GAME_REFUND", h)
  BY DEF VoidsBooked, Fresh
<1>4. {Row(u, "GAME_REFUND", ref[u], amount[u]) : u \in U}
        = {Row(u, "GAME_REFUND", h, hand[h].put[u]) : u \in Gone(h)}
  OBVIOUS
<1>5. ForEach(ledger, ledger', U, amount, "GAME_REFUND", ref)
  <2>1. ledger'.rows = ledger.rows \cup {Row(u, "GAME_REFUND", ref[u], amount[u]) : u \in U}
    BY <1>4 DEF VoidOf
  <2>2. ledger'.balance = [u \in Users |-> ledger.balance[u] + IF u \in U THEN amount[u] ELSE 0]
    BY DEF VoidOf
  <2>. HIDE DEF U, amount, ref
  <2>. QED BY <1>1, <2>1, <2>2 DEF ForEach
<1>6. \A u \in U : amount[u] \in Nat /\ Fresh(ledger, u, "GAME_REFUND", ref[u])
  BY <1>2, <1>3
<1>. HIDE DEF U, amount, ref
<1>. QED BY <1>5, <1>6, ForEachPosts DEF Settles

LEMMA LedgerPosts ==
  ASSUME NEW L, NEW K
  PROVE  Posts(L, K) => Ledger!Posts([balance |-> L.balance, rows |-> L.rows],
                                     [balance |-> K.balance, rows |-> K.rows])
<1>1. ASSUME NEW f, NEW S PROVE Ledger!SumFunctionOnSet(f, S) = SumFunctionOnSet(f, S)
  <2>1. Ledger!SumFunctionOnSet(f, S) = PartialSums(f, S)[S]
    BY DEF Ledger!SumFunctionOnSet, Ledger!FoldFunctionOnSet, Ledger!MapThenFoldSet,
           PartialSums, Defines, Chosen
  <2>. QED BY <2>1, SumIsPartialSum
<1>2. ASSUME NEW rows, NEW u PROVE Ledger!SumDelta(rows, u) = SumDelta(rows, u)
  BY <1>1 DEF Ledger!SumDelta, SumDelta
<1>. QED BY <1>2 DEF Ledger!Posts, Posts, Ledger!KeysUnique, KeysUnique

(* A step posts to the ledger or leaves it alone.                          *)
LEMMA LedgerStep ==
  ASSUME TypeOK, VoidsBooked, Booked(ledger), [Next]_vars
  PROVE  Settles(ledger, ledger')
<1>1. CASE ledger' = ledger
  BY <1>1 DEF Settles
<1>2. ASSUME NEW u \in Users, JoinCommit(u)
      PROVE  Settles(ledger, ledger')
  <2>. DEFINE n == join[u].buyIn
  <2>1. \/ ledger' = ledger
        \/ \E id \in SeatIds : /\ CanCharge(ledger, u, n, "GAME_BUYIN", id)
                               /\ ledger' = Charge(ledger, u, n, "GAME_BUYIN", id)
    BY <1>2 DEF JoinCommit
  <2>2. n \in Nat
    <3>1. n \in BuyIns \cup {0}
      BY DEF TypeOK
    <3>2. BuyIns \cup {0} \subseteq Nat
      BY GameTablesAssumption
    <3>. QED BY <3>1, <3>2
  <2>. HIDE DEF n
  <2>. QED BY <1>1, <2>1, <2>2, ChargePosts
<1>3. ASSUME NEW u \in Users, CashOut(u)
      PROVE  Settles(ledger, ledger')
  <2>. DEFINE n == seat[u].stack
              id == seat[u].id
  <2>1. \/ ledger' = ledger
        \/ /\ CanCredit(ledger, u, n, "GAME_CASHOUT", id)
           /\ ledger' = Credit(ledger, u, n, "GAME_CASHOUT", id)
    BY <1>3 DEF CashOut
  <2>2. n \in Nat
    BY DEF TypeOK, SeatRows
  <2>. HIDE DEF n, id
  <2>. QED BY <1>1, <2>1, <2>2, CreditPosts
<1>4. CASE VoidHand
  BY <1>1, <1>4, VoidBooks, VoidPosts
<1>. QED
  BY <1>1, <1>2, <1>3, <1>4
     DEF Next, JoinRead, Act, LeaveFold, StartHand, CloseRead, CloseCommit, Die, BootRead,
         BootDone, tableVars, vars

(* The refunds stay those of voided hands.                                 *)
LEMMA VoidsBookedStep ==
  ASSUME TypeOK, DownHasNone, LiveIsNotVoid, VoidsBooked, [Next]_vars
  PROVE  VoidsBooked'
<1>0. \A h \in Hands : hand[h].status = "VOIDED" => hand'[h].status = "VOIDED"
  BY VoidedStays
<1>1. ASSUME \A r \in ledger'.rows : r \in ledger.rows \/ r.kind # "GAME_REFUND"
      PROVE  VoidsBooked'
  BY <1>0, <1>1 DEF VoidsBooked
<1>2. CASE ledger' = ledger
  BY <1>1, <1>2
<1>3. ASSUME NEW u \in Users, JoinCommit(u)
      PROVE  VoidsBooked'
  <2>1. \/ ledger' = ledger
        \/ \E id \in SeatIds : ledger' = Charge(ledger, u, join[u].buyIn, "GAME_BUYIN", id)
    BY <1>3 DEF JoinCommit
  <2>. QED BY <1>1, <2>1 DEF Charge, Move, Row
<1>4. ASSUME NEW u \in Users, CashOut(u)
      PROVE  VoidsBooked'
  <2>1. \/ ledger' = ledger
        \/ ledger' = Credit(ledger, u, seat[u].stack, "GAME_CASHOUT", seat[u].id)
    BY <1>4 DEF CashOut
  <2>. QED BY <1>1, <2>1 DEF Credit, Move, Row
<1>5. ASSUME NEW h \in Hands, VoidOf(h)
      PROVE  VoidsBooked'
  <2>1. hand'[h].status = "VOIDED"
    BY <1>5 DEF VoidOf, TypeOK, HandRows
  <2>2. \A r \in ledger'.rows : r \in ledger.rows \/ r.ref = h
    BY <1>5 DEF VoidOf, Row
  <2>. QED BY <1>0, <2>1, <2>2 DEF VoidsBooked
<1>. QED
  BY <1>2, <1>3, <1>4, <1>5, VoidBooks
     DEF Next, JoinRead, Act, LeaveFold, StartHand, CloseRead, CloseCommit, Die, BootRead,
         BootDone, tableVars, vars

(* The tables implement the coin ledger, lost answers and all: whatever      *)
(* fails, balances are the journal, and no event has two rows.             *)
THEOREM ImplementsLedger == Spec => CoinLedgerSpec
<1>. DEFINE I == TypeOK /\ DownHasNone /\ LiveIsNotVoid /\ VoidsBooked /\ Booked(ledger)
<1>1. Init => ledger = NewLedger /\ I
  BY NewIsBooked, InvInit DEF Init, IInv, NoHand, Live, LiveIsNotVoid, VoidsBooked, NewLedger
<1>2. I /\ [Next]_vars => I' /\ [Ledger!Post]_<<ledger.balance, ledger.rows>>
  <2>. SUFFICES ASSUME TypeOK, DownHasNone, LiveIsNotVoid, VoidsBooked, Booked(ledger),
                       [Next]_vars
                PROVE  I' /\ [Ledger!Post]_<<ledger.balance, ledger.rows>>
    OBVIOUS
  <2>1. Settles(ledger, ledger')
    BY LedgerStep
  <2>2. TypeOK' /\ DownHasNone' /\ LiveIsNotVoid' /\ VoidsBooked'
    BY TypeStep, DownStep, VoidedStays, VoidsBookedStep
  <2>3. Booked(ledger)' /\ [Ledger!Post]_<<ledger.balance, ledger.rows>>
    BY <2>1, LedgerPosts DEF Ledger!Post, Settles
  <2>. QED BY <2>2, <2>3
<1>3. ledger = NewLedger => Ledger!Init
  BY DEF Ledger!Init, NewLedger
<1>. QED BY <1>1, <1>2, <1>3, PTL DEF Spec, CoinLedgerSpec, Ledger!Spec

==============================================================================
