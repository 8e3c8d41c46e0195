------------------------------ MODULE RaceProofs -------------------------------
(***************************************************************************)
(* Proofs about the races and about the battle pass they award in.          *)
(*                                                                         *)
(* Race, for any people, races, stakes, slots and failures: the types, that  *)
(* memory and rows tell the same races, that a race only goes forward, and  *)
(* that every stake is accounted for.                                       *)
(*                                                                         *)
(* PassPage, for any people, tabs, transactions and prices, below: an event *)
(* counts once, a level and a day are paid once and as they should be.      *)
(***************************************************************************)
EXTENDS Race, PassPage, SumTheorems

(* The inductive invariant.  A slot is free, or a person or a bot has it,   *)
(* and nobody has two.                                                     *)
KindOf(e) == \/ e = Free
             \/ (e.user # None /\ ~ e.bot)
             \/ (e.user = None /\ e.bot)
OneEach(entries) ==
  \A s, t \in Slots : (entries[s].user = entries[t].user /\ entries[s].user # None) => s = t
Seating(entries) == OneEach(entries) /\ \A s \in Slots : KindOf(entries[s])

(* A row by its status: what it costs, what is full, and that at most one    *)
(* person has won.                                                         *)
NothingWon(row) == \A s \in Slots : row.entries[s].won = 0
OneWon(row) ==
  \E w \in Slots :
    /\ \A s \in Slots \ {w} : row.entries[s].won = 0
    /\ row.entries[w].won \in {0, row.stake * Cardinality(Slots)}
    /\ row.entries[w].user = None => row.entries[w].won = 0
RowOK(row) ==
  /\ Seating(row.entries)
  /\ row.status = "none" => row = NoRound
  /\ row.status \in {"open", "started", "finished"} => row.stake \in Stakes
  /\ row.status \in {"started", "finished"} => TakenIn(row.entries) = Slots
  /\ row.status # "finished" => NothingWon(row)
  /\ row.status = "finished" => OneWon(row)
RowsOK == \A r \in Races : RowOK(round[r])

(* A race in memory and its row.                                           *)
Match(row, me) ==
  /\ me.phase = "none" => me = NoRec
  /\ me.phase = "lobby" => row.status = "open" /\ me.entries = row.entries /\ me.stake = row.stake
  /\ me.phase = "running" =>
       row.status = "started" /\ me.entries = row.entries /\ me.stake = row.stake
  /\ me.phase = "over" =>
       /\ me.winner \in Slots
       /\ \/ (row.status = "started" /\ me.entries = row.entries)
          \/ row.status = "finished"
  /\ me.phase = "finished" => row.status = "finished"
Matches == \A r \in Races : Match(round[r], rec[r])

(* A process that does not serve has nothing in memory.                    *)
Idle ==
  process.mode # "up" =>
    /\ \A r \in Races : rec[r] = NoRec
    /\ \A u \in Users : seat[u] = None
    /\ \A k \in Stakes : lobby[k] = None
    /\ starting = None

(* Where one is: in one live race, or in none.                             *)
Alive(me) == me.phase \in {"lobby", "running", "over"}
IsIn(me, u) == Alive(me) /\ u \in HumansIn(me.entries)
Seats == \A u \in Users, r \in Races : IsIn(rec[r], u) <=> seat[u] = r

(* A race that gathers has a place left.                                   *)
Gathers(me, k) == me.phase = "lobby" /\ me.stake = k /\ TakenIn(me.entries) # Slots
Lobbies == \A k \in Stakes : lobby[k] # None => Gathers(rec[lobby[k]], k)

(* What is not finished is in memory, or waits to be voided, or could not be. *)
Unfinished(r) == round[r].status \in {"open", "started"}
Expected(r) == \/ r \in process.skipped
               \/ (process.mode = "up" /\ Alive(rec[r]))
               \/ (process.mode = "booting" /\ r \in process.open)
               \/ process.mode = "down"
OpenIsKnown == \A r \in Races : Unfinished(r) => Expected(r)
VoidsOpen == process.mode = "booting" => \A r \in process.open : Unfinished(r)

(* What the journal has of a person for a race is what the row says.        *)
RowsOfRace(rows, u, r) == {x \in rows : x.user = u /\ x.ref[1] = "race" /\ x.ref[2] = r}
StakeIn(row, u) == IF u \in HumansIn(row.entries) THEN row.stake ELSE 0
WonIn(row, u) == IF StakeIn(row, u) = 0 THEN 0 ELSE row.entries[SlotOf(row.entries, u)].won
Due(row, u) == CASE row.status \in {"open", "started"} -> - StakeIn(row, u)
                 [] row.status = "finished" -> WonIn(row, u) - StakeIn(row, u)
                 [] OTHER -> 0
Accounted == \A r \in Races, u \in Users : SumOf(RowsOfRace(ledger.rows, u, r)) = Due(round[r], u)
Whole == \A x \in ledger.rows : x.delta \in Int

IInv == /\ TypeOK /\ Whole
        /\ RowsOK /\ Matches /\ Idle /\ Seats /\ Lobbies /\ OpenIsKnown /\ VoidsOpen
        /\ Accounted

-----------------------------------------------------------------------------
(* Lemmas on the places of a race.                                         *)

(* A set of naturals that is not empty has a least element.                *)
LEMMA MinIsIn ==
  ASSUME NEW S \in SUBSET Nat, S # {}
  PROVE  /\ Min(S) \in S
         /\ \E x \in S : \A y \in S : x <= y
<1>1. PICK x \in S : \A y \in S : ~ (<<y, x>> \in OpToRel(<, Nat))
  BY NatLessThanWellFounded, WFMin
<1>2. \A y \in S : ~ (y < x)
  BY <1>1 DEF OpToRel
<1>3. \A y \in S : x <= y
  BY <1>2
<1>. QED BY <1>3 DEF Min

Places == [Slots -> Entries]

LEMMA SlotsAreNat == Slots \subseteq Nat /\ Cardinality(Slots) \in Nat /\ Cardinality(Slots) > 0
<1>1. Cardinality(Slots) \in Nat
  BY RaceAssumption, FS_CardinalityType
<1>. QED BY <1>1, RaceAssumption, FS_EmptySet

LEMMA FreeIsEntry ==
  /\ Free \in Entries /\ Free.user = None /\ Free.bot = FALSE /\ Free.won = 0
  /\ Bot \in Entries /\ Bot.user = None /\ Bot.bot = TRUE /\ Bot.won = 0 /\ Bot # Free
  /\ Empty \in Places /\ Seating(Empty) /\ TakenIn(Empty) = {} /\ HumansIn(Empty) = {}
<1>1. Free \in Entries /\ Free.user = None /\ Free.bot = FALSE /\ Free.won = 0
  BY RaceAssumption DEF Free, Entries
<1>2. Bot \in Entries /\ Bot.user = None /\ Bot.bot = TRUE /\ Bot.won = 0 /\ Bot # Free
  BY <1>1 DEF Bot, Entries
<1>3. Empty \in Places /\ \A s \in Slots : Empty[s] = Free
  BY <1>1 DEF Empty, Places
<1>4. Seating(Empty) /\ TakenIn(Empty) = {} /\ HumansIn(Empty) = {}
  BY <1>1, <1>3 DEF Seating, OneEach, KindOf, TakenIn, HumansIn
<1>. QED BY <1>1, <1>2, <1>3, <1>4

(* Who is in a race has a slot of it, and one only.                        *)
LEMMA SlotOfOne ==
  ASSUME NEW es \in Places, Seating(es), NEW u \in Users, u \in HumansIn(es)
  PROVE  /\ SlotOf(es, u) \in Slots /\ es[SlotOf(es, u)].user = u
         /\ es[SlotOf(es, u)] # Free
         /\ \A s \in Slots : es[s].user = u => s = SlotOf(es, u)
<1>1. \E s \in Slots : es[s].user = u
  BY DEF HumansIn
<1>2. SlotOf(es, u) \in Slots /\ es[SlotOf(es, u)].user = u
  BY <1>1 DEF SlotOf
<1>3. u # None
  BY RaceAssumption
<1>. QED BY <1>2, <1>3, FreeIsEntry DEF Seating, OneEach

(* Somebody takes a free slot.                                             *)
LEMMA PutIn ==
  ASSUME NEW es \in Places, Seating(es), NEW slot \in Slots \ TakenIn(es),
         NEW u \in Users, u \notin HumansIn(es), NEW at \in 0 .. MaxTime
  PROVE  LET fs == [es EXCEPT ![slot] = Entry(u, at)] IN
         /\ fs \in Places /\ Seating(fs)
         /\ TakenIn(fs) = TakenIn(es) \cup {slot} /\ HumansIn(fs) = HumansIn(es) \cup {u}
         /\ fs[slot].won = 0 /\ \A s \in Slots \ {slot} : fs[s] = es[s]
<1>. DEFINE fs == [es EXCEPT ![slot] = Entry(u, at)]
<1>1. /\ Entry(u, at) \in Entries /\ Entry(u, at).user = u /\ ~ Entry(u, at).bot
      /\ Entry(u, at).won = 0 /\ u # None
  BY RaceAssumption DEF Entry, Free, Entries
<1>2. Entry(u, at) # Free
  BY <1>1, FreeIsEntry
<1>3. es[slot] = Free
  BY DEF TakenIn
<1>4. fs \in Places /\ fs[slot] = Entry(u, at) /\ \A s \in Slots \ {slot} : fs[s] = es[s]
  BY <1>1 DEF Places
<1>. HIDE DEF fs
<1>5. TakenIn(fs) = TakenIn(es) \cup {slot}
  BY <1>2, <1>4 DEF TakenIn
<1>6. HumansIn(fs) = HumansIn(es) \cup {u}
  BY <1>1, <1>3, <1>4, FreeIsEntry DEF HumansIn
<1>7. Seating(fs)
  <2>1. \A s \in Slots \ {slot} : es[s].user # u
    BY <1>1 DEF HumansIn
  <2>. QED BY <1>1, <1>4, <2>1 DEF Seating, OneEach, KindOf
<1>. QED BY <1>1, <1>4, <1>5, <1>6, <1>7 DEF fs

(* Somebody leaves a slot.                                                 *)
LEMMA TakeOut ==
  ASSUME NEW es \in Places, Seating(es), NEW u \in Users, u \in HumansIn(es)
  PROVE  LET slot == SlotOf(es, u)
             fs == [es EXCEPT ![slot] = Free] IN
         /\ slot \in TakenIn(es)
         /\ fs \in Places /\ Seating(fs) /\ slot \notin TakenIn(fs)
         /\ HumansIn(fs) = HumansIn(es) \ {u}
         /\ fs[slot].won = 0 /\ \A s \in Slots \ {slot} : fs[s] = es[s]
<1>. DEFINE slot == SlotOf(es, u)
            fs == [es EXCEPT ![slot] = Free]
<1>1. /\ slot \in Slots /\ es[slot].user = u /\ es[slot] # Free
      /\ \A s \in Slots : es[s].user = u => s = slot
  BY SlotOfOne
<1>2. u # None
  BY RaceAssumption
<1>. HIDE DEF slot
<1>4. fs \in Places /\ fs[slot] = Free /\ \A s \in Slots \ {slot} : fs[s] = es[s]
  BY <1>1, FreeIsEntry DEF Places
<1>. HIDE DEF fs
<1>5. slot \notin TakenIn(fs) /\ slot \in TakenIn(es)
  BY <1>1, <1>4 DEF TakenIn
<1>6. HumansIn(fs) = HumansIn(es) \ {u}
  BY <1>1, <1>2, <1>4, FreeIsEntry DEF HumansIn
<1>7. Seating(fs)
  BY <1>1, <1>4, FreeIsEntry DEF Seating, OneEach, KindOf
<1>. QED BY <1>4, <1>5, <1>6, <1>7, FreeIsEntry DEF fs, slot

(* Bots take the slots that are free.                                      *)
LEMMA BotsIn ==
  ASSUME NEW es \in Places, Seating(es)
  PROVE  LET fs == WithBots(es) IN
         /\ fs \in Places /\ Seating(fs) /\ TakenIn(fs) = Slots /\ HumansIn(fs) = HumansIn(es)
         /\ \A s \in Slots : fs[s].user = es[s].user /\ fs[s].won = es[s].won /\ fs[s].at = es[s].at
<1>. DEFINE fs == WithBots(es)
<1>1. fs \in Places /\ \A s \in Slots : fs[s] = IF es[s] = Free THEN Bot ELSE es[s]
  BY FreeIsEntry DEF WithBots, Places
<1>. HIDE DEF fs
<1>2. \A s \in Slots : fs[s].user = es[s].user /\ fs[s].won = es[s].won /\ fs[s] # Free
  BY <1>1, FreeIsEntry
<1>3. \A s \in Slots : fs[s].at = es[s].at
  BY <1>1 DEF Free, Bot
<1>4. TakenIn(fs) = Slots /\ HumansIn(fs) = HumansIn(es)
  BY <1>2 DEF TakenIn, HumansIn
<1>5. Seating(fs)
  BY <1>1, <1>2, FreeIsEntry DEF Seating, OneEach, KindOf
<1>. QED BY <1>1, <1>2, <1>3, <1>4, <1>5 DEF fs

-----------------------------------------------------------------------------
(* Lemmas on the journal.                                                  *)

WholeRows(rows) == IsFiniteSet(rows) /\ \A x \in rows : x.delta \in Int

LEMMA SumOfType ==
  ASSUME NEW rows, WholeRows(rows)
  PROVE  SumOf(rows) = SumFunctionOnSet([x \in rows |-> x.delta], rows) /\ SumOf(rows) \in Int
<1>1. SumOf(rows) = SumFunctionOnSet([x \in rows |-> x.delta], rows)
  BY DEF SumOf, SumFunction
<1>2. \A x \in rows : [y \in rows |-> y.delta][x] \in Int
  BY DEF WholeRows
<1>. QED BY <1>1, <1>2, SumType DEF WholeRows

LEMMA SumOfAdd ==
  ASSUME NEW rows, WholeRows(rows), NEW x, x \notin rows, x.delta \in Int
  PROVE  WholeRows(rows \cup {x}) /\ SumOf(rows \cup {x}) = SumOf(rows) + x.delta
<1>. DEFINE f == [y \in rows |-> y.delta]
            all == rows \cup {x}
            g == [y \in all |-> y.delta]
<1>1. WholeRows(all) /\ IsFiniteSet(rows)
  BY FS_AddElement DEF WholeRows
<1>2. \A y \in all : g[y] \in Int
  BY <1>1 DEF WholeRows
<1>3. g[x] = x.delta /\ \A y \in rows : g[y] = f[y]
  OBVIOUS
<1>4. SumOf(all) = SumFunctionOnSet(g, all) /\ SumOf(rows) = SumFunctionOnSet(f, rows)
  BY <1>1, SumOfType
<1>. HIDE DEF f, g
<1>5. SumFunctionOnSet(g, rows) = SumFunctionOnSet(f, rows)
  BY <1>1, <1>3, SumSame
<1>6. SumFunctionOnSet(g, all) = g[x] + SumFunctionOnSet(g, rows)
  BY <1>1, <1>2, SumAdd
<1>7. SumOf(rows) \in Int
  BY SumOfType
<1>. QED BY <1>1, <1>3, <1>4, <1>5, <1>6, <1>7

(* A row that is new counts for its user and its race only.                *)
LEMMA OneRow ==
  ASSUME NEW rows, WholeRows(rows), NEW x, x \notin rows, x.delta \in Int, x.ref[1] = "race",
         NEW u, NEW r
  PROVE  SumOf(RowsOfRace(rows \cup {x}, u, r)) =
           SumOf(RowsOfRace(rows, u, r)) + (IF x.user = u /\ x.ref[2] = r THEN x.delta ELSE 0)
<1>. DEFINE old == RowsOfRace(rows, u, r)
<1>1. old \subseteq rows
  BY DEF RowsOfRace
<1>2. WholeRows(old)
  BY <1>1, FS_Subset DEF WholeRows
<1>3. RowsOfRace(rows \cup {x}, u, r) = IF x.user = u /\ x.ref[2] = r THEN old \cup {x} ELSE old
  BY DEF RowsOfRace
<1>. HIDE DEF old
<1>4. SumOf(old) \in Int
  BY <1>2, SumOfType
<1>5. SumOf(old \cup {x}) = SumOf(old) + x.delta
  BY <1>1, <1>2, SumOfAdd
<1>. QED BY <1>3, <1>4, <1>5 DEF old

Books(L) == L.balance \in [Users -> Nat] /\ WholeRows(L.rows)

(* What a movement changes in the accounts of the races.                   *)
Moves(L, N, u, r, delta) ==
  \A v \in Users, q \in Races :
    SumOf(RowsOfRace(N.rows, v, q)) =
      SumOf(RowsOfRace(L.rows, v, q)) + (IF v = u /\ q = r THEN delta ELSE 0)

LEMMA MoveOne ==
  ASSUME NEW L, Books(L), NEW u \in Users, NEW delta \in Int, L.balance[u] + delta >= 0,
         NEW kind, NEW ref, ref[1] = "race", Fresh(L, u, kind, ref)
  PROVE  Books(Move(L, u, delta, kind, ref)) /\ Moves(L, Move(L, u, delta, kind, ref), u, ref[2], delta)
<1>. DEFINE x == Row(u, kind, ref, delta)
            N == Move(L, u, delta, kind, ref)
<1>1. x.user = u /\ x.kind = kind /\ x.ref = ref /\ x.delta = delta
  BY DEF Row
<1>2. x \notin L.rows
  BY <1>1 DEF Fresh
<1>3. N.rows = L.rows \cup {x} /\ N.balance = [L.balance EXCEPT ![u] = @ + delta]
  BY DEF Move
<1>. HIDE DEF x, N
<1>4. N.balance \in [Users -> Nat]
  BY <1>3 DEF Books
<1>5. WholeRows(N.rows)
  BY <1>1, <1>2, <1>3, SumOfAdd DEF Books
<1>6. ASSUME NEW v \in Users, NEW q \in Races
      PROVE  SumOf(RowsOfRace(N.rows, v, q)) =
               SumOf(RowsOfRace(L.rows, v, q)) + (IF v = u /\ q = ref[2] THEN delta ELSE 0)
  <2>1. SumOf(RowsOfRace(L.rows \cup {x}, v, q)) =
          SumOf(RowsOfRace(L.rows, v, q)) + (IF x.user = v /\ x.ref[2] = q THEN x.delta ELSE 0)
    BY <1>1, <1>2, OneRow DEF Books
  <2>. QED BY <1>1, <1>3, <2>1
<1>. QED BY <1>4, <1>5, <1>6 DEF Books, Moves, N

LEMMA ChargeOne ==
  ASSUME NEW L, Books(L), NEW u \in Users, NEW n \in Nat \ {0},
         NEW kind, NEW ref, ref[1] = "race", CanCharge(L, u, n, kind, ref)
  PROVE  Books(Charge(L, u, n, kind, ref)) /\ Moves(L, Charge(L, u, n, kind, ref), u, ref[2], - n)
<1>1. n > 0
  OBVIOUS
<1>2. L.balance[u] >= n /\ Fresh(L, u, kind, ref)
  BY <1>1 DEF CanCharge
<1>3. Charge(L, u, n, kind, ref) = Move(L, u, - n, kind, ref)
  BY <1>1 DEF Charge
<1>4. - n \in Int /\ L.balance[u] + (- n) >= 0
  BY <1>2 DEF Books
<1>. QED BY <1>2, <1>3, <1>4, MoveOne

LEMMA CreditOne ==
  ASSUME NEW L, Books(L), NEW u \in Users, NEW n \in Nat \ {0},
         NEW kind, NEW ref, ref[1] = "race", CanCredit(L, u, n, kind, ref)
  PROVE  Books(Credit(L, u, n, kind, ref)) /\ Moves(L, Credit(L, u, n, kind, ref), u, ref[2], n)
<1>1. n > 0
  OBVIOUS
<1>2. Fresh(L, u, kind, ref)
  BY <1>1 DEF CanCredit
<1>3. Credit(L, u, n, kind, ref) = Move(L, u, n, kind, ref)
  BY <1>1 DEF Credit
<1>4. n \in Int /\ L.balance[u] + n >= 0
  BY DEF Books
<1>. QED BY <1>2, <1>3, <1>4, MoveOne

(* Everybody gets the stake back, in a row of one's own.                    *)
RefundRows(row, r) ==
  {Row(row.entries[s].user, "RACE_REFUND", StakeRef(r, row.entries[s].at), row.stake) :
     s \in {x \in Slots : row.entries[x].user # None}}

LEMMA RefundsMove ==
  ASSUME NEW row \in Rounds, Seating(row.entries), NEW r, NEW rows, WholeRows(rows),
         \A x \in RefundRows(row, r) : x \notin rows, row.stake \in Nat
  PROVE  /\ WholeRows(rows \cup RefundRows(row, r))
         /\ \A v \in Users, q \in Races :
              SumOf(RowsOfRace(rows \cup RefundRows(row, r), v, q)) =
                SumOf(RowsOfRace(rows, v, q)) + (IF q = r THEN StakeIn(row, v) ELSE 0)
<1>. DEFINE es == row.entries
            RR == RefundRows(row, r)
            R(s) == Row(es[s].user, "RACE_REFUND", StakeRef(r, es[s].at), row.stake)
            taken == {x \in Slots : es[x].user # None}
<1>1. RR = {R(s) : s \in taken}
  BY DEF RefundRows
<1>2. IsFiniteSet(RR)
  <2>1. IsFiniteSet(taken)
    BY RaceAssumption, FS_Subset
  <2>2. [s \in taken |-> R(s)] \in Surjection(taken, RR)
    BY <1>1 DEF Surjection
  <2>. QED BY <2>1, <2>2, FS_Surjection
<1>3. \A s \in taken : /\ R(s).user = es[s].user /\ R(s).ref[1] = "race" /\ R(s).ref[2] = r
                       /\ R(s).delta = row.stake
  BY DEF Row, StakeRef
<1>4. WholeRows(rows \cup RR)
  <2>1. \A x \in RR : x.delta \in Int
    BY <1>1, <1>3
  <2>. QED BY <1>2, <2>1, FS_Union DEF WholeRows
<1>5. ASSUME NEW v \in Users, NEW q \in Races
      PROVE  SumOf(RowsOfRace(rows \cup RR, v, q)) =
               SumOf(RowsOfRace(rows, v, q)) + (IF q = r THEN StakeIn(row, v) ELSE 0)
  <2>. DEFINE old == RowsOfRace(rows, v, q)
  <2>1. WholeRows(old) /\ old \subseteq rows
    BY FS_Subset DEF WholeRows, RowsOfRace
  <2>2. SumOf(old) \in Int
    BY <2>1, SumOfType
  <2>3. RowsOfRace(rows \cup RR, v, q) = old \cup {x \in RR : x.user = v /\ q = r}
    BY <1>1, <1>3 DEF RowsOfRace
  <2>4. CASE q = r /\ v \in HumansIn(es)
    <3>. DEFINE s == SlotOf(es, v)
    <3>1. es \in Places
      BY DEF Rounds, Places
    <3>2. s \in Slots /\ es[s].user = v /\ \A t \in Slots : es[t].user = v => t = s
      BY <2>4, <3>1, SlotOfOne
    <3>3. s \in taken
      BY <3>2, RaceAssumption
    <3>. HIDE DEF s
    <3>. DEFINE x == R(s)
    <3>4. {y \in RR : y.user = v /\ q = r} = {x}
      BY <1>1, <1>3, <2>4, <3>2, <3>3
    <3>5. x \in RR /\ x.delta = row.stake
      BY <1>1, <1>3, <3>3
    <3>. HIDE DEF x, RR
    <3>6. x \notin old /\ x.delta \in Int
      BY <2>1, <3>5 DEF RR
    <3>. HIDE DEF old
    <3>7. SumOf(old \cup {x}) = SumOf(old) + row.stake
      BY <2>1, <3>5, <3>6, SumOfAdd
    <3>. QED BY <2>3, <2>4, <3>4, <3>7 DEF StakeIn, old
  <2>5. CASE q # r \/ v \notin HumansIn(es)
    <3>1. {y \in RR : y.user = v /\ q = r} = {}
      BY <1>1, <1>3, <2>5 DEF HumansIn
    <3>2. (IF q = r THEN StakeIn(row, v) ELSE 0) = 0
      BY <2>5 DEF StakeIn
    <3>3. RowsOfRace(rows \cup RR, v, q) = old
      BY <2>3, <3>1
    <3>. HIDE DEF old
    <3>4. SumOf(old) = SumOf(old) + 0
      BY <2>2
    <3>. QED BY <3>2, <3>3, <3>4 DEF old
  <2>. QED BY <2>4, <2>5
<1>. QED BY <1>4, <1>5

-----------------------------------------------------------------------------
(* Lemmas on the row of a race: what each transaction makes of it.          *)

PutAt(es, slot, u, at) == [es EXCEPT ![slot] = Entry(u, at)]
Cleared(es, slot) == [es EXCEPT ![slot] = Free]
JoinedRow(row, k, slot, u, at) ==
  [row EXCEPT !.status = "open", !.stake = k, !.entries[slot] = Entry(u, at)]
LeftRow(row, slot) == [row EXCEPT !.entries[slot] = Free]
DeletedRow == [NoRound EXCEPT !.status = "deleted"]
StartedRow(row) == [row EXCEPT !.status = "started", !.entries = WithBots(@)]
FinishedRow(row, w, prize) == [row EXCEPT !.status = "finished", !.entries[w].won = prize]
VoidedRow(row) == [row EXCEPT !.status = "voided"]

LEMMA RowType ==
  ASSUME NEW row \in Rounds
  PROVE  /\ row.entries \in Places /\ row.stake \in Nat /\ row.stake \in Stakes \cup {0}
         /\ \A v \in Users : StakeIn(row, v) \in Nat
<1>1. row.entries \in Places /\ row.stake \in Stakes \cup {0}
  BY DEF Rounds, Places
<1>2. Stakes \cup {0} \subseteq Nat
  BY RaceAssumption
<1>. QED BY <1>1, <1>2 DEF StakeIn

(* Due, by the status.                                                     *)
LEMMA DueIs ==
  ASSUME NEW row, NEW v
  PROVE  /\ row.status \in {"open", "started"} => Due(row, v) = - StakeIn(row, v)
         /\ row.status = "finished" => Due(row, v) = WonIn(row, v) - StakeIn(row, v)
         /\ row.status \in {"none", "voided", "deleted"} => Due(row, v) = 0
BY DEF Due

LEMMA JoinRow ==
  ASSUME NEW row \in Rounds, RowOK(row), NEW k \in Stakes, NEW u \in Users,
         row.status \in {"none", "open"}, row.status = "open" => row.stake = k,
         NEW slot \in Slots \ TakenIn(row.entries), u \notin HumansIn(row.entries),
         NEW at \in 0 .. MaxTime
  PROVE  LET new == JoinedRow(row, k, slot, u, at) IN
         /\ new \in Rounds /\ RowOK(new) /\ new.status = "open" /\ new.stake = k
         /\ new.entries = PutAt(row.entries, slot, u, at)
         /\ TakenIn(new.entries) = TakenIn(row.entries) \cup {slot}
         /\ HumansIn(new.entries) = HumansIn(row.entries) \cup {u}
         /\ \A v \in Users : Due(new, v) = Due(row, v) + (IF v = u THEN - k ELSE 0)
<1>. DEFINE new == JoinedRow(row, k, slot, u, at)
            es == row.entries
            fs == PutAt(es, slot, u, at)
<1>1. es \in Places /\ Seating(es) /\ k \in Nat \ {0}
  BY RowType, RaceAssumption DEF RowOK
<1>2. /\ fs \in Places /\ Seating(fs)
      /\ TakenIn(fs) = TakenIn(es) \cup {slot} /\ HumansIn(fs) = HumansIn(es) \cup {u}
      /\ fs[slot].won = 0 /\ \A s \in Slots \ {slot} : fs[s] = es[s]
  BY <1>1, PutIn DEF PutAt
<1>3. new.status = "open" /\ new.stake = k /\ new.entries = fs /\ new \in Rounds
  BY <1>2 DEF Rounds, Places, JoinedRow, PutAt
<1>. HIDE DEF new, fs
<1>4. NothingWon(row) /\ NothingWon(new)
  <2>1. NothingWon(row)
    BY DEF RowOK
  <2>. QED BY <1>2, <1>3, <2>1 DEF NothingWon
<1>5. RowOK(new)
  BY <1>2, <1>3, <1>4 DEF RowOK
<1>6. ASSUME NEW v \in Users
      PROVE  Due(new, v) = Due(row, v) + (IF v = u THEN - k ELSE 0)
  <2>1. Due(new, v) = - StakeIn(new, v)
    BY <1>3, DueIs
  <2>2. StakeIn(new, v) = IF v \in HumansIn(es) \/ v = u THEN k ELSE 0
    BY <1>2, <1>3 DEF StakeIn
  <2>3. CASE row.status = "none"
    <3>1. es = Empty /\ Due(row, v) = 0
      BY <2>3, DueIs DEF RowOK, NoRound
    <3>2. v \notin HumansIn(es)
      BY <3>1, FreeIsEntry
    <3>. QED BY <1>1, <2>1, <2>2, <3>1, <3>2
  <2>4. CASE row.status = "open"
    <3>1. Due(row, v) = - StakeIn(row, v) /\ row.stake = k
      BY <2>4, DueIs
    <3>2. StakeIn(row, v) = IF v \in HumansIn(es) THEN k ELSE 0
      BY <3>1 DEF StakeIn
    <3>. QED BY <1>1, <2>1, <2>2, <3>1, <3>2
  <2>. QED BY <2>3, <2>4
<1>. QED BY <1>2, <1>3, <1>5, <1>6 DEF new, fs

LEMMA LeaveRow ==
  ASSUME NEW row \in Rounds, RowOK(row), row.status = "open",
         NEW u \in Users, u \in HumansIn(row.entries)
  PROVE  LET slot == SlotOf(row.entries, u)
             new == LeftRow(row, slot) IN
         /\ new \in Rounds /\ RowOK(new) /\ new.status = "open" /\ new.stake = row.stake
         /\ new.entries = Cleared(row.entries, slot)
         /\ slot \in Slots \ TakenIn(new.entries)
         /\ HumansIn(new.entries) = HumansIn(row.entries) \ {u}
         /\ \A v \in Users : Due(new, v) = Due(row, v) + (IF v = u THEN row.stake ELSE 0)
<1>. DEFINE es == row.entries
            slot == SlotOf(es, u)
            fs == Cleared(es, slot)
            new == LeftRow(row, slot)
<1>1. es \in Places /\ Seating(es) /\ row.stake \in Nat
  BY RowType DEF RowOK
<1>2. /\ slot \in TakenIn(es)
      /\ fs \in Places /\ Seating(fs) /\ slot \notin TakenIn(fs)
      /\ HumansIn(fs) = HumansIn(es) \ {u}
      /\ fs[slot].won = 0 /\ \A s \in Slots \ {slot} : fs[s] = es[s]
  BY <1>1, TakeOut DEF Cleared
<1>3. slot \in Slots
  BY <1>2 DEF TakenIn
<1>. HIDE DEF slot
<1>4. new.status = "open" /\ new.stake = row.stake /\ new.entries = fs /\ new \in Rounds
  BY <1>2, <1>3 DEF Rounds, Places, LeftRow, Cleared
<1>. HIDE DEF new, fs
<1>5. NothingWon(new)
  <2>1. NothingWon(row)
    BY DEF RowOK
  <2>. QED BY <1>2, <1>4, <2>1 DEF NothingWon
<1>6. RowOK(new)
  <2>1. row.stake \in Stakes
    BY DEF RowOK
  <2>. QED BY <1>2, <1>4, <1>5, <2>1 DEF RowOK
<1>7. ASSUME NEW v \in Users
      PROVE  Due(new, v) = Due(row, v) + (IF v = u THEN row.stake ELSE 0)
  <2>1. Due(new, v) = - StakeIn(new, v) /\ Due(row, v) = - StakeIn(row, v)
    BY <1>4, DueIs
  <2>2. StakeIn(new, v) = IF v \in HumansIn(es) /\ v # u THEN row.stake ELSE 0
    BY <1>2, <1>4 DEF StakeIn
  <2>3. StakeIn(row, v) = IF v \in HumansIn(es) THEN row.stake ELSE 0
    BY DEF StakeIn
  <2>. QED BY <1>1, <2>1, <2>2, <2>3
<1>. QED BY <1>2, <1>3, <1>4, <1>6, <1>7 DEF new, fs, slot

(* The last one leaves: there was nobody else.                             *)
LEMMA CloseRow ==
  ASSUME NEW row \in Rounds, RowOK(row), row.status = "open",
         NEW u \in Users, u \in HumansIn(row.entries), Cardinality(TakenIn(row.entries)) = 1
  PROVE  LET new == DeletedRow IN
         /\ new \in Rounds /\ RowOK(new) /\ new.status = "deleted"
         /\ HumansIn(row.entries) = {u}
         /\ \A v \in Users : Due(new, v) = Due(row, v) + (IF v = u THEN row.stake ELSE 0)
<1>. DEFINE new == DeletedRow
            es == row.entries
<1>1. es \in Places /\ Seating(es) /\ row.stake \in Nat
  BY RowType DEF RowOK
<1>2. new \in Rounds /\ new.status = "deleted" /\ new.entries = Empty
  BY FreeIsEntry DEF DeletedRow, NoRound, Rounds, Places
<1>. HIDE DEF new
<1>3. RowOK(new)
  BY <1>2, FreeIsEntry DEF RowOK, NothingWon, Empty
<1>4. HumansIn(es) = {u}
  <2>1. SlotOf(es, u) \in TakenIn(es) /\ es[SlotOf(es, u)].user = u
    BY <1>1, SlotOfOne DEF TakenIn
  <2>2. IsFiniteSet(TakenIn(es))
    BY RaceAssumption, FS_Subset DEF TakenIn
  <2>3. \A s \in TakenIn(es) : s = SlotOf(es, u)
    <3>1. PICK a : TakenIn(es) = {a}
      BY <2>2, FS_Singleton
    <3>. QED BY <2>1, <3>1
  <2>4. ASSUME NEW v \in HumansIn(es) PROVE v = u
    <3>1. PICK s \in Slots : es[s].user = v /\ v # None
      BY DEF HumansIn
    <3>2. s \in TakenIn(es)
      BY <3>1, FreeIsEntry DEF TakenIn
    <3>. QED BY <2>1, <2>3, <3>1, <3>2
  <2>. QED BY <2>4
<1>5. ASSUME NEW v \in Users
      PROVE  Due(new, v) = Due(row, v) + (IF v = u THEN row.stake ELSE 0)
  <2>1. Due(new, v) = 0 /\ Due(row, v) = - StakeIn(row, v)
    BY <1>2, DueIs
  <2>2. StakeIn(row, v) = IF v = u THEN row.stake ELSE 0
    BY <1>4 DEF StakeIn
  <2>. QED BY <1>1, <2>1, <2>2
<1>. QED BY <1>2, <1>3, <1>4, <1>5 DEF new

LEMMA StartRow ==
  ASSUME NEW row \in Rounds, RowOK(row), row.status = "open"
  PROVE  LET new == StartedRow(row) IN
         /\ new \in Rounds /\ RowOK(new) /\ new.status = "started" /\ new.stake = row.stake
         /\ new.entries = WithBots(row.entries)
         /\ HumansIn(new.entries) = HumansIn(row.entries)
         /\ \A v \in Users : Due(new, v) = Due(row, v)
<1>. DEFINE es == row.entries
            fs == WithBots(es)
            new == StartedRow(row)
<1>1. es \in Places /\ Seating(es) /\ row.stake \in Stakes
  BY RowType DEF RowOK
<1>2. /\ fs \in Places /\ Seating(fs) /\ TakenIn(fs) = Slots /\ HumansIn(fs) = HumansIn(es)
      /\ \A s \in Slots : fs[s].user = es[s].user /\ fs[s].won = es[s].won
  BY <1>1, BotsIn
<1>. HIDE DEF fs
<1>3. new.status = "started" /\ new.stake = row.stake /\ new.entries = fs /\ new \in Rounds
  BY <1>2 DEF Rounds, Places, StartedRow, fs
<1>. HIDE DEF new
<1>4. NothingWon(new)
  <2>1. NothingWon(row)
    BY DEF RowOK
  <2>. QED BY <1>2, <1>3, <2>1 DEF NothingWon
<1>5. RowOK(new)
  BY <1>1, <1>2, <1>3, <1>4 DEF RowOK
<1>6. ASSUME NEW v \in Users
      PROVE  Due(new, v) = Due(row, v)
  <2>1. Due(new, v) = - StakeIn(new, v) /\ Due(row, v) = - StakeIn(row, v)
    BY <1>3, DueIs
  <2>2. StakeIn(new, v) = StakeIn(row, v)
    BY <1>2, <1>3 DEF StakeIn
  <2>. QED BY <2>1, <2>2
<1>. QED BY <1>2, <1>3, <1>5, <1>6 DEF new, fs

(* The pot of a race is worth something.                                   *)
LEMMA PotType ==
  ASSUME NEW k \in Stakes PROVE k * Cardinality(Slots) \in Nat \ {0}
<1>1. k \in Nat /\ k > 0
  BY RaceAssumption
<1>. QED BY <1>1, SlotsAreNat

LEMMA FinishRow ==
  ASSUME NEW row \in Rounds, RowOK(row), row.status = "started", NEW w \in Slots
  PROVE  LET pot == row.stake * Cardinality(Slots)
             prize == IF row.entries[w].bot THEN 0 ELSE pot
             new == FinishedRow(row, w, prize) IN
         /\ new \in Rounds /\ RowOK(new) /\ new.status = "finished" /\ pot \in Nat \ {0}
         /\ WhoIn(new.entries) = WhoIn(row.entries)
         /\ row.entries[w].bot \/ row.entries[w].user \in Users
         /\ \A v \in Users : Due(new, v) = Due(row, v) +
              (IF ~ row.entries[w].bot /\ v = row.entries[w].user THEN pot ELSE 0)
<1>. DEFINE es == row.entries
            pot == row.stake * Cardinality(Slots)
            prize == IF es[w].bot THEN 0 ELSE pot
            fs == [es EXCEPT ![w].won = prize]
            new == FinishedRow(row, w, prize)
<1>1. /\ es \in Places /\ Seating(es) /\ row.stake \in Stakes /\ TakenIn(es) = Slots
      /\ NothingWon(row)
  BY RowType DEF RowOK
<1>2. pot \in Nat \ {0} /\ prize \in Nat /\ row.stake # 0
  BY <1>1, PotType, RaceAssumption
<1>3. \A s \in Slots : (es[s].user \in Users /\ ~ es[s].bot) \/ (es[s].user = None /\ es[s].bot)
  BY <1>1 DEF TakenIn, Seating, KindOf, Places, Entries
<1>. HIDE DEF pot, prize
<1>4. /\ fs \in Places /\ fs[w].won = prize
      /\ \A s \in Slots : fs[s].user = es[s].user /\ fs[s].bot = es[s].bot
      /\ \A s \in Slots \ {w} : fs[s] = es[s]
  BY <1>1, <1>2 DEF Places, Entries
<1>5. new.status = "finished" /\ new.stake = row.stake /\ new.entries = fs /\ new \in Rounds
  BY <1>4 DEF Rounds, Places, FinishedRow
<1>. HIDE DEF new, fs
<1>6. Seating(fs) /\ TakenIn(fs) = Slots /\ HumansIn(fs) = HumansIn(es)
  <2>1. HumansIn(fs) = HumansIn(es)
    BY <1>4 DEF HumansIn
  <2>2. \A s \in Slots : fs[s] # Free
    BY <1>3, <1>4, FreeIsEntry, RaceAssumption
  <2>3. TakenIn(fs) = Slots
    BY <2>2 DEF TakenIn
  <2>4. OneEach(fs)
    BY <1>1, <1>4 DEF Seating, OneEach
  <2>5. \A s \in Slots : KindOf(fs[s])
    BY <1>3, <1>4, RaceAssumption DEF KindOf
  <2>. QED BY <2>1, <2>3, <2>4, <2>5 DEF Seating
<1>7. WhoIn(fs) = WhoIn(es)
  BY <1>4 DEF WhoIn
<1>8. OneWon(new)
  <2>1. \A s \in Slots \ {w} : fs[s].won = 0
    BY <1>1, <1>4 DEF NothingWon
  <2>2. prize \in {0, pot} /\ (es[w].user = None => prize = 0)
    BY <1>3, RaceAssumption DEF prize
  <2>. QED BY <1>4, <1>5, <2>1, <2>2 DEF OneWon, pot
<1>9. RowOK(new)
  BY <1>1, <1>5, <1>6, <1>8 DEF RowOK
<1>10. ASSUME NEW v \in Users
       PROVE  Due(new, v) = Due(row, v) + (IF ~ es[w].bot /\ v = es[w].user THEN pot ELSE 0)
  <2>. DEFINE won == IF ~ es[w].bot /\ v = es[w].user THEN pot ELSE 0
  <2>1. Due(new, v) = WonIn(new, v) - StakeIn(new, v) /\ Due(row, v) = - StakeIn(row, v)
    BY <1>5, DueIs
  <2>2. StakeIn(new, v) = StakeIn(row, v) /\ StakeIn(row, v) \in Nat
    BY <1>5, <1>6, RowType DEF StakeIn
  <2>3. WonIn(new, v) = won
    <3>1. CASE v \in HumansIn(es)
      <4>. DEFINE s == SlotOf(fs, v)
      <4>1. /\ s \in Slots /\ fs[s].user = v
            /\ \A t \in Slots : fs[t].user = v => t = s
        BY <1>4, <1>6, <3>1, SlotOfOne
      <4>2. StakeIn(new, v) # 0
        BY <1>2, <2>2, <3>1 DEF StakeIn
      <4>3. WonIn(new, v) = fs[s].won
        BY <1>5, <4>2 DEF WonIn
      <4>. HIDE DEF s
      <4>4. CASE s = w
        BY <1>3, <1>4, <4>1, <4>3, <4>4, RaceAssumption DEF prize
      <4>5. CASE s # w
        BY <1>1, <1>4, <4>1, <4>3, <4>5 DEF NothingWon
      <4>. QED BY <4>4, <4>5
    <3>2. CASE v \notin HumansIn(es)
      <4>1. es[w].user # v
        BY <3>2, RaceAssumption DEF HumansIn
      <4>2. StakeIn(new, v) = 0
        BY <2>2, <3>2 DEF StakeIn
      <4>. QED BY <4>1, <4>2 DEF WonIn
    <3>. QED BY <3>1, <3>2
  <2>4. won \in Nat
    BY <1>2
  <2>. HIDE DEF won
  <2>5. Due(new, v) = Due(row, v) + won
    BY <2>1, <2>2, <2>3, <2>4
  <2>. QED BY <2>5 DEF won
<1>. QED BY <1>2, <1>3, <1>5, <1>7, <1>9, <1>10 DEF new, pot, prize

LEMMA VoidRow ==
  ASSUME NEW row \in Rounds, RowOK(row), row.status \in {"open", "started"}
  PROVE  LET new == VoidedRow(row) IN
         /\ new \in Rounds /\ RowOK(new) /\ new.status = "voided" /\ new.entries = row.entries
         /\ \A v \in Users : Due(new, v) = Due(row, v) + StakeIn(row, v)
<1>. DEFINE new == VoidedRow(row)
<1>1. new \in Rounds /\ new.status = "voided" /\ new.entries = row.entries
  BY DEF Rounds, VoidedRow
<1>. HIDE DEF new
<1>2. NothingWon(new)
  BY <1>1 DEF RowOK, NothingWon
<1>3. RowOK(new)
  BY <1>1, <1>2 DEF RowOK
<1>4. \A v \in Users : Due(new, v) = 0 /\ Due(row, v) = - StakeIn(row, v)
  BY <1>1, DueIs
<1>. QED BY <1>1, <1>3, <1>4, RowType DEF new

(* A race has one winner at most, and he has the pot.                       *)
LEMMA WonOnce ==
  ASSUME NEW row \in Rounds, RowOK(row)
  PROVE  SumFunction([u \in Users |-> WonIn(row, u)]) \in {0, row.stake * Cardinality(Slots)}
<1>. DEFINE f == [u \in Users |-> WonIn(row, u)]
<1>1. SumFunction(f) = SumFunctionOnSet(f, Users)
  BY DEF SumFunction
<1>2. \A u \in Users : f[u] = WonIn(row, u)
  OBVIOUS
<1>3. row.entries \in Places /\ Seating(row.entries)
  BY RowType DEF RowOK
<1>4. ASSUME NEW u \in Users
      PROVE  \/ WonIn(row, u) = 0
             \/ \E s \in Slots : row.entries[s].user = u /\ WonIn(row, u) = row.entries[s].won
  <2>1. CASE u \in HumansIn(row.entries)
    BY <1>3, <2>1, SlotOfOne DEF WonIn
  <2>2. CASE u \notin HumansIn(row.entries)
    BY <2>2 DEF WonIn, StakeIn
  <2>. QED BY <2>1, <2>2
<1>. HIDE DEF f
<1>5. ASSUME \A u \in Users : f[u] = 0 PROVE SumFunctionOnSet(f, Users) = 0
  <2>1. SumFunctionOnSet(f, Users) = 0 * Cardinality(Users) /\ Cardinality(Users) \in Nat
    BY <1>5, SumConst, UsersAssumption, FS_CardinalityType
  <2>. QED BY <2>1
<1>6. CASE row.status # "finished"
  <2>1. \A s \in Slots : row.entries[s].won = 0
    BY <1>6 DEF RowOK, NothingWon
  <2>2. \A u \in Users : f[u] = 0
    BY <1>2, <1>4, <2>1
  <2>. QED BY <1>1, <1>5, <2>2 DEF f
<1>7. CASE row.status = "finished"
  <2>1. PICK w \in Slots :
          /\ \A s \in Slots \ {w} : row.entries[s].won = 0
          /\ row.entries[w].won \in {0, row.stake * Cardinality(Slots)}
          /\ row.entries[w].user = None => row.entries[w].won = 0
    BY <1>7 DEF RowOK, OneWon
  <2>. DEFINE x == row.entries[w].user
              p == row.stake * Cardinality(Slots)
  <2>2. \A u \in Users : f[u] = 0 \/ (u = x /\ f[u] = row.entries[w].won)
    BY <1>2, <1>4, <2>1
  <2>3. CASE \E u \in Users : f[u] # 0
    <3>1. x \in Users /\ f[x] \in {0, p}
      BY <2>1, <2>2, <2>3
    <3>2. f[x] \in Int
      BY <1>3, <2>2, <3>1 DEF Places, Entries
    <3>3. \A u \in Users \ {x} : f[u] = 0
      BY <2>2
    <3>4. SumFunctionOnSet(f, Users) = f[x]
      BY <3>1, <3>2, <3>3, SumOnly, UsersAssumption
    <3>. QED BY <1>1, <3>1, <3>4 DEF f
  <2>4. CASE \A u \in Users : f[u] = 0
    BY <1>1, <1>5, <2>4 DEF f
  <2>. QED BY <2>3, <2>4
<1>. QED BY <1>6, <1>7 DEF f

LEMMA DueType ==
  ASSUME NEW row \in Rounds, RowOK(row), NEW v \in Users
  PROVE  Due(row, v) \in Int
<1>1. row.entries \in Places /\ Seating(row.entries) /\ StakeIn(row, v) \in Nat
  BY RowType DEF RowOK
<1>2. WonIn(row, v) \in Nat
  <2>1. CASE v \in HumansIn(row.entries)
    BY <1>1, <2>1, SlotOfOne DEF WonIn, Places, Entries
  <2>2. CASE v \notin HumansIn(row.entries)
    BY <2>2 DEF WonIn, StakeIn
  <2>. QED BY <2>1, <2>2
<1>. QED BY <1>1, <1>2 DEF Due

-----------------------------------------------------------------------------
(* Lemmas on a step that rewrites one race.                                *)

(* Its row: the journal moves by what the row says.                        *)
LEMMA RowStep ==
  ASSUME TypeOK, RowsOK, Accounted, NEW r \in Races, NEW new \in Rounds, RowOK(new),
         round' = [round EXCEPT ![r] = new],
         \A v \in Users, q \in Races :
           SumOf(RowsOfRace(ledger'.rows, v, q)) = SumOf(RowsOfRace(ledger.rows, v, q)) +
             (IF q = r THEN Due(new, v) - Due(round[r], v) ELSE 0)
  PROVE  round' \in [Races -> Rounds] /\ RowsOK' /\ Accounted'
<1>1. round \in [Races -> Rounds] /\ \A q \in Races : RowOK(round[q])
  BY DEF TypeOK, RowsOK
<1>2. round' \in [Races -> Rounds] /\ round'[r] = new /\ \A q \in Races \ {r} : round'[q] = round[q]
  BY <1>1
<1>3. \A q \in Races, v \in Users : Due(round[q], v) \in Int /\ Due(new, v) \in Int
  BY <1>1, DueType
<1>4. ASSUME NEW q \in Races, NEW v \in Users
      PROVE  SumOf(RowsOfRace(ledger'.rows, v, q)) = Due(round'[q], v)
  <2>1. SumOf(RowsOfRace(ledger.rows, v, q)) = Due(round[q], v)
    BY DEF Accounted
  <2>2. CASE q = r
    <3>1. SumOf(RowsOfRace(ledger'.rows, v, q)) = Due(round[q], v) + (Due(new, v) - Due(round[q], v))
      BY <2>1, <2>2
    <3>. QED BY <1>2, <1>3, <2>2, <3>1
  <2>3. CASE q # r
    BY <1>2, <1>3, <2>1, <2>3
  <2>. QED BY <2>2, <2>3
<1>. QED BY <1>1, <1>2, <1>4 DEF RowsOK, Accounted

(* Its record in memory.                                                   *)
LEMMA RecStep ==
  ASSUME TypeOK, Matches, NEW r \in Races, NEW new, NEW me \in Recs, Match(new, me),
         round' = [round EXCEPT ![r] = new], rec' = [rec EXCEPT ![r] = me]
  PROVE  /\ rec' \in [Races -> Recs] /\ Matches'
         /\ rec'[r] = me /\ \A q \in Races \ {r} : rec'[q] = rec[q]
<1>1. round \in [Races -> Rounds] /\ rec \in [Races -> Recs]
  BY DEF TypeOK
<1>2. /\ rec' \in [Races -> Recs] /\ rec'[r] = me /\ round'[r] = new
      /\ \A q \in Races \ {r} : rec'[q] = rec[q] /\ round'[q] = round[q]
  BY <1>1
<1>. QED BY <1>2 DEF Matches

(* What a movement of one person's coins is for the row.                    *)
LEMMA MovesRow ==
  ASSUME TypeOK, RowsOK, NEW r \in Races, NEW new \in Rounds, RowOK(new), NEW L, NEW N, NEW u \in Users,
         NEW delta \in Int, Moves(L, N, u, r, delta),
         \A v \in Users : Due(new, v) = Due(round[r], v) + (IF v = u THEN delta ELSE 0)
  PROVE  \A v \in Users, q \in Races :
           SumOf(RowsOfRace(N.rows, v, q)) = SumOf(RowsOfRace(L.rows, v, q)) +
             (IF q = r THEN Due(new, v) - Due(round[r], v) ELSE 0)
<1>1. \A v \in Users : Due(round[r], v) \in Int
  BY DueType DEF TypeOK, RowsOK
<1>2. \A v \in Users : Due(new, v) - Due(round[r], v) = IF v = u THEN delta ELSE 0
  BY <1>1
<1>. QED BY <1>2 DEF Moves

(* The stake that is in memory is that of the row.                         *)
LEMMA LiveRow ==
  ASSUME TypeOK, RowsOK, Matches, NEW r \in Races
  PROVE  /\ round[r] \in Rounds /\ RowOK(round[r]) /\ rec[r] \in Recs
         /\ round[r].entries \in Places /\ Seating(round[r].entries)
         /\ rec[r].entries \in Places /\ Match(round[r], rec[r])
         /\ round[r].status = "none" => rec[r] = NoRec
BY RowType DEF TypeOK, RowsOK, Matches, Match, RowOK, Recs, Places

-----------------------------------------------------------------------------
(* The inductive invariant, action by action.                              *)

(* The race one joins: new, or gathering with a place left.                *)
LEMMA JoinFacts ==
  ASSUME IInv, NEW u \in Users, NEW k \in Stakes, seat[u] = None, lobby[k] # None \/ Unused # {}
  PROVE  LET r == RaceFor(k)
             es == round[r].entries IN
         /\ r \in Races /\ r # None /\ rec[r].entries = es
         /\ round[r].status \in {"none", "open"} /\ (round[r].status = "open" => round[r].stake = k)
         /\ Min(Slots \ TakenIn(es)) \in Slots \ TakenIn(es)
         /\ u \notin HumansIn(es)
         /\ IF lobby[k] = None THEN rec[r] = NoRec ELSE r = lobby[k] /\ rec[r].phase = "lobby"
<1>. DEFINE r == RaceFor(k)
            es == round[r].entries
<1>1. /\ TypeOK /\ RowsOK /\ Matches /\ Seats /\ Lobbies
      /\ \A q \in Races : q # None /\ q \in Nat
  BY RaceAssumption, FS_CardinalityType DEF IInv
<1>2. CASE lobby[k] # None
  <2>1. r = lobby[k] /\ r \in Races
    BY <1>1, <1>2 DEF RaceFor, TypeOK
  <2>2. Gathers(rec[r], k)
    BY <1>1, <1>2, <2>1 DEF Lobbies
  <2>3. Match(round[r], rec[r])
    BY <1>1, <2>1 DEF Matches
  <2>. HIDE DEF r
  <2>4. /\ rec[r].phase = "lobby" /\ rec[r].entries = es /\ round[r].status = "open"
        /\ round[r].stake = k /\ TakenIn(es) # Slots
    BY <2>2, <2>3 DEF Gathers, Match
  <2>5. IsIn(rec[r], u) <=> seat[u] = r
    BY <1>1, <2>1 DEF Seats
  <2>6. u \notin HumansIn(es)
    BY <1>1, <2>1, <2>4, <2>5 DEF IsIn, Alive
  <2>7. Min(Slots \ TakenIn(es)) \in Slots \ TakenIn(es)
    <3>1. Slots \ TakenIn(es) \in SUBSET Nat /\ Slots \ TakenIn(es) # {}
      BY <2>4, SlotsAreNat DEF TakenIn
    <3>. QED BY <3>1, MinIsIn
  <2>. QED BY <1>1, <1>2, <2>1, <2>4, <2>6, <2>7 DEF r
<1>3. CASE lobby[k] = None
  <2>1. r \in Unused
    <3>1. Unused \in SUBSET Nat /\ Unused # {}
      BY <1>1, <1>3 DEF Unused
    <3>2. \E x \in Unused : \A y \in Unused : x <= y
      BY <3>1, MinIsIn
    <3>. QED BY <1>3, <3>2 DEF RaceFor
  <2>. HIDE DEF r
  <2>2. r \in Races /\ round[r].status = "none"
    BY <2>1 DEF Unused
  <2>3. rec[r] = NoRec /\ round[r] = NoRound
    BY <1>1, <2>2, LiveRow DEF RowOK
  <2>4. es = Empty /\ rec[r].entries = Empty
    BY <2>3 DEF NoRec, NoRound
  <2>5. Min(Slots \ TakenIn(es)) \in Slots \ TakenIn(es)
    <3>1. Slots \ TakenIn(es) \in SUBSET Nat /\ Slots \ TakenIn(es) # {}
      BY <2>4, SlotsAreNat, FreeIsEntry, RaceAssumption
    <3>. QED BY <3>1, MinIsIn
  <2>. QED BY <1>1, <1>3, <2>2, <2>3, <2>4, <2>5, FreeIsEntry DEF r
<1>. QED BY <1>2, <1>3

LEMMA JoinStep ==
  ASSUME IInv, NEW u \in Users, NEW k \in Stakes, Join(u, k)
  PROVE  IInv'
<1>. DEFINE r == RaceFor(k)
            es == round[r].entries
            slot == Min(Slots \ TakenIn(rec[r].entries))
            full == Cardinality(TakenIn(rec[r].entries)) + 1 = Cardinality(Slots)
            ref == StakeRef(r, now)
            new == JoinedRow(round[r], k, slot, u, now)
            me == [rec[r] EXCEPT !.phase = "lobby", !.stake = k, !.entries[slot] = Entry(u, now)]
<1>1. /\ process.mode = "up" /\ starting = None /\ now <= LastJoin /\ seat[u] = None
      /\ lobby[k] # None \/ Unused # {}
      /\ CanCharge(ledger, u, k, "RACE_STAKE", ref)
      /\ round' = [round EXCEPT ![r] = new]
      /\ ledger' = Charge(ledger, u, k, "RACE_STAKE", ref)
      /\ rec' = [rec EXCEPT ![r] = me]
  BY DEF Join, Queue, JoinedRow
<1>2. /\ timers' = IF lobby[k] = None THEN timers \cup {r} ELSE timers
      /\ lobby' = [lobby EXCEPT ![k] = IF full THEN None ELSE r]
      /\ seat' = [seat EXCEPT ![u] = r] /\ last' = [last EXCEPT ![u] = None]
      /\ starting' = IF full THEN r ELSE None
      /\ now' = now /\ process' = process /\ failures' = failures
  BY DEF Join, outside
<1>3. /\ TypeOK /\ Whole /\ RowsOK /\ Matches /\ Idle /\ Seats /\ Lobbies /\ OpenIsKnown /\ VoidsOpen
      /\ Accounted
  BY DEF IInv
<1>4. /\ r \in Races /\ r # None /\ rec[r].entries = es
      /\ round[r].status \in {"none", "open"} /\ (round[r].status = "open" => round[r].stake = k)
      /\ slot \in Slots \ TakenIn(es)
      /\ u \notin HumansIn(es)
      /\ IF lobby[k] = None THEN rec[r] = NoRec ELSE r = lobby[k] /\ rec[r].phase = "lobby"
  <2>1. rec[r].entries = es
    BY <1>1, JoinFacts
  <2>. QED BY <1>1, <2>1, JoinFacts
<1>5. /\ round[r] \in Rounds /\ RowOK(round[r]) /\ rec[r] \in Recs /\ es \in Places
      /\ now \in 0 .. MaxTime /\ k \in Nat \ {0}
  BY <1>3, <1>4, LiveRow, RaceAssumption DEF TypeOK
<1>. HIDE DEF r, slot
<1>6. /\ new \in Rounds /\ RowOK(new) /\ new.status = "open" /\ new.stake = k
      /\ new.entries = PutAt(es, slot, u, now)
      /\ TakenIn(new.entries) = TakenIn(es) \cup {slot}
      /\ HumansIn(new.entries) = HumansIn(es) \cup {u}
      /\ \A v \in Users : Due(new, v) = Due(round[r], v) + (IF v = u THEN - k ELSE 0)
  BY <1>4, <1>5, JoinRow
<1>7. /\ me \in Recs /\ me.phase = "lobby" /\ me.stake = k /\ me.entries = new.entries
  <2>1. new.entries \in Places
    BY <1>6, RowType
  <2>. QED BY <1>4, <1>5, <1>6, <2>1 DEF Recs, Places, PutAt
<1>. HIDE DEF new, me
<1>8. Match(new, me)
  BY <1>6, <1>7 DEF Match
<1>9. Books(ledger') /\ Moves(ledger, ledger', u, r, - k)
  <2>1. Books(ledger)
    BY <1>3 DEF TypeOK, Whole, Books, WholeRows
  <2>2. ref[1] = "race" /\ ref[2] = r
    BY DEF StakeRef
  <2>. HIDE DEF ref
  <2>3. /\ Books(Charge(ledger, u, k, "RACE_STAKE", ref))
        /\ Moves(ledger, Charge(ledger, u, k, "RACE_STAKE", ref), u, ref[2], - k)
    BY <1>1, <1>5, <2>1, <2>2, ChargeOne
  <2>. QED BY <1>1, <2>2, <2>3
<1>10. round' \in [Races -> Rounds] /\ RowsOK' /\ Accounted'
  <2>1. - k \in Int
    BY <1>5
  <2>2. \A v \in Users, q \in Races :
          SumOf(RowsOfRace(ledger'.rows, v, q)) = SumOf(RowsOfRace(ledger.rows, v, q)) +
             (IF q = r THEN Due(new, v) - Due(round[r], v) ELSE 0)
    BY <1>3, <1>4, <1>6, <1>9, <2>1, MovesRow
  <2>. QED BY <1>1, <1>3, <1>4, <1>6, <2>2, RowStep
<1>11. /\ rec' \in [Races -> Recs] /\ Matches'
       /\ rec'[r] = me /\ \A q \in Races \ {r} : rec'[q] = rec[q]
  BY <1>1, <1>3, <1>4, <1>7, <1>8, RecStep
<1>12. TypeOK'
  <2>1. /\ lobby' \in [Stakes -> Races \cup {None}] /\ seat' \in [Users -> Races \cup {None}]
        /\ last' \in [Users -> Races \cup {None}] /\ timers' \subseteq Races
        /\ starting' \in Races \cup {None}
    BY <1>2, <1>3, <1>4 DEF TypeOK
  <2>. QED BY <1>2, <1>3, <1>9, <1>10, <1>11, <2>1 DEF TypeOK, Books, WholeRows
<1>13. Whole' /\ Idle' /\ VoidsOpen'
  BY <1>1, <1>2, <1>9 DEF Whole, Books, WholeRows, Idle, VoidsOpen
<1>14. Seats'
  <2>1. seat \in [Users -> Races \cup {None}]
    BY <1>3 DEF TypeOK
  <2>2. ASSUME NEW v \in Users, NEW q \in Races PROVE IsIn(rec'[q], v) <=> seat'[v] = q
    <3>1. IsIn(rec[q], v) <=> seat[v] = q
      BY <1>3 DEF Seats
    <3>2. IsIn(rec[q], u) => FALSE
      BY <1>1, <1>3 , RaceAssumption DEF Seats
    <3>3. CASE q # r
      BY <1>2, <1>11, <2>1, <3>1, <3>2, <3>3
    <3>4. CASE q = r
      <4>1. IsIn(rec'[q], v) <=> v \in HumansIn(es) \/ v = u
        BY <1>6, <1>7, <1>11, <3>4 DEF IsIn, Alive
      <4>2. v \in HumansIn(es) <=> IsIn(rec[r], v)
        BY <1>4, FreeIsEntry DEF IsIn, Alive, NoRec
      <4>. QED BY <1>2, <2>1, <3>1, <3>4, <4>1, <4>2
    <3>. QED BY <3>3, <3>4
  <2>. QED BY <2>2 DEF Seats
<1>15. Lobbies'
  <2>1. lobby \in [Stakes -> Races \cup {None}]
    BY <1>3 DEF TypeOK
  <2>2. ASSUME NEW j \in Stakes, lobby'[j] # None PROVE Gathers(rec'[lobby'[j]], j)
    <3>1. CASE j = k
      <4>1. lobby'[k] = r /\ ~ full
        BY <1>2, <2>1, <2>2, <3>1
      <4>2. TakenIn(new.entries) # Slots
        <5>1. IsFiniteSet(TakenIn(es)) /\ slot \notin TakenIn(es)
          BY <1>4, RaceAssumption, FS_Subset DEF TakenIn
        <5>2. Cardinality(TakenIn(es) \cup {slot}) = Cardinality(TakenIn(es)) + 1
          BY <5>1, FS_AddElement
        <5>. QED BY <1>4, <1>6, <4>1, <5>2
      <4>. QED BY <1>7, <1>11, <3>1, <4>1, <4>2 DEF Gathers
    <3>2. CASE j # k
      <4>1. lobby'[j] = lobby[j] /\ Gathers(rec[lobby[j]], j) /\ lobby[j] \in Races
        BY <1>2, <1>3, <2>1, <2>2, <3>2 DEF Lobbies
      <4>2. lobby[j] # r
        <5>1. SUFFICES ASSUME lobby[j] = r PROVE FALSE
          OBVIOUS
        <5>2. rec[r].phase = "lobby" /\ rec[r].stake = j
          BY <4>1, <5>1 DEF Gathers
        <5>3. round[r].stake = j /\ round[r].status = "open"
          BY <1>3, <1>4, <5>2 DEF Matches, Match
        <5>. QED BY <1>4, <3>2, <5>3
      <4>. QED BY <1>11, <4>1, <4>2
    <3>. QED BY <3>1, <3>2
  <2>. QED BY <2>2 DEF Lobbies
<1>16. OpenIsKnown'
  <2>1. ASSUME NEW q \in Races, round'[q].status \in {"open", "started"}
        PROVE  q \in process.skipped \/ Alive(rec'[q])
    <3>1. CASE q = r
      BY <1>7, <1>11, <3>1 DEF Alive
    <3>2. CASE q # r
      <4>1. round'[q] = round[q] /\ rec'[q] = rec[q]
        BY <1>1, <1>3, <1>4, <1>11, <3>2 DEF TypeOK
      <4>. QED BY <1>1, <1>3, <2>1, <4>1 DEF OpenIsKnown, Unfinished, Expected
    <3>. QED BY <3>1, <3>2
  <2>. QED BY <1>1, <1>2, <2>1 DEF OpenIsKnown, Unfinished, Expected
<1>. QED BY <1>10, <1>11, <1>12, <1>13, <1>14, <1>15, <1>16 DEF IInv

LEMMA LeaveStep ==
  ASSUME IInv, NEW u \in Users, Leave(u)
  PROVE  IInv'
<1>. DEFINE r == seat[u]
            es == round[r].entries
            slot == SlotOf(rec[r].entries, u)
            alone == Cardinality(TakenIn(rec[r].entries)) = 1
            k == rec[r].stake
            ref == StakeRef(r, rec[r].entries[slot].at)
            new == IF alone THEN DeletedRow ELSE LeftRow(round[r], slot)
            me == IF alone THEN NoRec ELSE [rec[r] EXCEPT !.entries[slot] = Free]
<1>1. /\ process.mode = "up" /\ starting = None /\ r # None /\ rec[r].phase = "lobby"
      /\ CanCredit(ledger, u, k, "RACE_REFUND", ref)
      /\ round' = [round EXCEPT ![r] = new]
      /\ ledger' = Credit(ledger, u, k, "RACE_REFUND", ref)
      /\ rec' = [rec EXCEPT ![r] = me]
  BY DEF Leave, Queue, LeftRow, DeletedRow
<1>2. /\ seat' = [seat EXCEPT ![u] = None]
      /\ lobby' = [j \in Stakes |-> IF alone /\ lobby[j] = r THEN None ELSE lobby[j]]
      /\ last' = last /\ timers' = timers /\ starting' = starting
      /\ now' = now /\ process' = process /\ failures' = failures
  BY DEF Leave, outside
<1>3. /\ TypeOK /\ Whole /\ RowsOK /\ Matches /\ Idle /\ Seats /\ Lobbies /\ OpenIsKnown /\ VoidsOpen
      /\ Accounted
  BY DEF IInv
<1>4. r \in Races /\ r # None
  BY <1>1, <1>3 DEF TypeOK
<1>5. /\ round[r] \in Rounds /\ RowOK(round[r]) /\ rec[r] \in Recs /\ es \in Places /\ Seating(es)
      /\ round[r].status = "open" /\ rec[r].entries = es /\ k = round[r].stake
      /\ k \in Stakes /\ k \in Nat \ {0}
  <2>1. /\ round[r] \in Rounds /\ RowOK(round[r]) /\ rec[r] \in Recs /\ es \in Places /\ Seating(es)
        /\ Match(round[r], rec[r])
    BY <1>3, <1>4, LiveRow
  <2>2. round[r].status = "open" /\ rec[r].entries = es /\ k = round[r].stake
    BY <1>1, <2>1 DEF Match
  <2>. QED BY <2>1, <2>2, RaceAssumption DEF RowOK
<1>6. u \in HumansIn(es)
  <2>1. IsIn(rec[r], u)
    BY <1>3, <1>4 DEF Seats
  <2>. QED BY <1>5, <2>1 DEF IsIn
<1>7. slot = SlotOf(es, u) /\ alone = (Cardinality(TakenIn(es)) = 1)
  BY <1>5
<1>. HIDE DEF r, slot, alone
<1>8. /\ new \in Rounds /\ RowOK(new) /\ me \in Recs /\ Match(new, me)
      /\ \A v \in Users : IsIn(me, v) <=> v \in HumansIn(es) /\ v # u
      /\ alone => new.status = "deleted"
      /\ ~ alone => Alive(me) /\ me.phase = "lobby" /\ me.stake = k /\ TakenIn(me.entries) # Slots
      /\ \A v \in Users : Due(new, v) = Due(round[r], v) + (IF v = u THEN k ELSE 0)
  <2>1. CASE alone
    <3>1. /\ new = DeletedRow /\ me = NoRec
      BY <2>1
    <3>2. /\ DeletedRow \in Rounds /\ RowOK(DeletedRow) /\ DeletedRow.status = "deleted"
          /\ HumansIn(es) = {u}
          /\ \A v \in Users : Due(DeletedRow, v) = Due(round[r], v) + (IF v = u THEN k ELSE 0)
      BY <1>5, <1>6, <1>7, <2>1, CloseRow
    <3>3. NoRec \in Recs /\ NoRec.phase = "none"
      BY FreeIsEntry DEF NoRec, Recs, Places
    <3>4. Match(DeletedRow, NoRec) /\ \A v \in Users : ~ IsIn(NoRec, v)
      BY <3>3 DEF Match, IsIn, Alive
    <3>. HIDE DEF new, me
    <3>. QED BY <2>1, <3>1, <3>2, <3>3, <3>4
  <2>2. CASE ~ alone
    <3>. DEFINE row == LeftRow(round[r], slot)
                m == [rec[r] EXCEPT !.entries[slot] = Free]
    <3>1. new = row /\ me = m
      BY <2>2
    <3>2. /\ row \in Rounds /\ RowOK(row) /\ row.status = "open" /\ row.stake = k
          /\ row.entries = Cleared(es, slot)
          /\ slot \in Slots \ TakenIn(row.entries)
          /\ HumansIn(row.entries) = HumansIn(es) \ {u}
          /\ \A v \in Users : Due(row, v) = Due(round[r], v) + (IF v = u THEN k ELSE 0)
      BY <1>5, <1>6, <1>7, LeaveRow
    <3>3. row.entries \in Places
      BY <3>2, RowType
    <3>4. m \in Recs /\ m.phase = "lobby" /\ m.stake = k /\ m.entries = row.entries
      BY <1>1, <1>5, <3>2, <3>3 DEF Recs, Places, Cleared
    <3>. HIDE DEF row, m
    <3>5. Match(row, m) /\ Alive(m) /\ \A v \in Users : IsIn(m, v) <=> v \in HumansIn(es) /\ v # u
      BY <3>2, <3>4 DEF Match, Alive, IsIn
    <3>6. TakenIn(m.entries) # Slots
      BY <3>2, <3>4
    <3>. HIDE DEF new, me
    <3>. QED BY <2>2, <3>1, <3>2, <3>4, <3>5, <3>6
  <2>. QED BY <2>1, <2>2
<1>. HIDE DEF new, me
<1>9. Books(ledger') /\ Moves(ledger, ledger', u, r, k)
  <2>1. Books(ledger)
    BY <1>3 DEF TypeOK, Whole, Books, WholeRows
  <2>2. ref[1] = "race" /\ ref[2] = r
    BY DEF StakeRef
  <2>. HIDE DEF ref
  <2>3. /\ Books(Credit(ledger, u, k, "RACE_REFUND", ref))
        /\ Moves(ledger, Credit(ledger, u, k, "RACE_REFUND", ref), u, ref[2], k)
    BY <1>1, <1>5, <2>1, <2>2, CreditOne
  <2>. QED BY <1>1, <2>2, <2>3
<1>10. round' \in [Races -> Rounds] /\ RowsOK' /\ Accounted'
  <2>1. k \in Int
    BY <1>5
  <2>2. \A v \in Users, q \in Races :
          SumOf(RowsOfRace(ledger'.rows, v, q)) = SumOf(RowsOfRace(ledger.rows, v, q)) +
             (IF q = r THEN Due(new, v) - Due(round[r], v) ELSE 0)
    BY <1>3, <1>4, <1>8, <1>9, <2>1, MovesRow
  <2>. QED BY <1>1, <1>3, <1>4, <1>8, <2>2, RowStep
<1>11. /\ rec' \in [Races -> Recs] /\ Matches'
       /\ rec'[r] = me /\ \A q \in Races \ {r} : rec'[q] = rec[q]
  BY <1>1, <1>3, <1>4, <1>8, RecStep
<1>12. TypeOK'
  <2>1. /\ lobby' \in [Stakes -> Races \cup {None}] /\ seat' \in [Users -> Races \cup {None}]
    BY <1>2, <1>3, <1>4 DEF TypeOK
  <2>. QED BY <1>2, <1>3, <1>9, <1>10, <1>11, <2>1 DEF TypeOK, Books, WholeRows
<1>13. Whole' /\ Idle' /\ VoidsOpen'
  BY <1>1, <1>2, <1>9 DEF Whole, Books, WholeRows, Idle, VoidsOpen
<1>14. Seats'
  <2>1. seat \in [Users -> Races \cup {None}] /\ seat[u] = r
    BY <1>3 DEF TypeOK, r
  <2>2. ASSUME NEW v \in Users, NEW q \in Races PROVE IsIn(rec'[q], v) <=> seat'[v] = q
    <3>1. IsIn(rec[q], v) <=> seat[v] = q
      BY <1>3 DEF Seats
    <3>2. q # None
      BY RaceAssumption
    <3>3. CASE q # r
      BY <1>2, <1>11, <2>1, <3>1, <3>2, <3>3
    <3>4. CASE q = r
      <4>1. IsIn(rec'[q], v) <=> v \in HumansIn(es) /\ v # u
        BY <1>8, <1>11, <3>4
      <4>2. v \in HumansIn(es) <=> IsIn(rec[r], v)
        BY <1>1, <1>5 DEF IsIn, Alive
      <4>. QED BY <1>2, <2>1, <3>1, <3>2, <3>4, <4>1, <4>2
    <3>. QED BY <3>3, <3>4
  <2>. QED BY <2>2 DEF Seats
<1>15. Lobbies'
  <2>1. ASSUME NEW j \in Stakes, lobby'[j] # None PROVE Gathers(rec'[lobby'[j]], j)
    <3>1. /\ lobby'[j] = lobby[j] /\ Gathers(rec[lobby[j]], j) /\ lobby[j] \in Races
          /\ alone => lobby[j] # r
      BY <1>2, <1>3, <2>1 DEF Lobbies, TypeOK
    <3>2. CASE lobby[j] = r
      <4>1. k = j
        BY <3>1, <3>2 DEF Gathers
      <4>. HIDE DEF k
      <4>. QED BY <1>8, <1>11, <3>1, <3>2, <4>1 DEF Gathers
    <3>3. CASE lobby[j] # r
      BY <1>11, <3>1, <3>3
    <3>. QED BY <3>2, <3>3
  <2>. QED BY <2>1 DEF Lobbies
<1>16. OpenIsKnown'
  <2>1. ASSUME NEW q \in Races, round'[q].status \in {"open", "started"}
        PROVE  q \in process.skipped \/ Alive(rec'[q])
    <3>0. round'[r] = new /\ (q # r => round'[q] = round[q])
      BY <1>1, <1>3, <1>4 DEF TypeOK
    <3>1. CASE q = r
      BY <1>8, <1>11, <2>1, <3>0, <3>1
    <3>2. CASE q # r
      BY <1>1, <1>3, <1>11, <2>1, <3>0, <3>2 DEF OpenIsKnown, Unfinished, Expected
    <3>. QED BY <3>1, <3>2
  <2>. QED BY <1>1, <1>2, <2>1 DEF OpenIsKnown, Unfinished, Expected
<1>. QED BY <1>10, <1>11, <1>12, <1>13, <1>14, <1>15, <1>16 DEF IInv

(* The rows, the journal and the memory of the races are as they were.      *)
LEMMA RacesSame ==
  ASSUME IInv, UNCHANGED <<round, ledger, rec, lobby, seat>>
  PROVE  /\ RowsOK' /\ Accounted' /\ Whole' /\ Matches' /\ Seats' /\ Lobbies'
         /\ round' \in [Races -> Rounds] /\ rec' \in [Races -> Recs]
         /\ ledger'.balance \in [Users -> Nat] /\ IsFiniteSet(ledger'.rows)
         /\ lobby' \in [Stakes -> Races \cup {None}] /\ seat' \in [Users -> Races \cup {None}]
BY DEF IInv, TypeOK, RowsOK, Accounted, Whole, Matches, Seats, Lobbies

(* The queue goes on: a timer fires, or the start has nothing to do, or it   *)
(* fails.                                                                  *)
LEMMA QueueStep ==
  ASSUME IInv,
         (\E r \in Races : Fire(r)) \/ NothingToStart \/ StartFails
  PROVE  IInv'
<1>1. /\ UNCHANGED <<round, ledger, rec, lobby, seat, now, process, last>> /\ process.mode = "up"
      /\ timers' \subseteq Races /\ starting' \in Races \cup {None}
      /\ failures' \in 0 .. MaxFailures
  <2>1. TypeOK
    BY DEF IInv
  <2>2. CASE \E r \in Races : Fire(r)
    BY <2>1, <2>2 DEF Fire, TypeOK, Queue
  <2>3. CASE NothingToStart
    BY <2>1, <2>3 DEF NothingToStart, TypeOK
  <2>4. CASE StartFails
    BY <2>1, <2>4, RaceAssumption DEF StartFails, TypeOK, RetryStart
  <2>. QED BY <2>2, <2>3, <2>4
<1>2. TypeOK'
  BY <1>1, RacesSame DEF IInv, TypeOK
<1>3. Idle' /\ OpenIsKnown' /\ VoidsOpen'
  BY <1>1 DEF IInv, Idle, OpenIsKnown, VoidsOpen, Expected, Unfinished
<1>. QED BY <1>1, <1>2, <1>3, RacesSame DEF IInv

LEMMA StartStep ==
  ASSUME IInv, Start
  PROVE  IInv'
<1>. DEFINE r == starting
            es == round[r].entries
            new == StartedRow(round[r])
            me == [rec[r] EXCEPT !.phase = "running", !.entries = WithBots(@)]
<1>1. /\ process.mode = "up" /\ r # None /\ rec[r].phase = "lobby"
      /\ lobby' = [j \in Stakes |-> IF lobby[j] = r THEN None ELSE lobby[j]]
      /\ starting' = None
      /\ ledger' = ledger /\ seat' = seat /\ last' = last /\ timers' = timers
      /\ now' = now /\ process' = process /\ failures' = failures
  BY DEF Start, Startable, outside
<1>2. /\ TypeOK /\ Whole /\ RowsOK /\ Matches /\ Idle /\ Seats /\ Lobbies /\ OpenIsKnown /\ VoidsOpen
      /\ Accounted
  BY DEF IInv
<1>3. r \in Races
  BY <1>1, <1>2 DEF TypeOK
<1>4. round' = [round EXCEPT ![r] = new] /\ rec' = [rec EXCEPT ![r] = me]
  BY DEF Start, StartedRow
<1>5. /\ round[r] \in Rounds /\ RowOK(round[r]) /\ rec[r] \in Recs
      /\ round[r].status = "open" /\ rec[r].entries = es /\ rec[r].stake = round[r].stake
  BY <1>1, <1>2, <1>3, LiveRow DEF Match
<1>. HIDE DEF r
<1>6. /\ new \in Rounds /\ RowOK(new) /\ new.status = "started" /\ new.stake = round[r].stake
      /\ new.entries = WithBots(es)
      /\ HumansIn(new.entries) = HumansIn(es)
      /\ \A v \in Users : Due(new, v) = Due(round[r], v)
  BY <1>5, StartRow
<1>7. new.entries \in Places
  BY <1>6, RowType
<1>8. me \in Recs /\ me.phase = "running" /\ me.stake = new.stake /\ me.entries = new.entries
  BY <1>5, <1>6, <1>7 DEF Recs, Places
<1>. HIDE DEF new, me
<1>9. Match(new, me) /\ Alive(me) /\ \A v \in Users : IsIn(me, v) <=> IsIn(rec[r], v)
  BY <1>1, <1>5, <1>6, <1>8 DEF Match, Alive, IsIn
<1>10. round' \in [Races -> Rounds] /\ RowsOK' /\ Accounted'
  <2>1. \A v \in Users : Due(round[r], v) \in Int
    BY <1>5, DueType
  <2>2. ASSUME NEW v \in Users, NEW q \in Races
        PROVE  SumOf(RowsOfRace(ledger'.rows, v, q)) = SumOf(RowsOfRace(ledger.rows, v, q)) +
                 (IF q = r THEN Due(new, v) - Due(round[r], v) ELSE 0)
    <3>1. SumOf(RowsOfRace(ledger.rows, v, q)) = Due(round[q], v) /\ Due(round[q], v) \in Int
      BY <1>2, DueType DEF Accounted, RowsOK, TypeOK
    <3>2. (IF q = r THEN Due(new, v) - Due(round[r], v) ELSE 0) = 0
      BY <1>6, <2>1
    <3>. QED BY <1>1, <3>1, <3>2
  <2>. QED BY <1>2, <1>3, <1>4, <1>6, <2>2, RowStep
<1>11. /\ rec' \in [Races -> Recs] /\ Matches'
       /\ rec'[r] = me /\ \A q \in Races \ {r} : rec'[q] = rec[q]
  BY <1>2, <1>3, <1>4, <1>8, <1>9, RecStep
<1>12. TypeOK'
  <2>1. lobby' \in [Stakes -> Races \cup {None}]
    BY <1>1, <1>2 DEF TypeOK
  <2>. QED BY <1>1, <1>2, <1>10, <1>11, <2>1 DEF TypeOK
<1>13. Whole' /\ Idle' /\ VoidsOpen'
  BY <1>1, <1>2 DEF Whole, Idle, VoidsOpen
<1>14. Seats'
  BY <1>1, <1>2, <1>9, <1>11 DEF Seats
<1>15. Lobbies'
  BY <1>1, <1>2, <1>11 DEF Lobbies, TypeOK
<1>16. OpenIsKnown'
  <2>1. ASSUME NEW q \in Races, round'[q].status \in {"open", "started"}
        PROVE  q \in process.skipped \/ Alive(rec'[q])
    <3>1. CASE q = r
      BY <1>9, <1>11, <3>1
    <3>2. CASE q # r
      <4>1. round'[q] = round[q]
        BY <1>2, <1>3, <1>4, <3>2 DEF TypeOK
      <4>. QED BY <1>1, <1>2, <1>11, <2>1, <3>2, <4>1 DEF OpenIsKnown, Unfinished, Expected
    <3>. QED BY <3>1, <3>2
  <2>. QED BY <1>1, <2>1 DEF OpenIsKnown, Unfinished, Expected
<1>. QED BY <1>10, <1>11, <1>12, <1>13, <1>14, <1>15, <1>16 DEF IInv

LEMMA OverStep ==
  ASSUME IInv, NEW r \in Races, Over(r)
  PROVE  IInv'
<1>1. PICK s \in Slots : rec' = [rec EXCEPT ![r].phase = "over", ![r].winner = s]
  BY DEF Over
<1>. DEFINE me == [rec[r] EXCEPT !.phase = "over", !.winner = s]
<1>2. /\ UNCHANGED <<now, round, ledger, process, lobby, seat, last, timers, starting, failures>>
      /\ process.mode = "up" /\ rec[r].phase = "running"
  BY DEF Over
<1>3. /\ TypeOK /\ Whole /\ RowsOK /\ Matches /\ Idle /\ Seats /\ Lobbies /\ OpenIsKnown /\ VoidsOpen
      /\ Accounted
  BY DEF IInv
<1>4. rec' = [rec EXCEPT ![r] = me] /\ rec[r] \in Recs
  BY <1>1, <1>3 DEF TypeOK
<1>5. /\ me \in Recs /\ me.phase = "over" /\ me.entries = rec[r].entries /\ me.stake = rec[r].stake
      /\ me.winner = s
  BY <1>4 DEF Recs
<1>. HIDE DEF me
<1>6. /\ Match(round[r], me) /\ Alive(me)
      /\ \A v \in Users : IsIn(me, v) <=> IsIn(rec[r], v)
  BY <1>2, <1>3, <1>5 DEF Matches, Match, Alive, IsIn
<1>7. /\ rec' \in [Races -> Recs] /\ Matches'
      /\ rec'[r] = me /\ \A q \in Races \ {r} : rec'[q] = rec[q]
  <2>1. round' = [round EXCEPT ![r] = round[r]]
    BY <1>2, <1>3 DEF TypeOK
  <2>. QED BY <1>3, <1>4, <1>5, <1>6, <2>1, RecStep
<1>8. TypeOK' /\ RowsOK' /\ Accounted' /\ Whole' /\ Idle' /\ VoidsOpen'
  BY <1>2, <1>3, <1>7 DEF TypeOK, RowsOK, Accounted, Whole, Idle, VoidsOpen
<1>9. Seats'
  BY <1>2, <1>3, <1>6, <1>7 DEF Seats
<1>10. Lobbies'
  BY <1>2, <1>3, <1>7 DEF Lobbies, Gathers, TypeOK
<1>11. OpenIsKnown'
  BY <1>2, <1>3, <1>6, <1>7 DEF OpenIsKnown, Unfinished, Expected
<1>. QED BY <1>7, <1>8, <1>9, <1>10, <1>11 DEF IInv

(* The transaction of the end, the first time and again.                   *)
LEMMA PaidFacts ==
  ASSUME IInv, NEW r \in Races, rec[r].phase = "over", PaidOut(r)
  PROVE  /\ Books(ledger')
         /\ round' \in [Races -> Rounds] /\ RowsOK' /\ Accounted'
         /\ round'[r].status = "finished" /\ \A q \in Races \ {r} : round'[q] = round[q]
         /\ round[r].status = "finished" => round'[r] = round[r]
         /\ round[r].status = "started" => WhoIn(round'[r].entries) = WhoIn(round[r].entries)
         /\ round[r].status \in {"started", "finished"}
<1>. DEFINE es == round[r].entries
            w == rec[r].winner
            pot == round[r].stake * Cardinality(Slots)
            prize == IF es[w].bot THEN 0 ELSE pot
            new == FinishedRow(round[r], w, prize)
<1>1. /\ TypeOK /\ RowsOK /\ Accounted /\ Books(ledger)
      /\ round[r] \in Rounds /\ RowOK(round[r]) /\ Match(round[r], rec[r])
  BY LiveRow DEF IInv, TypeOK, Books, WholeRows, Whole
<1>2. /\ w \in Slots
      /\ (round[r].status = "started" /\ rec[r].entries = es) \/ round[r].status = "finished"
  BY <1>1 DEF Match
<1>3. CASE round[r].status = "finished"
  <2>1. round' = round /\ ledger' = ledger
    BY <1>3 DEF PaidOut, FirstFinish
  <2>. QED BY <1>1, <1>3, <2>1 DEF TypeOK, RowsOK, Accounted
<1>4. CASE round[r].status = "started"
  <2>1. rec[r].entries = es /\ Winner(r) = es[w] /\ Pot(r) = pot
    BY <1>2, <1>4 DEF Winner, Pot
  <2>2. /\ es[w].bot \/ CanCredit(ledger, es[w].user, pot, "RACE_WIN", WinRef(r))
        /\ round' = [round EXCEPT ![r] = new]
        /\ ledger' = IF es[w].bot THEN ledger
                     ELSE Credit(ledger, es[w].user, pot, "RACE_WIN", WinRef(r))
    BY <1>4, <2>1 DEF PaidOut, FirstFinish, PotIsFree, FinishedRow
  <2>3. /\ new \in Rounds /\ RowOK(new) /\ new.status = "finished" /\ pot \in Nat \ {0}
        /\ WhoIn(new.entries) = WhoIn(es)
        /\ es[w].bot \/ es[w].user \in Users
        /\ \A v \in Users : Due(new, v) = Due(round[r], v) +
             (IF ~ es[w].bot /\ v = es[w].user THEN pot ELSE 0)
    BY <1>1, <1>2, <1>4, FinishRow
  <2>. HIDE DEF new, pot
  <2>4. \A v \in Users : Due(round[r], v) \in Int
    BY <1>1, DueType
  <2>5. /\ Books(ledger')
        /\ \A v \in Users, q \in Races :
             SumOf(RowsOfRace(ledger'.rows, v, q)) = SumOf(RowsOfRace(ledger.rows, v, q)) +
               (IF q = r THEN Due(new, v) - Due(round[r], v) ELSE 0)
    <3>1. CASE es[w].bot
      <4>1. ledger' = ledger
        BY <2>2, <3>1
      <4>2. ASSUME NEW v \in Users, NEW q \in Races
            PROVE  SumOf(RowsOfRace(ledger'.rows, v, q)) = SumOf(RowsOfRace(ledger.rows, v, q)) +
                     (IF q = r THEN Due(new, v) - Due(round[r], v) ELSE 0)
        <5>1. SumOf(RowsOfRace(ledger.rows, v, q)) = Due(round[q], v) /\ Due(round[q], v) \in Int
          BY <1>1, DueType DEF Accounted, RowsOK, TypeOK
        <5>2. (IF q = r THEN Due(new, v) - Due(round[r], v) ELSE 0) = 0
          BY <2>3, <2>4, <3>1
        <5>. QED BY <4>1, <5>1, <5>2
      <4>. QED BY <1>1, <4>1, <4>2
    <3>2. CASE ~ es[w].bot
      <4>. DEFINE u == es[w].user
                  ref == WinRef(r)
      <4>1. u \in Users /\ ledger' = Credit(ledger, u, pot, "RACE_WIN", ref)
            /\ CanCredit(ledger, u, pot, "RACE_WIN", ref)
        BY <2>2, <2>3, <3>2
      <4>2. ref[1] = "race" /\ ref[2] = r
        BY DEF WinRef
      <4>3. \A v \in Users : Due(new, v) = Due(round[r], v) + (IF v = u THEN pot ELSE 0)
        BY <2>3, <3>2
      <4>. HIDE DEF u, ref
      <4>4. Books(ledger') /\ Moves(ledger, ledger', u, r, pot)
        <5>1. /\ Books(Credit(ledger, u, pot, "RACE_WIN", ref))
              /\ Moves(ledger, Credit(ledger, u, pot, "RACE_WIN", ref), u, ref[2], pot)
          BY <1>1, <2>3, <4>1, <4>2, CreditOne
        <5>. QED BY <4>1, <4>2, <5>1
      <4>5. pot \in Int
        BY <2>3
      <4>. QED BY <1>1, <2>3, <4>1, <4>3, <4>4, <4>5, MovesRow
    <3>. QED BY <3>1, <3>2
  <2>6. round' \in [Races -> Rounds] /\ RowsOK' /\ Accounted'
    BY <1>1, <2>2, <2>3, <2>5, RowStep
  <2>7. round'[r] = new /\ \A q \in Races \ {r} : round'[q] = round[q]
    BY <1>1, <2>2 DEF TypeOK
  <2>. QED BY <1>4, <2>3, <2>5, <2>6, <2>7
<1>. QED BY <1>2, <1>3, <1>4

LEMMA FinishStep ==
  ASSUME IInv, NEW r \in Races, Finish(r)
  PROVE  IInv'
<1>. DEFINE me == [rec[r] EXCEPT !.phase = "finished"]
            people == HumansIn(rec[r].entries)
<1>1. /\ process.mode = "up" /\ starting = None /\ rec[r].phase = "over" /\ PaidOut(r)
      /\ rec' = [rec EXCEPT ![r].phase = "finished"]
      /\ seat' = [u \in Users |-> IF u \in people THEN None ELSE seat[u]]
      /\ last' = [u \in Users |-> IF u \in people THEN r ELSE last[u]]
      /\ lobby' = lobby /\ timers' = timers /\ starting' = starting
      /\ now' = now /\ process' = process /\ failures' = failures
  BY DEF Finish, Queue, outside
<1>2. /\ TypeOK /\ Whole /\ RowsOK /\ Matches /\ Idle /\ Seats /\ Lobbies /\ OpenIsKnown /\ VoidsOpen
      /\ Accounted
  BY DEF IInv
<1>3. /\ Books(ledger') /\ round' \in [Races -> Rounds] /\ RowsOK' /\ Accounted'
      /\ round'[r].status = "finished" /\ \A q \in Races \ {r} : round'[q] = round[q]
  BY <1>1, PaidFacts
<1>4. /\ rec' \in [Races -> Recs] /\ rec'[r] = me /\ me.phase = "finished"
      /\ \A q \in Races \ {r} : rec'[q] = rec[q]
  BY <1>1, <1>2 DEF TypeOK, Recs
<1>. HIDE DEF me
<1>5. Matches'
  <2>1. Match(round'[r], rec'[r])
    BY <1>3, <1>4 DEF Match
  <2>. QED BY <1>2, <1>3, <1>4, <2>1 DEF Matches
<1>6. TypeOK'
  <2>1. seat' \in [Users -> Races \cup {None}] /\ last' \in [Users -> Races \cup {None}]
    BY <1>1, <1>2 DEF TypeOK
  <2>. QED BY <1>1, <1>2, <1>3, <1>4, <2>1 DEF TypeOK, Books, WholeRows
<1>7. Whole' /\ Idle'
  BY <1>1, <1>3 DEF Whole, Books, WholeRows, Idle
<1>8. VoidsOpen' /\ OpenIsKnown'
  <2>1. VoidsOpen'
    BY <1>1 DEF VoidsOpen
  <2>2. ASSUME NEW q \in Races, round'[q].status \in {"open", "started"}
        PROVE  q \in process.skipped \/ Alive(rec'[q])
    BY <1>1, <1>2, <1>3, <1>4, <2>2 DEF OpenIsKnown, Unfinished, Expected
  <2>. QED BY <1>1, <2>1, <2>2 DEF OpenIsKnown, Unfinished, Expected
<1>9. Seats'
  <2>1. ASSUME NEW v \in Users, NEW q \in Races PROVE IsIn(rec'[q], v) <=> seat'[v] = q
    <3>1. (IsIn(rec[q], v) <=> seat[v] = q) /\ (IsIn(rec[r], v) <=> seat[v] = r) /\ q # None
      BY <1>2, RaceAssumption DEF Seats
    <3>2. IsIn(rec[r], v) <=> v \in people
      BY <1>1 DEF IsIn, Alive
    <3>3. ~ IsIn(rec'[r], v)
      BY <1>4 DEF IsIn, Alive
    <3>4. seat'[v] = IF v \in people THEN None ELSE seat[v]
      BY <1>1
    <3>. HIDE DEF people
    <3>. QED BY <1>4, <3>1, <3>2, <3>3, <3>4
  <2>. QED BY <2>1 DEF Seats
<1>10. Lobbies'
  BY <1>1, <1>2, <1>4 DEF Lobbies, Gathers, TypeOK
<1>. QED BY <1>3, <1>5, <1>6, <1>7, <1>8, <1>9, <1>10 DEF IInv

LEMMA FinishUnansweredStep ==
  ASSUME IInv, NEW r \in Races, FinishUnanswered(r)
  PROVE  IInv'
<1>1. /\ process.mode = "up" /\ rec[r].phase = "over" /\ PaidOut(r)
      /\ failures < MaxFailures /\ failures' = failures + 1
      /\ UNCHANGED <<now, process, rec, lobby, seat, last, timers, starting>>
  BY DEF FinishUnanswered, Queue, memory
<1>2. /\ TypeOK /\ Whole /\ RowsOK /\ Matches /\ Idle /\ Seats /\ Lobbies /\ OpenIsKnown /\ VoidsOpen
      /\ Accounted
  BY DEF IInv
<1>3. /\ Books(ledger') /\ round' \in [Races -> Rounds] /\ RowsOK' /\ Accounted'
      /\ round'[r].status = "finished" /\ \A q \in Races \ {r} : round'[q] = round[q]
  BY <1>1, PaidFacts
<1>4. Matches'
  <2>1. Match(round'[r], rec'[r])
    BY <1>1, <1>2, <1>3 DEF Matches, Match
  <2>. QED BY <1>1, <1>2, <1>3, <2>1 DEF Matches
<1>5. TypeOK'
  <2>1. failures' \in 0 .. MaxFailures
    BY <1>1, <1>2, RaceAssumption DEF TypeOK
  <2>. QED BY <1>1, <1>2, <1>3, <2>1 DEF TypeOK, Books, WholeRows
<1>6. Whole' /\ Idle' /\ VoidsOpen' /\ Seats' /\ Lobbies'
  BY <1>1, <1>2, <1>3 DEF Whole, Books, WholeRows, Idle, VoidsOpen, Seats, Lobbies
<1>7. OpenIsKnown'
  BY <1>1, <1>2, <1>3 DEF OpenIsKnown, Unfinished, Expected, Alive
<1>. QED BY <1>3, <1>4, <1>5, <1>6, <1>7 DEF IInv

LEMMA ForgetStep ==
  ASSUME IInv, NEW r \in Races, Forget(r)
  PROVE  IInv'
<1>1. /\ rec[r].phase = "finished" /\ process.mode = "up"
      /\ rec' = [rec EXCEPT ![r] = NoRec]
      /\ last' = [u \in Users |-> IF last[u] = r THEN None ELSE last[u]]
      /\ UNCHANGED <<now, round, ledger, process, lobby, seat, timers, starting, failures>>
  BY DEF Forget, Queue
<1>2. /\ TypeOK /\ Whole /\ RowsOK /\ Matches /\ Idle /\ Seats /\ Lobbies /\ OpenIsKnown /\ VoidsOpen
      /\ Accounted
  BY DEF IInv
<1>3. NoRec \in Recs /\ Match(round[r], NoRec) /\ NoRec.phase = "none"
  BY FreeIsEntry DEF NoRec, Recs, Places, Match
<1>4. /\ rec' \in [Races -> Recs] /\ Matches'
      /\ rec'[r] = NoRec /\ \A q \in Races \ {r} : rec'[q] = rec[q]
  <2>1. round' = [round EXCEPT ![r] = round[r]]
    BY <1>1, <1>2 DEF TypeOK
  <2>. QED BY <1>1, <1>2, <1>3, <2>1, RecStep
<1>5. TypeOK' /\ RowsOK' /\ Accounted' /\ Whole' /\ Idle' /\ VoidsOpen'
  BY <1>1, <1>2, <1>4 DEF TypeOK, RowsOK, Accounted, Whole, Idle, VoidsOpen
<1>6. Seats'
  BY <1>1, <1>2, <1>3, <1>4 DEF Seats, IsIn, Alive
<1>7. Lobbies'
  BY <1>1, <1>2, <1>4 DEF Lobbies, Gathers, TypeOK
<1>8. OpenIsKnown'
  <2>1. round[r].status = "finished"
    BY <1>1, <1>2 DEF Matches, Match
  <2>. QED BY <1>1, <1>2, <1>4, <2>1 DEF OpenIsKnown, Unfinished, Expected
<1>. QED BY <1>4, <1>5, <1>6, <1>7, <1>8 DEF IInv

(* The process dies, reads what was interrupted, and serves again.          *)
LEMMA DieStep ==
  ASSUME IInv, Die
  PROVE  IInv'
<1>1. /\ failures < MaxFailures /\ failures' = failures + 1
      /\ process' = [mode |-> "down", open |-> {}, skipped |-> {}]
      /\ rec' = [r \in Races |-> NoRec]
      /\ lobby' = [k \in Stakes |-> None]
      /\ seat' = [u \in Users |-> None] /\ last' = [u \in Users |-> None]
      /\ timers' = {} /\ starting' = None
      /\ UNCHANGED <<now, round, ledger>>
  BY DEF Die, Forgotten
<1>2. TypeOK /\ RowsOK /\ Accounted /\ Whole
  BY DEF IInv
<1>3. NoRec \in Recs /\ NoRec.phase = "none"
  BY FreeIsEntry DEF NoRec, Recs, Places
<1>4. TypeOK'
  BY <1>1, <1>2, <1>3, RaceAssumption DEF TypeOK
<1>5. RowsOK' /\ Accounted' /\ Whole' /\ Idle' /\ VoidsOpen' /\ OpenIsKnown' /\ Lobbies'
  BY <1>1, <1>2 DEF RowsOK, Accounted, Whole, Idle, VoidsOpen, OpenIsKnown, Expected, Lobbies
<1>6. Matches' /\ Seats'
  BY <1>1, <1>3, RaceAssumption DEF Matches, Match, Seats, IsIn, Alive
<1>. QED BY <1>4, <1>5, <1>6 DEF IInv

LEMMA BootStep ==
  ASSUME IInv, Boot
  PROVE  IInv'
<1>1. /\ process.mode = "down"
      /\ process' = [mode |-> "booting", open |-> Interrupted, skipped |-> {}]
      /\ UNCHANGED <<now, round, ledger, rec, lobby, seat, last, timers, starting, failures>>
  BY DEF Boot, memory
<1>2. Interrupted \subseteq Races /\ \A r \in Races : r \in Interrupted <=> Unfinished(r)
  BY DEF Interrupted, Unfinished
<1>3. TypeOK'
  BY <1>1, <1>2 DEF IInv, TypeOK
<1>4. Idle' /\ OpenIsKnown' /\ VoidsOpen'
  BY <1>1, <1>2 DEF IInv, Idle, OpenIsKnown, VoidsOpen, Expected, Unfinished
<1>. QED BY <1>1, <1>3, <1>4, RacesSame DEF IInv

LEMMA ServeStep ==
  ASSUME IInv, Serve
  PROVE  IInv'
<1>1. /\ process.mode = "booting" /\ process.open = {}
      /\ process' = [process EXCEPT !.mode = "up"]
      /\ UNCHANGED <<now, round, ledger, rec, lobby, seat, last, timers, starting, failures>>
  BY DEF Serve, memory
<1>2. TypeOK
  BY DEF IInv
<1>3. process'.mode = "up" /\ process'.open = {} /\ process'.skipped = process.skipped
  BY <1>1, <1>2 DEF TypeOK
<1>4. TypeOK'
  BY <1>1, <1>2, <1>3 DEF TypeOK
<1>5. Idle' /\ OpenIsKnown' /\ VoidsOpen'
  BY <1>1, <1>2, <1>3 DEF IInv, Idle, OpenIsKnown, VoidsOpen, Expected, Unfinished
<1>. QED BY <1>1, <1>4, <1>5, RacesSame DEF IInv

(* A race is voided, or it cannot be.                                      *)
LEMMA VoidFailsStep ==
  ASSUME IInv, NEW r \in Races, VoidFails(r)
  PROVE  IInv'
<1>1. /\ process.mode = "booting" /\ r \in process.open
      /\ failures < MaxFailures /\ failures' = failures + 1
      /\ process' = [process EXCEPT !.open = @ \ {r}, !.skipped = @ \cup {r}]
      /\ UNCHANGED <<now, round, ledger, rec, lobby, seat, last, timers, starting>>
  BY DEF VoidFails, memory
<1>2. TypeOK
  BY DEF IInv
<1>3. /\ process'.mode = "booting" /\ process'.open = process.open \ {r}
      /\ process'.skipped = process.skipped \cup {r}
      /\ process' \in [mode : {"up", "down", "booting"}, open : SUBSET Races, skipped : SUBSET Races]
  BY <1>1, <1>2 DEF TypeOK
<1>4. TypeOK'
  BY <1>1, <1>2, <1>3, RaceAssumption DEF TypeOK
<1>5. Idle' /\ OpenIsKnown' /\ VoidsOpen'
  BY <1>1, <1>2, <1>3 DEF IInv, Idle, OpenIsKnown, VoidsOpen, Expected, Unfinished
<1>. QED BY <1>1, <1>4, <1>5, RacesSame DEF IInv

LEMMA VoidStep ==
  ASSUME IInv, NEW r \in Races, Void(r)
  PROVE  IInv'
<1>. DEFINE row == round[r]
            new == VoidedRow(row)
<1>1. /\ process.mode = "booting" /\ r \in process.open
      /\ \A x \in Refunds(r) : Fresh(ledger, x.user, x.kind, x.ref)
      /\ round' = [round EXCEPT ![r] = new]
      /\ ledger' = RefundAll(ledger, r)
      /\ process' = [process EXCEPT !.open = @ \ {r}]
      /\ UNCHANGED <<now, rec, lobby, seat, last, timers, starting, failures>>
  BY DEF Void, memory, VoidedRow
<1>2. /\ TypeOK /\ Whole /\ RowsOK /\ Matches /\ Idle /\ Seats /\ Lobbies /\ OpenIsKnown /\ VoidsOpen
      /\ Accounted
  BY DEF IInv
<1>3. /\ row \in Rounds /\ RowOK(row) /\ Seating(row.entries) /\ row.stake \in Nat
      /\ row.status \in {"open", "started"}
  BY <1>1, <1>2, LiveRow, RowType DEF VoidsOpen, Unfinished
<1>4. /\ new \in Rounds /\ RowOK(new) /\ new.status = "voided"
      /\ \A v \in Users : Due(new, v) = Due(row, v) + StakeIn(row, v)
  BY <1>3, VoidRow
<1>. HIDE DEF new
<1>5. /\ Refunds(r) = RefundRows(row, r)
      /\ ledger' = [balance |-> [u \in Users |-> ledger.balance[u] + StakeIn(row, u)],
                    rows |-> ledger.rows \cup RefundRows(row, r)]
  <2>1. Refunds(r) = RefundRows(row, r)
    BY DEF Refunds, RefundRows
  <2>. QED BY <1>1, <2>1 DEF RefundAll, StakeIn
<1>6. /\ WholeRows(ledger.rows) /\ WholeRows(ledger'.rows)
      /\ \A v \in Users, q \in Races :
           SumOf(RowsOfRace(ledger'.rows, v, q)) =
             SumOf(RowsOfRace(ledger.rows, v, q)) + (IF q = r THEN StakeIn(row, v) ELSE 0)
  <2>1. WholeRows(ledger.rows)
    BY <1>2 DEF TypeOK, Whole, WholeRows
  <2>2. \A x \in RefundRows(row, r) : x \notin ledger.rows
    BY <1>1, <1>5 DEF Fresh
  <2>3. ledger'.rows = ledger.rows \cup RefundRows(row, r)
    BY <1>5
  <2>. HIDE DEF row
  <2>. QED BY <1>3, <2>1, <2>2, <2>3, RefundsMove
<1>7. ledger'.balance \in [Users -> Nat]
  BY <1>2, <1>3, <1>5, RowType DEF TypeOK
<1>8. round' \in [Races -> Rounds] /\ RowsOK' /\ Accounted'
  <2>1. \A v \in Users : Due(row, v) \in Int /\ StakeIn(row, v) \in Nat
    BY <1>3, DueType, RowType
  <2>2. \A v \in Users : Due(new, v) - Due(row, v) = StakeIn(row, v)
    BY <1>4, <2>1
  <2>3. \A v \in Users, q \in Races :
          SumOf(RowsOfRace(ledger'.rows, v, q)) = SumOf(RowsOfRace(ledger.rows, v, q)) +
            (IF q = r THEN Due(new, v) - Due(round[r], v) ELSE 0)
    BY <1>6, <2>2
  <2>. QED BY <1>1, <1>2, <1>4, <2>3, RowStep
<1>9. round'[r] = new /\ \A q \in Races \ {r} : round'[q] = round[q]
  BY <1>1, <1>2 DEF TypeOK
<1>10. /\ process'.mode = "booting" /\ process'.open = process.open \ {r}
       /\ process'.skipped = process.skipped
       /\ process' \in [mode : {"up", "down", "booting"}, open : SUBSET Races, skipped : SUBSET Races]
  BY <1>1, <1>2 DEF TypeOK
<1>11. TypeOK'
  BY <1>1, <1>2, <1>6, <1>7, <1>8, <1>10 DEF TypeOK, WholeRows
<1>12. Whole' /\ Idle' /\ Seats' /\ Lobbies'
  BY <1>1, <1>2, <1>6, <1>10 DEF Whole, WholeRows, Idle, Seats, Lobbies
<1>13. Matches'
  <2>1. \A q \in Races : rec[q] = NoRec
    BY <1>1, <1>2 DEF Idle
  <2>. QED BY <1>1, <2>1 DEF Matches, Match, NoRec
<1>14. OpenIsKnown' /\ VoidsOpen'
  <2>1. ASSUME NEW q \in Races, Unfinished(q)'
        PROVE  q \in process.skipped \/ q \in process.open \ {r}
    <3>1. q # r
      BY <1>4, <1>9, <2>1 DEF Unfinished
    <3>. QED BY <1>1, <1>2, <1>9, <2>1, <3>1 DEF OpenIsKnown, Unfinished, Expected
  <2>2. VoidsOpen'
    BY <1>1, <1>2, <1>9, <1>10 DEF VoidsOpen, Unfinished, TypeOK
  <2>. QED BY <1>10, <2>1, <2>2 DEF OpenIsKnown, Expected
<1>. QED BY <1>8, <1>11, <1>12, <1>13, <1>14 DEF IInv

-----------------------------------------------------------------------------
(* Every variable stays in its type, and a balance is never negative; and    *)
(* the rest of the invariant, in every reachable state.                     *)
LEMMA InitInv == Init => IInv
<1>. SUFFICES ASSUME Init PROVE IInv
  OBVIOUS
<1>1. /\ now = 0 /\ round = [r \in Races |-> NoRound]
      /\ ledger.balance = [u \in Users |-> StartingCoins] /\ ledger.rows = {}
      /\ process = [mode |-> "up", open |-> {}, skipped |-> {}]
      /\ rec = [r \in Races |-> NoRec]
      /\ lobby = [k \in Stakes |-> None]
      /\ seat = [u \in Users |-> None] /\ last = [u \in Users |-> None]
      /\ timers = {} /\ starting = None /\ failures = 0
  BY DEF Init, NewLedger
<1>2. /\ NoRec \in Recs /\ NoRec.phase = "none" /\ NoRound \in Rounds /\ NoRound.status = "none"
      /\ NoRound.entries = Empty
  BY FreeIsEntry DEF NoRec, NoRound, Recs, Rounds, Places
<1>3. RowOK(NoRound)
  BY <1>2, FreeIsEntry DEF RowOK, NothingWon, Empty
<1>4. TypeOK
  <2>1. IsFiniteSet({})
    BY FS_EmptySet
  <2>. QED BY <1>1, <1>2, <2>1, RaceAssumption, StartingCoinsAssumption DEF TypeOK
<1>5. /\ Whole /\ RowsOK /\ Matches /\ Idle /\ Lobbies /\ OpenIsKnown /\ VoidsOpen
  BY <1>1, <1>2, <1>3
     DEF Whole, RowsOK, Matches, Match, Idle, Lobbies, OpenIsKnown, Unfinished, VoidsOpen
<1>6. Seats
  BY <1>1, <1>2, RaceAssumption DEF Seats, IsIn, Alive
<1>7. Accounted
  <2>1. ASSUME NEW r \in Races, NEW u \in Users
        PROVE  SumOf(RowsOfRace(ledger.rows, u, r)) = Due(round[r], u)
    <3>1. RowsOfRace(ledger.rows, u, r) = {}
      BY <1>1 DEF RowsOfRace
    <3>2. SumOf({}) = 0
      <4>1. WholeRows({})
        BY FS_EmptySet DEF WholeRows
      <4>. QED BY <4>1, SumOfType, SumEmpty
    <3>. QED BY <1>1, <1>2, <3>1, <3>2, DueIs
  <2>. QED BY <2>1 DEF Accounted
<1>. QED BY <1>4, <1>5, <1>6, <1>7 DEF IInv

LEMMA NextInv == IInv /\ [Next]_vars => IInv'
<1>. SUFFICES ASSUME IInv, [Next]_vars PROVE IInv'
  OBVIOUS
<1>1. CASE UNCHANGED vars
  BY <1>1 DEF vars, memory, IInv, TypeOK, Whole, RowsOK, Matches, Idle, Seats, Lobbies, OpenIsKnown,
              Unfinished, Expected, VoidsOpen, Accounted
<1>2. CASE Tick
  <2>1. /\ now < MaxTime /\ now' = now + 1
        /\ UNCHANGED <<round, ledger, process, rec, lobby, seat, last, timers, starting, failures>>
    BY <1>2 DEF Tick, memory
  <2>2. TypeOK'
    BY <2>1, RaceAssumption DEF IInv, TypeOK
  <2>3. Idle' /\ OpenIsKnown' /\ VoidsOpen'
    BY <2>1 DEF IInv, Idle, OpenIsKnown, VoidsOpen, Unfinished, Expected
  <2>. QED BY <2>1, <2>2, <2>3, RacesSame DEF IInv
<1>3. CASE \E r \in Races : Run(r) \/ FinishUnanswered(r) \/ Forget(r) \/ VoidFails(r)
  BY <1>3, QueueStep, OverStep, FinishStep, FinishUnansweredStep, ForgetStep, VoidFailsStep DEF Run
<1>. QED
  BY <1>1, <1>2, <1>3, JoinStep, LeaveStep, StartStep, QueueStep, DieStep, BootStep, ServeStep, VoidStep
     DEF Next, Restart

(* The inductive invariant behind the theorems below: the row of each race   *)
(* says where its stakes are, and what is in memory agrees with the rows.    *)
THEOREM Invariance == Spec => []IInv
BY InitInv, NextInv, PTL DEF Spec

(* Races, seats, timers, rows and coins keep their types.                    *)
THEOREM TypeCorrect == Spec => []TypeOK
<1>1. IInv => TypeOK
  BY DEF IInv
<1>. QED BY <1>1, Invariance, PTL

(* The seat of a person in memory is the race whose row he is in, and a row  *)
(* that is not finished is in memory, unless voiding it failed.             *)
THEOREM MemoryMatches == Spec => []MemoryMatchesRows
<1>1. ASSUME IInv PROVE MemoryMatchesRows
  <2>1. /\ TypeOK /\ RowsOK /\ Matches /\ Seats /\ Lobbies /\ OpenIsKnown
    BY <1>1 DEF IInv
  <2>2. \A r \in Races : r \in Live <=> Alive(rec[r])
    BY DEF Live, Alive
  <2>3. Live \subseteq Races
    BY DEF Live
  <2>4. ASSUME NEW u \in Users
        PROVE  {r \in Live : u \in HumansIn(rec[r].entries)} = {seat[u]} \ {None}
    <3>1. seat[u] \in Races \cup {None} /\ \A r \in Races : r # None
      BY <2>1, RaceAssumption DEF TypeOK
    <3>2. \A r \in Races : r \in Live /\ u \in HumansIn(rec[r].entries) <=> seat[u] = r
      BY <2>1, <2>2 DEF Seats, IsIn
    <3>. QED BY <2>3, <3>1, <3>2
  <2>5. \A r \in Live : \/ rec[r].entries = round[r].entries
                        \/ rec[r].phase = "over" /\ round[r].status = "finished"
    BY <2>1, <2>2, <2>3 DEF Matches, Match, Alive
  <2>6. \A k \in Stakes : lobby[k] # None =>
           /\ rec[lobby[k]].phase = "lobby" /\ rec[lobby[k]].stake = k
           /\ TakenIn(rec[lobby[k]].entries) # Slots
    BY <2>1 DEF Lobbies, Gathers
  <2>7. process.mode = "up" =>
          \A r \in Races \ process.skipped : round[r].status \in {"open", "started"} => r \in Live
    BY <2>1, <2>2 DEF OpenIsKnown, Unfinished, Expected
  <2>. QED BY <2>4, <2>5, <2>6, <2>7 DEF MemoryMatchesRows
<1>. QED BY <1>1, Invariance, PTL

(* A race has of a person exactly the stake while it gathers or runs,        *)
(* nothing once it is left or voided, and one person has the pot of a        *)
(* finished one, if not a bot.                                              *)
THEOREM StakesAreAccounted == Spec => []StakesAccounted
<1>1. ASSUME IInv, NEW r \in Races
      PROVE  /\ \A u \in Users :
                  SumOf(OfRace(u, r)) =
                    CASE round[r].status \in {"open", "started"} -> - Staked(u, r)
                      [] round[r].status = "finished" -> WonBy(u, r) - Staked(u, r)
                      [] OTHER -> 0
             /\ SumFunction([u \in Users |-> WonBy(u, r)]) \in {0, Pot(r)}
  <2>1. round[r] \in Rounds /\ RowOK(round[r]) /\ Accounted
    BY <1>1, LiveRow DEF IInv
  <2>2. \A u \in Users : OfRace(u, r) = RowsOfRace(ledger.rows, u, r)
    BY DEF OfRace, RowsOfRace
  <2>3. \A u \in Users : Staked(u, r) = StakeIn(round[r], u) /\ WonBy(u, r) = WonIn(round[r], u)
    BY DEF Staked, StakeIn, WonBy, WonIn
  <2>4. \A u \in Users : SumOf(OfRace(u, r)) = Due(round[r], u)
    BY <2>1, <2>2 DEF Accounted
  <2>5. [u \in Users |-> WonBy(u, r)] = [u \in Users |-> WonIn(round[r], u)]
    BY <2>3
  <2>6. SumFunction([u \in Users |-> WonBy(u, r)]) \in {0, Pot(r)}
    BY <2>1, <2>5, WonOnce DEF Pot
  <2>. QED BY <2>3, <2>4, <2>6 DEF Due
<1>2. IInv => StakesAccounted
  BY <1>1 DEF StakesAccounted
<1>. QED BY <1>2, Invariance, PTL

-----------------------------------------------------------------------------
(* The order of a race.                                                    *)

Forward(old, new) ==
  /\ Order(old.status) <= Order(new.status)
  /\ Order(old.status) = 3 => new = old
  /\ old.status = "started" => WhoIn(new.entries) = WhoIn(old.entries)

LEMMA ForwardSame == ASSUME NEW row PROVE Forward(row, row)
<1>1. Order(row.status) \in Nat
  BY DEF Order
<1>. QED BY <1>1 DEF Forward

(* One row is another, and it has gone forward.                            *)
LEMMA ForwardOne ==
  ASSUME TypeOK, NEW r \in Races, NEW new, round' = [round EXCEPT ![r] = new], Forward(round[r], new)
  PROVE  \A q \in Races : Forward(round[q], round'[q])
BY ForwardSame DEF TypeOK

LEMMA ForwardStep ==
  ASSUME IInv, Next
  PROVE  \A q \in Races : Forward(round[q], round'[q])
<1>0. TypeOK /\ RowsOK /\ Matches /\ VoidsOpen
  BY DEF IInv
<1>1. ASSUME NEW u \in Users, NEW k \in Stakes, Join(u, k)
      PROVE  \A q \in Races : Forward(round[q], round'[q])
  <2>. DEFINE r == RaceFor(k)
              slot == Min(Slots \ TakenIn(rec[r].entries))
              new == JoinedRow(round[r], k, slot, u, now)
  <2>1. round' = [round EXCEPT ![r] = new] /\ seat[u] = None /\ (lobby[k] # None \/ Unused # {})
    BY <1>1 DEF Join, JoinedRow
  <2>2. r \in Races /\ round[r].status \in {"none", "open"}
    BY <2>1, JoinFacts
  <2>3. round[r] \in Rounds
    BY <1>0, <2>2 DEF TypeOK
  <2>. HIDE DEF r, slot
  <2>4. new.status = "open"
    BY <2>3 DEF JoinedRow, Rounds
  <2>. HIDE DEF new
  <2>5. Forward(round[r], new)
    BY <2>2, <2>4 DEF Forward, Order
  <2>. QED BY <1>0, <2>1, <2>2, <2>5, ForwardOne
<1>2. ASSUME NEW u \in Users, Leave(u)
      PROVE  \A q \in Races : Forward(round[q], round'[q])
  <2>. DEFINE r == seat[u]
              alone == Cardinality(TakenIn(rec[r].entries)) = 1
              new == IF alone THEN DeletedRow ELSE LeftRow(round[r], SlotOf(rec[r].entries, u))
  <2>1. round' = [round EXCEPT ![r] = new] /\ r # None /\ rec[r].phase = "lobby"
    BY <1>2 DEF Leave, DeletedRow, LeftRow
  <2>2. r \in Races /\ round[r].status = "open" /\ round[r] \in Rounds
    BY <1>0, <2>1 DEF TypeOK, Matches, Match
  <2>3. new.status \in {"open", "deleted"}
    BY <2>2 DEF LeftRow, DeletedRow, NoRound, Rounds
  <2>. HIDE DEF new, r
  <2>4. Forward(round[r], new)
    BY <2>2, <2>3 DEF Forward, Order
  <2>. QED BY <1>0, <2>1, <2>2, <2>4, ForwardOne
<1>3. CASE Start
  <2>. DEFINE r == starting
              new == StartedRow(round[r])
  <2>1. round' = [round EXCEPT ![r] = new] /\ r # None /\ rec[r].phase = "lobby"
    BY <1>3 DEF Start, Startable, StartedRow
  <2>2. r \in Races /\ round[r].status = "open" /\ round[r] \in Rounds
    BY <1>0, <2>1 DEF TypeOK, Matches, Match
  <2>3. new.status = "started"
    BY <2>2 DEF StartedRow, Rounds
  <2>. HIDE DEF new, r
  <2>4. Forward(round[r], new)
    BY <2>2, <2>3 DEF Forward, Order
  <2>. QED BY <1>0, <2>1, <2>2, <2>4, ForwardOne
<1>4. ASSUME NEW r \in Races, Finish(r) \/ FinishUnanswered(r)
      PROVE  \A q \in Races : Forward(round[q], round'[q])
  <2>1. rec[r].phase = "over" /\ PaidOut(r)
    BY <1>4 DEF Finish, FinishUnanswered
  <2>2. /\ round'[r].status = "finished" /\ \A q \in Races \ {r} : round'[q] = round[q]
        /\ round[r].status = "finished" => round'[r] = round[r]
        /\ round[r].status = "started" => WhoIn(round'[r].entries) = WhoIn(round[r].entries)
        /\ round[r].status \in {"started", "finished"}
    BY <2>1, PaidFacts
  <2>3. Forward(round[r], round'[r])
    BY <2>2 DEF Forward, Order
  <2>. QED BY <2>2, <2>3, ForwardSame
<1>5. ASSUME NEW r \in Races, Void(r)
      PROVE  \A q \in Races : Forward(round[q], round'[q])
  <2>. DEFINE new == VoidedRow(round[r])
  <2>1. round' = [round EXCEPT ![r] = new] /\ process.mode = "booting" /\ r \in process.open
    BY <1>5 DEF Void, VoidedRow
  <2>2. round[r].status \in {"open", "started"} /\ round[r] \in Rounds
    BY <1>0, <2>1 DEF TypeOK, VoidsOpen, Unfinished
  <2>3. new.status = "voided" /\ new.entries = round[r].entries
    BY <2>2 DEF VoidedRow, Rounds
  <2>. HIDE DEF new
  <2>4. Forward(round[r], new)
    BY <2>2, <2>3 DEF Forward, Order
  <2>. QED BY <1>0, <2>1, <2>4, ForwardOne
<1>6. ASSUME round' = round
      PROVE  \A q \in Races : Forward(round[q], round'[q])
  BY <1>6, ForwardSame
<1>7. CASE \E r \in Races : Fire(r) \/ Over(r) \/ Forget(r) \/ VoidFails(r)
  BY <1>6, <1>7 DEF Fire, Over, Forget, VoidFails
<1>8. CASE NothingToStart \/ StartFails \/ Die \/ Boot \/ Serve \/ Tick
  BY <1>6, <1>8 DEF NothingToStart, StartFails, Die, Boot, Serve, Tick
<1>. QED BY <1>1, <1>2, <1>3, <1>4, <1>5, <1>7, <1>8 DEF Next, Run, Restart

(* A race only goes forward, and who is in it once it has started stays.     *)
THEOREM GoForward == Spec => RacesGoForward
<1>1. IInv /\ [Next]_vars =>
        [\A r \in Races :
           /\ Order(round[r].status) <= Order(round'[r].status)
           /\ Order(round[r].status) = 3 => round'[r] = round[r]
           /\ round[r].status = "started" =>
                WhoIn(round'[r].entries) = WhoIn(round[r].entries)]_vars
  BY ForwardStep DEF Forward
<1>. QED BY <1>1, Invariance, PTL DEF Spec, RacesGoForward

-----------------------------------------------------------------------------
(* The races implement the coin ledger.                                    *)

LEMMA RefundsPost ==
  ASSUME TypeOK, NEW r \in Races, Seating(round[r].entries), Booked(ledger),
         \A x \in Refunds(r) : Fresh(ledger, x.user, x.kind, x.ref)
  PROVE  Settles(ledger, RefundAll(ledger, r))
<1>. DEFINE es == round[r].entries
            stake == round[r].stake
            U == HumansIn(es)
            K == RefundAll(ledger, r)
            ref == [u \in U |-> StakeRef(r, es[SlotOf(es, u)].at)]
            amount == [u \in U |-> stake]
            S == {x \in Slots : es[x].user # None}
            RowAt(s) == Row(es[s].user, "RACE_REFUND", StakeRef(r, es[s].at), stake)
<1>1. es \in Places /\ stake \in Nat /\ Seating(es)
  BY RowType DEF TypeOK
<1>2. U \subseteq Users /\ \A u \in U : SlotOf(es, u) \in S /\ es[SlotOf(es, u)].user = u
  <2>1. U \subseteq Users
    BY <1>1 DEF HumansIn, Places, Entries
  <2>2. \A u \in U : SlotOf(es, u) \in Slots /\ es[SlotOf(es, u)].user = u
    BY <1>1, <2>1, SlotOfOne
  <2>. QED BY <2>1, <2>2, RaceAssumption
<1>3. \A s \in S : es[s].user \in U /\ SlotOf(es, es[s].user) = s
  <2>1. \A s \in S : es[s].user \in U
    BY DEF HumansIn
  <2>. QED BY <1>1, <1>2, <2>1, SlotOfOne
<1>4. Refunds(r) = {RowAt(s) : s \in S}
  BY DEF Refunds
<1>5. \A u \in U : Row(u, "RACE_REFUND", ref[u], amount[u]) = RowAt(SlotOf(es, u))
  BY <1>2
<1>6. Refunds(r) = {Row(u, "RACE_REFUND", ref[u], amount[u]) : u \in U}
  <2>1. ASSUME NEW s \in S
        PROVE  RowAt(s) \in {Row(u, "RACE_REFUND", ref[u], amount[u]) : u \in U}
    BY <1>3, <1>5
  <2>2. ASSUME NEW u \in U
        PROVE  Row(u, "RACE_REFUND", ref[u], amount[u]) \in {RowAt(s) : s \in S}
    BY <1>2, <1>5
  <2>. QED BY <1>4, <2>1, <2>2
<1>7. \A u \in U : amount[u] \in Nat /\ Fresh(ledger, u, "RACE_REFUND", ref[u])
  <2>1. \A u \in U : Row(u, "RACE_REFUND", ref[u], amount[u]) \in Refunds(r)
    BY <1>6
  <2>. QED BY <1>1, <2>1 DEF Row
<1>8. ForEach(ledger, K, U, amount, "RACE_REFUND", ref)
  <2>1. K.rows = ledger.rows \cup Refunds(r)
    BY DEF RefundAll
  <2>2. K.balance = [u \in Users |-> ledger.balance[u] + IF u \in U THEN amount[u] ELSE 0]
    BY DEF RefundAll
  <2>. HIDE DEF K, U, ref, amount
  <2>. QED BY <1>2, <1>6, <2>1, <2>2 DEF ForEach
<1>. HIDE DEF K, U, ref, amount
<1>9. Settles(ledger, K)
  BY <1>7, <1>8, ForEachPosts DEF Settles
<1>. QED BY <1>9 DEF K

LEMMA PaidPosts ==
  ASSUME IInv, NEW r \in Races, rec[r].phase = "over", PaidOut(r), Booked(ledger)
  PROVE  Settles(ledger, ledger')
<1>. DEFINE e == Winner(r)
            pot == Pot(r)
<1>1. CASE ~ FirstFinish(r) \/ e.bot
  BY <1>1 DEF PaidOut, Settles
<1>2. CASE FirstFinish(r) /\ ~ e.bot
  <2>1. /\ round[r] \in Rounds /\ RowOK(round[r]) /\ Match(round[r], rec[r])
        /\ round[r].entries \in Places
    BY LiveRow DEF IInv
  <2>2. rec[r].winner \in Slots /\ rec[r].entries = round[r].entries /\ round[r].stake \in Stakes
        /\ TakenIn(round[r].entries) = Slots
    BY <1>2, <2>1 DEF Match, FirstFinish, RowOK
  <2>3. KindOf(e) /\ e # Free /\ e \in Entries
    BY <2>1, <2>2 DEF RowOK, Seating, Winner, TakenIn, Places
  <2>4. e.user \in Users
    BY <1>2, <2>3 DEF KindOf, Entries
  <2>5. pot \in Nat
    BY <2>2, PotType DEF Pot
  <2>6. CanCredit(ledger, e.user, pot, "RACE_WIN", WinRef(r))
        /\ ledger' = Credit(ledger, e.user, pot, "RACE_WIN", WinRef(r))
    BY <1>2 DEF PaidOut, PotIsFree
  <2>. HIDE DEF e, pot
  <2>. QED BY <2>4, <2>5, <2>6, CreditPosts
<1>. QED BY <1>1, <1>2

(* To post is the same in the module of the ledger, sums included.         *)
LEMMA LedgerPosts ==
  ASSUME NEW L, NEW K
  PROVE  Posts(L, K) => Ledger!Posts([balance |-> L.balance, rows |-> L.rows],
                                     [balance |-> K.balance, rows |-> K.rows])
<1>1. ASSUME NEW f, NEW S PROVE Ledger!SumFunctionOnSet(f, S) = SumFunctionOnSet(f, S)
  <2>1. Ledger!SumFunctionOnSet(f, S) = PartialSums(f, S)[S]
    BY DEF Ledger!SumFunctionOnSet, Ledger!FoldFunctionOnSet, Ledger!MapThenFoldSet,
           PartialSums, Defines, Chosen
  <2>. QED BY <2>1, SumIsPartialSum
<1>2. ASSUME NEW rows, NEW u PROVE Ledger!SumDelta(rows, u) = SumDelta(rows, u)
  BY <1>1 DEF Ledger!SumDelta, SumDelta
<1>. QED BY <1>2 DEF Ledger!Posts, Posts, Ledger!KeysUnique, KeysUnique

(* A step posts to the ledger or leaves it alone.                          *)
LEMMA LedgerStep ==
  ASSUME IInv, Booked(ledger), [Next]_vars
  PROVE  Settles(ledger, ledger')
<1>1. ASSUME NEW u \in Users, NEW k \in Stakes, Join(u, k)
      PROVE  Settles(ledger, ledger')
  <2>. DEFINE ref == StakeRef(RaceFor(k), now)
  <2>1. /\ CanCharge(ledger, u, k, "RACE_STAKE", ref)
        /\ ledger' = Charge(ledger, u, k, "RACE_STAKE", ref)
    BY <1>1 DEF Join
  <2>2. k \in Nat
    BY RaceAssumption
  <2>. HIDE DEF ref
  <2>. QED BY <2>1, <2>2, ChargePosts
<1>2. ASSUME NEW u \in Users, Leave(u)
      PROVE  Settles(ledger, ledger')
  <2>. DEFINE r == seat[u]
              n == rec[r].stake
              ref == StakeRef(r, rec[r].entries[SlotOf(rec[r].entries, u)].at)
  <2>1. /\ CanCredit(ledger, u, n, "RACE_REFUND", ref) /\ r # None
        /\ ledger' = Credit(ledger, u, n, "RACE_REFUND", ref)
    BY <1>2 DEF Leave
  <2>2. n \in Nat
    <3>1. r \in Races
      BY <2>1 DEF IInv, TypeOK
    <3>2. rec[r] \in Recs
      BY <3>1 DEF IInv, TypeOK
    <3>. HIDE DEF r
    <3>3. Stakes \cup {0} \subseteq Nat
      BY RaceAssumption
    <3>. QED BY <3>2, <3>3 DEF Recs
  <2>. HIDE DEF ref, n
  <2>. QED BY <2>1, <2>2, CreditPosts
<1>3. ASSUME NEW r \in Races, Finish(r) \/ FinishUnanswered(r)
      PROVE  Settles(ledger, ledger')
  BY <1>3, PaidPosts DEF Finish, FinishUnanswered
<1>4. ASSUME NEW r \in Races, Void(r)
      PROVE  Settles(ledger, ledger')
  <2>1. TypeOK /\ Seating(round[r].entries)
    BY LiveRow DEF IInv
  <2>. QED BY <1>4, <2>1, RefundsPost DEF Void
<1>5. CASE \E r \in Races : Fire(r) \/ Over(r) \/ Forget(r) \/ VoidFails(r)
  BY <1>5 DEF Fire, Over, Forget, VoidFails, Settles
<1>6. CASE Start \/ NothingToStart \/ StartFails \/ Die \/ Boot \/ Serve \/ Tick
  BY <1>6 DEF Start, NothingToStart, StartFails, Die, Boot, Serve, Tick, Settles
<1>7. CASE UNCHANGED vars
  BY <1>7 DEF vars, Settles
<1>. QED BY <1>1, <1>2, <1>3, <1>4, <1>5, <1>6, <1>7 DEF Next, Run, Restart

(* The races implement the coin ledger: whatever fails and wherever the      *)
(* process dies, balances are the journal, and no event has two rows.       *)
THEOREM ImplementsLedger == Spec => CoinLedgerSpec
<1>1. Init => ledger = NewLedger /\ Booked(ledger)
  BY NewIsBooked DEF Init
<1>2. IInv /\ Booked(ledger) /\ [Next]_vars => Booked(ledger)' /\ [Ledger!Post]_<<ledger.balance, ledger.rows>>
  <2>. SUFFICES ASSUME IInv, Booked(ledger), [Next]_vars
                PROVE  Booked(ledger)' /\ [Ledger!Post]_<<ledger.balance, ledger.rows>>
    OBVIOUS
  <2>1. Settles(ledger, ledger')
    BY LedgerStep
  <2>. QED BY <2>1, LedgerPosts DEF Ledger!Post, Settles
<1>3. ledger = NewLedger => Ledger!Init
  BY DEF Ledger!Init, NewLedger
<1>. QED BY <1>1, <1>2, <1>3, Invariance, PTL DEF Spec, CoinLedgerSpec, Ledger!Spec

-----------------------------------------------------------------------------
(* The battle pass: days, thresholds, levels and rewards.                  *)

LEMMA PageConstants ==
  /\ TicksPerDay \in Nat \ {0} /\ DaysPerSeason \in Nat \ {0} /\ LastSeason \in Nat
  /\ XpBase \in Nat \ {0} /\ XpStep \in Nat /\ MaxLevel \in Nat \ {0}
  /\ RewardBase \in Nat /\ RewardTier \in Nat \ {0}
  /\ DailyCap \in [Sources -> Nat] /\ EventXp \in [Sources -> Nat]
  /\ LastTick \in Nat /\ Season(LastTick) <= LastSeason
BY BattlePassAssumption, PassPageAssumption

LEMMA Quotient ==
  ASSUME NEW b \in Nat \ {0}, NEW a \in Nat
  PROVE  a \div b \in Nat
OBVIOUS

LEMMA QuotientGrows ==
  ASSUME NEW b \in Nat \ {0}, NEW a \in Nat, NEW c \in Nat, a <= c
  PROVE  a \div b <= c \div b
<1>. DEFINE p == a \div b
            q == c \div b
<1>1. p \in Nat /\ q \in Nat /\ b * p <= a /\ c < b * q + b
  OBVIOUS
<1>. HIDE DEF p, q
<1>2. ASSUME q < p PROVE FALSE
  <2>1. p - q - 1 \in Nat
    BY <1>1, <1>2
  <2>2. b * (p - q - 1) \in Nat /\ b * (p - q - 1) = b * p - b * q - b
    BY <1>1, <2>1
  <2>. QED BY <1>1, <2>2
<1>. QED BY <1>1, <1>2 DEF p, q

LEMMA DaysGoOn ==
  ASSUME NEW a \in Nat, NEW c \in Nat, a <= c
  PROVE  /\ Day(a) \in Nat /\ Season(a) \in Nat /\ Season(c) \in Nat
         /\ Day(a) <= Day(c) /\ Season(a) <= Season(c)
<1>1. Day(a) \in Nat /\ Day(c) \in Nat /\ Day(a) <= Day(c)
  BY PageConstants, Quotient, QuotientGrows DEF Day
<1>. HIDE DEF Day
<1>. QED BY <1>1, PageConstants, Quotient, QuotientGrows DEF Season

LEMMA SeasonInRange ==
  ASSUME NEW a \in 0 .. LastTick
  PROVE  Season(a) \in 0 .. LastSeason
<1>1. Season(a) \in Nat /\ Season(LastTick) \in Nat /\ Season(a) <= Season(LastTick)
  BY PageConstants, DaysGoOn
<1>. QED BY <1>1, PageConstants

(* The threshold of a level is the one below and the step between them.    *)
LEMMA Thresholds ==
  /\ Threshold(1) = 0
  /\ \A l \in Nat \ {0} :
       Threshold(l) \in Nat /\ XpToAdvance(l) \in Nat /\ Threshold(l + 1) = Threshold(l) + XpToAdvance(l)
<1>. DEFINE f(n) == [k \in 1 .. n |-> XpToAdvance(k)]
<1>1. \A l \in Nat \ {0} : XpToAdvance(l) \in Nat
  <2>. TAKE l \in Nat \ {0}
  <2>1. l - 1 \in Nat /\ XpStep \in Nat /\ XpBase \in Nat
    BY PageConstants
  <2>2. XpStep * (l - 1) \in Nat
    BY <2>1
  <2>. QED BY <2>1, <2>2 DEF XpToAdvance
<1>2. \A l \in Nat \ {0} : Threshold(l) = SumFunctionOnSet(f(l - 1), 1 .. l - 1)
  BY DEF Threshold, SumFunction
<1>. HIDE DEF XpToAdvance
<1>3. ASSUME NEW l \in Nat \ {0} PROVE Threshold(l) \in Nat
  <2>1. l - 1 \in Int /\ 1 \in Int
    OBVIOUS
  <2>2. IsFiniteSet(1 .. l - 1)
    BY <2>1, FS_Interval
  <2>3. \A x \in 1 .. l - 1 : f(l - 1)[x] \in Nat
    BY <1>1
  <2>. HIDE DEF f
  <2>. QED BY <1>2, <2>2, <2>3, SumNat
<1>4. ASSUME NEW l \in Nat \ {0} PROVE Threshold(l + 1) = Threshold(l) + XpToAdvance(l)
  <2>. DEFINE S == 1 .. l - 1
              g == f(l)
              h == f(l - 1)
  <2>1. IsFiniteSet(S) /\ l \notin S /\ 1 .. l = S \cup {l}
    BY FS_Interval
  <2>2. \A y \in S \cup {l} : g[y] = XpToAdvance(y) /\ g[y] \in Int
    BY <1>1, <2>1
  <2>3. \A x \in S : g[x] = h[x]
    OBVIOUS
  <2>4. Threshold(l) = SumFunctionOnSet(h, S) /\ Threshold(l + 1) = SumFunctionOnSet(g, 1 .. l)
    BY <1>2
  <2>. HIDE DEF g, h, S, f
  <2>5. SumFunctionOnSet(g, S \cup {l}) = g[l] + SumFunctionOnSet(g, S)
    BY <2>1, <2>2, SumAdd
  <2>6. SumFunctionOnSet(g, S) = SumFunctionOnSet(h, S)
    BY <2>1, <2>3, SumSame
  <2>7. g[l] = XpToAdvance(l)
    BY <2>2
  <2>8. Threshold(l + 1) = XpToAdvance(l) + Threshold(l)
    BY <2>1, <2>4, <2>5, <2>6, <2>7
  <2>. QED BY <1>1, <1>3, <2>8
<1>5. Threshold(1) = 0
  <2>1. 1 .. (1 - 1) = {}
    OBVIOUS
  <2>2. Threshold(1) = SumFunctionOnSet(f(1 - 1), 1 .. (1 - 1))
    BY DEF Threshold, SumFunction
  <2>. HIDE DEF f
  <2>. QED BY <2>1, <2>2, SumEmpty
<1>. QED BY <1>1, <1>3, <1>4, <1>5

(* The climb through the levels, as a function of where one is and of the  *)
(* experience that is left, exists: from the last level down.              *)
Rungs(n) == {at \in (1 .. MaxLevel) \X Nat : MaxLevel - at[1] <= n}
Climbs(g, D) ==
  g = [at \in D |-> IF at[1] = MaxLevel \/ at[2] < XpToAdvance(at[1]) THEN at[1]
                    ELSE g[<<at[1] + 1, at[2] - XpToAdvance(at[1])>>]]

LEMMA ClimbStep ==
  ASSUME NEW n \in Nat, NEW at \in Rungs(n + 1), ~(at[1] = MaxLevel \/ at[2] < XpToAdvance(at[1]))
  PROVE  <<at[1] + 1, at[2] - XpToAdvance(at[1])>> \in Rungs(n)
<1>1. MaxLevel \in Nat \ {0} /\ at[1] \in 1 .. MaxLevel /\ at[2] \in Nat /\ MaxLevel - at[1] <= n + 1
  BY PageConstants DEF Rungs
<1>2. XpToAdvance(at[1]) \in Nat
  BY <1>1, Thresholds
<1>. HIDE DEF XpToAdvance
<1>3. at[1] + 1 \in 1 .. MaxLevel /\ at[2] - XpToAdvance(at[1]) \in Nat /\ MaxLevel - (at[1] + 1) <= n
  BY <1>1, <1>2
<1>. QED BY <1>3 DEF Rungs

LEMMA ClimbExists ==
  \E g : Climbs(g, (1 .. MaxLevel) \X Nat)
<1>. DEFINE Bad == {n \in Nat : ~ \E g : Climbs(g, Rungs(n))}
<1>1. Bad = {}
  <2>. SUFFICES ASSUME Bad # {} PROVE FALSE
    OBVIOUS
  <2>1. PICK n \in Bad : \A m \in Bad : ~(m < n)
    <3>1. PICK n \in Bad : \A m \in Bad : ~(<<m, n>> \in OpToRel(<, Nat))
      <4>1. Bad \subseteq Nat
        OBVIOUS
      <4>. HIDE DEF Bad
      <4>. QED BY <4>1, NatLessThanWellFounded, WFMin
    <3>. QED BY <3>1 DEF OpToRel
  <2>2. n \in Nat /\ ~ \E g : Climbs(g, Rungs(n))
    BY <2>1
  <2>3. CASE n = 0
    <3>. DEFINE g == [at \in Rungs(0) |-> at[1]]
    <3>1. \A at \in Rungs(0) : at[1] = MaxLevel
      BY PageConstants DEF Rungs
    <3>2. Climbs(g, Rungs(0))
      BY <3>1 DEF Climbs
    <3>. HIDE DEF g
    <3>. QED BY <2>2, <2>3, <3>2
  <2>4. CASE n # 0
    <3>. DEFINE m == n - 1
    <3>1. m \in Nat /\ n = m + 1 /\ m < n
      BY <2>2, <2>4
    <3>2. PICK h : Climbs(h, Rungs(m))
      BY <2>1, <3>1
    <3>. DEFINE g == [at \in Rungs(n) |->
                        IF at[1] = MaxLevel \/ at[2] < XpToAdvance(at[1]) THEN at[1]
                        ELSE h[<<at[1] + 1, at[2] - XpToAdvance(at[1])>>]]
    <3>. HIDE DEF m
    <3>3. \A at \in Rungs(m) : at \in Rungs(n)
      BY <3>1, PageConstants DEF Rungs
    <3>4. \A at \in Rungs(m) : g[at] = h[at]
      BY <3>2, <3>3 DEF Climbs
    <3>5. ASSUME NEW at \in Rungs(n), ~(at[1] = MaxLevel \/ at[2] < XpToAdvance(at[1]))
          PROVE  g[<<at[1] + 1, at[2] - XpToAdvance(at[1])>>] = h[<<at[1] + 1, at[2] - XpToAdvance(at[1])>>]
      <4>1. <<at[1] + 1, at[2] - XpToAdvance(at[1])>> \in Rungs(m)
        BY <3>1, <3>5, ClimbStep
      <4>. HIDE DEF g
      <4>. QED BY <3>4, <4>1
    <3>6. g = [at \in Rungs(n) |->
                 IF at[1] = MaxLevel \/ at[2] < XpToAdvance(at[1]) THEN at[1]
                 ELSE g[<<at[1] + 1, at[2] - XpToAdvance(at[1])>>]]
      <4>. DEFINE k == [at \in Rungs(n) |->
                          IF at[1] = MaxLevel \/ at[2] < XpToAdvance(at[1]) THEN at[1]
                          ELSE g[<<at[1] + 1, at[2] - XpToAdvance(at[1])>>]]
      <4>1. ASSUME NEW at \in Rungs(n) PROVE g[at] = k[at]
        <5>. DEFINE up == <<at[1] + 1, at[2] - XpToAdvance(at[1])>>
                    stay == at[1] = MaxLevel \/ at[2] < XpToAdvance(at[1])
        <5>1. g[at] = IF stay THEN at[1] ELSE h[up]
          OBVIOUS
        <5>2. k[at] = IF stay THEN at[1] ELSE g[up]
          OBVIOUS
        <5>3. ~stay => g[up] = h[up]
          BY <3>5
        <5>. HIDE DEF g, k, up, stay
        <5>. QED BY <5>1, <5>2, <5>3
      <4>. QED BY <4>1
    <3>. HIDE DEF g
    <3>7. Climbs(g, Rungs(n))
      BY <3>6 DEF Climbs
    <3>. QED BY <2>2, <3>7
  <2>. QED BY <2>3, <2>4
<1>2. MaxLevel \in Nat /\ Rungs(MaxLevel) = (1 .. MaxLevel) \X Nat
  BY PageConstants DEF Rungs
<1>. QED BY <1>1, <1>2

(* A level that is reached is one of the ladder, and its threshold is not  *)
(* more than the experience there is.                                      *)
LEMMA LevelReached ==
  ASSUME NEW xp \in Nat
  PROVE  LevelFromXp(xp) \in 1 .. MaxLevel /\ Threshold(LevelFromXp(xp)) <= xp
<1>. DEFINE D == (1 .. MaxLevel) \X Nat
            g == CHOOSE g : Climbs(g, D)
<1>1. LevelFromXp(xp) = g[<<1, xp>>]
  BY DEF LevelFromXp, Climbs
<1>2. Climbs(g, D)
  BY ClimbExists
<1>. HIDE DEF g
<1>. DEFINE Good(at) == g[at] \in 1 .. MaxLevel /\ Threshold(g[at]) - Threshold(at[1]) <= at[2]
            Bad == {n \in Nat : \E at \in Rungs(n) : ~Good(at)}
<1>3. Bad = {}
  <2>. SUFFICES ASSUME Bad # {} PROVE FALSE
    OBVIOUS
  <2>1. PICK n \in Bad : \A m \in Bad : ~(m < n)
    <3>1. PICK n \in Bad : \A m \in Bad : ~(<<m, n>> \in OpToRel(<, Nat))
      <4>1. Bad \subseteq Nat
        OBVIOUS
      <4>. HIDE DEF Bad
      <4>. QED BY <4>1, NatLessThanWellFounded, WFMin
    <3>. QED BY <3>1 DEF OpToRel
  <2>2. PICK at \in Rungs(n) : ~Good(at)
    BY <2>1
  <2>. DEFINE l == at[1]
              need == XpToAdvance(l)
              up == <<l + 1, at[2] - need>>
  <2>3. /\ n \in Nat /\ at \in D /\ l \in 1 .. MaxLevel /\ at[2] \in Nat /\ MaxLevel - l <= n
        /\ MaxLevel \in Nat \ {0}
    BY <2>1, PageConstants DEF Rungs
  <2>4. Threshold(l) \in Nat /\ need \in Nat /\ Threshold(l + 1) = Threshold(l) + need
    BY <2>3, Thresholds
  <2>5. g[at] = IF l = MaxLevel \/ at[2] < need THEN l ELSE g[up]
    BY <1>2, <2>3 DEF Climbs
  <2>. HIDE DEF D, need
  <2>6. CASE l = MaxLevel \/ at[2] < need
    BY <2>2, <2>3, <2>4, <2>5, <2>6
  <2>7. CASE ~(l = MaxLevel \/ at[2] < need)
    <3>1. n # 0
      BY <2>3, <2>7
    <3>2. n - 1 \in Nat /\ n = (n - 1) + 1 /\ n - 1 < n
      BY <2>3, <3>1
    <3>3. up \in Rungs(n - 1)
      BY <2>7, <3>2, ClimbStep DEF need
    <3>4. n - 1 \notin Bad
      BY <2>1, <3>2
    <3>5. Good(up) /\ up[1] = l + 1 /\ up[2] = at[2] - need
      BY <3>2, <3>3, <3>4
    <3>6. g[at] = g[up]
      BY <2>5, <2>7
    <3>. HIDE DEF up
    <3>7. Threshold(g[up]) \in Nat
      BY <3>5, PageConstants, Thresholds
    <3>. QED BY <2>2, <2>3, <2>4, <3>5, <3>6, <3>7
  <2>. QED BY <2>6, <2>7
<1>4. <<1, xp>> \in Rungs(MaxLevel) /\ MaxLevel \in Nat
  BY PageConstants DEF Rungs
<1>5. Good(<<1, xp>>)
  BY <1>3, <1>4
<1>6. Threshold(1) = 0 /\ Threshold(g[<<1, xp>>]) \in Nat
  BY <1>5, PageConstants, Thresholds
<1>. QED BY <1>1, <1>5, <1>6

(* What one event more makes of the experience.                            *)
LEMMA XpAdds ==
  ASSUME NEW E, IsFiniteSet(E), \A e \in E : e.xp \in Nat
  PROVE  /\ XpOf(E) \in Nat
         /\ \A x : x \notin E /\ x.xp \in Nat => XpOf(E \cup {x}) = XpOf(E) + x.xp
<1>. DEFINE f == [e \in E |-> e.xp]
<1>1. XpOf(E) = SumFunctionOnSet(f, E) /\ \A e \in E : f[e] = e.xp
  BY DEF XpOf, SumFunction
<1>. HIDE DEF f
<1>2. XpOf(E) \in Nat
  BY <1>1, SumNat
<1>3. ASSUME NEW x, x \notin E, x.xp \in Nat PROVE XpOf(E \cup {x}) = XpOf(E) + x.xp
  <2>. DEFINE F == E \cup {x}
              g == [e \in F |-> e.xp]
  <2>1. XpOf(F) = SumFunctionOnSet(g, F)
    BY DEF XpOf, SumFunction
  <2>2. (\A e \in F : g[e] = e.xp) /\ (\A e \in F : g[e] \in Int)
    BY <1>3
  <2>. HIDE DEF g
  <2>3. SumFunctionOnSet(g, F) = g[x] + SumFunctionOnSet(g, E)
    BY <1>3, <2>2, SumAdd
  <2>4. SumFunctionOnSet(g, E) = SumFunctionOnSet(f, E)
    BY <1>1, <2>2, SumSame
  <2>5. g[x] = x.xp
    BY <2>2
  <2>6. XpOf(F) = x.xp + XpOf(E)
    BY <1>1, <2>1, <2>3, <2>4, <2>5
  <2>. QED BY <1>2, <1>3, <2>6
<1>. QED BY <1>2, <1>3

(* What the cap of the day leaves is not more than the cap, and a number.  *)
LEMMA GrantedIsNat ==
  ASSUME NEW P, IsFiniteSet(P.events), \A e \in P.events : e.xp \in Nat,
         NEW u, NEW source \in Sources, NEW xp \in Nat, NEW at
  PROVE  WithinDailyCap(P, u, source, xp, at) \in Nat
<1>. DEFINE E == {e \in P.events : e.user = u /\ e.source = source /\ e.day >= Day(at)}
<1>1. IsFiniteSet(E) /\ \A e \in E : e.xp \in Nat
  BY FS_Subset
<1>. HIDE DEF E
<1>2. XpOf(E) \in Nat
  BY <1>1, XpAdds
<1>3. DailyCap[source] \in Nat
  BY PageConstants
<1>. QED BY <1>2, <1>3 DEF WithinDailyCap, UsedToday, E

(* The levels a claim pays, and the rows it writes.                        *)
LEMMA PayLevelsPosts ==
  ASSUME NEW L, Booked(L), NEW u \in Users, NEW s, NEW levels, levels \subseteq Nat, IsFiniteSet(levels),
         CanPayLevels(L, u, s, levels)
  PROVE  Settles(L, PayLevels(L, u, s, levels))
<1>. DEFINE rowOf == [l \in levels |-> Row(u, "BATTLEPASS_REWARD", LevelRef(s, l), RewardCoins(l))]
            Y == {rowOf[l] : l \in levels}
            K == PayLevels(L, u, s, levels)
            coins == CoinsOf(levels)
            h == [l \in levels |-> RewardCoins(l)]
            amount == [v \in Users |-> IF v = u THEN coins ELSE 0]
<1>1. \A l \in levels : RewardCoins(l) \in Nat
  <2>. TAKE l \in levels
  <2>1. CASE l < 2
    BY <2>1 DEF RewardCoins
  <2>2. CASE ~(l < 2)
    <3>. DEFINE tier == (l - 1) \div RewardTier
    <3>1. l - 1 \in Nat /\ RewardTier \in Nat \ {0} /\ RewardBase \in Nat
      BY <2>2, PageConstants
    <3>2. tier \in Nat
      BY <3>1, Quotient
    <3>. HIDE DEF tier
    <3>3. RewardBase * (1 + tier) \in Nat
      BY <3>1, <3>2
    <3>. QED BY <2>2, <3>3 DEF RewardCoins, tier
  <2>. QED BY <2>1, <2>2
<1>. HIDE DEF RewardCoins
<1>2. /\ \A l \in levels : /\ rowOf[l].user = u /\ rowOf[l].kind = "BATTLEPASS_REWARD"
                           /\ rowOf[l].ref = LevelRef(s, l) /\ rowOf[l].delta = RewardCoins(l)
      /\ \A l, k \in levels : rowOf[l].ref = rowOf[k].ref => l = k
      /\ OneToOne(rowOf, levels, Y)
  <2>1. \A l \in levels : /\ rowOf[l].user = u /\ rowOf[l].kind = "BATTLEPASS_REWARD"
                           /\ rowOf[l].ref = LevelRef(s, l) /\ rowOf[l].delta = RewardCoins(l)
    BY DEF Row
  <2>2. \A l, k \in levels : rowOf[l].ref = rowOf[k].ref => l = k
    <3>1. \A l, k \in levels : LevelRef(s, l) = LevelRef(s, k) => l = k
      BY DEF LevelRef
    <3>. HIDE DEF rowOf
    <3>. SUFFICES ASSUME NEW l \in levels, NEW k \in levels, rowOf[l].ref = rowOf[k].ref PROVE l = k
      OBVIOUS
    <3>2. rowOf[l].ref = LevelRef(s, l) /\ rowOf[k].ref = LevelRef(s, k)
      BY ONLY <2>1, l \in levels, k \in levels
    <3>3. LevelRef(s, l) = LevelRef(s, k)
      BY <3>2
    <3>. QED BY ONLY <3>1, <3>3, l \in levels, k \in levels
  <2>3. rowOf \in [levels -> Y]
    OBVIOUS
  <2>. HIDE DEF rowOf
  <2>. QED BY <2>1, <2>2, <2>3 DEF OneToOne
<1>3. coins = SumFunctionOnSet(h, levels) /\ coins \in Nat
  <2>1. coins = SumFunctionOnSet(h, levels)
    BY DEF CoinsOf, SumFunction
  <2>2. \A l \in levels : h[l] \in Nat
    BY <1>1
  <2>. HIDE DEF h, coins
  <2>. QED BY <2>1, <2>2, SumNat
<1>4. /\ K.rows = L.rows \cup Y
      /\ K.balance = [L.balance EXCEPT ![u] = @ + coins]
  BY DEF PayLevels, LevelRows
<1>. HIDE DEF K, coins
<1>5. Put(L, K, Y, amount)
  <2>1. K.balance = [v \in Users |-> L.balance[v] + amount[v]]
    BY <1>3, <1>4 DEF Booked
  <2>. HIDE DEF Y, amount
  <2>. QED BY <1>4, <2>1 DEF Put
<1>. HIDE DEF rowOf
<1>6. IsFiniteSet(Y) /\ \A r \in Y : r.delta \in Int
  <2>1. IsFiniteSet(Y)
    <3>1. rowOf \in Surjection(levels, Y)
      BY <1>2 DEF Surjection, OneToOne
    <3>. QED BY <3>1, FS_Surjection
  <2>. QED BY <1>1, <1>2, <2>1
<1>7. L.rows \cap Y = {} /\ KeysUnique(L.rows \cup Y)
  <2>1. \A r \in Y, x \in L.rows : ~(r.user = x.user /\ r.kind = x.kind /\ r.ref = x.ref)
    BY <1>2 DEF CanPayLevels, Fresh
  <2>2. \A r, x \in Y : r.ref = x.ref => r = x
    BY <1>2
  <2>. HIDE DEF Y
  <2>. QED BY <2>1, <2>2 DEF KeysUnique, Booked
<1>8. SumDelta(Y, u) = coins
  <2>. DEFINE f == [r \in Y |-> r.delta]
  <2>1. {r \in Y : r.user = u} = Y
    BY <1>2
  <2>2. SumDelta(Y, u) = SumFunctionOnSet(f, Y)
    BY <2>1 DEF SumDelta
  <2>4. \A l \in levels : h[l] = f[rowOf[l]]
    BY <1>2
  <2>5. \A r \in Y : f[r] \in Int
    BY <1>6
  <2>3. OneToOne(rowOf, levels, Y)
    BY <1>2
  <2>7. IsFiniteSet(Y) /\ IsFiniteSet(levels)
    BY <1>6
  <2>. HIDE DEF f, h, Y
  <2>6. SumFunctionOnSet(h, levels) = SumFunctionOnSet(f, Y)
    BY ONLY <2>3, <2>4, <2>5, <2>7, SumAlong
  <2>. QED BY <1>3, <2>2, <2>6
<1>9. ASSUME NEW v \in Users PROVE amount[v] = SumDelta(Y, v) /\ L.balance[v] + amount[v] >= 0
  <2>1. L.balance[v] \in Nat
    BY DEF Booked
  <2>2. v # u => SumDelta(Y, v) = 0
    <3>1. v # u => \A r \in Y : r.user # v
      BY <1>2
    <3>. HIDE DEF Y
    <3>. QED BY <3>1, DeltaOfNone
  <2>. HIDE DEF Y
  <2>. QED BY <1>3, <1>8, <2>1, <2>2
<1>. HIDE DEF Y, amount
<1>10. Booked(K) /\ Posts(L, K)
  BY <1>5, <1>6, <1>7, <1>9, PutPosts
<1>. QED BY <1>10 DEF Settles, K

-----------------------------------------------------------------------------
(* The days of a cycle.                                                    *)

LEMMA GreatestExists ==
  ASSUME NEW n \in Nat, NEW S \in SUBSET (0 .. n), S # {}
  PROVE  Max(S) \in S /\ \A y \in S : Max(S) >= y
<1>. DEFINE R == {n - x : x \in S}
<1>1. R \subseteq Nat /\ R # {}
  <2>1. PICK x \in S : n - x \in R
    OBVIOUS
  <2>2. \A y \in S : n - y \in Nat
    OBVIOUS
  <2>. QED BY <2>1, <2>2
<1>2. PICK m \in R : \A k \in R : ~(k < m)
  <2>1. PICK m \in R : \A k \in R : ~(<<k, m>> \in OpToRel(<, Nat))
    <3>. HIDE DEF R
    <3>. QED BY <1>1, NatLessThanWellFounded, WFMin
  <2>. QED BY <1>1, <2>1 DEF OpToRel
<1>3. PICK x \in S : m = n - x
  BY <1>2
<1>4. \A y \in S : x >= y
  BY <1>2, <1>3
<1>. QED BY <1>4 DEF Max

(* How many days in a row before a day were claimed, up to a cycle.        *)
LEMMA DaysInARow ==
  ASSUME NEW days \in SUBSET Int, NEW today \in Int
  PROVE  LET n == Previous(days, today) IN
         /\ n \in 0 .. Len(DailyCoins) /\ \A d \in (today - n) .. (today - 1) : d \in days
         /\ n < Len(DailyCoins) => today - n - 1 \notin days
<1>. DEFINE cycle == Len(DailyCoins)
            S == {n \in 0 .. cycle : \A i \in 1 .. n : today - i \in days}
            n == Max(S)
<1>1. cycle \in Nat
  BY BattlePassAssumption
<1>2. 0 \in S /\ S \in SUBSET (0 .. cycle)
  BY <1>1
<1>3. n \in S /\ \A y \in S : n >= y
  <2>. HIDE DEF S, cycle
  <2>. QED BY <1>1, <1>2, GreatestExists
<1>4. n = Previous(days, today)
  BY DEF Previous
<1>. HIDE DEF n
<1>5. n \in 0 .. cycle /\ \A i \in 1 .. n : today - i \in days
  BY <1>3
<1>6. ASSUME NEW d \in (today - n) .. (today - 1) PROVE d \in days
  <2>1. today - d \in 1 .. n /\ today - (today - d) = d
    BY <1>1, <1>5
  <2>. QED BY <1>5, <2>1
<1>7. ASSUME n < cycle, today - n - 1 \in days PROVE FALSE
  <2>1. n + 1 \in 0 .. cycle
    BY <1>1, <1>5, <1>7
  <2>2. \A i \in 1 .. (n + 1) : today - i \in days
    <3>. TAKE i \in 1 .. (n + 1)
    <3>1. CASE i = n + 1
      <4>1. today - i = today - n - 1
        BY <1>5, <3>1
      <4>. QED BY <1>7, <4>1
    <3>2. CASE i # n + 1
      BY <1>5, <3>2
    <3>. QED BY <3>1, <3>2
  <2>3. n + 1 \in S
    BY <2>1, <2>2
  <2>. HIDE DEF S
  <2>. QED BY <1>3, <1>5, <2>3
<1>. QED BY <1>4, <1>5, <1>6, <1>7 DEF cycle

(* Only days that are over count.                                          *)
LEMMA OnlyEarlierDays ==
  ASSUME NEW days \in SUBSET Int, NEW today \in Int
  PROVE  DailyReward({d \in days : d < today}, today) = DailyReward(days, today)
<1>. DEFINE before == {d \in days : d < today}
<1>1. {n \in 0 .. Len(DailyCoins) : \A i \in 1 .. n : today - i \in days}
        = {n \in 0 .. Len(DailyCoins) : \A i \in 1 .. n : today - i \in before}
  <2>1. \A i \in Nat \ {0} : today - i \in days <=> today - i \in before
    OBVIOUS
  <2>. HIDE DEF before
  <2>. QED BY <2>1
<1>2. Previous(before, today) = Previous(days, today)
  BY <1>1 DEF Previous
<1>. QED BY <1>2 DEF DailyReward, CycleDay

(* The reward of a day is the one its row of days gives.                   *)
LEMMA RewardOfRow ==
  ASSUME NEW days \in SUBSET Int, IsFiniteSet(days), NEW today \in Int, \A d \in days : d < today
  PROVE  LET row == {d \in days : d .. (today - 1) \subseteq days} IN
         Cardinality(row) < Len(DailyCoins) => DailyReward(days, today) = DailyCoins[Cardinality(row) + 1]
<1>. DEFINE row == {d \in days : d .. (today - 1) \subseteq days}
            cycle == Len(DailyCoins)
            n == Previous(days, today)
            streak == (today - n) .. (today - 1)
<1>1. cycle \in Nat /\ cycle # 0
  BY BattlePassAssumption
<1>2. n \in 0 .. cycle /\ (\A d \in streak : d \in days) /\ (n < cycle => today - n - 1 \notin days)
  BY DaysInARow
<1>. HIDE DEF n, cycle
<1>3. IsFiniteSet(streak) /\ Cardinality(streak) = n
  <2>1. today - n \in Int /\ today - 1 \in Int
    BY <1>2
  <2>2. IsFiniteSet(streak) /\ Cardinality(streak) = IF today - n > today - 1 THEN 0 ELSE (today - 1) - (today - n) + 1
    BY <2>1, FS_Interval
  <2>. QED BY <1>2, <2>2
<1>4. streak \subseteq row
  <2>. SUFFICES ASSUME NEW d \in streak PROVE d \in row
    OBVIOUS
  <2>1. d .. (today - 1) \subseteq streak
    BY <1>2
  <2>. HIDE DEF streak
  <2>. QED BY <1>2, <2>1
<1>5. ASSUME n < cycle PROVE row = streak
  <2>. SUFFICES ASSUME NEW d \in row, d \notin streak PROVE FALSE
    BY <1>4
  <2>1. d \in Int /\ d < today /\ d .. (today - 1) \subseteq days
    OBVIOUS
  <2>2. d < today - n
    BY <1>2, <2>1
  <2>3. today - n - 1 \in d .. (today - 1)
    BY <1>2, <2>1, <2>2
  <2>. QED BY <1>2, <1>5, <2>1, <2>3
<1>6. ASSUME Cardinality(row) < cycle PROVE DailyReward(days, today) = DailyCoins[Cardinality(row) + 1]
  <2>1. n < cycle
    <3>1. row \subseteq days /\ IsFiniteSet(row)
      BY FS_Subset
    <3>. HIDE DEF streak, row
    <3>2. Cardinality(streak) <= Cardinality(row) /\ Cardinality(row) \in Nat
      BY <1>4, <3>1, FS_Subset, FS_CardinalityType
    <3>. QED BY <1>1, <1>2, <1>3, <1>6, <3>2
  <2>2. Cardinality(row) = n
    BY <1>3, <1>5, <2>1
  <2>3. n % cycle = n
    BY <1>1, <1>2, <2>1
  <2>. HIDE DEF row, streak
  <2>. QED BY <2>2, <2>3 DEF DailyReward, CycleDay, n, cycle
<1>. QED BY <1>6 DEF cycle

-----------------------------------------------------------------------------
(* What the pass, the journal, the awards and the claims under way are     *)
(* between two steps.                                                      *)
PassKeys == Users \X (0 .. LastSeason)
PassOK(P) ==
  /\ P = [events |-> P.events, progress |-> P.progress]
  /\ P.progress \in [PassKeys -> [xp : Nat, claimed : 0 .. MaxLevel]]
  /\ IsFiniteSet(P.events) /\ \A e \in P.events : e.xp \in Nat
CountedOnce(P) ==
  /\ \A e, f \in P.events : e.user = f.user /\ e.source = f.source /\ e.ref = f.ref => e = f
  /\ \A k \in DOMAIN P.progress :
       P.progress[k].xp = XpOf({e \in P.events : e.user = k[1] /\ e.season = k[2]})

(* The days before a day that the journal has, and the reward they give,   *)
(* reckoned without some days of S: those that were still to be written.    *)
DaysBefore(L, u, n) == {d \in DaysClaimed(L, u) : d < n}
PaidFor(n, coins, L, u, S) ==
  \E missed \in SUBSET S : coins = DailyReward(DaysBefore(L, u, n) \ missed, n)

JobFine(a) == a # NoJob => a.source \in Sources /\ a.ref \in Refs /\ a.xp \in Nat /\ a.at \in 0 .. LastTick
JobsOK == DOMAIN job = Users \X Jobs /\ \A j \in Users \X Jobs : JobFine(job[j])

ClaimFine(c, u, P) ==
  /\ c.from \in 0 .. MaxLevel /\ c.level \in 1 .. MaxLevel /\ c.from <= c.level
  /\ Threshold(c.level) <= P.progress[<<u, Season(c.at)>>].xp
DailyFine(c, u, L, S) == c.coins \in Nat /\ PaidFor(Day(c.at), c.coins, L, u, S)
TabFine(c, u, at, P, L, S) ==
  c # NoTab =>
    /\ c.op \in {"claim", "daily"} /\ c.at \in 0 .. at
    /\ c.op = "claim" => ClaimFine(c, u, P)
    /\ c.op = "daily" => DailyFine(c, u, L, S)
TabsOK ==
  /\ DOMAIN tab = Users \X Tabs
  /\ \A t \in Users \X Tabs : TabFine(tab[t], t[1], clock, passes, purse, late[t[1]])

LevelPays(L, k) == {r \in L.rows : r.user = k[1] /\ r.kind = "BATTLEPASS_REWARD" /\ r.ref[2] = k[2]}
LadderOK(P, L) ==
  \A k \in PassKeys :
    /\ P.progress[k].claimed > 0 => Threshold(P.progress[k].claimed) <= P.progress[k].xp
    /\ LevelPays(L, k) = LevelRows(k[1], k[2], 2 .. P.progress[k].claimed)

DayPays(L, u) == {r \in L.rows : r.user = u /\ r.kind = "DAILY_REWARD"}
DaysOK(L, at, H) ==
  \A u \in Users : \A r \in DayPays(L, u) :
    /\ r.ref = DayRef(r.ref[2]) /\ r.ref[2] \in 0 .. Day(at)
    /\ PaidFor(r.ref[2], r.delta, L, u, H[u])

PageInv ==
  /\ clock \in 0 .. LastTick /\ Booked(purse) /\ PassOK(passes) /\ CountedOnce(passes)
  /\ JobsOK /\ TabsOK /\ LadderOK(passes, purse)
  /\ DOMAIN late = Users /\ DaysOK(purse, clock, late)

(* What a change of the journal leaves of the rewards up to a day.         *)
RewardsStay(n, L, S, K, T, u) ==
  \A m \in 0 .. n : \A coins : PaidFor(m, coins, L, u, S) => PaidFor(m, coins, K, u, T)

(* A claim stays right while experience only grows and rewards stay.       *)
LEMMA TabStays ==
  ASSUME NEW c, NEW u \in Users, NEW at \in 0 .. LastTick, NEW P, NEW L, NEW S, TabFine(c, u, at, P, L, S),
         PassOK(P), NEW Q, PassOK(Q), \A k \in PassKeys : P.progress[k].xp <= Q.progress[k].xp,
         NEW K, NEW T, RewardsStay(Day(at), L, S, K, T, u)
  PROVE  TabFine(c, u, at, Q, K, T)
<1>. SUFFICES ASSUME c # NoTab PROVE TabFine(c, u, at, Q, K, T)
  BY DEF TabFine
<1>1. /\ c.op \in {"claim", "daily"} /\ c.at \in 0 .. at
      /\ c.op = "claim" => ClaimFine(c, u, P)
      /\ c.op = "daily" => DailyFine(c, u, L, S)
  BY DEF TabFine
<1>2. ASSUME c.op = "claim" PROVE ClaimFine(c, u, Q)
  <2>. DEFINE k == <<u, Season(c.at)>>
  <2>1. c.at \in 0 .. LastTick
    BY <1>1, PageConstants
  <2>2. k \in PassKeys
    BY <2>1, SeasonInRange DEF PassKeys
  <2>3. ClaimFine(c, u, P)
    BY <1>1, <1>2
  <2>4. Threshold(c.level) \in Nat
    BY <2>3, Thresholds, PageConstants DEF ClaimFine
  <2>5. P.progress[k].xp \in Nat /\ Q.progress[k].xp \in Nat /\ P.progress[k].xp <= Q.progress[k].xp
    BY <2>2 DEF PassOK
  <2>6. Threshold(c.level) <= P.progress[k].xp
    BY <2>3 DEF ClaimFine
  <2>. HIDE DEF k
  <2>7. Threshold(c.level) <= Q.progress[k].xp
    BY <2>4, <2>5, <2>6
  <2>. QED BY <2>3, <2>7 DEF ClaimFine, k
<1>3. ASSUME c.op = "daily" PROVE DailyFine(c, u, K, T)
  <2>1. c.at \in Nat /\ at \in Nat /\ c.at <= at
    BY <1>1, PageConstants
  <2>2. Day(c.at) \in Nat /\ Day(c.at) <= Day(at) /\ Day(at) \in Nat
    BY <2>1, DaysGoOn
  <2>3. Day(c.at) \in 0 .. Day(at)
    BY <2>2
  <2>4. c.coins \in Nat /\ PaidFor(Day(c.at), c.coins, L, u, S)
    BY <1>1, <1>3 DEF DailyFine
  <2>. QED BY <2>3, <2>4 DEF DailyFine, RewardsStay
<1>. QED BY <1>1, <1>2, <1>3 DEF TabFine

(* An award: its event is counted if it is new, and what was claimed stays. *)
LEMMA WrittenCounts ==
  ASSUME NEW P, PassOK(P), CountedOnce(P), NEW u \in Users, NEW source, NEW ref, NEW at, NEW createdAt,
         NEW gain, DOMAIN gain = {u}, gain[u] \in Nat
  PROVE  LET Q == Written(P, gain, source, ref, at, createdAt) IN
         /\ PassOK(Q) /\ CountedOnce(Q)
         /\ \A k \in PassKeys : P.progress[k].xp <= Q.progress[k].xp
                               /\ Q.progress[k].claimed = P.progress[k].claimed
<1>. DEFINE xp == gain[u]
            new == GivenNew(P, gain, source, ref)
            x == Event(u, source, ref, xp, at, createdAt)
            s == Season(at)
            Q == Written(P, gain, source, ref, at, createdAt)
            seen(k, E) == {e \in E : e.user = k[1] /\ e.season = k[2]}
<1>1. new = {} \/ (new = {u} /\ ~Known(P, u, source, ref))
  <2>1. new \subseteq {u} /\ \A v \in new : ~Known(P, v, source, ref)
    BY DEF GivenNew
  <2>. HIDE DEF new
  <2>. QED BY <2>1
<1>2. /\ P.progress \in [PassKeys -> [xp : Nat, claimed : 0 .. MaxLevel]]
      /\ IsFiniteSet(P.events) /\ \A e \in P.events : e.xp \in Nat
  BY DEF PassOK
<1>3. /\ Q = [events |-> Q.events, progress |-> Q.progress]
      /\ Q.events = P.events \cup {Event(v, source, ref, gain[v], at, createdAt) : v \in new}
      /\ Q.progress = [k \in DOMAIN P.progress |->
           IF k[2] = s /\ k[1] \in new THEN [P.progress[k] EXCEPT !.xp = @ + gain[k[1]]] ELSE P.progress[k]]
  BY DEF Written
<1>4. DOMAIN P.progress = PassKeys
  BY <1>2
<1>. HIDE DEF new, Q, x, s
<1>5. CASE new = {}
  <2>1. Q.events = P.events
    BY <1>3, <1>5
  <2>2. \A k \in PassKeys : Q.progress[k] = P.progress[k]
    BY <1>3, <1>4, <1>5
  <2>3. Q.progress = P.progress
    BY <1>2, <1>3, <1>4, <1>5
  <2>4. PassOK(Q) /\ CountedOnce(Q)
    BY <1>3, <2>1, <2>3 DEF PassOK, CountedOnce
  <2>5. \A k \in PassKeys : P.progress[k].xp \in Nat
    BY <1>2
  <2>. QED BY <2>2, <2>4, <2>5 DEF Q
<1>6. CASE new = {u} /\ ~Known(P, u, source, ref)
  <2>1. Q.events = P.events \cup {x}
    <3>1. {Event(v, source, ref, gain[v], at, createdAt) : v \in {u}} = {x}
      BY DEF x
    <3>. QED BY <1>3, <1>6, <3>1
  <2>2. x.user = u /\ x.source = source /\ x.ref = ref /\ x.xp = xp /\ x.season = s
    BY DEF x, s, Event
  <2>3. \A e \in P.events : ~(e.user = x.user /\ e.source = x.source /\ e.ref = x.ref)
    BY <1>6, <2>2 DEF Known
  <2>4. x \notin P.events
    BY <2>3
  <2>5. ASSUME NEW k \in PassKeys
        PROVE  /\ Q.progress[k] = IF k[2] = s /\ k[1] = u
                                    THEN [xp |-> P.progress[k].xp + xp, claimed |-> P.progress[k].claimed]
                                  ELSE P.progress[k]
               /\ P.progress[k] \in [xp : Nat, claimed : 0 .. MaxLevel]
    <3>1. P.progress[k] \in [xp : Nat, claimed : 0 .. MaxLevel]
      BY <1>2
    <3>2. Q.progress[k] = IF k[2] = s /\ k[1] = u THEN [P.progress[k] EXCEPT !.xp = @ + gain[k[1]]]
                          ELSE P.progress[k]
      BY <1>3, <1>4, <1>6
    <3>3. k[1] = u => gain[k[1]] = xp
      OBVIOUS
    <3>. DEFINE p == P.progress[k]
    <3>. HIDE DEF p
    <3>4. [p EXCEPT !.xp = @ + xp] = [xp |-> p.xp + xp, claimed |-> p.claimed]
      BY <3>1 DEF p
    <3>. QED BY <3>1, <3>2, <3>3, <3>4 DEF p
  <2>6. \A k \in PassKeys : /\ Q.progress[k] \in [xp : Nat, claimed : 0 .. MaxLevel]
                           /\ Q.progress[k].xp = (IF k[2] = s /\ k[1] = u THEN P.progress[k].xp + xp
                                                  ELSE P.progress[k].xp)
                           /\ Q.progress[k].claimed = P.progress[k].claimed
                           /\ P.progress[k].xp \in Nat /\ P.progress[k].xp <= Q.progress[k].xp
    <3>. TAKE k \in PassKeys
    <3>. DEFINE p == P.progress[k]
                q == Q.progress[k]
    <3>1. p \in [xp : Nat, claimed : 0 .. MaxLevel]
          /\ q = IF k[2] = s /\ k[1] = u THEN [xp |-> p.xp + xp, claimed |-> p.claimed] ELSE p
      BY <2>5
    <3>. HIDE DEF p, q
    <3>2. CASE k[2] = s /\ k[1] = u
      <4>1. q = [xp |-> p.xp + xp, claimed |-> p.claimed]
        BY <3>1, <3>2
      <4>. QED BY <3>1, <3>2, <4>1 DEF p, q
    <3>3. CASE ~(k[2] = s /\ k[1] = u)
      <4>1. q = p
        BY <3>1, <3>3
      <4>. QED BY <3>1, <3>3, <4>1 DEF p, q
    <3>. QED BY <3>2, <3>3
  <2>7. PassOK(Q)
    <3>1. Q.progress \in [PassKeys -> [xp : Nat, claimed : 0 .. MaxLevel]]
      <4>1. Q.progress = [k \in PassKeys |-> Q.progress[k]]
        BY <1>3, <1>4
      <4>. QED BY <2>6, <4>1
    <3>2. IsFiniteSet(Q.events)
      BY <1>2, <2>1, FS_AddElement
    <3>3. \A e \in Q.events : e.xp \in Nat
      BY <1>2, <2>1, <2>2
    <3>. QED BY <1>3, <3>1, <3>2, <3>3 DEF PassOK
  <2>8. \A e, f \in Q.events : e.user = f.user /\ e.source = f.source /\ e.ref = f.ref => e = f
    BY <2>1, <2>3 DEF CountedOnce
  <2>9. ASSUME NEW k \in PassKeys PROVE Q.progress[k].xp = XpOf(seen(k, Q.events))
    <3>1. P.progress[k].xp = XpOf(seen(k, P.events))
      BY <1>4 DEF CountedOnce
    <3>2. CASE k[2] = s /\ k[1] = u
      <4>1. seen(k, Q.events) = seen(k, P.events) \cup {x} /\ x \notin seen(k, P.events)
        BY <2>1, <2>2, <2>4, <3>2
      <4>2. IsFiniteSet(seen(k, P.events)) /\ \A e \in seen(k, P.events) : e.xp \in Nat
        BY <1>2, FS_Subset
      <4>. HIDE DEF seen
      <4>3. XpOf(seen(k, P.events) \cup {x}) = XpOf(seen(k, P.events)) + x.xp
        BY <2>2, <4>1, <4>2, XpAdds
      <4>. QED BY <2>2, <2>6, <3>1, <3>2, <4>1, <4>3
    <3>3. CASE ~(k[2] = s /\ k[1] = u)
      <4>1. seen(k, Q.events) = seen(k, P.events)
        BY <2>1, <2>2, <3>3
      <4>. HIDE DEF seen
      <4>. QED BY <2>6, <3>1, <3>3, <4>1
    <3>. QED BY <3>2, <3>3
  <2>10. CountedOnce(Q)
    <3>1. DOMAIN Q.progress = PassKeys
      BY <1>3, <1>4
    <3>. QED BY <2>8, <2>9, <3>1 DEF CountedOnce
  <2>. QED BY <2>6, <2>7, <2>10 DEF Q
<1>. QED BY <1>1, <1>5, <1>6

(* The claim of levels: what is claimed moves up, and nothing else.        *)
LEMMA ClaimedMovesUp ==
  ASSUME NEW P, PassOK(P), CountedOnce(P), NEW k \in PassKeys, NEW level \in 0 .. MaxLevel
  PROVE  LET Q == [P EXCEPT !.progress[k].claimed = level] IN
         /\ PassOK(Q) /\ CountedOnce(Q)
         /\ \A m \in PassKeys : /\ Q.progress[m].xp = P.progress[m].xp
                                /\ Q.progress[m].claimed = (IF m = k THEN level ELSE P.progress[m].claimed)
<1>. DEFINE Q == [P EXCEPT !.progress[k].claimed = level]
            G == P.progress
            F == [m \in PassKeys |-> IF m = k THEN [xp |-> G[k].xp, claimed |-> level] ELSE G[m]]
<1>1. /\ P = [events |-> P.events, progress |-> G]
      /\ G \in [PassKeys -> [xp : Nat, claimed : 0 .. MaxLevel]]
      /\ IsFiniteSet(P.events) /\ \A e \in P.events : e.xp \in Nat
  BY DEF PassOK
<1>2. Q = [events |-> P.events, progress |-> F]
  <2>1. Q = [events |-> P.events, progress |-> [G EXCEPT ![k].claimed = level]]
    BY <1>1
  <2>2. [G EXCEPT ![k].claimed = level] = [G EXCEPT ![k] = [G[k] EXCEPT !.claimed = level]]
    OBVIOUS
  <2>. DEFINE p == G[k]
  <2>3. p \in [xp : Nat, claimed : 0 .. MaxLevel]
    BY <1>1
  <2>. HIDE DEF p
  <2>4. [p EXCEPT !.claimed = level] = [xp |-> p.xp, claimed |-> level]
    BY <2>3
  <2>5. [G EXCEPT ![k] = [xp |-> G[k].xp, claimed |-> level]] = F
    BY <1>1
  <2>. HIDE DEF F, Q
  <2>. QED BY <2>1, <2>2, <2>4, <2>5 DEF p
<1>. HIDE DEF Q, G
<1>3. Q.events = P.events /\ Q.progress = F
  BY <1>2
<1>4. \A m \in PassKeys : /\ F[m] \in [xp : Nat, claimed : 0 .. MaxLevel] /\ F[m].xp = G[m].xp
                          /\ F[m].claimed = (IF m = k THEN level ELSE G[m].claimed)
  <2>. TAKE m \in PassKeys
  <2>1. CASE m = k
    BY <1>1, <2>1
  <2>2. CASE m # k
    BY <1>1, <2>2
  <2>. QED BY <2>1, <2>2
<1>5. F \in [PassKeys -> [xp : Nat, claimed : 0 .. MaxLevel]] /\ DOMAIN F = PassKeys /\ DOMAIN G = PassKeys
  BY <1>1, <1>4
<1>. HIDE DEF F
<1>6. PassOK(Q)
  BY <1>1, <1>2, <1>3, <1>5 DEF PassOK
<1>7. CountedOnce(Q)
  BY <1>3, <1>4, <1>5 DEF CountedOnce, G
<1>. QED BY <1>3, <1>4, <1>6, <1>7 DEF Q, G

(* The rows a claim writes are those between what was claimed and what is. *)
LEMMA LevelsPaidUp ==
  ASSUME NEW L, NEW P, PassOK(P), LadderOK(P, L), NEW u \in Users, NEW s \in 0 .. LastSeason,
         NEW c, ClaimFine(c, u, P), s = Season(c.at), P.progress[<<u, s>>].claimed = c.from,
         NEW Q, PassOK(Q),
         \A m \in PassKeys : /\ Q.progress[m].xp = P.progress[m].xp
                             /\ Q.progress[m].claimed = (IF m = <<u, s>> THEN c.level ELSE P.progress[m].claimed),
         NEW K, K.rows = L.rows \cup LevelRows(u, s, LevelsToPay(c.from, c.level))
  PROVE  LadderOK(Q, K)
<1>. DEFINE paid == LevelsToPay(c.from, c.level)
            Y == LevelRows(u, s, paid)
<1>1. c.from \in 0 .. MaxLevel /\ c.level \in 1 .. MaxLevel /\ c.from <= c.level /\ MaxLevel \in Nat
      /\ Threshold(c.level) <= P.progress[<<u, s>>].xp
  BY PageConstants DEF ClaimFine
<1>2. \A r \in Y : r.user = u /\ r.kind = "BATTLEPASS_REWARD" /\ r.ref[2] = s
  BY DEF LevelRows, Row, LevelRef
<1>. HIDE DEF Y
<1>3. ASSUME NEW m \in PassKeys PROVE LevelPays(K, m) = LevelRows(m[1], m[2], 2 .. Q.progress[m].claimed)
  <2>1. LevelPays(L, m) = LevelRows(m[1], m[2], 2 .. P.progress[m].claimed)
    BY DEF LadderOK
  <2>2. CASE m = <<u, s>>
    <3>1. LevelPays(K, m) = LevelPays(L, m) \cup Y
      BY <1>2, <2>2 DEF LevelPays, Y
    <3>2. (2 .. c.from) \cup paid = 2 .. c.level
      BY <1>1 DEF LevelsToPay
    <3>3. Q.progress[m].claimed = c.level /\ m[1] = u /\ m[2] = s
      BY <2>2
    <3>4. LevelRows(u, s, 2 .. c.from) \cup LevelRows(u, s, paid) = LevelRows(u, s, (2 .. c.from) \cup paid)
      BY DEF LevelRows
    <3>. HIDE DEF paid
    <3>. QED BY <2>1, <2>2, <3>1, <3>2, <3>3, <3>4 DEF Y
  <2>3. CASE m # <<u, s>>
    <3>1. m = <<m[1], m[2]>>
      BY DEF PassKeys
    <3>2. LevelPays(K, m) = LevelPays(L, m)
      BY <1>2, <2>3, <3>1 DEF LevelPays, Y
    <3>. QED BY <2>1, <2>3, <3>2
  <2>. QED BY <2>2, <2>3
<1>4. ASSUME NEW m \in PassKeys, Q.progress[m].claimed > 0
      PROVE  Threshold(Q.progress[m].claimed) <= Q.progress[m].xp
  <2>1. CASE m = <<u, s>>
    BY <1>1, <2>1
  <2>2. CASE m # <<u, s>>
    BY <1>4, <2>2 DEF LadderOK
  <2>. QED BY <2>1, <2>2
<1>. QED BY <1>3, <1>4 DEF LadderOK

(* Rows of another kind change neither the levels nor the days.            *)
LEMMA OtherThanLevels ==
  ASSUME NEW L, NEW K, NEW Y, K.rows = L.rows \cup Y, \A r \in Y : r.kind # "BATTLEPASS_REWARD", NEW k
  PROVE  LevelPays(K, k) = LevelPays(L, k)
BY DEF LevelPays

LEMMA OtherThanDays ==
  ASSUME NEW L, NEW K, NEW Y, K.rows = L.rows \cup Y, \A r \in Y : r.kind # "DAILY_REWARD", NEW u
  PROVE  DayPays(K, u) = DayPays(L, u) /\ DaysClaimed(K, u) = DaysClaimed(L, u)
<1>1. DayPays(K, u) = DayPays(L, u)
  BY DEF DayPays
<1>. QED BY <1>1 DEF DaysClaimed, DayPays

(* A day more was not there before: who reckoned without it reckoned        *)
(* without a day that may be missed, or the day is no day before.           *)
LEMMA RewardStays ==
  ASSUME NEW L, NEW K, NEW u, NEW n \in Int, NEW coins, NEW S, PaidFor(n, coins, L, u, S),
         NEW d \in Int, d \notin DaysClaimed(L, u), DaysClaimed(K, u) = DaysClaimed(L, u) \cup {d},
         NEW T, S \subseteq T, d < n => d \in T
  PROVE  PaidFor(n, coins, K, u, T)
<1>1. PICK missed \in SUBSET S : coins = DailyReward(DaysBefore(L, u, n) \ missed, n)
  BY DEF PaidFor
<1>2. CASE d < n
  <2>1. missed \cup {d} \in SUBSET T
    BY <1>2
  <2>2. DaysBefore(K, u, n) \ (missed \cup {d}) = DaysBefore(L, u, n) \ missed
    BY DEF DaysBefore
  <2>3. coins = DailyReward(DaysBefore(K, u, n) \ (missed \cup {d}), n)
    BY <1>1, <2>2
  <2>. QED BY <2>1, <2>3 DEF PaidFor
<1>3. CASE ~(d < n)
  <2>1. DaysBefore(K, u, n) = DaysBefore(L, u, n)
    BY <1>3 DEF DaysBefore
  <2>. QED BY <1>1, <2>1 DEF PaidFor
<1>. QED BY <1>2, <1>3

LEMMA RewardsSame ==
  ASSUME NEW L, NEW K, NEW u, DaysClaimed(K, u) = DaysClaimed(L, u), NEW S, NEW T, S \subseteq T, NEW n
  PROVE  RewardsStay(n, L, S, K, T, u)
<1>1. \A m : DaysBefore(K, u, m) = DaysBefore(L, u, m)
  BY DEF DaysBefore
<1>. SUFFICES ASSUME NEW m \in 0 .. n, NEW coins, PaidFor(m, coins, L, u, S)
              PROVE  PaidFor(m, coins, K, u, T)
  BY DEF RewardsStay
<1>2. PICK missed \in SUBSET S : coins = DailyReward(DaysBefore(L, u, m) \ missed, m)
  BY DEF PaidFor
<1>. QED BY <1>1, <1>2 DEF PaidFor

(* The row of a day, written on the day or late: every reward reckoned      *)
(* before, paid or about to be, stays right.                                *)
LEMMA DayPaid ==
  ASSUME NEW L, NEW at \in Nat, NEW H, DaysOK(L, at, H), NEW u \in Users, NEW n \in 0 .. Day(at), NEW coins,
         PaidFor(n, coins, L, u, H[u]), Fresh(L, u, "DAILY_REWARD", DayRef(n)),
         NEW K, K.rows = L.rows \cup {Row(u, "DAILY_REWARD", DayRef(n), coins)},
         NEW G, \A v \in Users : H[v] \subseteq G[v], n < Day(at) => n \in G[u]
  PROVE  /\ DaysOK(K, at, G)
         /\ \A v \in Users : RewardsStay(Day(at), L, H[v], K, G[v], v)
<1>. DEFINE today == Day(at)
            x == Row(u, "DAILY_REWARD", DayRef(n), coins)
<1>1. today \in Nat /\ n \in 0 .. today /\ (n < today => n \in G[u])
  BY DaysGoOn
<1>2. x.user = u /\ x.kind = "DAILY_REWARD" /\ x.ref = DayRef(n) /\ x.ref[2] = n /\ x.delta = coins
  BY DEF Row, DayRef
<1>3. \A v \in Users : DayPays(K, v) = IF v = u THEN DayPays(L, v) \cup {x} ELSE DayPays(L, v)
  <2>1. K.rows = L.rows \cup {x}
    OBVIOUS
  <2>. HIDE DEF x
  <2>. QED BY <1>2, <2>1 DEF DayPays
<1>4. \A v \in Users : \A r \in DayPays(L, v) : r.ref = DayRef(r.ref[2]) /\ r.ref[2] \in 0 .. today
                                               /\ PaidFor(r.ref[2], r.delta, L, v, H[v])
  BY DEF DaysOK
<1>5. \A r \in DayPays(L, u) : r.ref[2] # n
  <2>1. \A r \in DayPays(L, u) : r.ref # DayRef(n)
    BY DEF Fresh, DayPays
  <2>. QED BY <1>4, <2>1
<1>. HIDE DEF today, x
<1>6. \A M, v : DaysClaimed(M, v) = {r.ref[2] : r \in DayPays(M, v)}
  BY DEF DaysClaimed, DayPays
<1>7. ASSUME NEW v \in Users PROVE RewardsStay(today, L, H[v], K, G[v], v)
  <2>1. CASE v = u
    <3>1. DaysClaimed(K, u) = DaysClaimed(L, u) \cup {n} /\ n \notin DaysClaimed(L, u)
      BY <1>2, <1>3, <1>5, <1>6
    <3>. SUFFICES ASSUME NEW m \in 0 .. today, NEW any, PaidFor(m, any, L, u, H[u])
                  PROVE  PaidFor(m, any, K, u, G[u])
      BY <2>1 DEF RewardsStay
    <3>2. m \in Int /\ n \in Int /\ (n < m => n \in G[u])
      BY <1>1
    <3>3. H[u] \subseteq G[u]
      OBVIOUS
    <3>. QED BY <3>1, <3>2, <3>3, RewardStays
  <2>2. CASE v # u
    <3>1. DaysClaimed(K, v) = DaysClaimed(L, v)
      BY <1>3, <1>6, <2>2
    <3>. QED BY <3>1, RewardsSame
  <2>. QED BY <2>1, <2>2
<1>8. ASSUME NEW v \in Users, NEW r \in DayPays(K, v)
      PROVE  /\ r.ref = DayRef(r.ref[2]) /\ r.ref[2] \in 0 .. today
             /\ PaidFor(r.ref[2], r.delta, K, v, G[v])
  <2>1. /\ r.ref = DayRef(r.ref[2]) /\ r.ref[2] \in 0 .. today
        /\ PaidFor(r.ref[2], r.delta, L, v, H[v])
    <3>1. CASE r \in DayPays(L, v)
      BY <1>4, <3>1
    <3>2. CASE r \notin DayPays(L, v)
      <4>1. r = x /\ v = u
        BY <1>3, <3>2
      <4>2. x.ref = DayRef(x.ref[2]) /\ x.ref[2] = n /\ x.delta = coins
        BY <1>2
      <4>. QED BY <1>1, <4>1, <4>2
    <3>. QED BY <3>1, <3>2
  <2>. QED BY <1>7, <2>1 DEF RewardsStay
<1>9. DaysOK(K, at, G)
  BY <1>8 DEF DaysOK, today
<1>. QED BY <1>7, <1>9 DEF today

-----------------------------------------------------------------------------
(* The invariant holds at first, and every step keeps it.                  *)
LEMMA JobSet ==
  ASSUME JobsOK, NEW j \in Users \X Jobs, NEW a, JobFine(a), job' = [job EXCEPT ![j] = a]
  PROVE  JobsOK'
<1>1. \A i \in Users \X Jobs : job'[i] = IF i = j THEN a ELSE job[i]
  BY DEF JobsOK
<1>2. DOMAIN job' = Users \X Jobs
  BY DEF JobsOK
<1>3. \A i \in Users \X Jobs : JobFine(job'[i])
  BY <1>1 DEF JobsOK
<1>. QED BY <1>2, <1>3 DEF JobsOK

LEMMA TabSet ==
  ASSUME TabsOK, NEW t \in Users \X Tabs, NEW c, tab' = [tab EXCEPT ![t] = c],
         NEW at, clock' = at, NEW Q, passes' = Q, NEW K, purse' = K, NEW H, late' = H,
         TabFine(c, t[1], at, Q, K, H[t[1]]),
         \A i \in Users \X Tabs : TabFine(tab[i], i[1], at, Q, K, H[i[1]])
  PROVE  TabsOK'
<1>1. \A i \in Users \X Tabs : tab'[i] = IF i = t THEN c ELSE tab[i]
  BY DEF TabsOK
<1>2. DOMAIN tab' = Users \X Tabs
  BY DEF TabsOK
<1>3. \A i \in Users \X Tabs : TabFine(tab'[i], i[1], at, Q, K, H[i[1]])
  BY <1>1
<1>. QED BY <1>2, <1>3 DEF TabsOK

(* Every claim stays right when experience only grows and rewards stay.     *)
LEMMA TabsStay ==
  ASSUME PageInv, NEW Q, PassOK(Q), \A k \in PassKeys : passes.progress[k].xp <= Q.progress[k].xp,
         NEW K, NEW H, \A u \in Users : RewardsStay(Day(clock), purse, late[u], K, H[u], u)
  PROVE  \A t \in Users \X Tabs : TabFine(tab[t], t[1], clock, Q, K, H[t[1]])
<1>. TAKE t \in Users \X Tabs
<1>1. /\ TabFine(tab[t], t[1], clock, passes, purse, late[t[1]]) /\ t[1] \in Users
      /\ clock \in 0 .. LastTick /\ PassOK(passes)
  BY DEF PageInv, TabsOK
<1>2. RewardsStay(Day(clock), purse, late[t[1]], K, H[t[1]], t[1])
  BY <1>1
<1>. QED BY <1>1, <1>2, TabStays

LEMMA XpSame ==
  ASSUME NEW P, PassOK(P)
  PROVE  \A k \in PassKeys : P.progress[k].xp <= P.progress[k].xp
<1>. TAKE k \in PassKeys
<1>1. P.progress[k].xp \in Nat
  BY DEF PassOK
<1>. QED BY <1>1

LEMMA PageStarts == PageInit => PageInv
<1>. SUFFICES ASSUME PageInit PROVE PageInv
  OBVIOUS
<1>. USE DEF PageInit
<1>1. Booked(purse)
  BY NewIsBooked
<1>2. clock \in 0 .. LastTick
  BY PageConstants
<1>3. passes.events = {} /\ DOMAIN passes.progress = PassKeys
      /\ \A k \in PassKeys : passes.progress[k] = NewProgress
  BY DEF NewPass, PassKeys
<1>4. PassOK(passes)
  <2>1. passes.progress \in [PassKeys -> [xp : Nat, claimed : 0 .. MaxLevel]]
    BY PageConstants DEF NewPass, PassKeys, NewProgress
  <2>2. IsFiniteSet({})
    BY FS_EmptySet
  <2>. QED BY <1>3, <2>1, <2>2 DEF PassOK, NewPass
<1>5. CountedOnce(passes)
  <2>1. XpOf({}) = 0
    <3>. DEFINE f == [e \in {} |-> e.xp]
    <3>1. DOMAIN f = {}
      OBVIOUS
    <3>. HIDE DEF f
    <3>2. SumFunction(f) = 0
      BY <3>1, SumEmpty DEF SumFunction
    <3>. QED BY <3>2 DEF XpOf, f
  <2>2. \A k : {e \in passes.events : e.user = k[1] /\ e.season = k[2]} = {}
    BY <1>3
  <2>. QED BY <1>3, <2>1, <2>2 DEF CountedOnce, NewProgress
<1>6. JobsOK
  BY DEF JobsOK, JobFine
<1>7. TabsOK
  BY DEF TabsOK, TabFine
<1>8. purse.rows = {}
  BY DEF NewLedger
<1>9. LadderOK(passes, purse)
  <2>1. 2 .. 0 = {}
    OBVIOUS
  <2>2. \A u, s : LevelRows(u, s, 2 .. 0) = {}
    BY <2>1 DEF LevelRows
  <2>. QED BY <1>3, <1>8, <2>2 DEF LadderOK, LevelPays, NewProgress
<1>10. DaysOK(purse, clock, late) /\ DOMAIN late = Users
  BY <1>8 DEF DaysOK, DayPays
<1>. QED BY <1>1, <1>2, <1>4, <1>5, <1>6, <1>7, <1>9, <1>10 DEF PageInv

LEMMA AwardReadStep ==
  ASSUME PageInv, NEW j \in Users \X Jobs, NEW source \in Sources, NEW ref \in Refs, 
         NEW at \in Requested, AwardRead(j, source, ref, at)
  PROVE  PageInv'
<1>. DEFINE granted == WithinDailyCap(passes, j[1], source, EventXp[source], at)
            a == [source |-> source, ref |-> ref, xp |-> granted, at |-> at]
<1>1. job' = [job EXCEPT ![j] = a] /\ UNCHANGED <<clock, purse, passes, tab, late>>
  BY DEF AwardRead
<1>2. granted \in Nat
  <2>1. IsFiniteSet(passes.events) /\ (\A e \in passes.events : e.xp \in Nat) /\ EventXp[source] \in Nat
    BY PageConstants DEF PageInv, PassOK
  <2>. QED BY <2>1, GrantedIsNat
<1>3. JobFine(a)
  <2>1. at \in 0 .. LastTick
    BY PageConstants DEF Requested, PageInv
  <2>. HIDE DEF granted
  <2>. QED BY <1>2, <2>1 DEF JobFine
<1>. HIDE DEF a
<1>4. JobsOK'
  BY <1>1, <1>3, JobSet DEF PageInv
<1>. QED BY <1>1, <1>4 DEF PageInv, TabsOK

LEMMA AwardWriteStep ==
  ASSUME PageInv, NEW j \in Users \X Jobs, AwardWrite(j)
  PROVE  PageInv'
<1>. DEFINE a == job[j]
            u == j[1]
            gain == [v \in {u} |-> a.xp]
<1>0. PICK createdAt \in a.at .. clock : passes' = Written(passes, gain, a.source, a.ref, a.at, createdAt)
  BY DEF AwardWrite
<1>. DEFINE Q == Written(passes, gain, a.source, a.ref, a.at, createdAt)
<1>1. /\ a # NoJob /\ passes' = Q /\ job' = [job EXCEPT ![j] = NoJob]
      /\ clock' = clock /\ purse' = purse /\ tab' = tab /\ late' = late
  BY <1>0 DEF AwardWrite
<1>2. DOMAIN gain = {u} /\ gain[u] \in Nat /\ u \in Users
  BY <1>1 DEF PageInv, JobsOK, JobFine
<1>3. PassOK(passes) /\ CountedOnce(passes) /\ LadderOK(passes, purse) /\ JobsOK
  BY DEF PageInv
<1>. HIDE DEF a, u, gain
<1>4. /\ PassOK(Q) /\ CountedOnce(Q)
      /\ \A k \in PassKeys : passes.progress[k].xp <= Q.progress[k].xp
                            /\ Q.progress[k].claimed = passes.progress[k].claimed
  BY <1>2, <1>3, WrittenCounts
<1>. HIDE DEF Q
<1>5. JobsOK'
  <2>1. JobFine(NoJob)
    BY DEF JobFine
  <2>. QED BY <1>1, <1>3, <2>1, JobSet
<1>6. \A t \in Users \X Tabs : TabFine(tab[t], t[1], clock, Q, purse, late[t[1]])
  <2>1. \A v \in Users : RewardsStay(Day(clock), purse, late[v], purse, late[v], v)
    BY RewardsSame
  <2>. QED BY <1>4, <2>1, TabsStay
<1>7. TabsOK'
  BY <1>1, <1>6 DEF TabsOK, PageInv
<1>8. LadderOK(Q, purse)
  <2>. SUFFICES ASSUME NEW k \in PassKeys
                PROVE  /\ Q.progress[k].claimed > 0 => Threshold(Q.progress[k].claimed) <= Q.progress[k].xp
                       /\ LevelPays(purse, k) = LevelRows(k[1], k[2], 2 .. Q.progress[k].claimed)
    BY DEF LadderOK
  <2>1. Q.progress[k].claimed = passes.progress[k].claimed
    BY <1>4
  <2>2. LevelPays(purse, k) = LevelRows(k[1], k[2], 2 .. passes.progress[k].claimed)
    BY <1>3 DEF LadderOK
  <2>3. ASSUME passes.progress[k].claimed > 0
        PROVE  Threshold(passes.progress[k].claimed) <= Q.progress[k].xp
    <3>. DEFINE l == passes.progress[k].claimed
                low == passes.progress[k].xp
                high == Q.progress[k].xp
    <3>1. l \in Nat \ {0} /\ low \in Nat /\ high \in Nat /\ low <= high
      BY <1>3, <1>4, <2>3, PageConstants DEF PassOK
    <3>2. Threshold(l) <= low
      BY <1>3, <2>3 DEF LadderOK
    <3>. HIDE DEF l, low, high
    <3>3. Threshold(l) \in Nat
      BY <3>1, Thresholds
    <3>4. Threshold(l) <= high
      BY <3>1, <3>2, <3>3
    <3>. QED BY <3>4 DEF l, high
  <2>. QED BY <2>1, <2>2, <2>3
<1>9. /\ clock' \in 0 .. LastTick /\ Booked(purse') /\ PassOK(passes') /\ CountedOnce(passes')
      /\ LadderOK(passes', purse') /\ DOMAIN late' = Users /\ DaysOK(purse', clock', late')
  BY <1>1, <1>4, <1>8 DEF PageInv
<1>. QED BY <1>5, <1>7, <1>9 DEF PageInv

LEMMA AwardRolledBackStep ==
  ASSUME PageInv, NEW j \in Users \X Jobs, AwardRolledBack(j)
  PROVE  PageInv'
<1>1. job' = [job EXCEPT ![j] = NoJob] /\ UNCHANGED <<clock, purse, passes, tab, late>>
  BY DEF AwardRolledBack
<1>2. JobFine(NoJob)
  BY DEF JobFine
<1>3. JobsOK'
  BY <1>1, <1>2, JobSet DEF PageInv
<1>. QED BY <1>1, <1>3 DEF PageInv, TabsOK

LEMMA ClaimReadStep ==
  ASSUME PageInv, NEW t \in Users \X Tabs, NEW at \in Requested, ClaimRead(t, at)
  PROVE  PageInv'
<1>. DEFINE k == <<t[1], Season(at)>>
            p == passes.progress[k]
            level == LevelFromXp(p.xp)
            c == [NoTab EXCEPT !.op = "claim", !.at = at, !.from = p.claimed, !.level = level]
<1>1. /\ CoinsOf(LevelsToPay(p.claimed, level)) > 0 /\ tab' = [tab EXCEPT ![t] = c]
      /\ clock' = clock /\ purse' = purse /\ passes' = passes /\ job' = job /\ late' = late
  BY DEF ClaimRead
<1>2. at \in 0 .. clock /\ at \in 0 .. LastTick /\ PassOK(passes) /\ t[1] \in Users /\ MaxLevel \in Nat
  BY PageConstants DEF PageInv, Requested
<1>3. k \in PassKeys
  BY <1>2, SeasonInRange DEF PassKeys
<1>4. p.xp \in Nat /\ p.claimed \in 0 .. MaxLevel
  BY <1>2, <1>3 DEF PassOK
<1>. HIDE DEF p
<1>5. level \in 1 .. MaxLevel /\ Threshold(level) <= p.xp
  BY <1>4, LevelReached
<1>6. p.claimed <= level
  <2>. SUFFICES ASSUME LevelsToPay(p.claimed, level) = {} PROVE FALSE
    BY <1>4, <1>5 DEF LevelsToPay
  <2>. DEFINE f == [l \in {} |-> RewardCoins(l)]
  <2>1. DOMAIN f = {}
    OBVIOUS
  <2>. HIDE DEF f
  <2>2. SumFunction(f) = 0
    BY <2>1, SumEmpty DEF SumFunction
  <2>3. CoinsOf({}) = 0
    BY <2>2 DEF CoinsOf, f
  <2>. QED BY <1>1, <2>3
<1>7. c.op = "claim" /\ c.at = at /\ c.from = p.claimed /\ c.level = level
  BY DEF NoTab
<1>. HIDE DEF c, level
<1>8. ClaimFine(c, t[1], passes)
  BY <1>4, <1>5, <1>6, <1>7 DEF ClaimFine, p, k
<1>9. TabFine(c, t[1], clock, passes, purse, late[t[1]])
  BY <1>2, <1>7, <1>8 DEF TabFine
<1>10. TabsOK'
  BY <1>1, <1>9, TabSet DEF PageInv, TabsOK
<1>. QED BY <1>1, <1>10 DEF PageInv, JobsOK

LEMMA DaysSame ==
  ASSUME NEW L, NEW at, NEW H, DaysOK(L, at, H), NEW K,
         \A u : DayPays(K, u) = DayPays(L, u) /\ DaysClaimed(K, u) = DaysClaimed(L, u)
  PROVE  DaysOK(K, at, H)
<1>1. \A u, n : DaysBefore(K, u, n) = DaysBefore(L, u, n)
  BY DEF DaysBefore
<1>2. \A n, coins, u, S : PaidFor(n, coins, K, u, S) <=> PaidFor(n, coins, L, u, S)
  BY <1>1 DEF PaidFor
<1>. QED BY <1>2 DEF DaysOK

LEMMA ClaimWriteStep ==
  ASSUME PageInv, NEW t \in Users \X Tabs, ClaimWrite(t)
  PROVE  PageInv'
<1>. DEFINE c == tab[t]
            u == t[1]
            s == Season(c.at)
            k == <<u, s>>
            paid == LevelsToPay(c.from, c.level)
            Q == [passes EXCEPT !.progress[k].claimed = c.level]
            K == PayLevels(purse, u, s, paid)
<1>1. /\ c.op = "claim" /\ tab' = [tab EXCEPT ![t] = NoTab] /\ clock' = clock /\ job' = job /\ late' = late
      /\ \/ /\ passes.progress[k].claimed = c.from /\ CanPayLevels(purse, u, s, paid)
            /\ passes' = Q /\ purse' = K
         \/ passes' = passes /\ purse' = purse
  BY DEF ClaimWrite, NotClaimedSince
<1>2. /\ clock \in 0 .. LastTick /\ Booked(purse) /\ PassOK(passes) /\ CountedOnce(passes)
      /\ JobsOK /\ TabsOK /\ LadderOK(passes, purse) /\ DOMAIN late = Users /\ DaysOK(purse, clock, late)
  BY DEF PageInv
<1>3. JobsOK'
  BY <1>1, <1>2 DEF JobsOK
<1>4. \A P, L, at, S : TabFine(NoTab, u, at, P, L, S)
  BY DEF TabFine
<1>5. CASE passes' = passes /\ purse' = purse
  <2>1. TabsOK'
    BY <1>1, <1>2, <1>4, <1>5, TabSet DEF TabsOK
  <2>. QED BY <1>1, <1>2, <1>3, <1>5, <2>1 DEF PageInv
<1>6. CASE /\ passes.progress[k].claimed = c.from /\ CanPayLevels(purse, u, s, paid)
           /\ passes' = Q /\ purse' = K
  <2>1. c # NoTab /\ TabFine(c, u, clock, passes, purse, late[u])
    BY <1>1, <1>2 DEF TabsOK, NoTab
  <2>2. ClaimFine(c, u, passes) /\ c.at \in 0 .. clock
    BY <1>1, <2>1 DEF TabFine
  <2>3. u \in Users /\ s \in 0 .. LastSeason
    <3>1. c.at \in 0 .. LastTick
      BY <1>2, <2>2, PageConstants
    <3>. QED BY <3>1, SeasonInRange
  <2>4. k \in PassKeys
    BY <2>3 DEF PassKeys
  <2>5. c.level \in 0 .. MaxLevel /\ paid \subseteq Nat /\ IsFiniteSet(paid)
    <3>1. c.level \in 1 .. MaxLevel /\ MaxLevel \in Nat
      BY <2>2, PageConstants DEF ClaimFine
    <3>2. IsFiniteSet(2 .. c.level)
      BY <3>1, FS_Interval
    <3>3. paid \subseteq 2 .. c.level
      BY DEF LevelsToPay
    <3>4. IsFiniteSet(paid)
      BY <3>2, <3>3, FS_Subset
    <3>. QED BY <3>1, <3>3, <3>4
  <2>6. K.rows = purse.rows \cup LevelRows(u, s, paid)
    BY DEF PayLevels
  <2>. HIDE DEF c, u, s, paid, K
  <2>7. /\ PassOK(Q) /\ CountedOnce(Q)
        /\ \A m \in PassKeys : /\ Q.progress[m].xp = passes.progress[m].xp
                               /\ Q.progress[m].claimed = (IF m = k THEN c.level ELSE passes.progress[m].claimed)
    BY <1>2, <2>4, <2>5, ClaimedMovesUp
  <2>. HIDE DEF Q
  <2>8. Booked(K)
    BY <1>2, <1>6, <2>3, <2>5, PayLevelsPosts DEF K, Settles
  <2>9. LadderOK(Q, K)
    BY <1>2, <1>6, <2>2, <2>3, <2>6, <2>7, LevelsPaidUp DEF s, paid
  <2>10. \A v : DayPays(K, v) = DayPays(purse, v) /\ DaysClaimed(K, v) = DaysClaimed(purse, v)
    <3>. DEFINE Y == LevelRows(u, s, paid)
    <3>1. K.rows = purse.rows \cup Y /\ \A r \in Y : r.kind # "DAILY_REWARD"
      BY <2>6 DEF LevelRows, Row
    <3>. HIDE DEF Y
    <3>. QED BY ONLY <3>1, OtherThanDays
  <2>11. DaysOK(K, clock, late)
    BY <1>2, <2>10, DaysSame
  <2>12. \A i \in Users \X Tabs : TabFine(tab[i], i[1], clock, Q, K, late[i[1]])
    <3>1. \A m \in PassKeys : passes.progress[m].xp <= Q.progress[m].xp
      BY <1>2, <2>7, XpSame
    <3>2. \A v \in Users : RewardsStay(Day(clock), purse, late[v], K, late[v], v)
      BY <2>10, RewardsSame
    <3>. QED BY <2>7, <3>1, <3>2, TabsStay
  <2>13. TabsOK'
    <3>1. TabFine(NoTab, t[1], clock, Q, K, late[t[1]])
      BY <1>4 DEF u
    <3>. QED BY <1>1, <1>2, <1>6, <2>12, <3>1, TabSet
  <2>. QED BY <1>1, <1>2, <1>3, <1>6, <2>7, <2>8, <2>9, <2>11, <2>13 DEF PageInv
<1>. HIDE DEF Q, K, c
<1>. QED BY <1>1, <1>5, <1>6

(* A reward is one of those of the cycle.                                  *)
LEMMA RewardIsNat ==
  ASSUME NEW days \in SUBSET Int, NEW today \in Int
  PROVE  DailyReward(days, today) \in Nat
<1>. DEFINE cycle == Len(DailyCoins)
            n == Previous(days, today)
<1>1. cycle \in Nat \ {0} /\ DailyCoins \in Seq(Nat)
  BY BattlePassAssumption
<1>2. n \in Nat
  BY DaysInARow
<1>. HIDE DEF n
<1>3. (n % cycle) + 1 \in 1 .. cycle
  BY <1>1, <1>2
<1>. QED BY <1>1, <1>3 DEF DailyReward, CycleDay, n

(* Days are numbers.                                                       *)
LEMMA DaysAreNumbers ==
  ASSUME NEW L, NEW at \in Nat, NEW H, DaysOK(L, at, H), NEW u \in Users
  PROVE  DaysClaimed(L, u) \in SUBSET Int
<1>1. \A r \in DayPays(L, u) : r.ref[2] \in 0 .. Day(at)
  BY DEF DaysOK
<1>. QED BY <1>1 DEF DaysClaimed, DayPays

LEMMA DailyReadStep ==
  ASSUME PageInv, NEW t \in Users \X Tabs, NEW at \in Requested, DailyRead(t, at)
  PROVE  PageInv'
<1>. DEFINE u == t[1]
            days == DaysClaimed(purse, u)
            today == Day(at)
            coins == DailyReward(days, today)
            c == [NoTab EXCEPT !.op = "daily", !.at = at, !.coins = coins]
<1>1. /\ tab' = [tab EXCEPT ![t] = c]
      /\ clock' = clock /\ purse' = purse /\ passes' = passes /\ job' = job /\ late' = late
  BY DEF DailyRead
<1>2. /\ clock \in Nat /\ at \in Nat /\ at \in 0 .. clock /\ clock \in 0 .. LastTick
      /\ DaysOK(purse, clock, late) /\ u \in Users
  BY PageConstants DEF PageInv, Requested
<1>3. days \in SUBSET Int /\ today \in Int
  BY <1>2, DaysAreNumbers, DaysGoOn
<1>4. c.op = "daily" /\ c.at = at /\ c.coins = coins
  BY DEF NoTab
<1>5. DaysBefore(purse, u, today) = {d \in days : d < today}
  BY DEF DaysBefore
<1>. HIDE DEF c, days, today
<1>6. coins \in Nat /\ coins = DailyReward({d \in days : d < today}, today)
  BY <1>3, RewardIsNat, OnlyEarlierDays
<1>. HIDE DEF coins
<1>7. DailyFine(c, u, purse, late[u])
  <2>1. coins = DailyReward(DaysBefore(purse, u, today) \ {}, today)
    BY <1>5, <1>6
  <2>2. PaidFor(today, coins, purse, u, late[u])
    BY <2>1 DEF PaidFor
  <2>. QED BY <1>4, <1>6, <2>2 DEF DailyFine, today
<1>8. TabFine(c, u, clock, passes, purse, late[u])
  BY <1>2, <1>4, <1>7 DEF TabFine
<1>9. TabsOK'
  BY <1>1, <1>8, TabSet DEF PageInv, TabsOK
<1>. QED BY <1>1, <1>9 DEF PageInv, JobsOK

LEMMA DailyWriteStep ==
  ASSUME PageInv, NEW t \in Users \X Tabs, DailyWrite(t)
  PROVE  PageInv'
<1>. DEFINE c == tab[t]
            u == t[1]
            coins == c.coins
            n == Day(c.at)
            ref == DayRef(n)
            K == Credit(purse, u, coins, "DAILY_REWARD", ref)
            paid == CanCredit(purse, u, coins, "DAILY_REWARD", ref)
            H == IF paid /\ n < Day(clock) THEN [late EXCEPT ![u] = @ \cup {n}] ELSE late
<1>1. /\ c.op = "daily" /\ tab' = [tab EXCEPT ![t] = NoTab]
      /\ clock' = clock /\ passes' = passes /\ job' = job
      /\ purse' = IF paid THEN K ELSE purse
      /\ late' = H
  BY DEF DailyWrite
<1>2. /\ clock \in 0 .. LastTick /\ Booked(purse) /\ PassOK(passes) /\ CountedOnce(passes)
      /\ JobsOK /\ TabsOK /\ LadderOK(passes, purse) /\ DOMAIN late = Users /\ DaysOK(purse, clock, late)
  BY DEF PageInv
<1>3. JobsOK'
  BY <1>1, <1>2 DEF JobsOK
<1>4. \A P, L, at, S : TabFine(NoTab, u, at, P, L, S)
  BY DEF TabFine
<1>5. c # NoTab /\ TabFine(c, u, clock, passes, purse, late[u]) /\ u \in Users /\ clock \in Nat
  BY <1>1, <1>2, PageConstants DEF TabsOK, NoTab
<1>6. DailyFine(c, u, purse, late[u]) /\ c.at \in 0 .. clock
  BY <1>1, <1>5 DEF TabFine
<1>7. n \in 0 .. Day(clock)
  <2>1. c.at \in Nat /\ c.at <= clock
    BY <1>5, <1>6
  <2>2. Day(c.at) \in Nat /\ Day(c.at) <= Day(clock)
    BY <1>5, <2>1, DaysGoOn
  <2>3. Day(clock) \in Nat
    BY <1>5, DaysGoOn
  <2>. QED BY <2>2, <2>3
<1>. HIDE DEF c, u, n
<1>8. DOMAIN H = Users /\ (\A v \in Users : late[v] \subseteq H[v]) /\ (paid /\ n < Day(clock) => n \in H[u])
  <2>. HIDE DEF paid
  <2>. QED BY <1>2, <1>5
<1>9. CASE purse' = purse
  <2>1. late' = H
    BY <1>1
  <2>. HIDE DEF H, K, coins, paid
  <2>2. \A v \in Users : RewardsStay(Day(clock), purse, late[v], purse, H[v], v)
    BY <1>8, RewardsSame
  <2>3. DaysOK(purse, clock, H)
    <3>. SUFFICES ASSUME NEW v \in Users, NEW r \in DayPays(purse, v)
                  PROVE  /\ r.ref = DayRef(r.ref[2]) /\ r.ref[2] \in 0 .. Day(clock)
                         /\ PaidFor(r.ref[2], r.delta, purse, v, H[v])
      BY DEF DaysOK
    <3>1. r.ref = DayRef(r.ref[2]) /\ r.ref[2] \in 0 .. Day(clock) /\ PaidFor(r.ref[2], r.delta, purse, v, late[v])
      BY <1>2 DEF DaysOK
    <3>. QED BY <2>2, <3>1 DEF RewardsStay
  <2>4. TabsOK'
    <3>1. TabFine(NoTab, t[1], clock, passes, purse, H[t[1]])
      BY <1>4 DEF u
    <3>2. \A k \in PassKeys : passes.progress[k].xp <= passes.progress[k].xp
      BY <1>2, XpSame
    <3>3. \A i \in Users \X Tabs : TabFine(tab[i], i[1], clock, passes, purse, H[i[1]])
      BY <1>2, <2>2, <3>2, TabsStay
    <3>. QED BY <1>1, <1>2, <1>9, <2>1, <3>1, <3>3, TabSet
  <2>. QED BY <1>1, <1>2, <1>3, <1>8, <1>9, <2>1, <2>3, <2>4 DEF PageInv
<1>10. CASE paid /\ coins > 0
  <2>. DEFINE x == Row(u, "DAILY_REWARD", ref, coins)
  <2>1. K.rows = purse.rows \cup {x} /\ coins \in Nat /\ Fresh(purse, u, "DAILY_REWARD", ref)
    <3>1. coins \in Nat
      BY <1>6 DEF DailyFine
    <3>2. coins > 0 /\ Fresh(purse, u, "DAILY_REWARD", ref)
      BY <1>10 DEF CanCredit
    <3>. HIDE DEF coins, ref
    <3>3. K.rows = purse.rows \cup {x}
      BY <3>1, <3>2 DEF Credit, Move
    <3>. QED BY <3>1, <3>2, <3>3
  <2>2. Booked(K)
    BY <1>2, <1>5, <1>10, <2>1, CreditPosts DEF Settles
  <2>3. purse' = K
    BY <1>1, <1>10
  <2>. HIDE DEF K, H
  <2>4. /\ DaysOK(K, clock, H)
        /\ \A v \in Users : RewardsStay(Day(clock), purse, late[v], K, H[v], v)
    <3>1. PaidFor(n, coins, purse, u, late[u])
      BY <1>6 DEF DailyFine, n
    <3>2. n < Day(clock) => n \in H[u]
      BY <1>8, <1>10
    <3>. HIDE DEF coins, paid
    <3>. QED BY <1>2, <1>5, <1>7, <1>8, <2>1, <3>1, <3>2, DayPaid
  <2>5. LadderOK(passes, K)
    <3>. DEFINE Y == {x}
    <3>1. K.rows = purse.rows \cup Y /\ \A r \in Y : r.kind # "BATTLEPASS_REWARD"
      BY <2>1 DEF Row
    <3>. HIDE DEF x, Y
    <3>2. \A k : LevelPays(K, k) = LevelPays(purse, k)
      BY ONLY <3>1, OtherThanLevels
    <3>. QED BY <1>2, <3>2 DEF LadderOK
  <2>6. \A i \in Users \X Tabs : TabFine(tab[i], i[1], clock, passes, K, H[i[1]])
    <3>1. \A k \in PassKeys : passes.progress[k].xp <= passes.progress[k].xp
      BY <1>2, XpSame
    <3>. QED BY <1>2, <2>4, <3>1, TabsStay
  <2>7. TabsOK'
    BY <1>1, <1>2, <1>4, <2>3, <2>6, TabSet DEF u
  <2>. QED BY <1>1, <1>2, <1>3, <1>8, <2>2, <2>3, <2>4, <2>5, <2>7 DEF PageInv
<1>11. purse' = purse \/ (paid /\ coins > 0)
  BY <1>1 DEF Credit
<1>. QED BY <1>9, <1>10, <1>11

LEMMA PageTickStep ==
  ASSUME PageInv, PageTick
  PROVE  PageInv'
<1>. DEFINE next == clock + 1
<1>1. /\ clock' = next /\ clock < LastTick /\ tab' = tab /\ job' = job /\ purse' = purse /\ passes' = passes
      /\ late' = late
  BY DEF PageTick
<1>2. clock \in Nat /\ next \in 0 .. LastTick /\ next \in Nat /\ clock <= next
  BY <1>1, PageConstants DEF PageInv
<1>. HIDE DEF next
<1>3. \A t \in Users \X Tabs : TabFine(tab[t], t[1], next, passes, purse, late[t[1]])
  <2>. TAKE t \in Users \X Tabs
  <2>1. TabFine(tab[t], t[1], clock, passes, purse, late[t[1]])
    BY DEF PageInv, TabsOK
  <2>2. \A a \in 0 .. clock : a \in 0 .. next
    BY <1>2
  <2>. QED BY <2>1, <2>2 DEF TabFine
<1>4. TabsOK'
  BY <1>1, <1>3 DEF TabsOK, PageInv
<1>5. DaysOK(purse, next, late)
  <2>1. Day(clock) \in Nat /\ Day(next) \in Nat /\ Day(clock) <= Day(next)
    BY <1>2, DaysGoOn
  <2>2. \A d \in 0 .. Day(clock) : d \in 0 .. Day(next)
    BY <2>1
  <2>. QED BY <2>2 DEF PageInv, DaysOK
<1>6. JobsOK'
  BY <1>1 DEF PageInv, JobsOK
<1>. QED BY <1>1, <1>2, <1>4, <1>5, <1>6 DEF PageInv

LEMMA PageStep ==
  ASSUME PageInv, [PageNext]_pageVars
  PROVE  PageInv'
<1>1. CASE UNCHANGED pageVars
  BY <1>1 DEF pageVars, PageInv, JobsOK, TabsOK
<1>2. ASSUME NEW j \in Users \X Jobs, NEW s \in Sources, NEW ref \in Refs, NEW at \in Requested,
             AwardRead(j, s, ref, at)
      PROVE  PageInv'
  BY <1>2, AwardReadStep
<1>3. ASSUME NEW j \in Users \X Jobs, AwardWrite(j) PROVE PageInv'
  BY <1>3, AwardWriteStep
<1>4. ASSUME NEW j \in Users \X Jobs, AwardRolledBack(j) PROVE PageInv'
  BY <1>4, AwardRolledBackStep
<1>5. ASSUME NEW t \in Users \X Tabs, NEW at \in Requested, ClaimRead(t, at) \/ DailyRead(t, at) PROVE PageInv'
  BY <1>5, ClaimReadStep, DailyReadStep
<1>6. ASSUME NEW t \in Users \X Tabs, ClaimWrite(t) \/ DailyWrite(t) PROVE PageInv'
  BY <1>6, ClaimWriteStep, DailyWriteStep
<1>7. CASE PageTick
  BY <1>7, PageTickStep
<1>. QED BY <1>1, <1>2, <1>3, <1>4, <1>5, <1>6, <1>7 DEF PageNext, Page

(* The inductive invariant of the page: what the pass, the journal, the     *)
(* awards and the claims under way are between two steps, with any number   *)
(* of transactions, tabs and days (battlepass.service.ts:39-249).           *)
THEOREM PageInvariance == PageSpec => []PageInv
BY PageStarts, PageStep, PTL DEF PageSpec

(* Every variable stays in its type, the claimed level on the ladder        *)
(* included.                                                               *)
THEOREM PageTypeCorrect == PageSpec => []PageTypeOK
<1>1. PageInv => PageTypeOK
  BY DEF PageInv, PageTypeOK, Booked, PassOK, PassKeys, JobsOK, JobFine, TabsOK, TabFine, NoTab
<1>. QED BY <1>1, PageInvariance, PTL

(* However many transactions report an event, and in whatever order they    *)
(* commit or are rolled back, it counts once, and the experience of a       *)
(* season is the sum of its events: the insert that skips duplicates and    *)
(* the progress are one step (battlepass.service.ts:39-71).               *)
THEOREM EventsCounted == PageSpec => []EventsCountOnce
<1>1. PageInv => EventsCountOnce
  BY DEF PageInv, CountedOnce, EventsCountOnce
<1>. QED BY <1>1, PageInvariance, PTL

(* However many tabs claim at once, the journal has one row at its price    *)
(* for every level up to the claimed one and for no other, and the claimed  *)
(* level was reached: a claim that lost the race changes nothing            *)
(* (battlepass.service.ts:185-217).                                        *)
THEOREM LevelsPaid == PageSpec => []LevelsPaidOnce
<1>1. ASSUME PageInv, NEW k \in DOMAIN passes.progress
      PROVE  LET p == passes.progress[k]
                 paid == {r \in purse.rows :
                            r.user = k[1] /\ r.kind = "BATTLEPASS_REWARD" /\ r.ref[2] = k[2]}
             IN  /\ p.claimed > 0 => Threshold(p.claimed) <= p.xp
                 /\ {r.ref[3] : r \in paid} = 2 .. p.claimed
                 /\ Cardinality(paid) = Cardinality(2 .. p.claimed)
                 /\ \A r \in paid : r.delta = RewardCoins(r.ref[3])
  <2>. DEFINE claimed == passes.progress[k].claimed
              levels == 2 .. claimed
              rowOf == [l \in levels |-> Row(k[1], "BATTLEPASS_REWARD", LevelRef(k[2], l), RewardCoins(l))]
              paid == LevelPays(purse, k)
  <2>1. k \in PassKeys /\ claimed \in Nat
    BY <1>1, PageConstants DEF PageInv, PassOK
  <2>2. LadderOK(passes, purse)
    BY <1>1 DEF PageInv
  <2>3. claimed > 0 => Threshold(claimed) <= passes.progress[k].xp
    BY <2>1, <2>2 DEF LadderOK
  <2>4. paid = LevelRows(k[1], k[2], levels)
    BY <2>1, <2>2 DEF LadderOK
  <2>5. paid = {rowOf[l] : l \in levels}
    BY <2>4 DEF LevelRows
  <2>6. \A l \in levels : rowOf[l].ref[3] = l /\ rowOf[l].delta = RewardCoins(l)
    BY DEF Row, LevelRef
  <2>7. IsFiniteSet(levels)
    BY <2>1, FS_Interval
  <2>8. DOMAIN rowOf = levels /\ rowOf = [l \in levels |-> rowOf[l]]
    OBVIOUS
  <2>. HIDE DEF rowOf, paid, levels
  <2>9. {r.ref[3] : r \in paid} = levels /\ \A r \in paid : r.delta = RewardCoins(r.ref[3])
    BY <2>5, <2>6
  <2>10. rowOf \in Bijection(levels, paid)
    BY <2>5, <2>6, <2>8 DEF Bijection, Injection, Surjection, IsInjective
  <2>11. Cardinality(paid) = Cardinality(levels)
    BY <2>7, <2>10, FS_Bijection DEF ExistsBijection
  <2>. QED BY <2>3, <2>9, <2>11 DEF paid, levels, LevelPays
<1>2. PageInv => LevelsPaidOnce
  BY <1>1 DEF LevelsPaidOnce
<1>. QED BY <1>2, PageInvariance, PTL

(* However many tabs claim the reward of a day, and at whatever midnight,   *)
(* the journal has one row for the day, and its coins are those of the row   *)
(* of days before it: the cycle goes on after a day that was claimed and     *)
(* begins again after one that was missed, or that was written only when it  *)
(* was over (battlepass.service.ts:229-249).                                *)
THEOREM DaysInOrder == PageSpec => []DaysPaidInOrder
<1>1. ASSUME PageInv, NEW u \in Users
      PROVE  LET days == {r.ref[2] : r \in DailyRewards(u)} IN
             /\ days \subseteq 0 .. Day(clock)
             /\ Cardinality(DailyRewards(u)) = Cardinality(days)
             /\ \A r \in DailyRewards(u) : LET earlier == {d \in days : d < r.ref[2]} IN
                  \E missed \in SUBSET (earlier \cap late[u]) : PaidByRow(r, earlier \ missed)
  <2>. DEFINE rows == DailyRewards(u)
              dayOf == [r \in rows |-> r.ref[2]]
              days == {r.ref[2] : r \in rows}
  <2>1. /\ clock \in Nat /\ DaysOK(purse, clock, late) /\ IsFiniteSet(purse.rows) /\ KeysUnique(purse.rows)
    BY <1>1, PageConstants DEF PageInv, Booked
  <2>2. rows = DayPays(purse, u) /\ rows \subseteq purse.rows
        /\ \A r \in rows : r.user = u /\ r.kind = "DAILY_REWARD"
    BY DEF DailyRewards, DayPays
  <2>3. DaysClaimed(purse, u) = days
    BY DEF DaysClaimed, DailyRewards
  <2>. HIDE DEF rows
  <2>4. IsFiniteSet(rows)
    BY <2>1, <2>2, FS_Subset
  <2>5. \A r \in rows : /\ r.ref = DayRef(r.ref[2]) /\ r.ref[2] \in 0 .. Day(clock)
                        /\ PaidFor(r.ref[2], r.delta, purse, u, late[u])
    BY <2>1, <2>2 DEF DaysOK
  <2>6. days \subseteq 0 .. Day(clock)
    BY <2>5
  <2>7. \A r, s \in rows : r.ref[2] = s.ref[2] => r = s
    <3>. SUFFICES ASSUME NEW r \in rows, NEW s \in rows, r.ref[2] = s.ref[2] PROVE r = s
      OBVIOUS
    <3>1. r.ref = s.ref
      BY <2>5
    <3>. QED BY <2>1, <2>2, <3>1 DEF KeysUnique
  <2>8. dayOf \in Bijection(rows, days)
    BY <2>7 DEF Bijection, Injection, Surjection, IsInjective
  <2>9. IsFiniteSet(days) /\ Cardinality(rows) = Cardinality(days)
    BY <2>4, <2>8, FS_Bijection DEF ExistsBijection
  <2>10. ASSUME NEW r \in rows
         PROVE  LET earlier == {d \in days : d < r.ref[2]} IN
                \E missed \in SUBSET (earlier \cap late[u]) : PaidByRow(r, earlier \ missed)
    <3>. DEFINE n == r.ref[2]
                earlier == {d \in days : d < n}
    <3>1. n \in Int
      BY <2>5
    <3>2. DaysBefore(purse, u, n) = earlier
      BY <2>3 DEF DaysBefore
    <3>3. PICK unseen \in SUBSET late[u] : r.delta = DailyReward(DaysBefore(purse, u, n) \ unseen, n)
      BY <2>5 DEF PaidFor
    <3>. DEFINE missed == earlier \cap unseen
                seen == earlier \ missed
    <3>4. missed \in SUBSET (earlier \cap late[u]) /\ r.delta = DailyReward(seen, n)
      <4>1. seen = earlier \ unseen
        OBVIOUS
      <4>. QED BY <3>2, <3>3, <4>1
    <3>5. seen \in SUBSET Int /\ \A d \in seen : d < n
      BY <2>6
    <3>6. IsFiniteSet(seen)
      BY <2>9, FS_Subset
    <3>. HIDE DEF n, earlier, days, missed, seen
    <3>7. LET row == {d \in seen : d .. (n - 1) \subseteq seen} IN
          Cardinality(row) < Len(DailyCoins) => DailyReward(seen, n) = DailyCoins[Cardinality(row) + 1]
      BY <3>1, <3>5, <3>6, RewardOfRow
    <3>8. PaidByRow(r, seen)
      BY <3>4, <3>7 DEF PaidByRow, n
    <3>. QED BY <3>4, <3>8 DEF n, earlier, seen
  <2>. QED BY <2>6, <2>9, <2>10 DEF rows
<1>2. PageInv => DaysPaidInOrder
  BY <1>1 DEF DaysPaidInOrder
<1>. QED BY <1>2, PageInvariance, PTL

(* To post is the same in the module of the ledger, sums included.         *)
LEMMA PageLedgerPosts ==
  ASSUME NEW L, NEW K
  PROVE  Posts(L, K) => PageLedger!Posts([balance |-> L.balance, rows |-> L.rows],
                                         [balance |-> K.balance, rows |-> K.rows])
<1>1. ASSUME NEW f, NEW S PROVE PageLedger!SumFunctionOnSet(f, S) = SumFunctionOnSet(f, S)
  <2>1. PageLedger!SumFunctionOnSet(f, S) = PartialSums(f, S)[S]
    BY DEF PageLedger!SumFunctionOnSet, PageLedger!FoldFunctionOnSet, PageLedger!MapThenFoldSet,
           PartialSums, Defines, Chosen
  <2>. QED BY <2>1, SumIsPartialSum
<1>2. ASSUME NEW rows, NEW u PROVE PageLedger!SumDelta(rows, u) = SumDelta(rows, u)
  BY <1>1 DEF PageLedger!SumDelta, SumDelta
<1>. QED BY <1>2 DEF PageLedger!Posts, Posts, PageLedger!KeysUnique, KeysUnique

(* A step posts to the journal or leaves it alone.                         *)
LEMMA PurseStep ==
  ASSUME PageInv, [PageNext]_pageVars
  PROVE  Settles(purse, purse')
<1>1. Booked(purse) /\ TabsOK /\ clock \in 0 .. LastTick
  BY DEF PageInv
<1>2. ASSUME NEW t \in Users \X Tabs, ClaimWrite(t) PROVE Settles(purse, purse')
  <2>. DEFINE c == tab[t]
              u == t[1]
              s == Season(c.at)
              paid == LevelsToPay(c.from, c.level)
  <2>1. c.op = "claim" /\ (purse' = purse \/ (CanPayLevels(purse, u, s, paid) /\ purse' = PayLevels(purse, u, s, paid)))
    BY <1>2 DEF ClaimWrite
  <2>2. c # NoTab /\ TabFine(c, u, clock, passes, purse, late[u]) /\ u \in Users
    BY <1>1, <2>1 DEF TabsOK, NoTab
  <2>3. c.level \in 1 .. MaxLevel /\ MaxLevel \in Nat
    BY <2>1, <2>2, PageConstants DEF TabFine, ClaimFine
  <2>4. IsFiniteSet(2 .. c.level) /\ paid \subseteq 2 .. c.level
    BY <2>3, FS_Interval DEF LevelsToPay
  <2>. HIDE DEF c, u, s, paid
  <2>5. paid \subseteq Nat /\ IsFiniteSet(paid)
    <3>1. IsFiniteSet(paid)
      BY ONLY <2>4, FS_Subset
    <3>2. \A l \in 2 .. c.level : l \in Nat
      BY <2>3
    <3>. QED BY <2>4, <3>1, <3>2
  <2>. QED BY <1>1, <2>1, <2>2, <2>5, PayLevelsPosts DEF Settles
<1>3. ASSUME NEW t \in Users \X Tabs, DailyWrite(t) PROVE Settles(purse, purse')
  <2>. DEFINE c == tab[t]
              u == t[1]
              n == c.coins
              ref == DayRef(Day(c.at))
  <2>1. c.op = "daily" /\ purse' = IF CanCredit(purse, u, n, "DAILY_REWARD", ref)
                                     THEN Credit(purse, u, n, "DAILY_REWARD", ref) ELSE purse
    BY <1>3 DEF DailyWrite
  <2>2. c # NoTab /\ TabFine(c, u, clock, passes, purse, late[u]) /\ u \in Users
    BY <1>1, <2>1 DEF TabsOK, NoTab
  <2>3. n \in Nat
    BY <2>1, <2>2 DEF TabFine, DailyFine
  <2>. HIDE DEF c, u, n, ref
  <2>. QED BY <1>1, <2>1, <2>2, <2>3, CreditPosts DEF Settles
<1>4. CASE \E j \in Users \X Jobs :
             \/ \E s \in Sources, ref \in Refs, at \in Requested : AwardRead(j, s, ref, at)
             \/ AwardWrite(j) \/ AwardRolledBack(j)
  BY <1>1, <1>4 DEF AwardRead, AwardWrite, AwardRolledBack, Settles
<1>5. CASE \/ PageTick \/ UNCHANGED pageVars
           \/ \E t \in Users \X Tabs, at \in Requested : ClaimRead(t, at) \/ DailyRead(t, at)
  BY <1>1, <1>5 DEF PageTick, ClaimRead, DailyRead, pageVars, Settles
<1>. QED BY <1>2, <1>3, <1>4, <1>5 DEF PageNext, Page

(* The page implements the coin ledger too: a claim posts all its rows and  *)
(* their coins together, no level and no day has two rows, and the balance  *)
(* is the journal (battlepass.service.ts:201-211, :240).               *)
THEOREM PageImplementsLedger == PageSpec => PageLedgerSpec
<1>1. PageInit => PageLedger!Init
  BY DEF PageInit, PageLedger!Init, NewLedger
<1>2. PageInv /\ [PageNext]_pageVars => [PageLedger!Post]_<<purse.balance, purse.rows>>
  <2>. SUFFICES ASSUME PageInv, [PageNext]_pageVars
                PROVE  [PageLedger!Post]_<<purse.balance, purse.rows>>
    OBVIOUS
  <2>. QED BY PurseStep, PageLedgerPosts DEF PageLedger!Post, Settles
<1>. QED BY <1>1, <1>2, PageInvariance, PTL DEF PageSpec, PageLedgerSpec, PageLedger!Spec

==============================================================================
