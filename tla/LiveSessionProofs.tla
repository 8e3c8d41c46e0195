--------------------------- MODULE LiveSessionProofs ---------------------------
(***************************************************************************)
(* Proofs about LiveSession, for any grid, prices, tabs, number of acts,     *)
(* segments and failures: a position that is closed is closed whole, the    *)
(* long has one owner, the sells of a working bot fit its position, and a   *)
(* grid that nobody has touched keeps each of its levels, once.             *)
(***************************************************************************)
EXTENDS LiveSession, FiniteSetTheorems, WellFoundedInduction, TLAPS

(* What a book is between two transactions; H are the sells the engine      *)
(* holds, of which it knows the quantity by their ids.                      *)
Books == [trade : Trades, buys : SUBSET Buys, sells : SUBSET Sells, bot : Bots]
Orders(S, n) == IsFiniteSet(S) /\ \A o, x \in S : o.bot <= n /\ (x.id = o.id => x = o)

TradeOK(t) == t.closed <= t.qty /\ (~t.open => t.qty = 0 /\ t.closed = 0)
BotOK(B) ==
  /\ B.bot.active => B.bot.n # 0
  /\ B.bot.active /\ B.trade.open => B.trade.bot = B.bot.n
BuysOK(B, S) == Orders(S, B.bot.n) /\ \A o \in S : o.bot # 0 => Working(B, o.bot)
SellsOK(B, S, H) ==
  /\ Orders(S, B.bot.n)
  /\ \A x \in S : x.bot # 0 => x.qty = 1 /\ (B.bot.active => x.bot = B.bot.n)
  /\ \A x \in S, o \in H : o.id = x.id => o.qty = x.qty
  /\ ~B.trade.open => S = {}
BookOK(B, H) ==
  B \in Books /\ TradeOK(B.trade) /\ BotOK(B) /\ BuysOK(B, B.buys) /\ SellsOK(B, B.sells, H)

(* The sells of a working bot are what is left, or at most that.            *)
Own(B) == {o \in B.sells : o.bot = B.bot.n}
Fit(B, all) ==
  B.bot.active =>
    IF all THEN Cardinality(Own(B)) = Left(B.trade) ELSE Cardinality(Own(B)) <= Left(B.trade)

(* What the engine holds, and what a tab has read.                          *)
HeldSells == IF engine.pc \in {"check", "close"} THEN engine.orders ELSE {}
HeldBuys == IF engine.pc \in {"enter", "halt"} THEN engine.entries ELSE {}
EngineOK ==
  /\ HeldSells \subseteq Sells /\ HeldBuys \subseteq Buys
  /\ IsFiniteSet(HeldSells) /\ IsFiniteSet(HeldBuys)
  /\ engine.pc # "idle" => engine.orders = HeldSells /\ engine.entries = HeldBuys
  /\ engine.pc \in {"check", "close"} =>
       engine = [pc |-> engine.pc, bar |-> engine.bar, own |-> engine.own, n |-> engine.n,
                 stop |-> engine.stop, orders |-> engine.orders, pass |-> engine.pass,
                 fires |-> engine.fires, entries |-> engine.entries]
  /\ engine.pc \in {"enter", "halt"} =>
       engine = [pc |-> engine.pc, o |-> engine.o, c |-> engine.c, orders |-> engine.orders,
                 bot |-> engine.bot, entries |-> engine.entries]
  /\ engine.pc \in {"check", "close", "list"} => engine.bar.c \in Prices
  /\ engine.pc \in {"enter", "halt"} => engine.c \in Prices
FiresOK ==
  engine.pc = "close" =>
    \/ engine.fires.id = NoId /\ engine.fires.want = 0
    \/ \E o \in HeldSells :
         o.id = engine.fires.id /\ o.qty = engine.fires.want /\ o.price = engine.fires.price
TabOK ==
  /\ DOMAIN tab = Tabs
  /\ \A t \in Tabs : tab[t] # Idle =>
       /\ tab[t].kind = "close" => tab[t].want \in {0, 1}
       /\ tab[t].kind = "sell" => tab[t].price \in Prices
       /\ tab[t].kind = "buy" =>
            tab[t].price \in Prices /\ tab[t].stop \in 0..Top /\ tab[t].after \in 0..Top

Scalars ==
  /\ session \in {"active", "finished"} /\ last \in Prices /\ intact \in {"yes", "crossed", "no"}
  /\ engine.pc \in {"idle", "check", "close", "list", "enter", "halt"}

IInv ==
  /\ Scalars /\ EngineOK /\ FiresOK /\ TabOK
  /\ BookOK(book, HeldSells) /\ Fit(book, intact # "no")
  /\ session = "finished" => ~book.trade.open /\ ~book.bot.active

-----------------------------------------------------------------------------
(* Numbers.                                                                *)

(* A set of naturals that is not empty has a least element.                *)
LEMMA MinIsIn ==
  ASSUME NEW S \in SUBSET Nat, S # {}
  PROVE  Min(S) \in S
<1>1. PICK x \in S : \A y \in S : ~ (<<y, x>> \in OpToRel(<, Nat))
  BY NatLessThanWellFounded, WFMin
<1>2. \A y \in S : ~ (y < x)
  BY <1>1 DEF OpToRel
<1>3. \A y \in S : x <= y
  BY <1>2
<1>. QED BY <1>3 DEF Min

(* The lesser and the greater of two.                                      *)
LEMMA MinOfTwo ==
  ASSUME NEW a \in Nat, NEW b \in Nat
  PROVE  Min({a, b}) = (IF a <= b THEN a ELSE b) /\ Max({a, b}) = (IF a >= b THEN a ELSE b)
<1>1. PICK x \in {a, b} : \A y \in {a, b} : x <= y
  OBVIOUS
<1>2. PICK z \in {a, b} : \A y \in {a, b} : z >= y
  OBVIOUS
<1>3. /\ Min({a, b}) \in {a, b} /\ \A y \in {a, b} : Min({a, b}) <= y
      /\ Max({a, b}) \in {a, b} /\ \A y \in {a, b} : Max({a, b}) >= y
  BY <1>1, <1>2 DEF Min, Max
<1>. QED BY <1>3

(* A price of the bot, a step above it, and a level are within the market.  *)
LEMMA GridInMarket ==
  /\ BotPrices \subseteq Prices /\ IsFiniteSet(BotPrices)
  /\ \A p \in BotPrices : p + Step \in Prices
  /\ BotStop \in Prices
<1>. USE GridIsSane
<1>0. Top \in Nat /\ Lower \in Nat \ {0} /\ Step \in Nat \ {0} /\ Levels \in Nat \ {0} /\ BotStop \in Nat \ {0}
  OBVIOUS
<1>1. Levels * Step \in Nat /\ Upper \in Nat /\ Top \in Nat
  BY <1>0 DEF Upper
<1>2. ASSUME NEW j \in 0..Levels - 1
      PROVE  /\ j * Step \in Nat /\ (j + 1) * Step = j * Step + Step
             /\ (j + 1) * Step <= Levels * Step
  <2>1. j \in Nat /\ Levels - (j + 1) \in Nat
    BY <1>0
  <2>2. (Levels - (j + 1)) * Step \in Nat
    BY <1>0, <2>1
  <2>3. Levels * Step = (j + 1) * Step + (Levels - (j + 1)) * Step
    BY <1>0, <2>1
  <2>. QED BY <1>0, <2>1, <2>2, <2>3
<1>3. ASSUME NEW p \in BotPrices PROVE p \in Nat /\ 1 <= p /\ p + Step <= Top
  <2>1. PICK j \in 0..Levels - 1 : p = Lower + j * Step
    BY DEF BotPrices
  <2>. DEFINE x == j * Step
              y == (j + 1) * Step
              z == Levels * Step
  <2>2. x \in Nat /\ y = x + Step /\ y <= z /\ z \in Nat /\ Lower + z <= Top /\ p = Lower + x
    BY <1>1, <1>2, <2>1 DEF Upper
  <2>. HIDE DEF x, y, z
  <2>. QED BY <1>0, <2>2
<1>4. BotPrices \subseteq 1..Top
  BY <1>0, <1>1, <1>3
<1>5. IsFiniteSet(BotPrices)
  <2>1. IsFiniteSet(1..Top)
    BY <1>0, FS_Interval
  <2>. QED BY <1>4, <2>1, FS_Subset
<1>. QED BY <1>0, <1>1, <1>3, <1>4, <1>5 DEF Prices, Upper

(* A level is one of the grid.                                             *)
LEMMA LevelInGrid ==
  ASSUME NEW p \in Int
  PROVE  LevelOf(p) \in 0..Levels - 1
<1>. DEFINE a == 2 * (p - Lower) + Step
            b == 2 * Step
            j == a \div b
<1>1. a \in Int /\ b \in Nat \ {0} /\ Levels \in Nat \ {0}
  BY GridIsSane
<1>. HIDE DEF a, b
<1>2. j \in Int
  BY <1>1
<1>3. LevelOf(p) = (IF j < 0 THEN 0 ELSE IF j >= Levels THEN Levels - 1 ELSE j)
  BY DEF LevelOf, a, b
<1>. HIDE DEF j
<1>. QED BY <1>1, <1>2, <1>3

(* The ids of finitely many orders are finitely many.                      *)
LEMMA IdsAreFew ==
  ASSUME NEW S, IsFiniteSet(S)
  PROVE  LET I == {o.id : o \in S} IN IsFiniteSet(I) /\ Cardinality(I) <= Cardinality(S)
<1>. DEFINE I == {o.id : o \in S}
            f == [o \in S |-> o.id]
<1>1. f \in Surjection(S, I)
  BY DEF Surjection
<1>. QED BY <1>1, FS_Surjection

(* A new id is the id of no order there is, nor of one the engine holds.    *)
LEMMA FreshIsFresh ==
  ASSUME NEW S, IsFiniteSet(S), IsFiniteSet(Held), NEW price \in Nat
  PROVE  /\ FreshId(S, price) \in Ids /\ FreshId(S, price)[1] = price
         /\ FreshId(S, price) \notin Held
         /\ \A o \in S : o.id # FreshId(S, price)
<1>. DEFINE I == {o.id : o \in S}
            n == Cardinality(S) + Cardinality(Held)
            K == {k \in 0..n : <<price, k>> \notin I \cup Held}
            f == [k \in 0..n |-> <<price, k>>]
            T == I \cup Held
<1>1. IsFiniteSet(I) /\ Cardinality(I) <= Cardinality(S)
  BY IdsAreFew
<1>2. Cardinality(I) \in Nat /\ Cardinality(Held) \in Nat /\ Cardinality(S) \in Nat
  BY <1>1, FS_CardinalityType
<1>3. IsFiniteSet(I \cap Held) /\ Cardinality(I \cap Held) \in Nat
  BY <1>1, FS_Intersection, FS_CardinalityType
<1>4. IsFiniteSet(T) /\ Cardinality(T) <= n /\ Cardinality(T) \in Nat
  <2>1. IsFiniteSet(T) /\ Cardinality(T) = Cardinality(I) + Cardinality(Held) - Cardinality(I \cap Held)
    BY <1>1, FS_Union
  <2>. QED BY <1>1, <1>2, <1>3, <2>1, FS_CardinalityType
<1>5. IsFiniteSet(0..n) /\ Cardinality(0..n) = n + 1
  <2>1. n \in Nat
    BY <1>2
  <2>. HIDE DEF n
  <2>. QED BY <2>1, FS_Interval
<1>6. K # {}
  <2>1. SUFFICES ASSUME K = {} PROVE FALSE
    OBVIOUS
  <2>2. \A k \in 0..n : <<price, k>> \in T
    BY <2>1
  <2>3. f \in [0..n -> T]
    BY <2>2
  <2>4. Cardinality(T) < Cardinality(0..n)
    BY <1>2, <1>4, <1>5
  <2>5. \E x, y \in 0..n : x # y /\ f[x] = f[y]
    BY <1>4, <1>5, <2>3, <2>4, FS_PigeonHole
  <2>. QED BY <2>5
<1>7. K \in SUBSET Nat
  BY <1>2
<1>8. Min(K) \in K
  BY <1>6, <1>7, MinIsIn
<1>9. FreshId(S, price) = <<price, Min(K)>>
  BY DEF FreshId
<1>. HIDE DEF K
<1>10. Min(K) \in Nat /\ <<price, Min(K)>> \notin I \cup Held
  BY <1>7, <1>8 DEF K
<1>. QED BY <1>9, <1>10 DEF Ids

(* What the engine holds is finite, and has the ids it holds.              *)
LEMMA HeldFacts ==
  ASSUME EngineOK
  PROVE  IsFiniteSet(Held) /\ \A o \in HeldSells : o.id \in Held
<1>1. CASE engine.pc = "idle"
  BY <1>1, FS_EmptySet DEF Held, HeldSells
<1>2. CASE engine.pc # "idle"
  <2>1. engine.orders = HeldSells /\ engine.entries = HeldBuys
    BY <1>2 DEF EngineOK
  <2>2. IsFiniteSet(HeldSells \cup HeldBuys)
    BY FS_Union DEF EngineOK
  <2>3. Held = {o.id : o \in HeldSells \cup HeldBuys}
    BY <1>2, <2>1 DEF Held
  <2>. QED BY <2>2, <2>3, IdsAreFew
<1>. QED BY <1>1, <1>2

-----------------------------------------------------------------------------
(* Changes of one part of a book.                                          *)

(* Other buys.                                                             *)
LEMMA OtherBuys ==
  ASSUME NEW B, NEW H, BookOK(B, H), NEW S \in SUBSET Buys, BuysOK(B, S), NEW all \in BOOLEAN
  PROVE  LET C == [B EXCEPT !.buys = S] IN
         BookOK(C, H) /\ (Fit(B, all) => Fit(C, all))
<1>. DEFINE C == [B EXCEPT !.buys = S]
<1>1. B \in Books
  BY DEF BookOK
<1>2. C \in Books /\ C.trade = B.trade /\ C.sells = B.sells /\ C.bot = B.bot /\ C.buys = S
  BY <1>1 DEF Books
<1>. HIDE DEF C
<1>3. BotOK(C) /\ BuysOK(C, C.buys) /\ SellsOK(C, C.sells, H)
  BY <1>2 DEF BookOK, BotOK, BuysOK, SellsOK, Working
<1>4. BookOK(C, H)
  BY <1>2, <1>3 DEF BookOK
<1>5. Fit(B, all) => Fit(C, all)
  BY <1>2 DEF Fit, Own
<1>. QED BY <1>4, <1>5 DEF C

(* Fewer buys.                                                             *)
LEMMA FewerBuys ==
  ASSUME NEW B, NEW H, BookOK(B, H), NEW S \in SUBSET B.buys, NEW all \in BOOLEAN
  PROVE  LET C == [B EXCEPT !.buys = S] IN
         BookOK(C, H) /\ (Fit(B, all) => Fit(C, all))
<1>1. S \in SUBSET Buys
  BY DEF BookOK, Books
<1>2. IsFiniteSet(S)
  BY FS_Subset DEF BookOK, BuysOK, Orders
<1>3. BuysOK(B, S)
  BY <1>2 DEF BookOK, BuysOK, Orders
<1>. QED BY <1>1, <1>3, OtherBuys

(* Another trade that is open and has the same owner and as much left.      *)
LEMMA OtherTrade ==
  ASSUME NEW B, NEW H, BookOK(B, H), NEW t \in Trades, NEW all \in BOOLEAN,
         TradeOK(t), t.open = B.trade.open, t.bot = B.trade.bot, Left(t) = Left(B.trade)
  PROVE  LET C == [B EXCEPT !.trade = t] IN
         BookOK(C, H) /\ (Fit(B, all) => Fit(C, all))
<1>. DEFINE C == [B EXCEPT !.trade = t]
<1>1. B \in Books
  BY DEF BookOK
<1>2. C \in Books /\ C.trade = t /\ C.sells = B.sells /\ C.bot = B.bot /\ C.buys = B.buys
  BY <1>1 DEF Books
<1>. HIDE DEF C
<1>3. BotOK(C) /\ BuysOK(C, C.buys) /\ SellsOK(C, C.sells, H)
  BY <1>2 DEF BookOK, BotOK, BuysOK, SellsOK, Working
<1>4. BookOK(C, H)
  BY <1>2, <1>3 DEF BookOK
<1>5. Fit(B, all) => Fit(C, all)
  BY <1>2 DEF Fit, Own
<1>. QED BY <1>4, <1>5 DEF C

(* Other sells, with the open trade.                                       *)
LEMMA OtherSells ==
  ASSUME NEW B, NEW H, BookOK(B, H), NEW S \in SUBSET Sells, SellsOK(B, S, H)
  PROVE  LET C == [B EXCEPT !.sells = S] IN
         BookOK(C, H) /\ C.sells = S /\ C.trade = B.trade /\ C.bot = B.bot
<1>. DEFINE C == [B EXCEPT !.sells = S]
<1>1. B \in Books
  BY DEF BookOK
<1>2. C \in Books /\ C.trade = B.trade /\ C.sells = S /\ C.bot = B.bot /\ C.buys = B.buys
  BY <1>1 DEF Books
<1>. HIDE DEF C
<1>3. BotOK(C) /\ BuysOK(C, C.buys) /\ SellsOK(C, C.sells, H)
  BY <1>2 DEF BookOK, BotOK, BuysOK, SellsOK, Working
<1>4. BookOK(C, H)
  BY <1>2, <1>3 DEF BookOK
<1>. QED BY <1>2, <1>4 DEF C

-----------------------------------------------------------------------------
(* The operators a transaction is made of.                                 *)

(* The stop alone.                                                         *)
LEMMA StopAlone ==
  ASSUME NEW B, NEW H, BookOK(B, H), NEW s \in 0..Top, NEW all \in BOOLEAN
  PROVE  LET C == [B EXCEPT !.trade.stop = s] IN
         /\ BookOK(C, H) /\ (Fit(B, all) => Fit(C, all))
         /\ C.bot = B.bot /\ C.sells = B.sells /\ C.buys = B.buys
         /\ C.trade.open = B.trade.open /\ C.trade.stop = s
<1>. DEFINE t == [B.trade EXCEPT !.stop = s]
            C == [B EXCEPT !.trade.stop = s]
            D == [B EXCEPT !.trade = t]
<1>1. B \in Books /\ B.trade \in Trades
  BY DEF BookOK, Books
<1>2. t \in Trades /\ t.open = B.trade.open /\ t.bot = B.trade.bot /\ t.qty = B.trade.qty
      /\ t.closed = B.trade.closed /\ t.stop = s
  BY <1>1 DEF Trades
<1>3. TradeOK(t) /\ Left(t) = Left(B.trade)
  BY <1>2 DEF TradeOK, Left, BookOK
<1>4. C = D
  BY <1>1 DEF Books
<1>5. C.bot = B.bot /\ C.sells = B.sells /\ C.buys = B.buys /\ C.trade = t
  BY <1>1 DEF Books
<1>. HIDE DEF t, C
<1>6. BookOK(C, H) /\ (Fit(B, all) => Fit(C, all))
  BY <1>2, <1>3, <1>4, OtherTrade
<1>. QED BY <1>2, <1>5, <1>6 DEF C

LEMMA TightenFacts ==
  ASSUME NEW B, NEW H, BookOK(B, H), NEW s \in 0..Top, NEW price, NEW all \in BOOLEAN
  PROVE  LET C == TightenStop(B, s, price) IN
         /\ BookOK(C, H) /\ (Fit(B, all) => Fit(C, all))
         /\ C.bot = B.bot /\ C.sells = B.sells /\ C.buys = B.buys /\ C.trade.open = B.trade.open
<1>1. CASE B.trade.open /\ s < price /\ s > B.trade.stop
  <2>1. TightenStop(B, s, price) = [B EXCEPT !.trade.stop = s]
    BY <1>1 DEF TightenStop
  <2>. QED BY <2>1, StopAlone
<1>2. CASE ~ (B.trade.open /\ s < price /\ s > B.trade.stop)
  BY <1>2 DEF TightenStop
<1>. QED BY <1>1, <1>2

(* A bot that is halted leaves no buys, and needs no sells.                *)
LEMMA HaltFacts ==
  ASSUME NEW B, NEW H, BookOK(B, H), NEW b, NEW all \in BOOLEAN
  PROVE  LET C == HaltBot(B, b) IN
         /\ BookOK(C, H) /\ (Fit(B, all) => Fit(C, all))
         /\ C.trade = B.trade /\ C.sells = B.sells /\ C.bot.n = B.bot.n
         /\ C.bot.active => B.bot.active /\ ~Working(B, b)
<1>. DEFINE C == HaltBot(B, b)
            bot == [B.bot EXCEPT !.active = FALSE]
            S == {o \in B.buys : o.bot # b}
<1>1. B \in Books /\ B.bot \in Bots
  BY DEF BookOK, Books
<1>2. CASE ~Working(B, b)
  BY <1>2 DEF HaltBot
<1>3. CASE Working(B, b)
  <2>1. C = [B EXCEPT !.bot.active = FALSE, !.buys = S]
    BY <1>3 DEF HaltBot
  <2>2. bot \in Bots /\ bot.n = B.bot.n /\ ~bot.active
    BY <1>1 DEF Bots
  <2>3. C \in Books /\ C.trade = B.trade /\ C.sells = B.sells /\ C.bot = bot /\ C.buys = S
    BY <1>1, <2>1, <2>2 DEF Books
  <2>. HIDE DEF C, bot
  <2>4. \A o \in S : o.bot = 0
    BY <1>3 DEF BookOK, BuysOK, Working
  <2>5. Orders(S, bot.n)
    BY <2>2, FS_Subset DEF BookOK, BuysOK, Orders
  <2>6. BuysOK(C, C.buys) /\ BotOK(C)
    BY <2>2, <2>3, <2>4, <2>5 DEF BuysOK, BotOK
  <2>7. SellsOK(C, C.sells, H)
    BY <2>2, <2>3 DEF SellsOK, BookOK
  <2>8. BookOK(C, H)
    BY <2>3, <2>6, <2>7 DEF BookOK
  <2>. QED BY <2>2, <2>3, <2>8 DEF C, Fit
<1>. QED BY <1>2, <1>3

(* More of the position, or a new one, which the bot shall own if it works. *)
LEMMA OpenedFacts ==
  ASSUME NEW B, NEW H, BookOK(B, H), NEW qty \in Nat, NEW price \in Prices,
         NEW stop \in 0..Top, NEW by \in Nat, NEW age \in 0..2, LongIsFree(B, by)
  PROVE  LET C == Opened(B, qty, price, stop, by, age) IN
         /\ BookOK(C, H) /\ C.trade.open /\ Left(C.trade) = Left(B.trade) + qty
         /\ C.bot = B.bot /\ C.sells = B.sells /\ C.buys = B.buys
<1>. DEFINE u == B.trade
            t == IF u.open THEN Added(u, qty, price) ELSE NewTrade(u.n + 1, qty, price, stop, by, age)
            C == Opened(B, qty, price, stop, by, age)
<1>1. B \in Books /\ u \in Trades /\ B.bot \in Bots
  BY DEF BookOK, Books
<1>2. price \in Nat
  BY GridIsSane DEF Prices
<1>3. /\ t \in Trades /\ t.open /\ t.qty = u.qty + qty /\ t.closed = u.closed
      /\ u.open => t.bot = u.bot
      /\ ~u.open => t.bot = by
  <2>1. CASE u.open
    <3>. DEFINE a == IF u.age = 2 THEN u.prices ELSE <<Min({u.prices[1], price}), Max({u.prices[2], price})>>
    <3>1. u.prices[1] \in Nat /\ u.prices[2] \in Nat
      BY <1>1 DEF Trades
    <3>2. Min({u.prices[1], price}) \in Nat /\ Max({u.prices[2], price}) \in Nat
      BY <1>2, <3>1, MinOfTwo
    <3>3. a \in Nat \X Nat
      BY <1>1, <3>2 DEF Trades
    <3>4. t = [u EXCEPT !.qty = @ + qty, !.prices = a]
      BY <2>1 DEF Added
    <3>5. u.qty + qty \in Nat
      BY <1>1 DEF Trades
    <3>. HIDE DEF a, t
    <3>6. t.qty = u.qty + qty /\ t.closed = u.closed /\ t.open = u.open /\ t.bot = u.bot
      BY <1>1, <3>4 DEF Trades
    <3>7. t \in Trades
      BY <1>1, <3>3, <3>4, <3>5 DEF Trades
    <3>. QED BY <2>1, <3>6, <3>7
  <2>2. CASE ~u.open
    <3>1. u.qty = 0 /\ u.closed = 0
      BY <2>2 DEF BookOK, TradeOK
    <3>2. t = [n |-> u.n + 1, open |-> TRUE, qty |-> qty, closed |-> 0, prices |-> <<price, price>>,
               stop |-> stop, bot |-> by, follow |-> FALSE, age |-> age]
      BY <2>2 DEF NewTrade, NoTrade
    <3>. HIDE DEF t
    <3>3. u.n + 1 \in Nat
      BY <1>1 DEF Trades
    <3>. QED BY <1>2, <2>2, <3>1, <3>2, <3>3 DEF Trades
  <2>. QED BY <2>1, <2>2
<1>4. C = [B EXCEPT !.trade = t]
  BY DEF Opened
<1>5. C \in Books /\ C.trade = t /\ C.bot = B.bot /\ C.sells = B.sells /\ C.buys = B.buys
  BY <1>1, <1>3, <1>4 DEF Books
<1>. HIDE DEF C, t
<1>6. BuysOK(C, C.buys) /\ SellsOK(C, C.sells, H)
  BY <1>3, <1>5 DEF BookOK, BuysOK, SellsOK, Working
<1>7. BotOK(C)
  <2>1. B.bot.active => by = B.bot.n
    BY DEF LongIsFree
  <2>. QED BY <1>3, <1>5, <2>1 DEF BookOK, BotOK
<1>8. u.qty \in Nat /\ u.closed \in Nat /\ u.closed <= u.qty
  BY <1>1 DEF BookOK, TradeOK, Trades
<1>9. TradeOK(t) /\ Left(t) = Left(u) + qty
  BY <1>3, <1>8 DEF TradeOK, Left
<1>10. BookOK(C, H)
  BY <1>5, <1>6, <1>7, <1>9 DEF BookOK
<1>. QED BY <1>3, <1>5, <1>9, <1>10 DEF C

(* One sell more.                                                          *)
LEMMA OneSellMore ==
  ASSUME NEW B, NEW H, BookOK(B, H), B.trade.open, NEW x \in Sells, x.bot <= B.bot.n,
         \A o \in B.sells \cup H : o.id # x.id,
         x.bot # 0 => x.qty = 1 /\ (B.bot.active => x.bot = B.bot.n)
  PROVE  LET C == [B EXCEPT !.sells = @ \cup {x}] IN
         /\ BookOK(C, H) /\ C.trade = B.trade /\ C.bot = B.bot
         /\ Cardinality(Own(C)) = Cardinality(Own(B)) + IF x.bot = B.bot.n THEN 1 ELSE 0
<1>. DEFINE S == B.sells \cup {x}
            C == [B EXCEPT !.sells = S]
<1>1. S \in SUBSET Sells /\ IsFiniteSet(B.sells)
  BY DEF BookOK, Books, SellsOK, Orders
<1>2. IsFiniteSet(S)
  BY <1>1, FS_AddElement
<1>3. SellsOK(B, S, H)
  BY <1>2 DEF BookOK, SellsOK, Orders
<1>4. BookOK(C, H) /\ C.sells = S /\ C.trade = B.trade /\ C.bot = B.bot
  BY <1>1, <1>3, OtherSells
<1>5. x \notin B.sells
  OBVIOUS
<1>. HIDE DEF C
<1>6. IsFiniteSet(Own(B))
  BY <1>1, FS_Subset DEF Own
<1>7. Own(C) = IF x.bot = B.bot.n THEN Own(B) \cup {x} ELSE Own(B)
  BY <1>4 DEF Own
<1>8. x \notin Own(B)
  BY <1>5 DEF Own
<1>9. Cardinality(Own(B) \cup {x}) = Cardinality(Own(B)) + 1 /\ Cardinality(Own(B)) \in Nat
  BY <1>6, <1>8, FS_AddElement, FS_CardinalityType
<1>10. Cardinality(Own(C)) = Cardinality(Own(B)) + IF x.bot = B.bot.n THEN 1 ELSE 0
  BY <1>7, <1>9
<1>. QED BY <1>4, <1>10 DEF C

(* The engine buys for the person or for the bot that works, which then     *)
(* has a sell more.                                                        *)
LEMMA EnterFacts ==
  ASSUME NEW B, EngineOK, BookOK(B, HeldSells), NEW price \in Prices,
         NEW stop \in 0..Top, NEW after \in 0..Top, NEW by \in Nat, NEW age \in 0..2,
         LongIsFree(B, by), by # 0 => Working(B, by), NEW all \in BOOLEAN
  PROVE  LET C == Enter(B, price, stop, after, by, age) IN
         BookOK(C, HeldSells) /\ (Fit(B, all) => Fit(C, all)) /\ C.bot = B.bot /\ C.trade.open
<1>. DEFINE H == HeldSells
            O == Opened(B, 1, price, stop, by, age)
            P == SellAfterBotBuy(O, price, by)
            C == Enter(B, price, stop, after, by, age)
<1>. HIDE DEF H
<1>1. BookOK(O, H) /\ O.trade.open /\ Left(O.trade) = Left(B.trade) + 1
      /\ O.bot = B.bot /\ O.sells = B.sells /\ O.buys = B.buys
  <2>1. 1 \in Nat
    OBVIOUS
  <2>2. BookOK(B, H)
    BY DEF H
  <2>. QED BY <2>1, <2>2, OpenedFacts
<1>2. Left(B.trade) \in Nat /\ B.bot \in Bots
  BY DEF BookOK, TradeOK, Books, Trades, Left
<1>3. B.bot.active => by = B.bot.n /\ by # 0
  BY DEF LongIsFree, BookOK, BotOK
<1>4. Own(O) = Own(B)
  BY <1>1 DEF Own
<1>. HIDE DEF O
<1>5. BookOK(P, H) /\ P.bot = B.bot /\ P.trade.open /\ (Fit(B, all) => Fit(P, all))
  <2>1. CASE Working(O, by)
    <3>. DEFINE x == Sell(O, price + Step, 1, price, by)
    <3>1. P = [O EXCEPT !.sells = @ \cup {x}]
      BY <2>1 DEF SellAfterBotBuy
    <3>2. IsFiniteSet(O.sells) /\ IsFiniteSet(Held)
      BY <1>1, HeldFacts DEF BookOK, SellsOK, Orders
    <3>3. price + Step \in Nat /\ price + Step \in 1..Top + Step /\ price \in 0..Top
      BY GridIsSane DEF Prices
    <3>4. FreshId(O.sells, price + Step) \in Ids
          /\ \A o \in O.sells \cup H : o.id # FreshId(O.sells, price + Step)
      BY <3>2, <3>3, FreshIsFresh, HeldFacts DEF H
    <3>5. x = [id |-> FreshId(O.sells, price + Step), price |-> price + Step, qty |-> 1,
               from |-> price, bot |-> by]
      BY DEF Sell
    <3>. HIDE DEF x
    <3>6. x \in Sells /\ x.bot = by /\ x.qty = 1 /\ x.id = FreshId(O.sells, price + Step)
      BY <3>3, <3>4, <3>5 DEF Sells
    <3>7. by = O.bot.n /\ by <= O.bot.n
      BY <1>1, <1>2, <2>1 DEF Working, Bots
    <3>8. /\ BookOK(P, H) /\ P.trade = O.trade /\ P.bot = O.bot
          /\ Cardinality(Own(P)) = Cardinality(Own(O)) + 1
      BY <1>1, <3>1, <3>4, <3>6, <3>7, OneSellMore
    <3>9. Cardinality(Own(B)) \in Nat
      BY FS_Subset, FS_CardinalityType DEF Own, BookOK, SellsOK, Orders
    <3>. QED BY <1>1, <1>2, <1>4, <3>8, <3>9 DEF Fit
  <2>2. CASE ~Working(O, by)
    <3>1. P = O /\ ~B.bot.active
      BY <1>1, <1>3, <2>2 DEF SellAfterBotBuy, Working
    <3>. QED BY <1>1, <3>1 DEF Fit
  <2>. QED BY <2>1, <2>2
<1>. HIDE DEF P
<1>6. CASE after > 0
  <2>1. C = TightenStop(P, after, price)
    BY <1>6 DEF Enter, P, O
  <2>. QED BY <1>5, <2>1, TightenFacts DEF H
<1>7. CASE ~(after > 0)
  <2>1. C = P
    BY <1>7 DEF Enter, P, O
  <2>. QED BY <1>5, <2>1 DEF H
<1>. QED BY <1>6, <1>7

(* Levels of a working bot that wait to be bought.                         *)
LEMMA BoughtBackFacts ==
  ASSUME NEW B, NEW H, BookOK(B, H), EngineOK, B.bot.active, NEW P \in SUBSET Prices,
         IsFiniteSet(P), NEW all \in BOOLEAN
  PROVE  LET C == BoughtBack(B, P) IN
         /\ BookOK(C, H) /\ (Fit(B, all) => Fit(C, all))
         /\ C.bot = B.bot /\ C.trade = B.trade
<1>. DEFINE b(p) == Buy(B, p, BotStop, 0, B.bot.n)
            T == {b(p) : p \in P}
            S == B.buys \cup T
            f == [p \in P |-> b(p)]
<1>1. B \in Books /\ B.bot \in Bots /\ B.bot.n # 0
  BY DEF BookOK, BotOK, Books
<1>2. P \subseteq Nat /\ BotStop \in 0..Top
  BY GridIsSane, GridInMarket DEF Prices
<1>3. IsFiniteSet(B.buys) /\ IsFiniteSet(Held)
  BY HeldFacts DEF BookOK, BuysOK, Orders
<1>4. \A p \in P : /\ FreshId(B.buys, p) \in Ids /\ FreshId(B.buys, p)[1] = p
                   /\ \A o \in B.buys : o.id # FreshId(B.buys, p)
  BY <1>2, <1>3, FreshIsFresh
<1>5. \A p \in P : b(p) = [id |-> FreshId(B.buys, p), price |-> p, stop |-> BotStop, after |-> 0,
                           bot |-> B.bot.n, age |-> 0]
  BY DEF Buy
<1>6. f \in Surjection(P, T)
  BY DEF Surjection
<1>7. IsFiniteSet(T)
  BY <1>6, FS_Surjection
<1>8. 0 \in 0..Top
  BY GridIsSane
<1>. HIDE DEF b
<1>9. \A p \in P : b(p) \in Buys /\ b(p).id = FreshId(B.buys, p) /\ b(p).bot = B.bot.n
  BY <1>1, <1>2, <1>4, <1>5, <1>8 DEF Buys, Bots
<1>10. S \in SUBSET Buys
  BY <1>1, <1>9 DEF Books
<1>11. IsFiniteSet(S)
  BY <1>3, <1>7, FS_Union
<1>12. \A o \in S : o.bot <= B.bot.n
  <2>1. \A o \in T : o.bot <= B.bot.n
    BY <1>1, <1>9 DEF Bots
  <2>. QED BY <2>1 DEF BookOK, BuysOK, Orders
<1>13. \A o, x \in S : x.id = o.id => x = o
  <2>1. \A o, x \in T : x.id = o.id => x = o
    BY <1>4, <1>9
  <2>2. \A o \in T, x \in B.buys : x.id # o.id
    BY <1>4, <1>9
  <2>3. \A o, x \in B.buys : x.id = o.id => x = o
    BY DEF BookOK, BuysOK, Orders
  <2>. HIDE DEF T
  <2>. QED BY <2>1, <2>2, <2>3
<1>14. \A o \in S : o.bot # 0 => Working(B, o.bot)
  <2>1. \A o \in T : Working(B, o.bot)
    BY <1>1, <1>9 DEF Working
  <2>. QED BY <2>1 DEF BookOK, BuysOK
<1>15. BuysOK(B, S)
  BY <1>11, <1>12, <1>13, <1>14 DEF BuysOK, Orders
<1>16. BoughtBack(B, P) = [B EXCEPT !.buys = S]
  BY DEF BoughtBack, b
<1>. HIDE DEF S
<1>17. /\ BookOK([B EXCEPT !.buys = S], H)
       /\ Fit(B, all) => Fit([B EXCEPT !.buys = S], all)
  BY <1>10, <1>15, OtherBuys
<1>18. [B EXCEPT !.buys = S].bot = B.bot /\ [B EXCEPT !.buys = S].trade = B.trade
  BY <1>1 DEF Books
<1>. QED BY <1>16, <1>17, <1>18

(* What the bot does when a sell of it has fired.                          *)
LEMMA AfterBotSellFacts ==
  ASSUME NEW B, NEW H, BookOK(B, H), EngineOK, NEW from \in 0..Top, NEW exit, NEW by,
         NEW all \in BOOLEAN
  PROVE  LET C == BuyAfterBotSell(B, from, exit, by) IN
         /\ BookOK(C, H) /\ (Fit(B, all) => Fit(C, all))
         /\ C.bot = B.bot /\ C.trade.open = B.trade.open
<1>1. CASE ~Working(B, by)
  BY <1>1 DEF BuyAfterBotSell
<1>2. CASE Working(B, by) /\ ~B.trade.open
  <2>. DEFINE P == LevelsAgain(B, exit)
  <2>1. P \in SUBSET BotPrices
    BY DEF LevelsAgain
  <2>2. P \in SUBSET Prices /\ IsFiniteSet(P)
    BY <2>1, GridInMarket, FS_Subset
  <2>3. B.bot.active /\ BuyAfterBotSell(B, from, exit, by) = BoughtBack(B, P)
    BY <1>2 DEF Working, BuyAfterBotSell
  <2>. HIDE DEF P
  <2>. QED BY <2>2, <2>3, BoughtBackFacts
<1>3. CASE Working(B, by) /\ B.trade.open
  <2>. DEFINE target == StopsAfter[LevelOf(from)]
              C == IF B.bot.follow /\ target > 0 THEN TightenStop(B, target, exit) ELSE B
              S == {o \in C.buys : o.bot = by => o.price > target}
              E == [C EXCEPT !.buys = S]
              D == IF C = B THEN B ELSE E
  <2>1. target \in 0..Top
    <3>1. from \in Int
      BY GridIsSane
    <3>. QED BY <3>1, LevelInGrid, GridIsSane
  <2>2. BuyAfterBotSell(B, from, exit, by) = IF from <= D.trade.stop THEN D ELSE BoughtBack(D, {from})
    BY <1>3 DEF BuyAfterBotSell
  <2>. HIDE DEF target
  <2>3. /\ BookOK(C, H) /\ (Fit(B, all) => Fit(C, all))
        /\ C.bot = B.bot /\ C.trade.open = B.trade.open
    BY <2>1, TightenFacts
  <2>. HIDE DEF C
  <2>4. BookOK(E, H) /\ (Fit(C, all) => Fit(E, all))
    BY <2>3, FewerBuys
  <2>5. E.bot = C.bot /\ E.trade = C.trade
    BY <2>3 DEF BookOK, Books
  <2>. HIDE DEF E
  <2>6. /\ BookOK(D, H) /\ (Fit(B, all) => Fit(D, all))
        /\ D.bot = B.bot /\ D.trade.open = B.trade.open
    BY <2>3, <2>4, <2>5
  <2>. HIDE DEF D
  <2>7. CASE from <= D.trade.stop
    BY <2>2, <2>6, <2>7
  <2>8. CASE ~(from <= D.trade.stop)
    <3>1. D.trade.stop \in Nat
      BY <2>6 DEF BookOK, Books, Trades
    <3>2. {from} \in SUBSET Prices /\ IsFiniteSet({from})
      <4>1. Top \in Nat /\ from \in Nat /\ from <= Top
        BY GridIsSane
      <4>2. from \in Prices
        BY <2>8, <3>1, <4>1 DEF Prices
      <4>. QED BY <4>2, FS_Singleton
    <3>3. D.bot.active
      BY <1>3, <2>6 DEF Working
    <3>. QED BY <2>2, <2>6, <2>8, <3>2, <3>3, BoughtBackFacts
  <2>. QED BY <2>7, <2>8
<1>. QED BY <1>1, <1>2, <1>3

(* A close by another hand halts the bot that owns the position.           *)
LEMMA HaltOnCloseFacts ==
  ASSUME NEW B, NEW H, BookOK(B, H), NEW by, NEW all \in BOOLEAN
  PROVE  LET C == HaltOnClose(B, by) IN
         /\ BookOK(C, H) /\ C.trade = B.trade /\ (C.bot.active => B.bot.active)
         /\ Fit(B, all) \/ Working(B, by) => Fit(C, all)
<1>. DEFINE C == HaltBot(B, by)
            S == {o \in C.sells : o.bot # by}
            E == [C EXCEPT !.sells = S]
<1>1. /\ BookOK(C, H) /\ C.trade = B.trade /\ C.sells = B.sells
      /\ C.bot.active => B.bot.active /\ ~Working(B, by)
      /\ Fit(B, all) => Fit(C, all)
  BY HaltFacts
<1>2. C # B => Working(B, by)
  BY DEF HaltBot
<1>3. HaltOnClose(B, by) = IF C # B /\ B.trade.open THEN E ELSE C
  BY DEF HaltOnClose
<1>. HIDE DEF C
<1>4. CASE C # B /\ B.trade.open
  <2>1. S \in SUBSET Sells /\ S \in SUBSET C.sells
    BY <1>1 DEF BookOK, Books
  <2>2. IsFiniteSet(S)
    BY <1>1, <2>1, FS_Subset DEF BookOK, SellsOK, Orders
  <2>3. SellsOK(C, S, H)
    BY <1>1, <2>1, <2>2 DEF BookOK, SellsOK, Orders
  <2>4. BookOK(E, H) /\ E.trade = C.trade /\ E.bot = C.bot
    BY <1>1, <2>1, <2>3, OtherSells
  <2>5. ~C.bot.active
    BY <1>1, <1>2, <1>4
  <2>. HIDE DEF E
  <2>. QED BY <1>1, <1>3, <1>4, <2>4, <2>5 DEF Fit
<1>5. CASE ~(C # B /\ B.trade.open)
  BY <1>1, <1>3, <1>5 DEF Fit
<1>. QED BY <1>4, <1>5

(* A stop that follows the takes.                                          *)
LEMMA FollowFacts ==
  ASSUME NEW B, NEW H, BookOK(B, H), NEW price, NEW all \in BOOLEAN, NEW C \in FollowStop(B, price)
  PROVE  /\ BookOK(C, H) /\ (Fit(B, all) => Fit(C, all))
         /\ C.bot = B.bot /\ C.sells = B.sells /\ C.trade.open = B.trade.open
<1>1. CASE B.trade.follow
  <2>1. PICK s \in Prices : C = TightenStop(B, s, price)
    BY <1>1 DEF FollowStop
  <2>2. s \in 0..Top
    BY GridIsSane DEF Prices
  <2>. QED BY <2>1, <2>2, TightenFacts
<1>2. CASE ~B.trade.follow
  BY <1>2 DEF FollowStop
<1>. QED BY <1>1, <1>2

(* A close of a part, before what follows from it.                         *)
PartOf(B, qty, id) ==
  [B EXCEPT !.trade.closed = @ + qty, !.sells = @ \ {o \in B.sells : o.id = id}]
LEMMA PartFacts ==
  ASSUME NEW B, NEW H, BookOK(B, H), B.trade.open, NEW qty \in Nat, qty < Left(B.trade), NEW id
  PROVE  LET C == PartOf(B, qty, id) IN
         /\ BookOK(C, H) /\ C.bot = B.bot /\ C.trade.open
         /\ C.sells = {o \in B.sells : o.id # id} /\ Left(C.trade) = Left(B.trade) - qty
<1>. DEFINE t == [B.trade EXCEPT !.closed = @ + qty]
            S == {o \in B.sells : o.id # id}
            C == PartOf(B, qty, id)
<1>1. B \in Books /\ B.trade \in Trades /\ B.trade.closed <= B.trade.qty
  BY DEF BookOK, TradeOK, Books
<1>2. B.trade.qty \in Nat /\ B.trade.closed \in Nat /\ B.trade.closed + qty \in Nat
  BY <1>1 DEF Trades
<1>3. /\ t \in Trades /\ t.open /\ t.bot = B.trade.bot /\ t.qty = B.trade.qty
      /\ t.closed = B.trade.closed + qty
  BY <1>1, <1>2 DEF Trades
<1>4. C.trade = t /\ C.bot = B.bot /\ C.buys = B.buys /\ C.sells = S
  BY <1>1 DEF Books, PartOf
<1>5. C \in Books
  <2>1. S \in SUBSET Sells
    BY <1>1 DEF Books
  <2>2. C = [B EXCEPT !.trade = t, !.sells = S]
    BY <1>1 DEF Books, PartOf
  <2>. HIDE DEF C, t, S
  <2>. QED BY <1>1, <1>3, <2>1, <2>2 DEF Books
<1>. HIDE DEF C, t
<1>6. TradeOK(t) /\ Left(t) = Left(B.trade) - qty
  BY <1>1, <1>2, <1>3 DEF TradeOK, Left
<1>7. IsFiniteSet(S)
  BY FS_Subset DEF BookOK, SellsOK, Orders
<1>8. SellsOK(C, C.sells, H)
  BY <1>3, <1>4, <1>7 DEF BookOK, SellsOK, Orders
<1>9. BotOK(C) /\ BuysOK(C, C.buys)
  BY <1>3, <1>4 DEF BookOK, BotOK, BuysOK, Working
<1>10. BookOK(C, H)
  BY <1>4, <1>5, <1>6, <1>8, <1>9 DEF BookOK
<1>. QED BY <1>3, <1>4, <1>6, <1>10 DEF C

(* A close of all there is.                                                *)
LEMMA WholeFacts ==
  ASSUME NEW B, NEW H, BookOK(B, H), NEW all \in BOOLEAN
  PROVE  LET C == [B EXCEPT !.trade = [NoTrade(B.trade.n) EXCEPT !.qty = 0], !.sells = {}] IN
         BookOK(C, H) /\ Fit(C, all) /\ C.bot = B.bot /\ ~C.trade.open
<1>. DEFINE t == [NoTrade(B.trade.n) EXCEPT !.qty = 0]
            C == [B EXCEPT !.trade = t, !.sells = {}]
<1>1. B \in Books /\ B.trade \in Trades
  BY DEF BookOK, Books
<1>2. NoTrade(B.trade.n) \in Trades /\ ~NoTrade(B.trade.n).open /\ NoTrade(B.trade.n).closed = 0
  <2>1. B.trade.n \in Nat /\ 0 \in 0..Top /\ <<0, 0>> \in Nat \X Nat /\ 0 \in 0..2
    BY <1>1, GridIsSane DEF Trades
  <2>. QED BY <2>1 DEF NoTrade, Trades
<1>3. t \in Trades /\ ~t.open /\ t.qty = 0 /\ t.closed = 0
  BY <1>2 DEF Trades
<1>. HIDE DEF t
<1>4. C \in Books /\ C.trade = t /\ C.bot = B.bot /\ C.buys = B.buys /\ C.sells = {}
  BY <1>1, <1>3 DEF Books
<1>. HIDE DEF C
<1>5. TradeOK(t) /\ Left(t) = 0
  BY <1>3 DEF TradeOK, Left
<1>6. SellsOK(C, C.sells, H)
  BY <1>4, FS_EmptySet DEF SellsOK, Orders
<1>7. BotOK(C) /\ BuysOK(C, C.buys)
  BY <1>3, <1>4 DEF BookOK, BotOK, BuysOK, Working
<1>8. Fit(C, all)
  <2>1. Own(C) = {}
    BY <1>4 DEF Own
  <2>. QED BY <1>4, <1>5, <2>1, FS_EmptySet DEF Fit
<1>. QED BY <1>3, <1>4, <1>5, <1>6, <1>7, <1>8 DEF BookOK, C, t

(* applyClose(), by a limit of the quantity it has, or by other than one.  *)
LEMMA ApplyCloseFacts ==
  ASSUME NEW B, NEW H, BookOK(B, H), EngineOK, NEW seen, NEW want \in Nat, NEW id, NEW price,
         NEW all \in BOOLEAN, Fit(B, all),
         id = NoId \/ \A x \in B.sells : x.id = id => x.qty = want,
         NEW C \in ApplyClose(B, seen, want, id, price)
  PROVE  /\ BookOK(C, H) /\ Fit(C, all)
         /\ B.trade.open /\ (C.bot.active => B.bot.active)
<1>. DEFINE left == Left(B.trade)
            qty == IF want = 0 THEN left ELSE Min({want, left})
            fired == {o \in B.sells : o.id = id}
            by == B.trade.bot
            part == [B EXCEPT !.trade.closed = @ + qty, !.sells = @ \ fired]
            rest == [NoTrade(B.trade.n) EXCEPT !.qty = Left(part.trade)]
            closed == IF qty < left THEN IF id = NoId THEN {part} ELSE FollowStop(part, price)
                      ELSE {[part EXCEPT !.trade = rest, !.sells = {}]}
            After(D) == IF \E o \in fired : o.bot # 0
                        THEN LET o == CHOOSE o \in fired : TRUE IN BuyAfterBotSell(D, o.from, price, o.bot)
                        ELSE HaltOnClose(D, by)
<1>1. B \in Books /\ B.trade \in Trades /\ B.trade.closed <= B.trade.qty /\ B.bot \in Bots
  BY DEF BookOK, TradeOK, Books
<1>2. B.trade.qty \in Nat /\ B.trade.closed \in Nat /\ left \in Nat
  BY <1>1 DEF Trades, Left
<1>3. B.trade.open /\ C \in {After(D) : D \in closed}
  BY DEF ApplyClose, LeftNow, Moved
<1>4. PICK D \in closed : C = After(D)
  BY <1>3
<1>5. qty \in Nat /\ qty <= left /\ (qty < left => qty = want)
  BY <1>2, MinOfTwo
<1>6. \A o \in fired : /\ fired = {o} /\ (CHOOSE x \in fired : TRUE) = o
                       /\ o \in Sells /\ o.from \in 0..Top
  <2>1. \A o, x \in B.sells : x.id = o.id => x = o
    BY DEF BookOK, SellsOK, Orders
  <2>2. \A o \in B.sells : o \in Sells
    BY <1>1 DEF Books
  <2>. QED BY <2>1, <2>2 DEF Sells
<1>7. id = NoId => fired = {}
  BY <1>6, GridIsSane DEF Sells, Ids
<1>. HIDE DEF left, qty
(* From a book that has the same bot, to the end.                          *)
<1>8. ASSUME BookOK(D, H), D.bot = B.bot,
             Fit(D, all) \/ ((\A o \in fired : o.bot = 0) /\ (B.bot.active => by = B.bot.n))
      PROVE  BookOK(C, H) /\ Fit(C, all) /\ (C.bot.active => B.bot.active)
  <2>1. CASE \E o \in fired : o.bot # 0
    <3>1. PICK o \in fired : o.bot # 0
      BY <2>1
    <3>2. C = BuyAfterBotSell(D, o.from, price, o.bot) /\ o.from \in 0..Top
      BY <1>4, <1>6, <3>1
    <3>3. Fit(D, all)
      BY <1>8, <2>1
    <3>. HIDE DEF fired
    <3>. QED BY <1>8, <3>2, <3>3, AfterBotSellFacts
  <2>2. CASE ~ \E o \in fired : o.bot # 0
    <3>1. C = HaltOnClose(D, by)
      BY <1>4, <2>2
    <3>2. Fit(D, all) \/ Working(D, by)
      BY <1>8 DEF Fit, Working, BookOK, BotOK
    <3>. QED BY <1>8, <3>1, <3>2, HaltOnCloseFacts
  <2>. QED BY <2>1, <2>2
<1>. HIDE DEF After, closed
<1>9. CASE ~(qty < left)
  <2>1. part.trade.qty = B.trade.qty /\ part.trade.closed = B.trade.closed + qty
    BY <1>1 DEF Books, Trades
  <2>2. Left(part.trade) = 0
    BY <1>2, <1>5, <1>9, <2>1 DEF Left, left
  <2>3. [part EXCEPT !.trade = rest, !.sells = {}] =
           [B EXCEPT !.trade = [NoTrade(B.trade.n) EXCEPT !.qty = 0], !.sells = {}]
    BY <1>1, <2>2 DEF Books
  <2>4. D = [B EXCEPT !.trade = [NoTrade(B.trade.n) EXCEPT !.qty = 0], !.sells = {}]
    BY <1>4, <1>9, <2>3 DEF closed
  <2>5. BookOK(D, H) /\ Fit(D, all) /\ D.bot = B.bot
    BY <2>4, WholeFacts
  <2>. QED BY <1>3, <1>8, <2>5
<1>10. CASE qty < left
  <2>1. /\ BookOK(part, H) /\ part.bot = B.bot /\ part.trade.open
        /\ part.sells = {o \in B.sells : o.id # id} /\ Left(part.trade) = left - qty
    <3>1. qty < Left(B.trade)
      BY <1>10 DEF left
    <3>2. /\ BookOK(part, H) /\ part.bot = B.bot /\ part.trade.open
          /\ part.sells = {o \in B.sells : o.id # id} /\ Left(part.trade) = Left(B.trade) - qty
      <4>1. qty \in Nat /\ B.trade.open
        BY <1>3, <1>5
      <4>2. part = PartOf(B, qty, id)
        BY DEF PartOf
      <4>. HIDE DEF part, fired, by, rest
      <4>. QED BY <3>1, <4>1, <4>2, PartFacts
    <3>. QED BY <3>2 DEF left
  <2>2. B.bot.active => by = B.bot.n
    BY <1>3 DEF BookOK, BotOK
  <2>3. Fit(part, all) \/ ((\A o \in fired : o.bot = 0) /\ (B.bot.active => by = B.bot.n))
    <3>1. SUFFICES ASSUME NEW o \in fired, o.bot # 0, B.bot.active PROVE Fit(part, all)
      BY <2>1, <2>2 DEF Fit
    <3>2. o.bot = B.bot.n /\ o.qty = 1 /\ id # NoId
      BY <1>7, <3>1 DEF BookOK, SellsOK
    <3>3. qty = 1
      BY <1>5, <1>10, <3>2
    <3>4. Own(part) = Own(B) \ {o} /\ o \in Own(B)
      BY <1>6, <2>1, <3>1, <3>2 DEF Own
    <3>5. IsFiniteSet(Own(B)) /\ Cardinality(Own(B)) \in Nat
      BY FS_Subset, FS_CardinalityType DEF Own, BookOK, SellsOK, Orders
    <3>6. Cardinality(Own(part)) = Cardinality(Own(B)) - 1
      BY <3>4, <3>5, FS_RemoveElement
    <3>. HIDE DEF part
    <3>. QED BY <1>2, <2>1, <3>1, <3>3, <3>5, <3>6 DEF Fit, left
  <2>. HIDE DEF part
  <2>4. CASE id = NoId
    <3>1. D = part
      BY <1>4, <1>10, <2>4 DEF closed, part
    <3>. HIDE DEF fired
    <3>. QED BY <1>3, <1>8, <2>1, <2>3, <3>1
  <2>5. CASE id # NoId
    <3>1. D \in FollowStop(part, price)
      BY <1>4, <1>10, <2>5 DEF closed, part
    <3>2. BookOK(D, H) /\ (Fit(part, all) => Fit(D, all)) /\ D.bot = part.bot
      BY <2>1, <3>1, FollowFacts
    <3>. HIDE DEF fired
    <3>. QED BY <1>3, <1>8, <2>1, <2>3, <3>2
  <2>. QED BY <2>4, <2>5
<1>. QED BY <1>3, <1>9, <1>10

-----------------------------------------------------------------------------
(* Ages.                                                                   *)

BuysAt(B, f) == {[o EXCEPT !.age = f[@]] : o \in B.buys}

LEMMA OtherAges ==
  ASSUME NEW B, NEW H, BookOK(B, H), NEW f \in [0..2 -> 0..2]
  PROVE  BuysAt(B, f) \in SUBSET Buys /\ BuysOK(B, BuysAt(B, f))
<1>. DEFINE g == [o \in B.buys |-> [o EXCEPT !.age = f[@]]]
            S == BuysAt(B, f)
<1>1. \A o \in B.buys : o \in Buys
  BY DEF BookOK, Books
<1>2. \A o \in B.buys : g[o] \in Buys /\ g[o].id = o.id /\ g[o].bot = o.bot
  BY <1>1 DEF Buys
<1>3. S = {g[o] : o \in B.buys}
  BY DEF BuysAt
<1>4. g \in Surjection(B.buys, S)
  BY <1>3 DEF Surjection
<1>5. IsFiniteSet(S)
  BY <1>4, FS_Surjection DEF BookOK, BuysOK, Orders
<1>. HIDE DEF g, S
<1>6. S \in SUBSET Buys /\ \A x \in S : \E o \in B.buys : x = g[o] /\ x.id = o.id /\ x.bot = o.bot
  BY <1>2, <1>3
<1>7. /\ \A o, x \in B.buys : o.bot <= B.bot.n /\ (x.id = o.id => x = o)
      /\ \A o \in B.buys : o.bot # 0 => Working(B, o.bot)
  BY DEF BookOK, BuysOK, Orders
<1>8. \A o, x \in S : o.bot <= B.bot.n /\ (x.id = o.id => x = o)
  BY <1>6, <1>7
<1>9. \A o \in S : o.bot # 0 => Working(B, o.bot)
  BY <1>6, <1>7
<1>. QED BY <1>5, <1>6, <1>8, <1>9 DEF S, BuysOK, Orders

LEMMA AgeTypes == \A a \in 0..2 : Older(a) \in 0..2 /\ Again(a) \in 0..2
BY DEF Older, Again

(* All of a book is older, or its segment is tried again.                  *)
AgedBy(B, f) ==
  LET t == [B.trade EXCEPT !.age = IF B.trade.open THEN f[@] ELSE 0] IN
  [B EXCEPT !.trade = IF t.age = 2 THEN [t EXCEPT !.prices = <<0, 0>>] ELSE t, !.buys = BuysAt(B, f)]
LEMMA AgedAsFunction ==
  ASSUME NEW B, NEW H, BookOK(B, H), NEW C \in {Aged(B, Older), Aged(B, Again)}
  PROVE  \E f \in [0..2 -> 0..2] : C = AgedBy(B, f)
<1>1. B \in Books /\ B.trade \in Trades /\ \A o \in B.buys : o \in Buys
  BY DEF BookOK, Books
<1>2. CASE C = Aged(B, Older)
  <2>. DEFINE f == [a \in 0..2 |-> Older(a)]
              u == [B.trade EXCEPT !.age = IF B.trade.open THEN Older(@) ELSE 0]
              S == {[o EXCEPT !.age = Older(@)] : o \in B.buys}
  <2>1. \A a \in 0..2 : Older(a) \in 0..2
    BY AgeTypes
  <2>2. f \in [0..2 -> 0..2] /\ \A a \in 0..2 : f[a] = Older(a)
    BY <2>1
  <2>. HIDE DEF f
  <2>3. u = [B.trade EXCEPT !.age = IF B.trade.open THEN f[@] ELSE 0]
    BY <1>1, <2>2 DEF Trades
  <2>4. S = BuysAt(B, f)
    BY <1>1, <2>2 DEF BuysAt, Buys
  <2>5. Aged(B, Older) =
          [B EXCEPT !.trade = IF u.age = 2 THEN [u EXCEPT !.prices = <<0, 0>>] ELSE u, !.buys = S]
    BY DEF Aged
  <2>. HIDE DEF u, S
  <2>6. Aged(B, Older) = AgedBy(B, f)
    BY <2>3, <2>4, <2>5, Zenon DEF AgedBy
  <2>. QED BY <1>2, <2>2, <2>6
<1>3. CASE C = Aged(B, Again)
  <2>. DEFINE f == [a \in 0..2 |-> Again(a)]
              u == [B.trade EXCEPT !.age = IF B.trade.open THEN Again(@) ELSE 0]
              S == {[o EXCEPT !.age = Again(@)] : o \in B.buys}
  <2>1. \A a \in 0..2 : Again(a) \in 0..2
    BY AgeTypes
  <2>2. f \in [0..2 -> 0..2] /\ \A a \in 0..2 : f[a] = Again(a)
    BY <2>1
  <2>. HIDE DEF f
  <2>3. u = [B.trade EXCEPT !.age = IF B.trade.open THEN f[@] ELSE 0]
    BY <1>1, <2>2 DEF Trades
  <2>4. S = BuysAt(B, f)
    BY <1>1, <2>2 DEF BuysAt, Buys
  <2>5. Aged(B, Again) =
          [B EXCEPT !.trade = IF u.age = 2 THEN [u EXCEPT !.prices = <<0, 0>>] ELSE u, !.buys = S]
    BY DEF Aged
  <2>. HIDE DEF u, S
  <2>6. Aged(B, Again) = AgedBy(B, f)
    BY <2>3, <2>4, <2>5, Zenon DEF AgedBy
  <2>. QED BY <1>3, <2>2, <2>6
<1>. QED BY <1>2, <1>3

LEMMA AgedFacts ==
  ASSUME NEW B, NEW H, BookOK(B, H), NEW all \in BOOLEAN,
         NEW C \in {Aged(B, Older), Aged(B, Again)}
  PROVE  /\ BookOK(C, H) /\ (Fit(B, all) => Fit(C, all))
         /\ C.bot = B.bot /\ C.trade.open = B.trade.open /\ C.sells = B.sells
<1>1. B \in Books /\ B.trade \in Trades /\ \A o \in B.buys : o \in Buys
  BY DEF BookOK, Books
<1>2. PICK f \in [0..2 -> 0..2] : C = AgedBy(B, f)
  BY AgedAsFunction
<1>. DEFINE u == [B.trade EXCEPT !.age = IF B.trade.open THEN f[@] ELSE 0]
            t == IF u.age = 2 THEN [u EXCEPT !.prices = <<0, 0>>] ELSE u
            D == [B EXCEPT !.trade = t]
<1>3. C = [B EXCEPT !.trade = t, !.buys = BuysAt(B, f)]
  BY <1>2 DEF AgedBy
<1>4. u \in Trades /\ u.open = B.trade.open /\ u.bot = B.trade.bot /\ u.qty = B.trade.qty
      /\ u.closed = B.trade.closed
  BY <1>1 DEF Trades
<1>. HIDE DEF u
<1>5. t \in Trades /\ t.open = B.trade.open /\ t.bot = B.trade.bot /\ t.qty = B.trade.qty
      /\ t.closed = B.trade.closed
  BY <1>4 DEF Trades
<1>. HIDE DEF t
<1>6. TradeOK(t) /\ Left(t) = Left(B.trade)
  BY <1>5 DEF BookOK, TradeOK, Left
<1>7. BookOK(D, H) /\ (Fit(B, all) => Fit(D, all))
  BY <1>5, <1>6, OtherTrade
<1>8. /\ D.buys = B.buys /\ D.bot = B.bot /\ D.trade = t /\ D.sells = B.sells
      /\ C = [D EXCEPT !.buys = BuysAt(B, f)]
  BY <1>1, <1>3 DEF Books
<1>9. BuysAt(B, f) \in SUBSET Buys /\ BuysOK(D, BuysAt(B, f))
  <2>1. BuysAt(B, f) \in SUBSET Buys /\ BuysOK(B, BuysAt(B, f))
    BY OtherAges
  <2>. HIDE DEF D
  <2>. QED BY <1>8, <2>1 DEF BuysOK, Working
<1>10. C.bot = B.bot /\ C.sells = B.sells /\ C.trade = t
  BY <1>1, <1>3 DEF Books
<1>. HIDE DEF D
<1>. QED BY <1>5, <1>7, <1>8, <1>9, <1>10, OtherBuys

LEMMA YoungFacts ==
  ASSUME NEW B, NEW H, BookOK(B, H), NEW all \in BOOLEAN
  PROVE  LET C == Young(B) IN
         /\ BookOK(C, H) /\ (Fit(B, all) => Fit(C, all))
         /\ C.bot = B.bot /\ C.trade.open = B.trade.open
<1>. DEFINE f == [a \in 0..2 |-> 0]
<1>1. B \in Books /\ \A o \in B.buys : o \in Buys
  BY DEF BookOK, Books
<1>2. BuysAt(B, f) = {[o EXCEPT !.age = 0] : o \in B.buys}
  BY <1>1 DEF BuysAt, Buys
<1>3. Young(B) = [B EXCEPT !.buys = BuysAt(B, f)]
  BY <1>2 DEF Young
<1>4. f \in [0..2 -> 0..2]
  OBVIOUS
<1>. HIDE DEF f
<1>5. BuysAt(B, f) \in SUBSET Buys /\ BuysOK(B, BuysAt(B, f))
  BY <1>4, OtherAges
<1>6. Young(B).bot = B.bot /\ Young(B).trade = B.trade
  BY <1>1, <1>3 DEF Books
<1>. QED BY <1>3, <1>5, <1>6, OtherBuys

-----------------------------------------------------------------------------
(* The person.                                                             *)

(* Sells that are all of the position are no more than that.               *)
LEMMA FitLess ==
  ASSUME NEW B, NEW H, BookOK(B, H), NEW all \in BOOLEAN, Fit(B, all)
  PROVE  Fit(B, FALSE)
<1>1. Cardinality(Own(B)) \in Nat
  BY FS_Subset, FS_CardinalityType DEF Own, BookOK, SellsOK, Orders
<1>. QED BY <1>1 DEF Fit

(* What is left of the invariant to a step that is not of the engine.       *)
LEMMA NotEngine ==
  ASSUME IInv, engine' = engine, last' = last, session' \in {"active", "finished"},
         intact' \in {"yes", "crossed", "no"}, TabOK',
         BookOK(book', HeldSells), Fit(book', intact' # "no"),
         session' = "finished" => ~book'.trade.open /\ ~book'.bot.active
  PROVE  IInv'
<1>1. HeldSells' = HeldSells /\ HeldBuys' = HeldBuys
  BY DEF HeldSells, HeldBuys
<1>2. Scalars' /\ EngineOK' /\ FiresOK'
  BY <1>1 DEF IInv, Scalars, EngineOK, FiresOK
<1>3. BookOK(book, HeldSells)'
  BY <1>1
<1>. QED BY <1>2, <1>3 DEF IInv

(* The same with the tabs alone.                                           *)
LEMMA ByPerson ==
  ASSUME IInv, NEW B, Changes(B), session' \in {"active", "finished"},
         intact' \in {"yes", "crossed", "no"},
         BookOK(B, HeldSells), Fit(B, intact' # "no"),
         session' = "finished" => ~B.trade.open /\ ~B.bot.active
  PROVE  IInv'
<1>1. book' = B /\ engine' = engine /\ last' = last /\ tab' = tab
  BY DEF Changes
<1>2. TabOK'
  BY <1>1 DEF IInv, TabOK
<1>. QED BY <1>1, <1>2, NotEngine

LEMMA BuyAtMarketInv ==
  ASSUME IInv, NEW p \in Asked, NEW s \in Stops, BuyAtMarket(p, s)
  PROVE  IInv'
<1>. DEFINE B == Opened(book, 1, p, s, 0, 0)
<1>1. session' = "active" /\ intact' = intact /\ Changes(B) /\ LongIsFree(book, 0)
  BY DEF BuyAtMarket
<1>2. p \in Prices /\ s \in 0..Top /\ 0 \in 0..2
  BY GridIsSane DEF Prices
<1>3. BookOK(book, HeldSells) /\ intact \in {"yes", "crossed", "no"}
  BY DEF IInv, Scalars
<1>4. BookOK(B, HeldSells) /\ B.bot = book.bot
  BY <1>1, <1>2, <1>3, OpenedFacts
<1>5. ~book.bot.active
  BY <1>1, <1>3 DEF LongIsFree, BookOK, BotOK
<1>6. Fit(B, intact' # "no")
  BY <1>4, <1>5 DEF Fit
<1>. HIDE DEF B
<1>. QED BY <1>1, <1>3, <1>4, <1>6, ByPerson

LEMMA StopBotInv ==
  ASSUME IInv, StopBot
  PROVE  IInv'
<1>. DEFINE B == HaltBot(book, book.bot.n)
<1>1. session' = "active" /\ intact' = intact /\ Changes(B)
  BY DEF StopBot
<1>2. BookOK(book, HeldSells) /\ intact \in {"yes", "crossed", "no"} /\ Fit(book, intact # "no")
  BY DEF IInv, Scalars
<1>3. BookOK(B, HeldSells) /\ Fit(B, intact' # "no")
  BY <1>1, <1>2, HaltFacts
<1>. HIDE DEF B
<1>. QED BY <1>1, <1>2, <1>3, ByPerson

(* What the touch of a thing of the bot leaves to be shown.                *)
LEMMA TouchFacts ==
  ASSUME IInv, NEW b, Touch(b)
  PROVE  /\ intact' \in {"yes", "crossed", "no"}
         /\ Fit(book, intact' # "no")
         /\ intact' # "no" => intact # "no" /\ ~Working(book, b)
<1>1. BookOK(book, HeldSells) /\ intact \in {"yes", "crossed", "no"} /\ Fit(book, intact # "no")
  BY DEF IInv, Scalars
<1>2. CASE Working(book, b)
  <2>1. intact' = "no"
    BY <1>2 DEF Touch
  <2>2. Fit(book, FALSE)
    BY <1>1, FitLess
  <2>. QED BY <2>1, <2>2
<1>3. CASE ~Working(book, b)
  <2>1. intact' = intact
    BY <1>3 DEF Touch
  <2>. QED BY <1>1, <1>3, <2>1
<1>. QED BY <1>2, <1>3

LEMMA ModifyTradeInv ==
  ASSUME IInv, NEW s \in Stops, ModifyTrade(s)
  PROVE  IInv'
<1>. DEFINE B == [book EXCEPT !.trade.stop = s]
<1>1. session' = "active" /\ Touch(book.trade.bot) /\ Changes(B)
  BY DEF ModifyTrade
<1>2. BookOK(book, HeldSells)
  BY DEF IInv
<1>3. intact' \in {"yes", "crossed", "no"} /\ Fit(book, intact' # "no")
  BY <1>1, TouchFacts
<1>4. s \in 0..Top
  BY GridIsSane DEF Prices
<1>5. BookOK(B, HeldSells) /\ Fit(B, intact' # "no")
  BY <1>2, <1>3, <1>4, StopAlone
<1>. HIDE DEF B
<1>. QED BY <1>1, <1>3, <1>5, ByPerson

LEMMA MoveBuyInv ==
  ASSUME IInv, NEW o \in book.buys, NEW p \in Asked, MoveBuy(o, p)
  PROVE  IInv'
<1>. DEFINE x == Buy(book, p, o.stop, o.after, o.bot)
            S == (book.buys \ {o}) \cup {x}
            B == [book EXCEPT !.buys = S]
<1>1. session' = "active" /\ Touch(o.bot) /\ Changes(B)
  BY DEF MoveBuy
<1>2. BookOK(book, HeldSells) /\ EngineOK
  BY DEF IInv
<1>3. intact' \in {"yes", "crossed", "no"} /\ Fit(book, intact' # "no")
  BY <1>1, TouchFacts
<1>4. /\ book.buys \subseteq Buys /\ IsFiniteSet(book.buys) /\ IsFiniteSet(Held)
      /\ \A y, z \in book.buys : y.bot <= book.bot.n /\ (z.id = y.id => z = y)
      /\ \A y \in book.buys : y.bot # 0 => Working(book, y.bot)
  BY <1>2, HeldFacts DEF BookOK, BuysOK, Orders, Books
<1>5. p \in Nat /\ p \in Prices
  BY GridIsSane DEF Prices
<1>6. FreshId(book.buys, p) \in Ids /\ \A y \in book.buys : y.id # FreshId(book.buys, p)
  BY <1>4, <1>5, FreshIsFresh
<1>7. x = [id |-> FreshId(book.buys, p), price |-> p, stop |-> o.stop, after |-> o.after,
           bot |-> o.bot, age |-> 0]
  BY DEF Buy
<1>. HIDE DEF x
<1>8. x \in Buys /\ x.bot = o.bot /\ x.id = FreshId(book.buys, p)
  BY <1>4, <1>5, <1>6, <1>7 DEF Buys
<1>9. IsFiniteSet(S)
  BY <1>4, FS_RemoveElement, FS_AddElement
<1>10. S \in SUBSET Buys /\ BuysOK(book, S)
  BY <1>4, <1>6, <1>8, <1>9 DEF BuysOK, Orders
<1>. HIDE DEF S
<1>11. BookOK(B, HeldSells) /\ Fit(B, intact' # "no")
  BY <1>2, <1>3, <1>10, OtherBuys
<1>. HIDE DEF B
<1>. QED BY <1>1, <1>3, <1>11, ByPerson

LEMMA CancelBuyInv ==
  ASSUME IInv, NEW o \in book.buys, CancelBuy(o)
  PROVE  IInv'
<1>. DEFINE S == book.buys \ {o}
            B == [book EXCEPT !.buys = S]
<1>1. session' = session /\ Touch(o.bot) /\ Changes(B)
  BY DEF CancelBuy
<1>2. BookOK(book, HeldSells) /\ session \in {"active", "finished"}
      /\ (session = "finished" => ~book.trade.open /\ ~book.bot.active)
  BY DEF IInv, Scalars
<1>3. intact' \in {"yes", "crossed", "no"} /\ Fit(book, intact' # "no")
  BY <1>1, TouchFacts
<1>4. BookOK(B, HeldSells) /\ Fit(B, intact' # "no")
  BY <1>2, <1>3, FewerBuys
<1>5. B.trade = book.trade /\ B.bot = book.bot
  BY <1>2 DEF BookOK, Books
<1>. HIDE DEF B
<1>. QED BY <1>1, <1>2, <1>3, <1>4, <1>5, ByPerson

LEMMA MoveSellInv ==
  ASSUME IInv, NEW o \in book.sells, NEW p \in Asked, MoveSell(o, p)
  PROVE  IInv'
<1>. DEFINE x == [o EXCEPT !.price = p]
            S == (book.sells \ {o}) \cup {x}
            B == [book EXCEPT !.sells = S]
<1>1. session' = "active" /\ Touch(o.bot) /\ Changes(B)
  BY DEF MoveSell
<1>2. BookOK(book, HeldSells)
  BY DEF IInv
<1>3. /\ intact' \in {"yes", "crossed", "no"} /\ Fit(book, intact' # "no")
      /\ intact' # "no" => ~Working(book, o.bot)
  BY <1>1, TouchFacts
<1>4. o \in Sells
  BY <1>2 DEF BookOK, Books
<1>5. p \in 1..Top + Step
  <2>1. Top \in Nat /\ Step \in Nat /\ p \in 1..Top
    BY GridIsSane DEF Prices
  <2>. QED BY <2>1
<1>6. x \in Sells /\ x.id = o.id /\ x.qty = o.qty /\ x.bot = o.bot
  BY <1>4, <1>5 DEF Sells
<1>. HIDE DEF x
<1>7. IsFiniteSet(S)
  <2>1. IsFiniteSet(book.sells)
    BY <1>2 DEF BookOK, SellsOK, Orders
  <2>. QED BY <2>1, FS_RemoveElement, FS_AddElement
<1>8. S \in SUBSET Sells
  BY <1>2, <1>6 DEF BookOK, Books
<1>9. SellsOK(book, S, HeldSells)
  <2>1. \A y, z \in book.sells : y.bot <= book.bot.n /\ (z.id = y.id => z = y)
    BY <1>2 DEF BookOK, SellsOK, Orders
  <2>2. Orders(S, book.bot.n)
    BY <1>6, <1>7, <2>1 DEF Orders
  <2>3. \A y \in S : y.bot # 0 => y.qty = 1 /\ (book.bot.active => y.bot = book.bot.n)
    BY <1>2, <1>6 DEF BookOK, SellsOK
  <2>4. \A y \in S, z \in HeldSells : z.id = y.id => z.qty = y.qty
    BY <1>2, <1>6 DEF BookOK, SellsOK
  <2>5. ~book.trade.open => S = {}
    BY <1>2 DEF BookOK, SellsOK
  <2>. QED BY <2>2, <2>3, <2>4, <2>5 DEF SellsOK
<1>10. BookOK(B, HeldSells) /\ B.sells = S /\ B.trade = book.trade /\ B.bot = book.bot
  BY <1>2, <1>8, <1>9, OtherSells
<1>. HIDE DEF B
<1>11. IsFiniteSet(Own(book)) /\ Cardinality(Own(book)) \in Nat
  BY <1>2, FS_Subset, FS_CardinalityType DEF Own, BookOK, SellsOK, Orders
<1>12. Fit(B, intact' # "no")
  <2>1. CASE o.bot # book.bot.n
    <3>1. Own(B) = Own(book)
      BY <1>6, <1>10, <2>1 DEF Own
    <3>. QED BY <1>3, <1>10, <3>1 DEF Fit
  <2>2. CASE o.bot = book.bot.n
    <3>1. book.bot.active => intact' = "no"
      BY <1>2, <1>3, <2>2 DEF Working, BookOK, BotOK
    <3>2. Own(B) = (Own(book) \ {o}) \cup {x} /\ o \in Own(book)
      BY <1>6, <1>10, <2>2 DEF Own
    <3>3. /\ IsFiniteSet(Own(book) \ {o})
          /\ Cardinality(Own(book) \ {o}) = Cardinality(Own(book)) - 1
      BY <1>11, <3>2, FS_RemoveElement
    <3>4. Cardinality((Own(book) \ {o}) \cup {x}) \in
            {Cardinality(Own(book) \ {o}), Cardinality(Own(book) \ {o}) + 1}
      BY <3>3, FS_AddElement
    <3>5. Cardinality(Own(B)) <= Cardinality(Own(book)) /\ Cardinality(Own(B)) \in Int
      BY <1>11, <3>2, <3>3, <3>4
    <3>6. Left(book.trade) \in Int
      BY <1>2 DEF BookOK, Books, Trades, Left
    <3>. QED BY <1>3, <1>10, <1>11, <3>1, <3>5, <3>6 DEF Fit
  <2>. QED BY <2>1, <2>2
<1>. QED BY <1>1, <1>3, <1>10, <1>12, ByPerson

LEMMA CancelSellInv ==
  ASSUME IInv, NEW o \in book.sells, CancelSell(o)
  PROVE  IInv'
<1>. DEFINE S == book.sells \ {o}
            B == [book EXCEPT !.sells = S]
<1>1. session' = session /\ Touch(o.bot) /\ Changes(B)
  BY DEF CancelSell
<1>2. BookOK(book, HeldSells) /\ session \in {"active", "finished"}
      /\ (session = "finished" => ~book.trade.open /\ ~book.bot.active)
  BY DEF IInv, Scalars
<1>3. /\ intact' \in {"yes", "crossed", "no"} /\ Fit(book, intact' # "no")
      /\ intact' # "no" => ~Working(book, o.bot)
  BY <1>1, TouchFacts
<1>4. S \in SUBSET Sells /\ S \subseteq book.sells
  BY <1>2 DEF BookOK, Books
<1>5. IsFiniteSet(S)
  BY <1>2, FS_RemoveElement DEF BookOK, SellsOK, Orders
<1>6. SellsOK(book, S, HeldSells)
  BY <1>2, <1>5 DEF BookOK, SellsOK, Orders
<1>7. BookOK(B, HeldSells) /\ B.sells = S /\ B.trade = book.trade /\ B.bot = book.bot
  BY <1>2, <1>4, <1>6, OtherSells
<1>. HIDE DEF B
<1>8. IsFiniteSet(Own(book)) /\ Cardinality(Own(book)) \in Nat
  BY <1>2, FS_Subset, FS_CardinalityType DEF Own, BookOK, SellsOK, Orders
<1>9. Fit(B, intact' # "no")
  <2>1. CASE o.bot # book.bot.n
    <3>1. Own(B) = Own(book)
      BY <1>7, <2>1 DEF Own
    <3>. QED BY <1>3, <1>7, <3>1 DEF Fit
  <2>2. CASE o.bot = book.bot.n
    <3>1. book.bot.active => intact' = "no"
      BY <1>2, <1>3, <2>2 DEF Working, BookOK, BotOK
    <3>2. Own(B) = Own(book) \ {o} /\ o \in Own(book)
      BY <1>7, <2>2 DEF Own
    <3>3. Cardinality(Own(B)) = Cardinality(Own(book)) - 1
      BY <1>8, <3>2, FS_RemoveElement
    <3>4. Left(book.trade) \in Int
      BY <1>2 DEF BookOK, Books, Trades, Left
    <3>. QED BY <1>3, <1>7, <1>8, <3>1, <3>3, <3>4 DEF Fit
  <2>. QED BY <2>1, <2>2
<1>. QED BY <1>1, <1>2, <1>3, <1>7, <1>9, ByPerson

LEMMA FinishInv ==
  ASSUME IInv, Finish
  PROVE  IInv'
<1>. DEFINE bot == [book.bot EXCEPT !.active = FALSE]
            B == [book EXCEPT !.buys = {}, !.bot.active = FALSE]
<1>1. session' = "finished" /\ intact' = intact /\ Changes(B) /\ ~book.trade.open
  BY DEF Finish
<1>2. BookOK(book, HeldSells) /\ intact \in {"yes", "crossed", "no"}
  BY DEF IInv, Scalars
<1>3. book \in Books /\ book.bot \in Bots
  BY <1>2 DEF BookOK, Books
<1>4. bot \in Bots /\ ~bot.active /\ bot.n = book.bot.n
  BY <1>3 DEF Bots
<1>5. /\ B \in Books /\ B.trade = book.trade /\ B.sells = book.sells /\ B.bot = bot
      /\ B.buys = {}
  <2>1. B = [book EXCEPT !.buys = {}, !.bot = bot]
    BY <1>3 DEF Books
  <2>. HIDE DEF B, bot
  <2>. QED BY <1>3, <1>4, <2>1 DEF Books
<1>. HIDE DEF B, bot
<1>6. SellsOK(B, B.sells, HeldSells)
  BY <1>2, <1>4, <1>5 DEF BookOK, SellsOK
<1>7. BuysOK(B, B.buys) /\ BotOK(B)
  BY <1>4, <1>5, FS_EmptySet DEF BuysOK, BotOK, Orders
<1>8. BookOK(B, HeldSells) /\ Fit(B, intact' # "no")
  BY <1>2, <1>4, <1>5, <1>6, <1>7 DEF BookOK, Fit
<1>9. ~B.trade.open /\ ~B.bot.active
  BY <1>1, <1>4, <1>5
<1>. QED BY <1>1, <1>2, <1>8, <1>9, ByPerson DEF B, bot

(* The sells of a grid, of the person or of a bot: one for each price.      *)
LEMMA NewSells ==
  ASSUME NEW B, NEW H, BookOK(B, H), EngineOK, H = HeldSells, B.trade.open,
         NEW P, IsFiniteSet(P), P \subseteq 1..Top + Step, NEW qty \in Nat, NEW b \in {0, B.bot.n},
         NEW from \in [P -> 0..Top], b # 0 => qty = 1
  PROVE  LET S == {Sell(B, p, qty, from[p], b) : p \in P}
             C == [B EXCEPT !.sells = S] IN
         /\ BookOK(C, H) /\ C.trade = B.trade /\ C.bot = B.bot
         /\ b = B.bot.n => Cardinality(Own(C)) = Cardinality(P)
<1>. DEFINE x(p) == Sell(B, p, qty, from[p], b)
            S == {x(p) : p \in P}
            C == [B EXCEPT !.sells = S]
            f == [p \in P |-> x(p)]
<1>1. B \in Books /\ B.bot \in Bots /\ b \in Nat /\ b <= B.bot.n
  BY DEF BookOK, Books, Bots
<1>2. P \subseteq Nat
  <2>1. Top + Step \in Nat
    BY GridIsSane
  <2>. QED BY <2>1
<1>3. IsFiniteSet(B.sells) /\ IsFiniteSet(Held)
  BY HeldFacts DEF BookOK, SellsOK, Orders
<1>4. \A p \in P : /\ FreshId(B.sells, p) \in Ids /\ FreshId(B.sells, p)[1] = p
                   /\ FreshId(B.sells, p) \notin Held
  BY <1>2, <1>3, FreshIsFresh
<1>5. \A p \in P : x(p) = [id |-> FreshId(B.sells, p), price |-> p, qty |-> qty,
                           from |-> from[p], bot |-> b]
  BY DEF Sell
<1>. HIDE DEF x
<1>6. \A p \in P : /\ x(p) \in Sells /\ x(p).id = FreshId(B.sells, p)
                   /\ x(p).bot = b /\ x(p).qty = qty
  BY <1>1, <1>4, <1>5 DEF Sells
<1>7. S \in SUBSET Sells
  BY <1>6
<1>8. f \in Bijection(P, S)
  BY <1>4, <1>6 DEF Bijection, Injection, Surjection, IsInjective
<1>9. IsFiniteSet(S) /\ Cardinality(S) = Cardinality(P)
  BY <1>8, FS_Bijection DEF ExistsBijection
<1>10. \A y, z \in S : y.bot <= B.bot.n /\ (z.id = y.id => z = y)
  BY <1>1, <1>4, <1>6
<1>11. \A y \in S : /\ y.bot = b /\ y.qty = qty
                    /\ \A z \in H : z.id # y.id
  BY <1>4, <1>6, HeldFacts
<1>12. SellsOK(B, S, H)
  BY <1>9, <1>10, <1>11 DEF SellsOK, Orders
<1>13. BookOK(C, H) /\ C.sells = S /\ C.trade = B.trade /\ C.bot = B.bot
  <2>. HIDE DEF S
  <2>. QED BY <1>7, <1>12, OtherSells
<1>. HIDE DEF C
<1>14. b = B.bot.n => Own(C) = S
  BY <1>11, <1>13 DEF Own
<1>15. /\ BookOK(C, H) /\ C.trade = B.trade /\ C.bot = B.bot
       /\ b = B.bot.n => Cardinality(Own(C)) = Cardinality(P)
  BY <1>9, <1>13, <1>14
<1>. QED BY <1>15 DEF C, x

LEMMA CloseGridInv ==
  ASSUME IInv, NEW P \in (SUBSET Asked) \ {{}}, NEW f \in Follows, CloseGrid(P, f)
  PROVE  IInv'
<1>. DEFINE H == HeldSells
            B == HaltBot(book, book.trade.bot)
            from == [p \in P |-> 0]
<1>1. /\ book.trade.open
      /\ \E q \in {1, Left(book.trade) \div Cardinality(P)} :
           Changes([B EXCEPT !.sells = {Sell(B, p, q, 0, 0) : p \in P}, !.trade.follow = f])
      /\ session' = "active" /\ intact' = intact
  BY DEF CloseGrid
<1>2. PICK q \in {1, Left(book.trade) \div Cardinality(P)} :
        Changes([B EXCEPT !.sells = {Sell(B, p, q, 0, 0) : p \in P}, !.trade.follow = f])
  BY <1>1
<1>. DEFINE S == {Sell(B, p, q, 0, 0) : p \in P}
            C == [B EXCEPT !.sells = S]
            t == [C.trade EXCEPT !.follow = f]
            D == [C EXCEPT !.trade = t]
<1>3. BookOK(book, HeldSells) /\ EngineOK /\ intact \in {"yes", "crossed", "no"}
  BY DEF IInv, Scalars
<1>4. /\ BookOK(B, H) /\ B.trade = book.trade
      /\ B.bot.active => book.bot.active /\ ~Working(book, book.trade.bot)
  BY <1>3, HaltFacts
<1>5. ~B.bot.active
  BY <1>1, <1>3, <1>4 DEF Working, BookOK, BotOK
<1>. HIDE DEF B
<1>6. Top \in Nat /\ Step \in Nat /\ P \subseteq 1..Top
  BY GridIsSane DEF Prices
<1>7. IsFiniteSet(P) /\ P \subseteq 1..Top + Step
  <2>1. IsFiniteSet(1..Top)
    BY <1>6, FS_Interval
  <2>2. P \in SUBSET (1..Top)
    BY <1>6
  <2>3. 1..Top \subseteq 1..Top + Step
    BY <1>6
  <2>. QED BY <2>1, <2>2, <2>3, FS_Subset
<1>8. q \in Nat
  <2>1. Cardinality(P) \in Nat \ {0}
    <3>1. P # {}
      OBVIOUS
    <3>. QED BY <1>7, <3>1, FS_CardinalityType, FS_EmptySet
  <2>2. Left(book.trade) \in Nat
    BY <1>3 DEF BookOK, TradeOK, Books, Trades, Left
  <2>. HIDE DEF H
  <2>. QED BY <2>1, <2>2
<1>9. from \in [P -> 0..Top] /\ S = {Sell(B, p, q, from[p], 0) : p \in P}
  BY <1>6
<1>10. BookOK(C, H) /\ C.trade = B.trade /\ C.bot = B.bot
  <2>. HIDE DEF from
  <2>1. LET S2 == {Sell(B, p, q, from[p], 0) : p \in P}
            C2 == [B EXCEPT !.sells = S2] IN
        BookOK(C2, H) /\ C2.trade = B.trade /\ C2.bot = B.bot
    BY <1>1, <1>3, <1>4, <1>7, <1>8, <1>9, NewSells
  <2>. QED BY <1>9, <2>1
<1>. HIDE DEF S
<1>11. t \in Trades /\ t.open = C.trade.open /\ t.bot = C.trade.bot /\ t.qty = C.trade.qty
       /\ t.closed = C.trade.closed
  <2>1. C.trade \in Trades /\ f \in BOOLEAN
    BY <1>10, GridIsSane DEF BookOK, Books
  <2>. HIDE DEF C
  <2>. QED BY <2>1 DEF Trades
<1>12. TradeOK(t) /\ Left(t) = Left(C.trade)
  <2>1. TradeOK(C.trade)
    BY <1>10 DEF BookOK
  <2>. HIDE DEF t, C
  <2>. QED BY <1>11, <2>1 DEF TradeOK, Left
<1>13. [B EXCEPT !.sells = S, !.trade.follow = f] = D
  <2>1. B \in Books
    BY <1>4 DEF BookOK
  <2>. QED BY <2>1 DEF Books
<1>. HIDE DEF t
<1>14. BookOK(D, H) /\ D.bot = C.bot
  <2>1. C \in Books
    BY <1>10 DEF BookOK
  <2>. HIDE DEF C
  <2>2. D.bot = C.bot
    BY <2>1 DEF Books
  <2>3. BookOK(D, H)
    BY <1>10, <1>11, <1>12, OtherTrade
  <2>. QED BY <2>2, <2>3
<1>. HIDE DEF C, D
<1>15. Fit(D, intact' # "no")
  BY <1>5, <1>10, <1>14 DEF Fit
<1>16. Changes(D)
  BY <1>2, <1>13 DEF S
<1>. QED BY <1>1, <1>3, <1>14, <1>15, <1>16, ByPerson

LEMMA StartBotInv ==
  ASSUME IInv, NEW price \in Prices, NEW f \in Follows, StartBot(price, f)
  PROVE  IInv'
<1>. DEFINE H == HeldSells
            n == book.bot.n + 1
            market == {p \in BotPrices : p >= price}
            bot == [n |-> n, active |-> TRUE, follow |-> f]
            B == [book EXCEPT !.bot = [n |-> n, active |-> TRUE, follow |-> f]]
            O == Opened(B, Cardinality(market), price, BotStop, n, 0)
            C == IF market = {} THEN B
                 ELSE [O EXCEPT !.sells = {Sell(B, p + Step, 1, p, n) : p \in market}]
            D == BoughtBack(C, BotPrices \ market)
<1>1. /\ session' = "active" /\ intact' = "yes" /\ Changes(D)
      /\ ~book.bot.active /\ ~book.trade.open /\ book.buys = {}
  BY DEF StartBot
<1>2. BookOK(book, H) /\ EngineOK
  BY DEF IInv
<1>3. book \in Books /\ book.bot \in Bots /\ book.bot.n \in Nat /\ f \in BOOLEAN
      /\ book.sells = {} /\ Left(book.trade) = 0
  BY <1>1, <1>2, GridIsSane DEF BookOK, Books, Bots, SellsOK, TradeOK, Left
<1>4. bot \in Bots /\ n \in Nat /\ n # 0 /\ bot.n = n /\ bot.active
  BY <1>3 DEF Bots
<1>5. B \in Books /\ B.trade = book.trade /\ B.buys = {} /\ B.sells = {} /\ B.bot = bot
  BY <1>1, <1>3, <1>4 DEF Books
<1>6. market \in SUBSET BotPrices /\ IsFiniteSet(market) /\ IsFiniteSet(BotPrices)
  BY GridInMarket, FS_Subset
<1>. HIDE DEF n, bot, B, market
<1>7. BookOK(B, H) /\ Own(B) = {} /\ Left(B.trade) = 0
  <2>1. BuysOK(B, B.buys) /\ SellsOK(B, B.sells, H) /\ BotOK(B)
    BY <1>1, <1>4, <1>5, FS_EmptySet DEF BuysOK, SellsOK, BotOK, Orders
  <2>2. Own(B) = {}
    BY <1>5 DEF Own
  <2>. QED BY <1>2, <1>3, <1>5, <2>1, <2>2 DEF BookOK
<1>8. BookOK(C, H) /\ C.bot = bot /\ Fit(C, TRUE)
  <2>1. CASE market = {}
    BY <1>5, <1>7, <2>1, FS_EmptySet DEF Fit
  <2>2. CASE market # {}
    <3>1. Cardinality(market) \in Nat /\ BotStop \in 0..Top /\ LongIsFree(B, n) /\ 0 \in 0..2
      BY <1>4, <1>5, <1>6, FS_CardinalityType, GridInMarket, GridIsSane DEF LongIsFree, Prices
    <3>2. BookOK(O, H) /\ O.trade.open /\ Left(O.trade) = Cardinality(market) /\ O.bot = bot
          /\ O.sells = {}
      <4>1. BookOK(O, H) /\ O.trade.open /\ Left(O.trade) = Left(B.trade) + Cardinality(market)
            /\ O.bot = B.bot /\ O.sells = B.sells
        BY <1>4, <1>7, <3>1, OpenedFacts
      <4>. HIDE DEF O
      <4>. QED BY <1>5, <1>7, <3>1, <4>1
    <3>. DEFINE P == {p + Step : p \in market}
                g == [p \in market |-> p + Step]
                from == [p \in P |-> p - Step]
                S == {Sell(O, p, 1, from[p], n) : p \in P}
    <3>3. Top \in Nat /\ Step \in Nat /\ \A p \in market : p \in 1..Top /\ p + Step \in 1..Top
      BY <1>6, GridInMarket, GridIsSane DEF Prices
    <3>4. g \in Bijection(market, P)
      BY <3>3 DEF Bijection, Injection, Surjection, IsInjective
    <3>5. IsFiniteSet(P) /\ Cardinality(P) = Cardinality(market)
      BY <1>6, <3>4, FS_Bijection DEF ExistsBijection
    <3>6. P \subseteq 1..Top + Step
      <4>1. 1..Top \subseteq 1..Top + Step
        BY <3>3
      <4>. QED BY <3>3, <4>1
    <3>7. from \in [P -> 0..Top] /\ \A p \in market : from[p + Step] = p
      BY <3>3
    <3>8. S = {Sell(B, p + Step, 1, p, n) : p \in market}
      <4>1. \A p, q : Sell(O, p, 1, q, n) = Sell(B, p, 1, q, n)
        BY <1>5, <3>2 DEF Sell, FreshId
      <4>. HIDE DEF from
      <4>2. S = {Sell(O, p + Step, 1, from[p + Step], n) : p \in market}
        OBVIOUS
      <4>3. \A p \in market : Sell(O, p + Step, 1, from[p + Step], n) = Sell(B, p + Step, 1, p, n)
        BY <3>7, <4>1
      <4>. QED BY <4>2, <4>3
    <3>9. C = [O EXCEPT !.sells = S]
      BY <2>2, <3>8
    <3>. HIDE DEF P, from, O
    <3>10. n \in {0, O.bot.n} /\ n = O.bot.n /\ 1 \in Nat
      BY <1>4, <3>2
    <3>11. LET S2 == {Sell(O, p, 1, from[p], n) : p \in P}
               C2 == [O EXCEPT !.sells = S2] IN
           /\ BookOK(C2, H) /\ C2.trade = O.trade /\ C2.bot = O.bot
           /\ n = O.bot.n => Cardinality(Own(C2)) = Cardinality(P)
      BY <1>2, <3>2, <3>5, <3>6, <3>7, <3>10, NewSells
    <3>. HIDE DEF S, C
    <3>12. BookOK(C, H) /\ C.trade = O.trade /\ C.bot = O.bot /\ Cardinality(Own(C)) = Cardinality(P)
      BY <3>9, <3>10, <3>11 DEF S
    <3>. QED BY <3>2, <3>5, <3>12 DEF Fit
  <2>. QED BY <2>1, <2>2
<1>. HIDE DEF C
<1>9. BotPrices \ market \in SUBSET Prices /\ IsFiniteSet(BotPrices \ market)
  BY <1>6, GridInMarket, FS_Difference
<1>10. BookOK(D, H) /\ Fit(D, TRUE)
  BY <1>2, <1>4, <1>8, <1>9, BoughtBackFacts
<1>. HIDE DEF D
<1>. QED BY <1>1, <1>10, ByPerson

-----------------------------------------------------------------------------
(* The tabs.                                                               *)

(* What may be asked.                                                      *)
RequestOK(q) ==
  /\ q.kind = "close" => q.want \in {0, 1}
  /\ q.kind = "sell" => q.price \in Prices
  /\ q.kind = "buy" => q.price \in Prices /\ q.stop \in 0..Top /\ q.after \in 0..Top

LEMMA AsksInv ==
  ASSUME IInv, NEW t \in Tabs, NEW q, RequestOK(q), Asks(t, q), session' = session
  PROVE  IInv'
<1>1. /\ tab' = [tab EXCEPT ![t] = q]
      /\ book' = book /\ engine' = engine /\ last' = last /\ intact' = intact
  BY DEF Asks
<1>2. TabOK'
  BY <1>1 DEF IInv, TabOK, RequestOK
<1>3. Fit(book', intact' # "no") /\ BookOK(book', HeldSells)
  BY <1>1 DEF IInv
<1>. QED BY <1>1, <1>2, <1>3, NotEngine DEF IInv, Scalars

LEMMA AnswersInv ==
  ASSUME IInv, NEW t \in Tabs, NEW B, Answers(t, B), BookOK(B, HeldSells),
         Fit(B, intact # "no"),
         session = "finished" => ~B.trade.open /\ ~B.bot.active
  PROVE  IInv'
<1>1. /\ tab' = [tab EXCEPT ![t] = Idle] /\ book' = B
      /\ session' = session /\ engine' = engine /\ last' = last /\ intact' = intact
  BY DEF Answers
<1>2. TabOK'
  BY <1>1 DEF IInv, TabOK
<1>. QED BY <1>1, <1>2, NotEngine DEF IInv, Scalars

LEMMA ReadsInv ==
  ASSUME IInv, NEW t \in Tabs,
         \/ \E want \in {0, 1} : ReadToClose(t, want)
         \/ \E p \in Asked : ReadToSell(t, p)
         \/ \E p \in Asked, s \in Stops : \E a \in {0, p - 1} : ReadToBuy(t, p, s, a)
  PROVE  IInv'
<1>1. ASSUME NEW want \in {0, 1}, ReadToClose(t, want) PROVE IInv'
  <2>. DEFINE q == [kind |-> "close", seen |-> Seen, want |-> want]
  <2>1. Asks(t, q) /\ session' = session
    BY <1>1 DEF ReadToClose, Asks
  <2>2. RequestOK(q)
    BY DEF RequestOK
  <2>. HIDE DEF q
  <2>. QED BY <2>1, <2>2, AsksInv
<1>2. ASSUME NEW p \in Asked, ReadToSell(t, p) PROVE IInv'
  <2>. DEFINE q == [kind |-> "sell", n |-> book.trade.n, price |-> p]
  <2>1. Asks(t, q) /\ session' = session
    BY <1>2 DEF ReadToSell, Asks
  <2>2. RequestOK(q)
    BY GridIsSane DEF RequestOK
  <2>. HIDE DEF q
  <2>. QED BY <2>1, <2>2, AsksInv
<1>3. ASSUME NEW p \in Asked, NEW s \in Stops, NEW a \in {0, p - 1}, ReadToBuy(t, p, s, a)
      PROVE  IInv'
  <2>. DEFINE q == [kind |-> "buy", price |-> p, stop |-> s, after |-> a]
  <2>1. Asks(t, q) /\ session' = session
    BY <1>3 DEF ReadToBuy, Asks
  <2>2. p \in Prices /\ s \in 0..Top /\ a \in 0..Top
    <3>1. Top \in Nat /\ p \in 1..Top /\ s \in 1..Top
      BY GridIsSane DEF Prices
    <3>. QED BY <3>1 DEF Prices
  <2>3. RequestOK(q)
    BY <2>2 DEF RequestOK
  <2>. HIDE DEF q
  <2>. QED BY <2>1, <2>3, AsksInv
<1>. QED BY <1>1, <1>2, <1>3

LEMMA CloseTradeInv ==
  ASSUME IInv, NEW t \in Tabs, CloseTrade(t)
  PROVE  IInv'
<1>. DEFINE done == ApplyClose(book, tab[t].seen, tab[t].want, NoId, 0)
            all == intact # "no"
<1>1. /\ tab[t].want \in Nat
      /\ IF done = {} THEN Answers(t, book) ELSE \E B \in done : Answers(t, B)
  BY DEF CloseTrade, Asking, IInv, TabOK
<1>2. /\ BookOK(book, HeldSells) /\ Fit(book, all) /\ EngineOK /\ all \in BOOLEAN
      /\ session = "finished" => ~book.trade.open /\ ~book.bot.active
  BY DEF IInv
<1>3. ASSUME NEW B \in done, Answers(t, B) PROVE IInv'
  <2>. HIDE DEF all
  <2>1. BookOK(B, HeldSells) /\ Fit(B, all) /\ book.trade.open
    BY <1>1, <1>2, ApplyCloseFacts
  <2>. QED BY <1>2, <1>3, <2>1, AnswersInv DEF all
<1>4. CASE done = {}
  BY <1>1, <1>2, <1>4, AnswersInv
<1>. QED BY <1>1, <1>3, <1>4

LEMMA CreateCloseOrderInv ==
  ASSUME IInv, NEW t \in Tabs, CreateCloseOrder(t)
  PROVE  IInv'
<1>. DEFINE p == tab[t].price
            x == Sell(book, p, 1, 0, 0)
            B == [book EXCEPT !.sells = @ \cup {x}]
            all == intact # "no"
<1>1. /\ p \in Prices
      /\ Answers(t, IF book.trade.open /\ book.trade.n = tab[t].n THEN B ELSE book)
  BY DEF CreateCloseOrder, Asking, IInv, TabOK
<1>2. /\ BookOK(book, HeldSells) /\ Fit(book, all) /\ EngineOK
      /\ session = "finished" => ~book.trade.open /\ ~book.bot.active
  BY DEF IInv
<1>3. CASE ~(book.trade.open /\ book.trade.n = tab[t].n)
  <2>1. Answers(t, book)
    BY <1>1, <1>3
  <2>. QED BY <1>2, <2>1, AnswersInv
<1>4. CASE book.trade.open /\ book.trade.n = tab[t].n
  <2>1. Answers(t, B) /\ p \in Nat /\ p \in 1..Top + Step /\ 0 \in 0..Top
    <3>1. Top \in Nat /\ Step \in Nat /\ p \in 1..Top
      BY <1>1, GridIsSane DEF Prices
    <3>. QED BY <1>1, <1>4, <3>1
  <2>2. IsFiniteSet(book.sells) /\ IsFiniteSet(Held)
    BY <1>2, HeldFacts DEF BookOK, SellsOK, Orders
  <2>3. FreshId(book.sells, p) \in Ids
        /\ \A o \in book.sells \cup HeldSells : o.id # FreshId(book.sells, p)
    BY <1>2, <2>1, <2>2, FreshIsFresh, HeldFacts
  <2>. HIDE DEF p
  <2>4. x \in Sells /\ x.bot = 0 /\ x.id = FreshId(book.sells, p)
    BY <2>1, <2>3 DEF Sell, Sells
  <2>5. 0 <= book.bot.n
    BY <1>2 DEF BookOK, Books, Bots
  <2>. HIDE DEF x
  <2>6. /\ BookOK(B, HeldSells) /\ B.trade = book.trade /\ B.bot = book.bot
        /\ Cardinality(Own(B)) = Cardinality(Own(book)) + IF 0 = book.bot.n THEN 1 ELSE 0
    BY <1>2, <1>4, <2>3, <2>4, <2>5, OneSellMore
  <2>7. Cardinality(Own(book)) \in Nat
    BY <1>2, FS_Subset, FS_CardinalityType DEF Own, BookOK, SellsOK, Orders
  <2>. HIDE DEF B
  <2>8. Fit(B, all)
    BY <1>2, <2>6, <2>7 DEF Fit, BookOK, BotOK
  <2>. QED BY <1>2, <2>1, <2>6, <2>8, AnswersInv
<1>. QED BY <1>3, <1>4

LEMMA CreateEntryOrdersInv ==
  ASSUME IInv, NEW t \in Tabs, CreateEntryOrders(t)
  PROVE  IInv'
<1>. DEFINE q == tab[t]
            x == Buy(book, q.price, q.stop, q.after, 0)
            S == book.buys \cup {x}
            B == [book EXCEPT !.buys = S]
            all == intact # "no"
<1>1. q.price \in Prices /\ q.stop \in 0..Top /\ q.after \in 0..Top /\ Answers(t, B)
  BY DEF CreateEntryOrders, Asking, IInv, TabOK
<1>. HIDE DEF q
<1>2. /\ BookOK(book, HeldSells) /\ Fit(book, all) /\ EngineOK /\ all \in BOOLEAN
      /\ session = "finished" => ~book.trade.open /\ ~book.bot.active
  BY DEF IInv
<1>3. /\ book.buys \subseteq Buys /\ IsFiniteSet(book.buys) /\ IsFiniteSet(Held)
      /\ \A y, z \in book.buys : y.bot <= book.bot.n /\ (z.id = y.id => z = y)
      /\ \A y \in book.buys : y.bot # 0 => Working(book, y.bot)
  BY <1>2, HeldFacts DEF BookOK, BuysOK, Orders, Books
<1>4. FreshId(book.buys, q.price) \in Ids
      /\ \A y \in book.buys : y.id # FreshId(book.buys, q.price)
  <2>1. q.price \in Nat
    BY <1>1, GridIsSane DEF Prices
  <2>. QED BY <1>3, <2>1, FreshIsFresh
<1>5. x \in Buys /\ x.bot = 0 /\ x.id = FreshId(book.buys, q.price) /\ 0 <= book.bot.n
  BY <1>1, <1>2, <1>4 DEF Buy, Buys, BookOK, Books, Bots
<1>. HIDE DEF x
<1>6. IsFiniteSet(S)
  BY <1>3, FS_AddElement
<1>7. S \in SUBSET Buys /\ BuysOK(book, S)
  BY <1>3, <1>4, <1>5, <1>6 DEF BuysOK, Orders
<1>. HIDE DEF S
<1>8. B.trade = book.trade /\ B.bot = book.bot
  BY <1>2 DEF BookOK, Books
<1>9. BookOK(B, HeldSells) /\ Fit(B, all)
  <2>. HIDE DEF all
  <2>. QED BY <1>2, <1>7, OtherBuys
<1>. HIDE DEF B
<1>. QED BY <1>1, <1>2, <1>8, <1>9, AnswersInv

-----------------------------------------------------------------------------
(* The engine.                                                             *)

(* Whatever the engine holds that has the quantity of its id.               *)
LEMMA OtherHeld ==
  ASSUME NEW B, NEW H, BookOK(B, H), NEW G, \A x \in B.sells, o \in G : o.id = x.id => o.qty = x.qty
  PROVE  BookOK(B, G)
BY DEF BookOK, SellsOK

(* What is left of the invariant to a step of the engine.                   *)
LEMMA ByEngine ==
  ASSUME IInv, session' = session, tab' = tab, last' \in Prices, intact' \in {"yes", "crossed", "no"},
         engine'.pc \in {"idle", "check", "close", "list", "enter", "halt"}, EngineOK', FiresOK',
         BookOK(book', HeldSells'), Fit(book', intact' # "no"),
         session = "finished" => ~book'.trade.open /\ ~book'.bot.active
  PROVE  IInv'
<1>1. Scalars' /\ TabOK'
  BY DEF IInv, Scalars, TabOK
<1>2. BookOK(book, HeldSells)' /\ Fit(book, intact # "no")'
  OBVIOUS
<1>. QED BY <1>1, <1>2 DEF IInv

(* The exits are over, and the entries begin.                              *)
LEMMA ToEntriesInv ==
  ASSUME IInv, engine' = ToEntries(engine.bar), session' = session, tab' = tab, last' = last,
         intact' \in {"yes", "crossed", "no"}, engine.pc \in {"check", "close"},
         BookOK(book', HeldSells), Fit(book', intact' # "no"),
         session = "finished" => ~book'.trade.open /\ ~book'.bot.active
  PROVE  IInv'
<1>1. engine'.pc = "list" /\ engine'.bar = engine.bar /\ engine'.orders = {} /\ engine'.entries = {}
  BY DEF ToEntries
<1>2. HeldSells' = {} /\ HeldBuys' = {}
  BY <1>1 DEF HeldSells, HeldBuys
<1>3. EngineOK' /\ FiresOK'
  BY <1>1, <1>2, FS_EmptySet DEF EngineOK, FiresOK, IInv
<1>4. BookOK(book', HeldSells')
  BY <1>2, OtherHeld
<1>. QED BY <1>1, <1>3, <1>4, ByEngine DEF IInv, Scalars

(* The engine is done, or its tick is given up.                            *)
LEMMA ToIdleInv ==
  ASSUME IInv, engine' = NotBusy, session' = session, tab' = tab, last' \in Prices,
         intact' \in {"yes", "crossed", "no"},
         BookOK(book', HeldSells), Fit(book', intact' # "no"),
         session = "finished" => ~book'.trade.open /\ ~book'.bot.active
  PROVE  IInv'
<1>1. engine'.pc = "idle"
  BY DEF NotBusy
<1>2. HeldSells' = {} /\ HeldBuys' = {}
  BY <1>1 DEF HeldSells, HeldBuys
<1>3. EngineOK' /\ FiresOK'
  BY <1>1, <1>2, FS_EmptySet DEF EngineOK, FiresOK
<1>4. BookOK(book', HeldSells')
  BY <1>2, OtherHeld
<1>. QED BY <1>1, <1>3, <1>4, ByEngine

LEMMA EngineReadsInv ==
  ASSUME IInv, EngineReads
  PROVE  IInv'
<1>1. /\ engine.pc = "idle" /\ session = "active" /\ book' = Aged(book, Older)
      /\ session' = session /\ tab' = tab /\ last' = last /\ intact' = intact
  BY DEF EngineReads
<1>2. PICK bar \in Bars(last) : \E own \in BarsOfTrade(book'.trade, bar) :
        engine' = IF book.trade.open
                  THEN [pc |-> "check", bar |-> bar, own |-> own, n |-> book.trade.n, stop |-> book.trade.stop,
                        orders |-> book.sells, pass |-> 0, fires |-> NoId, entries |-> {}]
                  ELSE ToEntries(bar)
  BY DEF EngineReads
<1>3. PICK own : engine' = IF book.trade.open
                  THEN [pc |-> "check", bar |-> bar, own |-> own, n |-> book.trade.n, stop |-> book.trade.stop,
                        orders |-> book.sells, pass |-> 0, fires |-> NoId, entries |-> {}]
                  ELSE ToEntries(bar)
  BY <1>2
<1>4. bar.c \in Prices
  <2>1. PICK c \in Prices : bar \in {Bar(last, c, lo, hi) : lo \in 1..Min({last, c}), hi \in Max({last, c})..Top}
    BY DEF Bars
  <2>2. PICK lo, hi : bar = Bar(last, c, lo, hi)
    BY <2>1
  <2>. QED BY <2>2 DEF Bar
<1>5. BookOK(book, HeldSells) /\ Fit(book, intact # "no")
  BY DEF IInv
<1>6. /\ BookOK(book', HeldSells) /\ Fit(book', intact' # "no")
      /\ book'.sells = book.sells
  BY <1>1, <1>5, AgedFacts
<1>7. CASE book.trade.open
  <2>1. engine' = [pc |-> "check", bar |-> bar, own |-> own, n |-> book.trade.n, stop |-> book.trade.stop,
                   orders |-> book.sells, pass |-> 0, fires |-> NoId, entries |-> {}]
    BY <1>3, <1>7
  <2>2. HeldSells' = book.sells /\ HeldBuys' = {} /\ engine'.pc = "check" /\ engine'.bar = bar
        /\ engine'.entries = {} /\ engine'.orders = book.sells
    BY <2>1 DEF HeldSells, HeldBuys
  <2>3. book.sells \subseteq Sells /\ IsFiniteSet(book.sells)
    BY <1>5 DEF BookOK, Books, SellsOK, Orders
  <2>4. EngineOK' /\ FiresOK'
    BY <1>4, <2>1, <2>2, <2>3, FS_EmptySet DEF EngineOK, FiresOK
  <2>5. \A x \in book'.sells, o \in HeldSells' : o.id = x.id => o.qty = x.qty
    BY <1>5, <1>6, <2>2 DEF BookOK, SellsOK, Orders
  <2>6. BookOK(book', HeldSells')
    BY <1>6, <2>5, OtherHeld
  <2>. QED BY <1>1, <1>6, <2>2, <2>4, <2>6, ByEngine DEF IInv, Scalars
<1>8. CASE ~book.trade.open
  <2>1. engine' = ToEntries(bar)
    BY <1>3, <1>8
  <2>2. HeldSells' = {} /\ HeldBuys' = {} /\ engine'.pc = "list" /\ engine'.bar = bar
        /\ engine'.entries = {} /\ engine'.orders = {}
    BY <2>1 DEF HeldSells, HeldBuys, ToEntries
  <2>3. EngineOK' /\ FiresOK'
    BY <1>4, <2>2, FS_EmptySet DEF EngineOK, FiresOK
  <2>4. BookOK(book', HeldSells')
    BY <1>6, <2>2, OtherHeld
  <2>. QED BY <1>1, <1>6, <2>2, <2>3, <2>4, ByEngine DEF IInv, Scalars
<1>. QED BY <1>7, <1>8

LEMMA EngineChecksInv ==
  ASSUME IInv, EngineChecks
  PROVE  IInv'
<1>1. /\ engine.pc = "check" /\ book' = book /\ intact' = intact
      /\ session' = session /\ tab' = tab /\ last' = last
  BY DEF EngineChecks, At, Quietly, EngineGoes
<1>2. BookOK(book, HeldSells) /\ Fit(book, intact # "no") /\ EngineOK
  BY DEF IInv
<1>. DEFINE firing(want, id, price) == [seen |-> Seen, want |-> want, id |-> id, price |-> price]
<1>3. \/ engine' = ToEntries(engine.bar)
      \/ engine' = [engine EXCEPT !.pc = "close", !.fires = firing(0, NoId, engine.stop)]
      \/ \E o \in engine.orders : engine' = [engine EXCEPT !.pc = "close", !.fires = firing(o.qty, o.id, o.price)]
  BY DEF EngineChecks, EngineGoes, NoMoreExits, Closest, Touched
<1>4. CASE engine' = ToEntries(engine.bar)
  BY <1>1, <1>2, <1>4, ToEntriesInv DEF IInv, Scalars
<1>5. ASSUME NEW want, NEW id, NEW price,
             engine' = [engine EXCEPT !.pc = "close",
                          !.fires = firing(want, id, price)],
             \/ id = NoId /\ want = 0
             \/ \E o \in engine.orders : o.id = id /\ o.qty = want /\ o.price = price
      PROVE  IInv'
  <2>1. engine = [pc |-> engine.pc, bar |-> engine.bar, own |-> engine.own, n |-> engine.n,
                 stop |-> engine.stop, orders |-> engine.orders, pass |-> engine.pass,
                 fires |-> engine.fires, entries |-> engine.entries]
    BY <1>1, <1>2 DEF EngineOK
  <2>2. engine' = [pc |-> "close", bar |-> engine.bar, own |-> engine.own, n |-> engine.n,
                 stop |-> engine.stop, orders |-> engine.orders, pass |-> engine.pass,
                 fires |-> [seen |-> Seen, want |-> want, id |-> id, price |-> price],
                 entries |-> engine.entries]
    BY <1>5, <2>1
  <2>3. /\ engine'.pc = "close" /\ engine'.bar = engine.bar /\ engine'.orders = engine.orders
        /\ engine'.entries = engine.entries /\ engine'.fires.id = id /\ engine'.fires.want = want
        /\ engine'.fires.price = price
    BY <2>2
  <2>4. HeldSells = engine.orders /\ HeldBuys = {} /\ HeldSells' = HeldSells /\ HeldBuys' = {}
    BY <1>1, <2>3 DEF HeldSells, HeldBuys
  <2>5. FiresOK'
    BY <1>5, <2>3, <2>4 DEF FiresOK
  <2>6. EngineOK'
    BY <1>1, <1>2, <2>2, <2>3, <2>4 DEF EngineOK
  <2>. QED BY <1>1, <1>2, <2>3, <2>4, <2>5, <2>6, ByEngine DEF IInv, Scalars
<1>6. CASE engine' = [engine EXCEPT !.pc = "close", !.fires = firing(0, NoId, engine.stop)]
  <2>. HIDE DEF firing
  <2>. QED BY <1>5, <1>6
<1>7. ASSUME NEW o \in engine.orders,
             engine' = [engine EXCEPT !.pc = "close", !.fires = firing(o.qty, o.id, o.price)]
      PROVE  IInv'
  <2>. HIDE DEF firing
  <2>. QED BY <1>5, <1>7
<1>. HIDE DEF firing
<1>. QED BY <1>3, <1>4, <1>6, <1>7

LEMMA EngineClosesInv ==
  ASSUME IInv, EngineCloses
  PROVE  IInv'
<1>. DEFINE f == engine.fires
            done == ApplyClose(book, f.seen, f.want, f.id, f.price)
            rest == {o \in engine.orders : o.id # f.id}
            all == intact # "no"
<1>1. /\ engine.pc = "close" /\ session' = session /\ tab' = tab /\ last' = last
      /\ IF done = {} THEN engine' = ToEntries(engine.bar) /\ book' = book /\ intact' = intact
         ELSE /\ engine' = (IF f.id = NoId THEN ToEntries(engine.bar)
                            ELSE [engine EXCEPT !.pc = "check", !.pass = @ + 1, !.fires = NoId, !.orders = rest])
              /\ book' \in done
              /\ intact' = IF intact = "yes" /\ f.id # NoId /\ f.price <= book.trade.stop THEN "crossed" ELSE intact
  BY DEF EngineCloses, At, EngineGoes, NoMoreExits
<1>2. /\ BookOK(book, HeldSells) /\ Fit(book, all) /\ EngineOK /\ FiresOK /\ all \in BOOLEAN
      /\ intact \in {"yes", "crossed", "no"} /\ last \in Prices
      /\ session = "finished" => ~book.trade.open /\ ~book.bot.active
  BY DEF IInv, Scalars
<1>3. intact' \in {"yes", "crossed", "no"} /\ (intact' # "no") = all
  BY <1>1, <1>2
<1>4. CASE done = {}
  BY <1>1, <1>2, <1>3, <1>4, ToEntriesInv
<1>5. CASE done # {}
  <2>1. /\ f.want \in Nat
        /\ f.id = NoId \/ \A x \in book.sells : x.id = f.id => x.qty = f.want
    <3>1. CASE f.id = NoId /\ f.want = 0
      BY <3>1
    <3>2. ASSUME NEW o \in HeldSells, o.id = f.id, o.qty = f.want
          PROVE  f.want \in Nat /\ \A x \in book.sells : x.id = f.id => x.qty = f.want
      <4>1. o \in Sells
        BY <1>2 DEF EngineOK
      <4>2. f.want \in Nat
        BY <3>2, <4>1 DEF Sells
      <4>3. \A x \in book.sells : o.id = x.id => o.qty = x.qty
        BY <1>2 DEF BookOK, SellsOK
      <4>. QED BY <3>2, <4>2, <4>3
    <3>. QED BY <1>1, <1>2, <3>1, <3>2 DEF FiresOK
  <2>. HIDE DEF all
  <2>2. book' \in ApplyClose(book, f.seen, f.want, f.id, f.price)
    BY <1>1, <1>5
  <2>. HIDE DEF f, done
  <2>3. BookOK(book', HeldSells) /\ Fit(book', all) /\ book.trade.open
    BY <1>2, <2>1, <2>2, ApplyCloseFacts
  <2>4. session # "finished"
    BY <1>2, <2>3
  <2>5. CASE f.id = NoId
    BY <1>1, <1>3, <1>5, <2>3, <2>4, <2>5, ToEntriesInv
  <2>6. CASE f.id # NoId
    <3>1. engine' = [engine EXCEPT !.pc = "check", !.pass = @ + 1, !.fires = NoId, !.orders = rest]
      BY <1>1, <1>5, <2>6
    <3>. HIDE DEF rest
    <3>2. engine = [pc |-> engine.pc, bar |-> engine.bar, own |-> engine.own, n |-> engine.n,
                    stop |-> engine.stop, orders |-> engine.orders, pass |-> engine.pass,
                    fires |-> engine.fires, entries |-> engine.entries]
      BY <1>1, <1>2 DEF EngineOK
    <3>3. engine' = [pc |-> "check", bar |-> engine.bar, own |-> engine.own, n |-> engine.n,
                     stop |-> engine.stop, orders |-> rest, pass |-> engine.pass + 1,
                     fires |-> NoId, entries |-> engine.entries]
      BY <3>1, <3>2
    <3>4. /\ engine'.pc = "check" /\ engine'.bar = engine.bar /\ engine'.orders = rest
          /\ engine'.entries = engine.entries
      BY <3>3
    <3>5. HeldSells = engine.orders /\ HeldBuys = {} /\ HeldSells' = rest /\ HeldBuys' = {}
      BY <1>1, <3>4 DEF HeldSells, HeldBuys
    <3>6. rest \subseteq HeldSells
      BY <3>5 DEF rest
    <3>7. rest \subseteq Sells /\ IsFiniteSet(rest)
      BY <1>2, <3>6, FS_Subset DEF EngineOK
    <3>8. EngineOK' /\ FiresOK'
      BY <1>1, <1>2, <3>3, <3>4, <3>5, <3>7, FS_EmptySet DEF EngineOK, FiresOK
    <3>9. BookOK(book', HeldSells')
      <4>1. \A x \in book'.sells, o \in HeldSells' : o.id = x.id => o.qty = x.qty
        BY <2>3, <3>5, <3>6 DEF BookOK, SellsOK
      <4>. QED BY <2>3, <4>1, OtherHeld
    <3>. QED BY <1>1, <1>2, <1>3, <2>3, <2>4, <3>4, <3>8, <3>9, ByEngine
  <2>. QED BY <2>5, <2>6
<1>. QED BY <1>4, <1>5

(* The engine goes on among the limits to enter.                           *)
LEMMA ToEnter ==
  ASSUME IInv, NEW o, NEW c \in Prices, NEW bot, NEW S \in SUBSET Buys, IsFiniteSet(S), NEW pc \in {"enter", "halt"},
         engine' = [pc |-> pc, o |-> o, c |-> c, orders |-> {}, bot |-> bot, entries |-> S],
         session' = session, tab' = tab, last' = last, intact' = intact,
         BookOK(book', HeldSells), Fit(book', intact # "no"),
         session = "finished" => ~book'.trade.open /\ ~book'.bot.active
  PROVE  IInv'
<1>1. /\ engine'.pc = pc /\ engine'.o = o /\ engine'.c = c /\ engine'.orders = {}
      /\ engine'.bot = bot /\ engine'.entries = S
  OBVIOUS
<1>2. HeldSells' = {} /\ HeldBuys' = S
  BY <1>1 DEF HeldSells, HeldBuys
<1>3. EngineOK' /\ FiresOK'
  BY <1>1, <1>2, FS_EmptySet DEF EngineOK, FiresOK
<1>4. BookOK(book', HeldSells')
  BY <1>2, OtherHeld
<1>. QED BY <1>1, <1>3, <1>4, ByEngine DEF IInv, Scalars

LEMMA EngineListsInv ==
  ASSUME IInv, EngineLists
  PROVE  IInv'
<1>. DEFINE S == Touched(engine.bar, {o \in book.buys : o.age = 2})
<1>1. /\ engine.pc = "list" /\ book' = book /\ intact' = intact
      /\ session' = session /\ tab' = tab /\ last' = last
      /\ engine' = [pc |-> "enter", o |-> engine.bar.o, c |-> engine.bar.c, orders |-> {}, bot |-> 0, entries |-> S]
  BY DEF EngineLists, At, Quietly, EngineGoes
<1>2. /\ BookOK(book, HeldSells) /\ Fit(book, intact # "no") /\ EngineOK
      /\ session = "finished" => ~book.trade.open /\ ~book.bot.active
  BY DEF IInv
<1>3. S \in SUBSET book.buys
  BY DEF Touched
<1>. HIDE DEF S
<1>4. S \in SUBSET Buys /\ IsFiniteSet(S)
  BY <1>2, <1>3, FS_Subset DEF BookOK, Books, BuysOK, Orders
<1>5. engine.bar.c \in Prices
  BY <1>1, <1>2 DEF EngineOK
<1>. QED BY <1>1, <1>2, <1>4, <1>5, ToEnter

LEMMA EngineEntersInv ==
  ASSUME IInv, engine.pc = "enter", NEW o \in engine.entries, EngineEnters(o)
  PROVE  IInv'
<1>. DEFINE S == engine.entries \ {o}
            R == book.buys \ {o}
            B == [book EXCEPT !.buys = R]
            C == Enter(B, o.price, o.stop, o.after, o.bot, 1)
            all == intact # "no"
<1>1. /\ BookOK(book, HeldSells) /\ Fit(book, all) /\ EngineOK /\ all \in BOOLEAN
      /\ session = "finished" => ~book.trade.open /\ ~book.bot.active
  BY DEF IInv
<1>2. /\ engine.orders = {} /\ engine.entries \subseteq Buys /\ IsFiniteSet(engine.entries) /\ engine.c \in Prices
      /\ engine = [pc |-> "enter", o |-> engine.o, c |-> engine.c, orders |-> {}, bot |-> engine.bot,
                   entries |-> engine.entries]
  <2>1. HeldSells = {} /\ HeldBuys = engine.entries
    BY DEF HeldSells, HeldBuys
  <2>. QED BY <1>1, <2>1 DEF EngineOK
<1>3. S \in SUBSET Buys /\ IsFiniteSet(S)
  BY <1>2, FS_Subset
<1>4. /\ Passed(o) = [pc |-> "enter", o |-> engine.o, c |-> engine.c, orders |-> {},
                       bot |-> engine.bot, entries |-> S]
      /\ engine' = [Passed(o) EXCEPT !.pc = "halt", !.bot = o.bot] =>
           engine' = [pc |-> "halt", o |-> engine.o, c |-> engine.c, orders |-> {}, bot |-> o.bot, entries |-> S]
  <2>. DEFINE x == Passed(o)
  <2>1. x = [pc |-> "enter", o |-> engine.o, c |-> engine.c, orders |-> {},
             bot |-> engine.bot, entries |-> S]
    BY <1>2 DEF Passed
  <2>. HIDE DEF S, x
  <2>2. ASSUME engine' = [x EXCEPT !.pc = "halt", !.bot = o.bot]
        PROVE  engine' = [pc |-> "halt", o |-> engine.o, c |-> engine.c, orders |-> {}, bot |-> o.bot, entries |-> S]
    BY <2>1, <2>2
  <2>. QED BY <2>1, <2>2 DEF x
<1>5. session' = session /\ tab' = tab /\ last' = last /\ intact' = intact
  BY DEF EngineEnters, EngineGoes, Quietly
<1>6. \/ /\ session = "active" /\ o \in book.buys /\ LongIsFree(book, o.bot)
         /\ book' = C /\ engine' = Passed(o)
      \/ /\ session = "active" /\ book' = B
         /\ engine' = Passed(o) \/ engine' = [Passed(o) EXCEPT !.pc = "halt", !.bot = o.bot]
      \/ book' = book /\ engine' = Passed(o)
  BY DEF EngineEnters, EngineGoes, Quietly
<1>. HIDE DEF S, all
<1>7. BookOK(B, HeldSells) /\ Fit(B, all)
  BY <1>1, FewerBuys
<1>8. CASE book' = book /\ engine' = Passed(o)
  <2>1. engine' = [pc |-> "enter", o |-> engine.o, c |-> engine.c, orders |-> {},
                   bot |-> engine.bot, entries |-> S]
    BY <1>4, <1>8
  <2>2. BookOK(book', HeldSells) /\ Fit(book', intact # "no")
        /\ (session = "finished" => ~book'.trade.open /\ ~book'.bot.active)
    BY <1>1, <1>8 DEF all
  <2>. QED BY <1>2, <1>3, <1>5, <2>1, <2>2, ToEnter
<1>9. CASE /\ session = "active" /\ book' = B
           /\ engine' = Passed(o) \/ engine' = [Passed(o) EXCEPT !.pc = "halt", !.bot = o.bot]
  <2>. HIDE DEF B
  <2>. QED BY <1>2, <1>3, <1>4, <1>5, <1>7, <1>9, ToEnter DEF all
<1>10. CASE session = "active" /\ o \in book.buys /\ LongIsFree(book, o.bot) /\ book' = C /\ engine' = Passed(o)
  <2>1. o.price \in Prices /\ o.stop \in 0..Top /\ o.after \in 0..Top /\ o.bot \in Nat /\ 1 \in 0..2
    BY <1>2 DEF Buys
  <2>2. B.bot = book.bot
    BY <1>1 DEF BookOK, Books
  <2>3. LongIsFree(B, o.bot) /\ (o.bot # 0 => Working(B, o.bot))
    BY <1>1, <1>10, <2>2 DEF LongIsFree, Working, BookOK, BuysOK
  <2>. HIDE DEF B
  <2>4. BookOK(C, HeldSells) /\ Fit(C, all)
    BY <1>1, <1>7, <2>1, <2>3, EnterFacts
  <2>. HIDE DEF C
  <2>5. engine' = [pc |-> "enter", o |-> engine.o, c |-> engine.c, orders |-> {},
                   bot |-> engine.bot, entries |-> S]
    BY <1>4, <1>10
  <2>6. BookOK(book', HeldSells) /\ Fit(book', intact # "no") /\ session # "finished"
    BY <1>10, <2>4 DEF all
  <2>. QED BY <1>2, <1>3, <1>5, <2>5, <2>6, ToEnter
<1>. QED BY <1>6, <1>8, <1>9, <1>10

LEMMA EngineHaltsInv ==
  ASSUME IInv, EngineHalts
  PROVE  IInv'
<1>. DEFINE b == engine.bot
            B == HaltBot(book, b)
            all == intact # "no"
<1>1. /\ engine.pc = "halt" /\ book' = B /\ intact' = intact
      /\ session' = session /\ tab' = tab /\ last' = last
      /\ engine' = [engine EXCEPT !.pc = "enter", !.bot = 0]
  BY DEF EngineHalts, At, EngineGoes
<1>2. /\ BookOK(book, HeldSells) /\ Fit(book, all) /\ EngineOK /\ all \in BOOLEAN
      /\ session = "finished" => ~book.trade.open /\ ~book.bot.active
  BY DEF IInv
<1>3. /\ engine.orders = {} /\ engine.entries \subseteq Buys /\ IsFiniteSet(engine.entries) /\ engine.c \in Prices
      /\ engine = [pc |-> "halt", o |-> engine.o, c |-> engine.c, orders |-> {}, bot |-> engine.bot,
                   entries |-> engine.entries]
  <2>1. HeldSells = {} /\ HeldBuys = engine.entries
    BY <1>1 DEF HeldSells, HeldBuys
  <2>. QED BY <1>1, <1>2, <2>1 DEF EngineOK
<1>4. engine' = [pc |-> "enter", o |-> engine.o, c |-> engine.c, orders |-> {}, bot |-> 0,
                 entries |-> engine.entries]
  BY <1>1, <1>3
<1>. HIDE DEF all, b
<1>5. /\ BookOK(B, HeldSells) /\ Fit(B, all) /\ B.trade = book.trade
      /\ B.bot.active => book.bot.active
  BY <1>2, HaltFacts
<1>. HIDE DEF B
<1>6. /\ BookOK(book', HeldSells) /\ Fit(book', intact # "no")
      /\ session = "finished" => ~book'.trade.open /\ ~book'.bot.active
  BY <1>1, <1>2, <1>5 DEF all
<1>. QED BY <1>1, <1>3, <1>4, <1>6, ToEnter

LEMMA EngineEndsInv ==
  ASSUME IInv, EngineEnds
  PROVE  IInv'
<1>1. /\ engine.pc = "enter" /\ book' = book /\ intact' = intact /\ engine' = NotBusy
      /\ session' = session /\ tab' = tab /\ last' = engine.c
  BY DEF EngineEnds, At
<1>2. /\ BookOK(book, HeldSells) /\ Fit(book, intact # "no") /\ EngineOK
      /\ intact \in {"yes", "crossed", "no"}
      /\ session = "finished" => ~book.trade.open /\ ~book.bot.active
  BY DEF IInv, Scalars
<1>3. engine.c \in Prices
  BY <1>1, <1>2 DEF EngineOK
<1>. QED BY <1>1, <1>2, <1>3, ToIdleInv

LEMMA EngineFailsInv ==
  ASSUME IInv, EngineFails
  PROVE  IInv'
<1>. DEFINE A == Aged(book, Again)
            all == intact # "no"
            now == intact' # "no"
<1>1. /\ engine' = NotBusy /\ session' = session /\ tab' = tab
      /\ \/ book' = A /\ last' = last
         \/ book' \in {A, Young(A)} /\ last' \in Prices
      /\ intact' = IF engine.pc = "halt" THEN "no" ELSE intact
  BY DEF EngineFails, At
<1>2. /\ BookOK(book, HeldSells) /\ Fit(book, all) /\ all \in BOOLEAN /\ now \in BOOLEAN
      /\ intact \in {"yes", "crossed", "no"} /\ last \in Prices
      /\ session = "finished" => ~book.trade.open /\ ~book.bot.active
  BY DEF IInv, Scalars
<1>3. intact' \in {"yes", "crossed", "no"} /\ last' \in Prices
  BY <1>1, <1>2
<1>4. Fit(book, now)
  <2>1. CASE engine.pc = "halt"
    <3>1. now = FALSE
      BY <1>1, <2>1
    <3>. HIDE DEF all, now
    <3>. QED BY <1>2, <3>1, FitLess
  <2>2. CASE engine.pc # "halt"
    BY <1>1, <1>2, <2>2
  <2>. QED BY <2>1, <2>2
<1>. HIDE DEF now, all
<1>5. A \in {Aged(book, Older), Aged(book, Again)}
  OBVIOUS
<1>. HIDE DEF A
<1>6. BookOK(A, HeldSells) /\ Fit(A, now) /\ A.bot = book.bot /\ A.trade.open = book.trade.open
  BY <1>2, <1>4, <1>5, AgedFacts
<1>7. /\ BookOK(Young(A), HeldSells) /\ Fit(Young(A), now)
      /\ Young(A).bot = book.bot /\ Young(A).trade.open = book.trade.open
  BY <1>2, <1>6, YoungFacts
<1>8. /\ BookOK(book', HeldSells) /\ Fit(book', intact' # "no")
      /\ session = "finished" => ~book'.trade.open /\ ~book'.bot.active
  <2>1. book' = A \/ book' = Young(A)
    BY <1>1
  <2>. QED BY <1>2, <1>6, <1>7, <2>1 DEF now
<1>. QED BY <1>1, <1>3, <1>8, ToIdleInv

-----------------------------------------------------------------------------
(* Every behaviour.                                                        *)

LEMMA InitInv == Init => IInv
<1>. SUFFICES ASSUME Init PROVE IInv
  OBVIOUS
<1>1. /\ session = "active" /\ intact = "yes" /\ last \in Prices /\ tab = [t \in Tabs |-> Idle]
      /\ engine = [pc |-> "idle"]
      /\ book = [trade |-> NoTrade(0), buys |-> {}, sells |-> {}, bot |-> NoBot]
  BY DEF Init, NotBusy
<1>2. /\ book.trade = NoTrade(0) /\ book.buys = {} /\ book.sells = {} /\ book.bot = NoBot
      /\ engine.pc = "idle"
  BY <1>1
<1>3. HeldSells = {} /\ HeldBuys = {}
  BY <1>2 DEF HeldSells, HeldBuys
<1>4. Scalars /\ EngineOK /\ FiresOK /\ TabOK
  BY <1>1, <1>2, <1>3, FS_EmptySet DEF Scalars, EngineOK, FiresOK, TabOK
<1>5. Top \in Nat
  BY GridIsSane
<1>6. /\ NoTrade(0) \in Trades /\ ~NoTrade(0).open /\ NoTrade(0).qty = 0 /\ NoTrade(0).closed = 0
      /\ NoBot \in Bots /\ ~NoBot.active
  BY <1>5 DEF NoTrade, Trades, NoBot, Bots
<1>7. book \in Books
  BY <1>1, <1>6 DEF Books
<1>8. TradeOK(book.trade) /\ BotOK(book) /\ BuysOK(book, book.buys) /\ SellsOK(book, book.sells, HeldSells)
  BY <1>2, <1>6, FS_EmptySet DEF TradeOK, BotOK, BuysOK, SellsOK, Orders
<1>9. Fit(book, intact # "no")
  BY <1>2, <1>6 DEF Fit
<1>. QED BY <1>1, <1>4, <1>7, <1>8, <1>9 DEF IInv, BookOK

LEMMA PersonInv ==
  ASSUME IInv, Person
  PROVE  IInv'
<1>1. ASSUME NEW s \in Stops, ModifyTrade(s) PROVE IInv'
  BY <1>1, ModifyTradeInv
<1>2. ASSUME NEW s \in Stops, NEW p \in Asked, BuyAtMarket(p, s) PROVE IInv'
  BY <1>2, BuyAtMarketInv
<1>3. ASSUME NEW p \in Prices, NEW f \in Follows, StartBot(p, f) PROVE IInv'
  BY <1>3, StartBotInv
<1>4. CASE StopBot
  BY <1>4, StopBotInv
<1>5. CASE Finish
  BY <1>5, FinishInv
<1>6. ASSUME NEW o \in book.buys, CancelBuy(o) PROVE IInv'
  BY <1>6, CancelBuyInv
<1>7. ASSUME NEW o \in book.buys, NEW p \in Asked, MoveBuy(o, p) PROVE IInv'
  BY <1>7, MoveBuyInv
<1>8. ASSUME NEW o \in book.sells, CancelSell(o) PROVE IInv'
  BY <1>8, CancelSellInv
<1>9. ASSUME NEW o \in book.sells, NEW p \in Asked, MoveSell(o, p) PROVE IInv'
  BY <1>9, MoveSellInv
<1>10. ASSUME NEW P \in (SUBSET Asked) \ {{}}, NEW f \in Follows, CloseGrid(P, f) PROVE IInv'
  BY <1>10, CloseGridInv
<1>. QED BY <1>1, <1>2, <1>3, <1>4, <1>5, <1>6, <1>7, <1>8, <1>9, <1>10 DEF Person

LEMMA RequestsInv ==
  ASSUME IInv, NEW t \in Tabs, Requests(t)
  PROVE  IInv'
<1>1. CASE \/ \E want \in {0, 1} : ReadToClose(t, want)
           \/ \E p \in Asked : ReadToSell(t, p)
           \/ \E p \in Asked, s \in Stops : \E a \in {0, p - 1} : ReadToBuy(t, p, s, a)
  BY <1>1, ReadsInv
<1>2. CASE CloseTrade(t)
  BY <1>2, CloseTradeInv
<1>3. CASE CreateCloseOrder(t)
  BY <1>3, CreateCloseOrderInv
<1>4. CASE CreateEntryOrders(t)
  BY <1>4, CreateEntryOrdersInv
<1>. QED BY <1>1, <1>2, <1>3, <1>4 DEF Requests

LEMMA EngineInv ==
  ASSUME IInv, Engine
  PROVE  IInv'
<1>1. ASSUME At("enter"), NEW o \in engine.entries, EngineEnters(o) PROVE IInv'
  BY <1>1, EngineEntersInv DEF At
<1>. QED BY <1>1, EngineReadsInv, EngineChecksInv, EngineClosesInv, EngineListsInv, EngineHaltsInv,
            EngineEndsInv, EngineFailsInv DEF Engine

LEMMA StutterInv ==
  ASSUME IInv, UNCHANGED vars
  PROVE  IInv'
<1>1. /\ session' = session /\ book' = book /\ tab' = tab /\ engine' = engine /\ last' = last
      /\ intact' = intact
  BY DEF vars
<1>2. HeldSells' = HeldSells /\ HeldBuys' = HeldBuys
  BY <1>1 DEF HeldSells, HeldBuys
<1>. QED BY <1>1, <1>2 DEF IInv, Scalars, EngineOK, FiresOK, TabOK

(***************************************************************************)
(* What every step keeps: the book is sound for what the engine holds of   *)
(* it and for what the tabs have read of it, whatever each of them was     *)
(* overtaken by, and the sells of a working bot fit its position.          *)
(***************************************************************************)
THEOREM Invariance == Spec => []IInv
<1>1. IInv /\ [Next]_vars => IInv'
  BY PersonInv, RequestsInv, EngineInv, StutterInv DEF Next
<1>. QED BY InitInv, <1>1, PTL DEF Spec

(* The book has its type: a position never closes more than it holds, and  *)
(* no two limits share an id, though ids are given again.                  *)
THEOREM TypeCorrect == Spec => []TypeOK
<1>1. IInv => TypeOK
  BY DEF IInv, Scalars, BookOK, Books, TradeOK, BuysOK, SellsOK, Orders, TypeOK
<1>. QED BY <1>1, Invariance, PTL

(* A position that is closed has nothing left inside it, though it was     *)
(* bought into between the read of the one who closes it and the lock      *)
(* (backtest.service.ts:1379).                                             *)
THEOREM ClosedWhole == Spec => []ClosedIsWhole
<1>1. IInv => ClosedIsWhole
  BY DEF IInv, BookOK, TradeOK, ClosedIsWhole
<1>. QED BY <1>1, Invariance, PTL

(* The long is the working bot's own, a bot that does not work has no buys *)
(* left, and a finished session has neither a position nor a bot           *)
(* (backtest.service.ts:1171, 1083).                                       *)
THEOREM OneOwner == Spec => []LongHasOneOwner
<1>1. IInv => LongHasOneOwner
  BY DEF IInv, BookOK, BotOK, BuysOK, LongHasOneOwner
<1>. QED BY <1>1, Invariance, PTL

(* The sells of a working bot are all of its position while nobody has     *)
(* touched them, and never more than it (backtest.service.ts:1459).        *)
THEOREM SellsWithinPosition == Spec => []SellsFit
<1>1. IInv => SellsFit
  BY DEF IInv, Fit, Own, SellsFit, SellsOf
<1>. QED BY <1>1, Invariance, PTL

-----------------------------------------------------------------------------
(* The grid of a working bot: U are its buys, S its sells, and low is the   *)
(* stop of the position, below which a level may be missing.               *)
Placed(U, S) ==
  /\ \A o \in U : o.price \in BotPrices
  /\ \A x \in S : x.from \in BotPrices /\ x.price = x.from + Step
Once(U, S) ==
  /\ \A o, x \in U : o.price = x.price => o = x
  /\ \A o, x \in S : o.from = x.from => o = x
  /\ \A o \in U, x \in S : o.price # x.from
Covered(U, S, low) ==
  \A p \in BotPrices : (\E o \in U : o.price = p) \/ (\E x \in S : x.from = p) \/ p <= low
Grid(U, S, low) == Placed(U, S) /\ Once(U, S) /\ Covered(U, S, low)

OwnBuys(B) == {o \in B.buys : o.bot = B.bot.n}
Low(t) == IF t.open THEN t.stop ELSE 0
GridOf(B) == Grid(OwnBuys(B), Own(B), Low(B.trade))

(* A bot is to be halted as soon as a level of it is lost; and what the     *)
(* engine holds of its sells has the price they have.                      *)
LevelLost == engine.pc = "halt" /\ engine.bot = book.bot.n
AsHeld == \A o \in HeldSells, x \in Own(book) : o.id = x.id => o.price = x.price
GInv == book.bot.active /\ intact = "yes" => AsHeld /\ (LevelLost \/ GridOf(book))

(* Division.                                                               *)
LEMMA DivisionFacts ==
  ASSUME NEW b \in Nat \ {0}, NEW j \in Nat, NEW a \in Int, j * b <= a, a < j * b + b
  PROVE  a \div b = j
<1>. DEFINE q == a \div b
<1>1. q \in Int /\ b * q <= a /\ a < b * q + b
  OBVIOUS
<1>. HIDE DEF q
<1>2. ASSUME NEW m \in Int, NEW n \in Int, m < n PROVE b * m + b <= b * n
  <2>1. n - m - 1 \in Nat
    BY <1>2
  <2>2. b * (n - m - 1) \in Nat
    BY <2>1
  <2>3. b * (n - m - 1) = b * n - b * m - b
    OBVIOUS
  <2>. QED BY <2>2, <2>3
<1>3. ~(q < j)
  BY <1>1, <1>2
<1>4. ~(j < q)
  BY <1>1, <1>2
<1>. QED BY <1>1, <1>3, <1>4 DEF q

(* Two prices of the grid are not of one level.                            *)
LEMMA LevelIsOne ==
  ASSUME NEW p \in BotPrices, NEW q \in BotPrices, LevelOf(p) = LevelOf(q)
  PROVE  p = q
<1>1. Lower \in Nat \ {0} /\ Step \in Nat \ {0} /\ Levels \in Nat \ {0}
  BY GridIsSane
<1>2. ASSUME NEW j \in 0..Levels - 1 PROVE LevelOf(Lower + j * Step) = j
  <2>. DEFINE price == Lower + j * Step
              a == 2 * (price - Lower) + Step
              b == 2 * Step
              level == a \div b
  <2>1. j \in Nat /\ j * Step \in Nat /\ b \in Nat \ {0}
    BY <1>1
  <2>2. a = 2 * (j * Step) + Step /\ j * b = 2 * (j * Step)
    BY <1>1, <2>1
  <2>3. a \in Int /\ j * b <= a /\ a < j * b + b
    BY <1>1, <2>1, <2>2
  <2>. HIDE DEF price, a, b
  <2>4. level = j
    BY <2>1, <2>3, DivisionFacts
  <2>5. LevelOf(price) = (IF level < 0 THEN 0 ELSE IF level >= Levels THEN Levels - 1 ELSE level)
    BY DEF LevelOf, a, b
  <2>. HIDE DEF level
  <2>. QED BY <1>1, <2>1, <2>4, <2>5 DEF price
<1>3. PICK i \in 0..Levels - 1 : p = Lower + i * Step
  BY DEF BotPrices
<1>4. PICK k \in 0..Levels - 1 : q = Lower + k * Step
  BY DEF BotPrices
<1>5. i = k
  BY <1>2, <1>3, <1>4
<1>. QED BY <1>3, <1>4, <1>5

(* The sells of a bot, once one of its limits is bought.                   *)
LEMMA GridBought ==
  ASSUME NEW U, NEW S, NEW low \in Nat, NEW up \in Nat, low <= up, Grid(U, S, low),
         NEW o \in U, NEW x, x.from = o.price, x.price = o.price + Step
  PROVE  Grid(U \ {o}, S \cup {x}, up)
<1>1. Placed(U \ {o}, S \cup {x})
  BY DEF Grid, Placed
<1>2. Once(U \ {o}, S \cup {x})
  BY DEF Grid, Once
<1>3. BotPrices \subseteq Nat
  BY GridInMarket, GridIsSane DEF Prices
<1>4. Covered(U \ {o}, S \cup {x}, up)
  BY <1>3 DEF Grid, Covered
<1>. QED BY <1>1, <1>2, <1>4 DEF Grid

(* A level is sold, and waits again to be bought, or not if it is below     *)
(* the stop; so may others be, if the stop goes up.                        *)
LEMMA GridSold ==
  ASSUME NEW U, NEW S, NEW low \in Nat, NEW up \in Nat, low <= up, Grid(U, S, low),
         NEW x \in S, NEW V \in SUBSET U, \A o \in U : o \in V \/ o.price <= up
  PROVE  /\ x.from <= up => Grid(V, S \ {x}, up)
         /\ \A y : y.price = x.from => Grid(V \cup {y}, S \ {x}, up)
<1>1. BotPrices \subseteq Nat
  BY GridInMarket, GridIsSane DEF Prices
<1>2. Placed(V, S \ {x}) /\ Once(V, S \ {x})
  BY DEF Grid, Placed, Once
<1>3. \A p \in BotPrices : \/ \E o \in V : o.price = p
                           \/ \E z \in S \ {x} : z.from = p
                           \/ p <= up \/ p = x.from
  BY <1>1 DEF Grid, Covered
<1>4. ASSUME x.from <= up PROVE Grid(V, S \ {x}, up)
  BY <1>2, <1>3, <1>4 DEF Grid, Covered
<1>5. ASSUME NEW y, y.price = x.from PROVE Grid(V \cup {y}, S \ {x}, up)
  <2>1. Placed(V \cup {y}, S \ {x})
    BY <1>2, <1>5 DEF Grid, Placed
  <2>2. Once(V \cup {y}, S \ {x})
    BY <1>2, <1>5 DEF Grid, Once
  <2>3. Covered(V \cup {y}, S \ {x}, up)
    BY <1>3, <1>5 DEF Covered
  <2>. QED BY <2>1, <2>2, <2>3 DEF Grid
<1>. QED BY <1>4, <1>5

(* The last level is sold above the stop: all below it wait to be bought.  *)
LEMMA GridEmptied ==
  ASSUME NEW U, NEW x, NEW low \in Nat, Grid(U, {x}, low), low < x.price, NEW T,
         \A y \in T : y.price \in BotPrices /\ \A o \in U : o.price # y.price,
         \A y, z \in T : y.price = z.price => y = z,
         \A p \in BotPrices : p < x.price => (\E o \in U : o.price = p) \/ \E y \in T : y.price = p
  PROVE  Grid(U \cup T, {}, 0)
<1>1. BotPrices \subseteq Nat /\ Step \in Nat \ {0}
  BY GridInMarket, GridIsSane DEF Prices
<1>2. x.from \in BotPrices /\ x.price = x.from + Step
  BY DEF Grid, Placed
<1>3. Placed(U \cup T, {})
  BY DEF Grid, Placed
<1>4. Once(U \cup T, {})
  BY DEF Grid, Once
<1>5. ASSUME NEW p \in BotPrices PROVE (\E o \in U : o.price = p) \/ p < x.price
  <2>1. (\E o \in U : o.price = p) \/ x.from = p \/ p <= low
    BY DEF Grid, Covered
  <2>2. \A q \in BotPrices : q \in Nat /\ q + Step \in Nat /\ q < q + Step
    BY <1>1
  <2>3. x.from < x.price
    BY <1>2, <2>2
  <2>. DEFINE exit == x.price
  <2>4. exit \in Nat /\ p \in Nat
    BY <1>2, <2>2
  <2>5. low < exit
    OBVIOUS
  <2>. HIDE DEF exit
  <2>6. p <= low => p < exit
    BY <2>4, <2>5
  <2>. QED BY <2>1, <2>3, <2>6 DEF exit
<1>6. Covered(U \cup T, {}, 0)
  BY <1>5 DEF Covered
<1>. QED BY <1>3, <1>4, <1>6 DEF Grid

(* Other orders of the same prices, and one for each.                      *)
LEMMA GridAged ==
  ASSUME NEW U, NEW S, NEW low, Grid(U, S, low), NEW g, \A o \in U : g[o].price = o.price
  PROVE  Grid({g[o] : o \in U}, S, low)
<1>1. Placed({g[o] : o \in U}, S)
  BY DEF Grid, Placed
<1>2. Once({g[o] : o \in U}, S)
  BY DEF Grid, Once
<1>3. Covered({g[o] : o \in U}, S, low)
  BY DEF Grid, Covered
<1>. QED BY <1>1, <1>2, <1>3 DEF Grid

(* The stop only ever goes up, and a position that is opened has one.      *)
LEMMA LowOfTightened ==
  ASSUME NEW B, NEW H, BookOK(B, H), NEW s \in 0..Top, NEW price
  PROVE  LET C == TightenStop(B, s, price) IN
         /\ Low(C.trade) \in Nat /\ Low(B.trade) <= Low(C.trade)
         /\ C = B \/ C.trade.stop = s
<1>. DEFINE C == TightenStop(B, s, price)
<1>1. B.trade.stop \in Nat
  BY GridIsSane DEF BookOK, Books, Trades
<1>2. CASE B.trade.open /\ s < price /\ s > B.trade.stop
  <2>1. C = [B EXCEPT !.trade.stop = s]
    BY <1>2 DEF TightenStop
  <2>. HIDE DEF C
  <2>2. C.trade.open = B.trade.open /\ C.trade.stop = s
    BY <2>1, StopAlone
  <2>. QED BY <1>1, <1>2, <2>2, GridIsSane DEF Low, C
<1>3. CASE ~(B.trade.open /\ s < price /\ s > B.trade.stop)
  BY <1>1, <1>3 DEF TightenStop, Low
<1>. QED BY <1>2, <1>3

LEMMA LowOfOpened ==
  ASSUME NEW B, B \in Books, NEW qty, NEW price, NEW stop \in 0..Top, NEW by, NEW age
  PROVE  LET C == Opened(B, qty, price, stop, by, age) IN
         Low(B.trade) \in Nat /\ Low(C.trade) \in Nat /\ Low(B.trade) <= Low(C.trade)
<1>. DEFINE C == Opened(B, qty, price, stop, by, age)
<1>1. B.trade.stop \in Nat /\ stop \in Nat
  BY GridIsSane DEF Books, Trades
<1>2. CASE B.trade.open
  <2>1. C.trade = Added(B.trade, qty, price)
    BY <1>2 DEF Opened, Books
  <2>2. Added(B.trade, qty, price).stop = B.trade.stop /\ Added(B.trade, qty, price).open = B.trade.open
    BY DEF Added, Books, Trades
  <2>. QED BY <1>1, <2>1, <2>2 DEF Low
<1>3. CASE ~B.trade.open
  <2>1. C.trade = NewTrade(B.trade.n + 1, qty, price, stop, by, age)
    BY <1>3 DEF Opened, Books
  <2>2. C.trade.stop = stop
    BY <2>1 DEF NewTrade, NoTrade
  <2>. QED BY <1>1, <1>3, <2>2 DEF Low
<1>. QED BY <1>2, <1>3

(* A working bot buys: it has a sell more, a step above.                   *)
LEMMA EnterParts ==
  ASSUME NEW B, NEW H, BookOK(B, H), NEW price \in Prices, NEW by \in Nat, Working(B, by),
         NEW stop \in 0..Top, NEW after \in 0..Top, NEW age \in 0..2
  PROVE  LET C == Enter(B, price, stop, after, by, age) IN
         /\ C.bot = B.bot /\ C.buys = B.buys
         /\ \E x : x.from = price /\ x.price = price + Step /\ x.bot = by /\ C.sells = B.sells \cup {x}
         /\ Low(B.trade) \in Nat /\ Low(C.trade) \in Nat /\ Low(B.trade) <= Low(C.trade)
<1>. DEFINE O == Opened(B, 1, price, stop, by, age)
            x == Sell(O, price + Step, 1, price, by)
            P == SellAfterBotBuy(O, price, by)
            C == Enter(B, price, stop, after, by, age)
<1>1. LongIsFree(B, by)
  BY DEF Working, LongIsFree
<1>2. /\ BookOK(O, H) /\ O.trade.open /\ Left(O.trade) = Left(B.trade) + 1
      /\ O.bot = B.bot /\ O.sells = B.sells /\ O.buys = B.buys
  <2>1. 1 \in Nat
    OBVIOUS
  <2>. QED BY <1>1, <2>1, OpenedFacts
<1>3. Low(B.trade) \in Nat /\ Low(O.trade) \in Nat /\ Low(B.trade) <= Low(O.trade)
  <2>1. B \in Books
    BY DEF BookOK
  <2>. QED BY <2>1, LowOfOpened
<1>. HIDE DEF O
<1>4. x.from = price /\ x.price = price + Step /\ x.bot = by
  BY DEF Sell
<1>. HIDE DEF x
<1>5. P = [O EXCEPT !.sells = @ \cup {x}]
  BY <1>2 DEF SellAfterBotBuy, Working, x
<1>6. /\ P.bot = B.bot /\ P.sells = B.sells \cup {x} /\ P.buys = B.buys
      /\ P = [trade |-> O.trade, buys |-> P.buys, sells |-> P.sells, bot |-> P.bot]
      /\ P.trade = O.trade /\ O.trade \in Trades
  BY <1>2, <1>5 DEF BookOK, Books
<1>. HIDE DEF P
<1>7. CASE after > 0
  <2>1. C = TightenStop(P, after, price)
    BY <1>7 DEF Enter, P, O
  <2>2. O.trade.open /\ O.trade.stop \in Nat /\ after \in Nat
    BY <1>2, <1>6, GridIsSane DEF Trades
  <2>3. C = P \/ (C = [P EXCEPT !.trade.stop = after] /\ after > O.trade.stop)
    BY <1>6, <2>1 DEF TightenStop
  <2>4. ASSUME C = [P EXCEPT !.trade.stop = after], after > O.trade.stop
        PROVE  /\ C.bot = P.bot /\ C.sells = P.sells /\ C.buys = P.buys
               /\ C.trade.open /\ C.trade.stop = after
    <3>. DEFINE t == [O.trade EXCEPT !.stop = after]
    <3>1. C = [trade |-> t, buys |-> P.buys, sells |-> P.sells, bot |-> P.bot]
      BY <1>6, <2>4
    <3>2. t.open = O.trade.open /\ t.stop = after
      BY <1>6 DEF Trades
    <3>. HIDE DEF C, t
    <3>. QED BY <2>2, <3>1, <3>2
  <2>. HIDE DEF C
  <2>5. Low(O.trade) = O.trade.stop
    BY <2>2 DEF Low
  <2>. QED BY <1>3, <1>4, <1>6, <2>2, <2>3, <2>4, <2>5 DEF Low, C
<1>8. CASE ~(after > 0)
  <2>1. C = P
    BY <1>8 DEF Enter, P, O
  <2>. QED BY <1>3, <1>4, <1>6, <2>1
<1>. QED BY <1>7, <1>8

(* A limit of the working bot is bought: its level has a sell instead.     *)
LEMMA EnterGrid ==
  ASSUME NEW A, NEW H, NEW price \in Prices, NEW by \in Nat, by = A.bot.n, GridOf(A),
         NEW o \in A.buys, o.price = price, o.bot = by,
         NEW B, BookOK(B, H), B.trade = A.trade, B.bot = A.bot, B.sells = A.sells,
         B.buys = A.buys \ {o}, Working(B, by),
         NEW stop \in 0..Top, NEW after \in 0..Top, NEW age \in 0..2
  PROVE  GridOf(Enter(B, price, stop, after, by, age))
<1>. DEFINE C == Enter(B, price, stop, after, by, age)
<1>1. /\ C.bot = B.bot /\ C.buys = B.buys
      /\ \E x : x.from = price /\ x.price = price + Step /\ x.bot = by /\ C.sells = B.sells \cup {x}
      /\ Low(B.trade) \in Nat /\ Low(C.trade) \in Nat /\ Low(B.trade) <= Low(C.trade)
  BY EnterParts
<1>. HIDE DEF C
<1>2. PICK x : x.from = price /\ x.price = price + Step /\ x.bot = by /\ C.sells = B.sells \cup {x}
  BY <1>1
<1>3. OwnBuys(C) = OwnBuys(A) \ {o} /\ Own(C) = Own(A) \cup {x} /\ o \in OwnBuys(A)
  BY <1>1, <1>2 DEF OwnBuys, Own
<1>4. Grid(OwnBuys(A) \ {o}, Own(A) \cup {x}, Low(C.trade))
  BY <1>1, <1>2, <1>3, GridBought DEF GridOf
<1>. QED BY <1>3, <1>4 DEF GridOf, C

(* What waits to be bought again.                                          *)
LEMMA BoughtBackParts ==
  ASSUME NEW B, B \in Books, NEW P
  PROVE  LET C == BoughtBack(B, P) IN
         /\ C.bot = B.bot /\ C.trade = B.trade /\ C.sells = B.sells
         /\ OwnBuys(C) = OwnBuys(B) \cup {Buy(B, p, BotStop, 0, B.bot.n) : p \in P}
<1>. DEFINE T == {Buy(B, p, BotStop, 0, B.bot.n) : p \in P}
            C == BoughtBack(B, P)
<1>1. \A y \in T : y.bot = B.bot.n
  BY DEF Buy
<1>2. C = [B EXCEPT !.buys = @ \cup T]
  BY DEF BoughtBack
<1>. HIDE DEF T, C
<1>3. C.bot = B.bot /\ C.trade = B.trade /\ C.sells = B.sells /\ C.buys = B.buys \cup T
  BY <1>2 DEF Books
<1>4. OwnBuys(C) = OwnBuys(B) \cup T
  BY <1>1, <1>3 DEF OwnBuys
<1>. QED BY <1>3, <1>4 DEF C, T

(* A level is sold, and the position is open: the stop may have followed,  *)
(* and what it has come above waits no more.                               *)
LEMMA AfterSellOpen ==
  ASSUME NEW B, NEW H, BookOK(B, H), B.trade.open, NEW by, Working(B, by), NEW exit,
         NEW S, NEW low \in Nat, low <= B.trade.stop, Grid(OwnBuys(B), S, low),
         NEW x \in S, Own(B) = S \ {x}
  PROVE  LET C == BuyAfterBotSell(B, x.from, exit, by) IN C.sells = B.sells /\ GridOf(C)
<1>. DEFINE from == x.from
            target == StopsAfter[LevelOf(from)]
            C == IF B.bot.follow /\ target > 0 THEN TightenStop(B, target, exit) ELSE B
            V == {o \in C.buys : o.bot = by => o.price > target}
            E == [C EXCEPT !.buys = V]
            D == IF C = B THEN B ELSE E
            y == Buy(D, from, BotStop, 0, D.bot.n)
<1>1. from \in BotPrices /\ from \in Nat /\ BotPrices \subseteq Nat
  <2>1. from \in BotPrices
    BY DEF Grid, Placed
  <2>2. BotPrices \subseteq Nat
    BY GridInMarket, GridIsSane DEF Prices
  <2>. QED BY <2>1, <2>2
<1>. HIDE DEF from
<1>2. target \in 0..Top /\ target \in Nat
  BY <1>1, LevelInGrid, GridIsSane
<1>3. BuyAfterBotSell(B, from, exit, by) = IF from <= D.trade.stop THEN D ELSE BoughtBack(D, {from})
  BY DEF BuyAfterBotSell
<1>. HIDE DEF target
<1>4. /\ BookOK(C, H) /\ C.bot = B.bot /\ C.sells = B.sells /\ C.buys = B.buys
      /\ C.trade.open = B.trade.open
  <2>1. TRUE \in BOOLEAN
    OBVIOUS
  <2>. QED BY <1>2, <2>1, TightenFacts
<1>5. /\ Low(C.trade) \in Nat /\ Low(B.trade) <= Low(C.trade) /\ (C = B \/ C.trade.stop = target)
  <2>1. Low(B.trade) \in Nat
    BY GridIsSane DEF Low, BookOK, Books, Trades
  <2>. QED BY <1>2, <2>1, LowOfTightened
<1>6. Low(B.trade) = B.trade.stop /\ Low(C.trade) = C.trade.stop
  BY <1>4 DEF Low
<1>. HIDE DEF C
<1>7. E.bot = C.bot /\ E.trade = C.trade /\ E.sells = C.sells /\ E.buys = V /\ E \in Books
  <2>1. C \in Books /\ V \in SUBSET Buys
    BY <1>4 DEF BookOK, Books
  <2>. HIDE DEF V
  <2>. QED BY <2>1 DEF Books
<1>. HIDE DEF E
<1>8. /\ D \in Books /\ D.bot = B.bot /\ D.sells = B.sells /\ D.trade = C.trade
      /\ D.buys = B.buys \/ (D.buys = V /\ C.trade.stop = target)
  BY <1>4, <1>5, <1>7 DEF BookOK
<1>. HIDE DEF D
<1>9. Low(D.trade) = D.trade.stop /\ D.trade.stop \in Nat /\ low <= D.trade.stop
  <2>1. Low(D.trade) = Low(C.trade) /\ D.trade.stop = C.trade.stop
    BY <1>8
  <2>2. B.trade.stop \in Nat
    BY GridIsSane DEF BookOK, Books, Trades
  <2>. QED BY <1>5, <1>6, <2>1, <2>2
<1>10. OwnBuys(D) \in SUBSET OwnBuys(B) /\ Own(D) = S \ {x}
  BY <1>4, <1>8 DEF OwnBuys, Own
<1>11. \A o \in OwnBuys(B) : o \in OwnBuys(D) \/ o.price <= D.trade.stop
  <2>1. CASE D.buys = B.buys
    BY <1>8, <2>1 DEF OwnBuys
  <2>2. CASE D.buys = V /\ C.trade.stop = target
    <3>1. by = B.bot.n
      BY DEF Working
    <3>2. \A o \in OwnBuys(B) : o.price \in Nat
      BY <1>1 DEF Grid, Placed
    <3>. QED BY <1>2, <1>4, <1>8, <2>2, <3>1, <3>2 DEF OwnBuys
  <2>. QED BY <1>8, <2>1, <2>2
<1>12. /\ from <= D.trade.stop => Grid(OwnBuys(D), S \ {x}, D.trade.stop)
       /\ \A z : z.price = from => Grid(OwnBuys(D) \cup {z}, S \ {x}, D.trade.stop)
  BY <1>9, <1>10, <1>11, GridSold DEF from
<1>13. CASE from <= D.trade.stop
  BY <1>3, <1>8, <1>9, <1>10, <1>12, <1>13 DEF GridOf, from
<1>14. CASE ~(from <= D.trade.stop)
  <2>. DEFINE F == BoughtBack(D, {from})
  <2>1. /\ F.bot = D.bot /\ F.trade = D.trade /\ F.sells = D.sells
        /\ OwnBuys(F) = OwnBuys(D) \cup {Buy(D, p, BotStop, 0, D.bot.n) : p \in {from}}
    BY <1>8, BoughtBackParts
  <2>. HIDE DEF F
  <2>2. OwnBuys(F) = OwnBuys(D) \cup {y} /\ y.price = from
    BY <2>1 DEF Buy
  <2>. HIDE DEF y
  <2>3. Own(F) = S \ {x} /\ Low(F.trade) = D.trade.stop
    BY <1>9, <1>10, <2>1 DEF Own
  <2>4. GridOf(F)
    BY <1>12, <2>2, <2>3 DEF GridOf
  <2>. QED BY <1>3, <1>8, <1>14, <2>1, <2>4 DEF F, from
<1>. QED BY <1>13, <1>14

(* The last level is sold, and the position is gone with it: what it stood *)
(* above waits again, and the sold one too.                                *)
LEMMA AfterSellWhole ==
  ASSUME NEW B, NEW H, BookOK(B, H), ~B.trade.open, NEW by, Working(B, by), NEW from,
         NEW x, NEW low \in Nat, Grid(OwnBuys(B), {x}, low), low < x.price
  PROVE  LET C == BuyAfterBotSell(B, from, x.price, by) IN C.sells = B.sells /\ GridOf(C)
<1>. DEFINE exit == x.price
            P == LevelsAgain(B, exit)
            b(p) == Buy(B, p, BotStop, 0, B.bot.n)
            T == {b(p) : p \in P}
            C == BoughtBack(B, P)
<1>1. BuyAfterBotSell(B, from, exit, by) = C
  BY DEF BuyAfterBotSell
<1>2. B \in Books /\ B.sells = {}
  BY DEF BookOK, SellsOK
<1>3. P = {p \in BotPrices : p < exit /\ \A o \in OwnBuys(B) : LevelOf(o.price) # LevelOf(p)}
  BY DEF LevelsAgain, Standing, OwnBuys
<1>. HIDE DEF P
<1>4. C.bot = B.bot /\ C.trade = B.trade /\ C.sells = B.sells /\ OwnBuys(C) = OwnBuys(B) \cup T
  BY <1>2, BoughtBackParts
<1>. HIDE DEF C
<1>5. \A p \in P : b(p).price = p
  BY DEF Buy
<1>. HIDE DEF b
<1>6. \A y \in T : y.price \in BotPrices /\ \A o \in OwnBuys(B) : o.price # y.price
  BY <1>3, <1>5
<1>7. \A y, z \in T : y.price = z.price => y = z
  BY <1>5
<1>8. ASSUME NEW p \in BotPrices, p < exit
      PROVE  (\E o \in OwnBuys(B) : o.price = p) \/ \E y \in T : y.price = p
  <2>1. CASE p \in P
    BY <1>5, <2>1
  <2>2. CASE p \notin P
    <3>1. PICK o \in OwnBuys(B) : LevelOf(o.price) = LevelOf(p)
      BY <1>3, <1>8, <2>2
    <3>2. o.price \in BotPrices
      BY DEF Grid, Placed
    <3>3. o.price = p
      BY <3>1, <3>2, LevelIsOne
    <3>. QED BY <3>3
  <2>. QED BY <2>1, <2>2
<1>. HIDE DEF T
<1>9. Grid(OwnBuys(B) \cup T, {}, 0)
  BY <1>6, <1>7, <1>8, GridEmptied
<1>10. Own(C) = {} /\ Low(C.trade) = 0
  BY <1>2, <1>4 DEF Own, Low
<1>. QED BY <1>1, <1>4, <1>9, <1>10 DEF GridOf, C

(* What is closed by another hand, or by a limit that is not of the bot,    *)
(* is the end of it.                                                       *)
LEMMA HaltedEnds ==
  ASSUME NEW B, NEW H, BookOK(B, H), NEW by, B.bot.active => by = B.bot.n
  PROVE  ~HaltOnClose(B, by).bot.active
<1>. DEFINE C == HaltBot(B, by)
            E == [C EXCEPT !.sells = {o \in C.sells : o.bot # by}]
<1>1. B.bot.active => Working(B, by)
  BY DEF Working, BookOK, BotOK
<1>2. BookOK(C, H) /\ (C.bot.active => B.bot.active /\ ~Working(B, by))
  <2>1. TRUE \in BOOLEAN
    OBVIOUS
  <2>. QED BY <2>1, HaltFacts
<1>3. HaltOnClose(B, by) = E \/ HaltOnClose(B, by) = C
  BY DEF HaltOnClose
<1>. HIDE DEF C
<1>4. E.bot = C.bot
  BY <1>2 DEF BookOK, Books
<1>. QED BY <1>1, <1>2, <1>3, <1>4

(* A stop that follows the takes leaves the rest.                          *)
LEMMA FollowParts ==
  ASSUME NEW B, NEW H, BookOK(B, H), NEW price, NEW C \in FollowStop(B, price)
  PROVE  /\ BookOK(C, H) /\ C.bot = B.bot /\ C.sells = B.sells /\ C.buys = B.buys
         /\ C.trade.open = B.trade.open /\ Low(B.trade) <= Low(C.trade)
<1>1. Low(B.trade) \in Nat
  BY GridIsSane DEF Low, BookOK, Books, Trades
<1>2. CASE B.trade.follow
  <2>1. PICK s \in Prices : C = TightenStop(B, s, price)
    BY <1>2 DEF FollowStop
  <2>2. s \in 0..Top /\ TRUE \in BOOLEAN
    BY GridIsSane DEF Prices
  <2>3. /\ BookOK(C, H) /\ C.bot = B.bot /\ C.sells = B.sells /\ C.buys = B.buys
        /\ C.trade.open = B.trade.open
    BY <2>1, <2>2, TightenFacts
  <2>4. Low(B.trade) <= Low(C.trade)
    BY <2>1, <2>2, LowOfTightened
  <2>. QED BY <2>3, <2>4
<1>3. CASE ~B.trade.follow
  BY <1>1, <1>3 DEF FollowStop
<1>. QED BY <1>2, <1>3

(* applyClose(): what is closed, whole or in part, and what is done then.  *)
AfterClose(B, D, id, price) ==
  LET fired == {o \in B.sells : o.id = id} IN
  IF \E o \in fired : o.bot # 0
    THEN LET o == CHOOSE o \in fired : TRUE IN BuyAfterBotSell(D, o.from, price, o.bot)
  ELSE HaltOnClose(D, B.trade.bot)
ClosedWholly(D) == ~D.trade.open /\ D.sells = {}
ClosedInPart(B, D, id) ==
  /\ D.trade.open /\ D.sells = {o \in B.sells : o.id # id}
  /\ B.trade.stop \in Nat /\ B.trade.stop <= D.trade.stop
LEMMA ClosedParts ==
  ASSUME NEW B, NEW H, BookOK(B, H), NEW seen, NEW want \in Nat, NEW id, NEW price,
         NEW C \in ApplyClose(B, seen, want, id, price)
  PROVE  /\ B.trade.open
         /\ \E D : /\ BookOK(D, H) /\ D.bot = B.bot /\ D.buys = B.buys
                   /\ C = AfterClose(B, D, id, price)
                   /\ IF want = 0 \/ want >= Left(B.trade) THEN ClosedWholly(D) ELSE ClosedInPart(B, D, id)
<1>. DEFINE left == Left(B.trade)
            qty == IF want = 0 THEN left ELSE Min({want, left})
            fired == {o \in B.sells : o.id = id}
            by == B.trade.bot
            part == [B EXCEPT !.trade.closed = @ + qty, !.sells = @ \ fired]
            rest == [NoTrade(B.trade.n) EXCEPT !.qty = Left(part.trade)]
            whole == [part EXCEPT !.trade = rest, !.sells = {}]
            closed == IF qty < left THEN IF id = NoId THEN {part} ELSE FollowStop(part, price) ELSE {whole}
            After(D) == IF \E o \in fired : o.bot # 0
                        THEN LET o == CHOOSE o \in fired : TRUE IN BuyAfterBotSell(D, o.from, price, o.bot)
                        ELSE HaltOnClose(D, by)
<1>1. B \in Books /\ B.trade \in Trades /\ B.trade.closed <= B.trade.qty /\ B.bot \in Bots
  BY DEF BookOK, TradeOK, Books
<1>2. B.trade.qty \in Nat /\ B.trade.closed \in Nat /\ left \in Nat
  BY <1>1 DEF Trades, Left
<1>3. B.trade.open /\ C \in {After(D) : D \in closed}
  BY DEF ApplyClose, LeftNow, Moved
<1>4. PICK D \in closed : C = After(D)
  BY <1>3
<1>5. qty \in Nat /\ qty <= left
  BY <1>2, MinOfTwo
<1>6. (want = 0 \/ want >= left) <=> ~(qty < left)
  BY <1>2, MinOfTwo
<1>. HIDE DEF left, qty
<1>7. ~(qty < left) => D = [B EXCEPT !.trade = [NoTrade(B.trade.n) EXCEPT !.qty = 0], !.sells = {}]
  <2>1. SUFFICES ASSUME ~(qty < left)
                 PROVE  D = [B EXCEPT !.trade = [NoTrade(B.trade.n) EXCEPT !.qty = 0], !.sells = {}]
    OBVIOUS
  <2>2. part.trade.qty = B.trade.qty /\ part.trade.closed = B.trade.closed + qty
    BY <1>1 DEF Books, Trades
  <2>3. Left(part.trade) = 0
    BY <1>2, <1>5, <2>1, <2>2 DEF Left, left
  <2>4. whole = [B EXCEPT !.trade = [NoTrade(B.trade.n) EXCEPT !.qty = 0], !.sells = {}]
    BY <1>1, <2>3 DEF Books
  <2>. QED BY <1>4, <2>1, <2>4
<1>8. ~(qty < left) => /\ BookOK(D, H) /\ D.bot = B.bot /\ ~D.trade.open
                       /\ D.buys = B.buys /\ D.sells = {}
  <2>1. SUFFICES ASSUME ~(qty < left)
                 PROVE  /\ BookOK(D, H) /\ D.bot = B.bot /\ ~D.trade.open
                        /\ D.buys = B.buys /\ D.sells = {}
    OBVIOUS
  <2>. DEFINE W == [B EXCEPT !.trade = [NoTrade(B.trade.n) EXCEPT !.qty = 0], !.sells = {}]
  <2>2. BookOK(W, H) /\ W.bot = B.bot /\ ~W.trade.open
    <3>1. TRUE \in BOOLEAN
      OBVIOUS
    <3>. QED BY <3>1, WholeFacts
  <2>3. W.buys = B.buys /\ W.sells = {}
    BY <1>1 DEF Books
  <2>. HIDE DEF W
  <2>. QED BY <1>7, <2>1, <2>2, <2>3 DEF W
<1>9. qty < left => /\ BookOK(D, H) /\ D.bot = B.bot /\ D.trade.open /\ D.buys = B.buys
                     /\ D.sells = {o \in B.sells : o.id # id}
                     /\ B.trade.stop \in Nat /\ B.trade.stop <= D.trade.stop
  <2>1. SUFFICES ASSUME qty < left
                 PROVE  /\ BookOK(D, H) /\ D.bot = B.bot /\ D.trade.open /\ D.buys = B.buys
                        /\ D.sells = {o \in B.sells : o.id # id}
                        /\ B.trade.stop \in Nat /\ B.trade.stop <= D.trade.stop
    OBVIOUS
  <2>2. D \in (IF id = NoId THEN {part} ELSE FollowStop(part, price))
    BY <1>4, <2>1
  <2>3. /\ part.bot = B.bot /\ part.buys = B.buys /\ part.sells = {o \in B.sells : o.id # id}
        /\ part.trade.stop = B.trade.stop /\ part.trade.open = B.trade.open
    BY <1>1 DEF Books, Trades
  <2>4. BookOK(part, H)
    <3>1. part = PartOf(B, qty, id)
      BY DEF PartOf
    <3>2. qty < Left(B.trade)
      BY <2>1 DEF left
    <3>. HIDE DEF part
    <3>. QED BY <1>3, <1>5, <3>1, <3>2, PartFacts
  <2>. HIDE DEF part
  <2>5. B.trade.stop \in Nat
    BY <1>1, GridIsSane DEF Trades
  <2>6. /\ BookOK(D, H) /\ D.bot = part.bot /\ D.sells = part.sells /\ D.buys = part.buys
        /\ D.trade.open = part.trade.open /\ Low(part.trade) <= Low(D.trade)
    <3>1. CASE id = NoId
      <4>1. D = part /\ Low(part.trade) = part.trade.stop
        BY <1>3, <2>2, <2>3, <3>1 DEF Low
      <4>. QED BY <2>3, <2>4, <2>5, <4>1
    <3>2. CASE id # NoId
      BY <2>2, <2>4, <3>2, FollowParts
    <3>. QED BY <3>1, <3>2
  <2>7. Low(part.trade) = B.trade.stop /\ Low(D.trade) = D.trade.stop
    BY <1>3, <2>3, <2>6 DEF Low
  <2>. QED BY <1>3, <2>3, <2>5, <2>6, <2>7
<1>10. C = AfterClose(B, D, id, price)
  BY <1>4 DEF AfterClose
<1>11. BookOK(D, H) /\ D.bot = B.bot /\ D.buys = B.buys
  BY <1>8, <1>9
<1>. HIDE DEF closed, After
<1>12. IF want = 0 \/ want >= left THEN ClosedWholly(D) ELSE ClosedInPart(B, D, id)
  <2>1. CASE ~(qty < left)
    BY <1>6, <1>8, <2>1 DEF ClosedWholly
  <2>2. CASE qty < left
    BY <1>6, <1>9, <2>2 DEF ClosedInPart
  <2>. QED BY <2>1, <2>2
<1>. QED BY <1>3, <1>10, <1>11, <1>12 DEF left

(* A close by other than a limit ends the bot whose position it is.        *)
LEMMA EndsByHand ==
  ASSUME NEW B, NEW H, BookOK(B, H), NEW seen, NEW want \in Nat, NEW price,
         NEW C \in ApplyClose(B, seen, want, NoId, price)
  PROVE  ~C.bot.active
<1>1. PICK D : BookOK(D, H) /\ D.bot = B.bot /\ C = AfterClose(B, D, NoId, price)
  BY ClosedParts
<1>2. B.trade.open
  BY ClosedParts
<1>3. \A o \in B.sells : o.id # NoId
  BY GridIsSane DEF BookOK, Books, Sells, Ids
<1>4. C = HaltOnClose(D, B.trade.bot)
  BY <1>1, <1>3 DEF AfterClose
<1>5. D.bot.active => B.trade.bot = D.bot.n
  BY <1>1, <1>2 DEF BookOK, BotOK
<1>. QED BY <1>1, <1>4, <1>5, HaltedEnds

(* applyClose() leaves a grid whole, above the stop, or ends the bot.      *)
LEMMA ApplyCloseGrid ==
  ASSUME NEW B, NEW H, BookOK(B, H), NEW seen, NEW want \in Nat, NEW id, NEW price,
         B.bot.active, Fit(B, TRUE), GridOf(B),
         \/ id = NoId
         \/ /\ \A x \in B.sells : x.id = id => x.qty = want
            /\ \A x \in Own(B) : x.id = id => x.price = price
            /\ ~(price <= B.trade.stop),
         NEW C \in ApplyClose(B, seen, want, id, price), C.bot.active
  PROVE  GridOf(C) /\ C.sells \subseteq B.sells
<1>. DEFINE left == Left(B.trade)
            fired == {o \in B.sells : o.id = id}
<1>1. PICK D : /\ BookOK(D, H) /\ D.bot = B.bot /\ D.buys = B.buys
               /\ C = AfterClose(B, D, id, price)
               /\ IF want = 0 \/ want >= Left(B.trade) THEN ClosedWholly(D) ELSE ClosedInPart(B, D, id)
  BY ClosedParts
<1>2. B.trade.open
  BY ClosedParts
<1>3. B \in Books /\ B.trade.stop \in Nat /\ left \in Nat
  BY GridIsSane DEF BookOK, TradeOK, Books, Trades, Left
<1>. HIDE DEF left
<1>4. \A o \in fired : fired = {o}
  BY DEF BookOK, SellsOK, Orders
<1>5. PICK x \in fired : x.bot # 0
  <2>1. SUFFICES ASSUME ~ \E o \in fired : o.bot # 0 PROVE FALSE
    OBVIOUS
  <2>2. C = HaltOnClose(D, B.trade.bot)
    BY <1>1, <2>1 DEF AfterClose
  <2>3. D.bot.active => B.trade.bot = D.bot.n
    BY <1>1, <1>2 DEF BookOK, BotOK
  <2>4. BookOK(D, H)
    BY <1>1
  <2>. QED BY <2>2, <2>3, <2>4, HaltedEnds
<1>6. C = BuyAfterBotSell(D, x.from, price, x.bot)
  BY <1>1, <1>4, <1>5 DEF AfterClose
<1>7. x \in B.sells /\ x.id = id /\ fired = {x} /\ x.bot = B.bot.n /\ x.qty = 1
  BY <1>4, <1>5 DEF BookOK, SellsOK
<1>. HIDE DEF fired
<1>8. id # NoId
  BY <1>3, <1>7, GridIsSane DEF Books, Sells, Ids
<1>9. x \in Own(B) /\ x.price = price /\ want = 1 /\ ~(price <= B.trade.stop)
  BY <1>7, <1>8 DEF Own
<1>10. BookOK(D, H) /\ Working(D, x.bot)
  BY <1>1, <1>5, <1>7 DEF Working
<1>11. Low(B.trade) = B.trade.stop /\ Low(B.trade) \in Nat /\ OwnBuys(D) = OwnBuys(B)
  BY <1>1, <1>2, <1>3 DEF Low, OwnBuys
<1>12. CASE ~(want = 0 \/ want >= left)
  <2>1. D.trade.open /\ D.sells = {o \in B.sells : o.id # id} /\ B.trade.stop <= D.trade.stop
    BY <1>1, <1>12 DEF ClosedInPart, left
  <2>2. Own(D) = Own(B) \ {x}
    <3>1. \A o \in B.sells : o.id = id => o = x
      BY <1>7 DEF fired
    <3>. QED BY <1>1, <1>7, <2>1, <3>1 DEF Own
  <2>3. Grid(OwnBuys(D), Own(B), Low(B.trade)) /\ Low(B.trade) \in Nat
    BY <1>11 DEF GridOf
  <2>4. D.trade.open /\ Low(B.trade) <= D.trade.stop /\ x \in Own(B)
    BY <1>9, <1>11, <2>1
  <2>. DEFINE F == BuyAfterBotSell(D, x.from, price, x.bot)
  <2>5. F.sells = D.sells /\ GridOf(F)
    BY ONLY <1>10, <2>2, <2>3, <2>4, AfterSellOpen
  <2>. HIDE DEF F
  <2>6. C = F
    BY <1>6 DEF F
  <2>. QED BY <2>1, <2>5, <2>6
<1>13. CASE want = 0 \/ want >= left
  <2>1. ~D.trade.open /\ D.sells = {} /\ left <= 1
    BY <1>1, <1>3, <1>9, <1>13 DEF ClosedWholly, left
  <2>2. Own(B) = {x}
    <3>1. IsFiniteSet(Own(B)) /\ Cardinality(Own(B)) = left
      BY FS_Subset DEF Own, Fit, BookOK, SellsOK, Orders, left
    <3>2. IsFiniteSet(Own(B) \ {x}) /\ Cardinality(Own(B) \ {x}) = left - 1
      BY <1>9, <3>1, FS_RemoveElement
    <3>3. Cardinality(Own(B) \ {x}) = 0
      BY <1>3, <2>1, <3>2, FS_CardinalityType
    <3>. QED BY <1>9, <3>2, <3>3, FS_EmptySet
  <2>3. Grid(OwnBuys(D), {x}, Low(B.trade)) /\ Low(B.trade) \in Nat
    BY <1>11, <2>2 DEF GridOf
  <2>4. Low(B.trade) < x.price
    <3>1. x.price \in Int
      BY <1>3, <1>7, GridIsSane DEF Books, Sells
    <3>. QED BY <1>3, <1>9, <1>11, <3>1
  <2>. DEFINE F == BuyAfterBotSell(D, x.from, x.price, x.bot)
  <2>5. F.sells = D.sells /\ GridOf(F)
    <3>1. ~D.trade.open
      BY <2>1
    <3>. QED BY ONLY <1>10, <2>3, <2>4, <3>1, AfterSellWhole
  <2>. HIDE DEF F
  <2>6. C = F
    BY <1>6, <1>9 DEF F
  <2>. QED BY <2>1, <2>5, <2>6
<1>. QED BY <1>12, <1>13

(* Whatever is done after a close is done by the bot there is.             *)
LEMMA AfterBotSellBot ==
  ASSUME EngineOK, NEW B, NEW H, BookOK(B, H), NEW from \in 0..Top, NEW exit, NEW by
  PROVE  BuyAfterBotSell(B, from, exit, by).bot = B.bot
<1>. DEFINE C == BuyAfterBotSell(B, from, exit, by)
            all == TRUE
<1>1. all \in BOOLEAN
  OBVIOUS
<1>. HIDE DEF all
<1>2. (Fit(B, all) => Fit(C, all)) /\ C.bot = B.bot
  BY <1>1, AfterBotSellFacts
<1>. QED BY <1>2

LEMMA AfterCloseBot ==
  ASSUME EngineOK, NEW B, NEW H, BookOK(B, H), NEW D, BookOK(D, H), NEW id, NEW price
  PROVE  AfterClose(B, D, id, price).bot.n = D.bot.n
<1>. DEFINE fired == {o \in B.sells : o.id = id}
<1>1. TRUE \in BOOLEAN
  OBVIOUS
<1>2. \A o \in fired : o.from \in 0..Top
  BY DEF BookOK, Books, Sells
<1>3. ASSUME NEW o \in fired PROVE BuyAfterBotSell(D, o.from, price, o.bot).bot = D.bot
  BY <1>2, AfterBotSellBot
<1>4. HaltOnClose(D, B.trade.bot).bot.n = D.bot.n
  <2>. DEFINE C == HaltBot(D, B.trade.bot)
              E == [C EXCEPT !.sells = {o \in C.sells : o.bot # B.trade.bot}]
  <2>1. BookOK(C, H) /\ C.bot.n = D.bot.n
    BY <1>1, HaltFacts
  <2>2. HaltOnClose(D, B.trade.bot) = E \/ HaltOnClose(D, B.trade.bot) = C
    BY DEF HaltOnClose
  <2>. HIDE DEF C
  <2>3. E.bot = C.bot
    BY <2>1 DEF BookOK, Books
  <2>. QED BY <2>1, <2>2, <2>3
<1>. QED BY <1>3, <1>4 DEF AfterClose

(* Orders that only age are the same grid.                                 *)
LEMMA OtherAgesGrid ==
  ASSUME NEW B, NEW H, BookOK(B, H), GridOf(B), NEW f \in [0..2 -> 0..2], NEW C,
         C.bot = B.bot, C.sells = B.sells, Low(C.trade) = Low(B.trade), C.buys = BuysAt(B, f)
  PROVE  GridOf(C)
<1>. DEFINE g == [o \in B.buys |-> [o EXCEPT !.age = f[@]]]
<1>1. \A o \in B.buys : o \in Buys
  BY DEF BookOK, Books
<1>2. \A o \in B.buys : g[o].price = o.price /\ g[o].bot = o.bot
  BY <1>1 DEF Buys
<1>3. C.buys = {g[o] : o \in B.buys}
  BY DEF BuysAt
<1>. HIDE DEF g
<1>4. OwnBuys(C) = {g[o] : o \in OwnBuys(B)}
  BY <1>2, <1>3 DEF OwnBuys
<1>5. Grid({g[o] : o \in OwnBuys(B)}, Own(B), Low(B.trade))
  <2>1. \A o \in OwnBuys(B) : g[o].price = o.price
    BY <1>2 DEF OwnBuys
  <2>. QED BY <2>1, GridAged DEF GridOf
<1>6. Own(C) = Own(B)
  BY DEF Own
<1>. QED BY <1>4, <1>5, <1>6 DEF GridOf

LEMMA AgedGrid ==
  ASSUME NEW B, NEW H, BookOK(B, H), GridOf(B), NEW C \in {Aged(B, Older), Aged(B, Again)}
  PROVE  GridOf(C)
<1>1. B \in Books /\ B.trade \in Trades
  BY DEF BookOK, Books
<1>2. PICK f \in [0..2 -> 0..2] : C = AgedBy(B, f)
  BY AgedAsFunction
<1>. DEFINE u == [B.trade EXCEPT !.age = IF B.trade.open THEN f[@] ELSE 0]
            t == IF u.age = 2 THEN [u EXCEPT !.prices = <<0, 0>>] ELSE u
<1>3. C = [B EXCEPT !.trade = t, !.buys = BuysAt(B, f)]
  BY <1>2 DEF AgedBy
<1>4. u \in Trades /\ u.open = B.trade.open /\ u.stop = B.trade.stop
  BY <1>1 DEF Trades
<1>. HIDE DEF u
<1>5. t.open = B.trade.open /\ t.stop = B.trade.stop
  BY <1>4 DEF Trades
<1>. HIDE DEF t
<1>6. C.bot = B.bot /\ C.sells = B.sells /\ C.trade = t /\ C.buys = BuysAt(B, f)
  BY <1>1, <1>3 DEF Books
<1>7. Low(C.trade) = Low(B.trade)
  BY <1>5, <1>6 DEF Low
<1>. QED BY <1>6, <1>7, OtherAgesGrid

LEMMA YoungGrid ==
  ASSUME NEW B, NEW H, BookOK(B, H), GridOf(B)
  PROVE  GridOf(Young(B))
<1>. DEFINE f == [a \in 0..2 |-> 0]
            C == Young(B)
<1>1. B \in Books /\ \A o \in B.buys : o \in Buys
  BY DEF BookOK, Books
<1>2. BuysAt(B, f) = {[o EXCEPT !.age = 0] : o \in B.buys}
  BY <1>1 DEF BuysAt, Buys
<1>3. C = [B EXCEPT !.buys = BuysAt(B, f)]
  BY <1>2 DEF Young
<1>4. f \in [0..2 -> 0..2]
  OBVIOUS
<1>. HIDE DEF f, C
<1>5. C.bot = B.bot /\ C.trade = B.trade /\ C.sells = B.sells /\ C.buys = BuysAt(B, f)
  BY <1>1, <1>3 DEF Books
<1>6. Low(C.trade) = Low(B.trade)
  BY <1>5
<1>7. GridOf(C)
  BY <1>4, <1>5, <1>6, OtherAgesGrid
<1>. QED BY <1>7 DEF C

-----------------------------------------------------------------------------
(* The steps that keep the grid whole. Most of them leave the bot's orders  *)
(* as they are, or end it, or count as a touch of it.                      *)

Untouched(B, C) ==
  C.bot = B.bot /\ OwnBuys(C) = OwnBuys(B) /\ Own(C) = Own(B) /\ Low(C.trade) = Low(B.trade)

LEMMA SameGrid ==
  ASSUME GInv, engine' = engine, NEW C, book' = C,
         C.bot.active /\ intact' = "yes" => intact = "yes" /\ Untouched(book, C)
  PROVE  GInv'
<1>1. SUFFICES ASSUME C.bot.active, intact' = "yes" PROVE (AsHeld /\ (LevelLost \/ GridOf(book)))'
  BY DEF GInv
<1>2. Untouched(book, C) /\ AsHeld /\ (LevelLost \/ GridOf(book))
  BY <1>1 DEF GInv, Untouched
<1>3. HeldSells' = HeldSells /\ Own(book)' = Own(book)
  BY <1>2 DEF HeldSells, Own, Untouched
<1>4. AsHeld'
  BY <1>2, <1>3 DEF AsHeld
<1>5. LevelLost => LevelLost'
  BY <1>2 DEF LevelLost, Untouched
<1>6. GridOf(book) => GridOf(C)
  BY <1>2 DEF GridOf, Untouched
<1>7. GridOf(book)' = GridOf(C)
  OBVIOUS
<1>. QED BY <1>2, <1>4, <1>5, <1>6, <1>7

LEMMA BuyAtMarketGrid ==
  ASSUME IInv, GInv, NEW p \in Asked, NEW s \in Stops, BuyAtMarket(p, s)
  PROVE  GInv'
<1>. DEFINE B == Opened(book, 1, p, s, 0, 0)
<1>1. book' = B /\ engine' = engine /\ LongIsFree(book, 0)
  BY DEF BuyAtMarket, Changes
<1>2. BookOK(book, HeldSells)
  BY DEF IInv
<1>3. B.bot = book.bot
  <2>1. book \in Books
    BY <1>2 DEF BookOK
  <2>. QED BY <2>1 DEF Opened, Books
<1>4. ~book.bot.active
  BY <1>1, <1>2 DEF LongIsFree, BookOK, BotOK
<1>. HIDE DEF B
<1>. QED BY <1>1, <1>3, <1>4, SameGrid

LEMMA HaltedGrid ==
  ASSUME IInv, GInv, engine' = engine, NEW C, book' = C, ~C.bot.active
  PROVE  GInv'
BY SameGrid

LEMMA StopBotGrid ==
  ASSUME IInv, GInv, StopBot
  PROVE  GInv'
<1>. DEFINE B == HaltBot(book, book.bot.n)
<1>1. book' = B /\ engine' = engine
  BY DEF StopBot, Changes
<1>2. BookOK(book, HeldSells) /\ TRUE \in BOOLEAN
  BY DEF IInv
<1>3. B.bot.active => book.bot.active /\ ~Working(book, book.bot.n)
  BY <1>2, HaltFacts
<1>4. ~B.bot.active
  BY <1>2, <1>3 DEF Working, BookOK, BotOK
<1>. HIDE DEF B
<1>. QED BY <1>1, <1>4, HaltedGrid

LEMMA FinishGrid ==
  ASSUME IInv, GInv, Finish
  PROVE  GInv'
<1>. DEFINE B == [book EXCEPT !.buys = {}, !.bot.active = FALSE]
<1>1. book' = B /\ engine' = engine
  BY DEF Finish, Changes
<1>2. book \in Books
  BY DEF IInv, BookOK
<1>3. ~B.bot.active
  BY <1>2 DEF Books, Bots
<1>. HIDE DEF B
<1>. QED BY <1>1, <1>3, HaltedGrid

(* A touch of what is the bot's is remembered.                             *)
LEMMA TouchedGrid ==
  ASSUME IInv, GInv, NEW b, Touch(b), engine' = engine, NEW C, book' = C, C.bot = book.bot,
         ~Working(book, b) /\ book.bot.active => Untouched(book, C)
  PROVE  GInv'
<1>1. intact' = IF Working(book, b) THEN "no" ELSE intact
  BY DEF Touch
<1>. QED BY <1>1, SameGrid

LEMMA ModifyTradeGrid ==
  ASSUME IInv, GInv, NEW s \in Stops, ModifyTrade(s)
  PROVE  GInv'
<1>. DEFINE B == [book EXCEPT !.trade.stop = s]
<1>1. book' = B /\ engine' = engine /\ Touch(book.trade.bot) /\ book.trade.open
  BY DEF ModifyTrade, Changes
<1>2. BookOK(book, HeldSells) /\ book \in Books
  BY DEF IInv, BookOK
<1>3. B.bot = book.bot
  BY <1>2 DEF Books
<1>4. book.bot.active => Working(book, book.trade.bot)
  BY <1>1, <1>2 DEF Working, BookOK, BotOK
<1>. HIDE DEF B
<1>. QED BY <1>1, <1>3, <1>4, TouchedGrid

(* Other buys that are not the bot's, and other sells that are not.         *)
LEMMA OtherBuysGrid ==
  ASSUME NEW B \in Books, NEW S, {o \in S : o.bot = B.bot.n} = OwnBuys(B)
  PROVE  LET C == [B EXCEPT !.buys = S] IN C.bot = B.bot /\ Untouched(B, C)
<1>. DEFINE C == [B EXCEPT !.buys = S]
<1>1. C.trade = B.trade /\ C.bot = B.bot /\ C.sells = B.sells /\ C.buys = S
  BY DEF Books
<1>. HIDE DEF C
<1>2. OwnBuys(C) = OwnBuys(B) /\ Own(C) = Own(B) /\ Low(C.trade) = Low(B.trade)
  BY <1>1 DEF OwnBuys, Own
<1>. QED BY <1>1, <1>2 DEF Untouched, C

LEMMA OtherSellsGrid ==
  ASSUME NEW B \in Books, NEW S, {o \in S : o.bot = B.bot.n} = Own(B)
  PROVE  LET C == [B EXCEPT !.sells = S] IN C.bot = B.bot /\ Untouched(B, C)
<1>. DEFINE C == [B EXCEPT !.sells = S]
<1>1. C.trade = B.trade /\ C.bot = B.bot /\ C.sells = S /\ C.buys = B.buys
  BY DEF Books
<1>. HIDE DEF C
<1>2. OwnBuys(C) = OwnBuys(B) /\ Own(C) = Own(B) /\ Low(C.trade) = Low(B.trade)
  BY <1>1 DEF OwnBuys, Own
<1>. QED BY <1>1, <1>2 DEF Untouched, C

LEMMA MoveBuyGrid ==
  ASSUME IInv, GInv, NEW o \in book.buys, NEW p \in Asked, MoveBuy(o, p)
  PROVE  GInv'
<1>. DEFINE x == Buy(book, p, o.stop, o.after, o.bot)
            S == (book.buys \ {o}) \cup {x}
            B == [book EXCEPT !.buys = S]
<1>1. book' = B /\ engine' = engine /\ Touch(o.bot)
  BY DEF MoveBuy, Changes
<1>2. BookOK(book, HeldSells) /\ book \in Books
  BY DEF IInv, BookOK
<1>3. x.bot = o.bot
  BY DEF Buy
<1>. HIDE DEF x
<1>4. B.bot = book.bot
  BY <1>2 DEF Books
<1>5. ASSUME ~Working(book, o.bot), book.bot.active PROVE Untouched(book, B)
  <2>1. o.bot # book.bot.n
    BY <1>2, <1>5 DEF Working, BookOK, BotOK
  <2>2. {y \in S : y.bot = book.bot.n} = OwnBuys(book)
    BY <1>3, <2>1 DEF OwnBuys
  <2>. HIDE DEF S
  <2>. QED BY <1>2, <2>2, OtherBuysGrid
<1>. HIDE DEF B
<1>. QED BY <1>1, <1>4, <1>5, TouchedGrid

LEMMA CancelBuyGrid ==
  ASSUME IInv, GInv, NEW o \in book.buys, CancelBuy(o)
  PROVE  GInv'
<1>. DEFINE S == book.buys \ {o}
            B == [book EXCEPT !.buys = S]
<1>1. book' = B /\ engine' = engine /\ Touch(o.bot)
  BY DEF CancelBuy, Changes
<1>2. BookOK(book, HeldSells) /\ book \in Books
  BY DEF IInv, BookOK
<1>3. B.bot = book.bot
  BY <1>2 DEF Books
<1>4. ASSUME ~Working(book, o.bot), book.bot.active PROVE Untouched(book, B)
  <2>1. o.bot # book.bot.n
    BY <1>2, <1>4 DEF Working, BookOK, BotOK
  <2>2. {y \in S : y.bot = book.bot.n} = OwnBuys(book)
    BY <2>1 DEF OwnBuys
  <2>. HIDE DEF S
  <2>. QED BY <1>2, <2>2, OtherBuysGrid
<1>. HIDE DEF B
<1>. QED BY <1>1, <1>3, <1>4, TouchedGrid

LEMMA MoveSellGrid ==
  ASSUME IInv, GInv, NEW o \in book.sells, NEW p \in Asked, MoveSell(o, p)
  PROVE  GInv'
<1>. DEFINE x == [o EXCEPT !.price = p]
            S == (book.sells \ {o}) \cup {x}
            B == [book EXCEPT !.sells = S]
<1>1. book' = B /\ engine' = engine /\ Touch(o.bot)
  BY DEF MoveSell, Changes
<1>2. BookOK(book, HeldSells) /\ book \in Books
  BY DEF IInv, BookOK
<1>3. x.bot = o.bot
  BY <1>2 DEF Books, Sells
<1>. HIDE DEF x
<1>4. B.bot = book.bot
  BY <1>2 DEF Books
<1>5. ASSUME ~Working(book, o.bot), book.bot.active PROVE Untouched(book, B)
  <2>1. o.bot # book.bot.n
    BY <1>2, <1>5 DEF Working, BookOK, BotOK
  <2>2. {y \in S : y.bot = book.bot.n} = Own(book)
    BY <1>3, <2>1 DEF Own
  <2>. HIDE DEF S
  <2>. QED BY <1>2, <2>2, OtherSellsGrid
<1>. HIDE DEF B
<1>. QED BY <1>1, <1>4, <1>5, TouchedGrid

LEMMA CancelSellGrid ==
  ASSUME IInv, GInv, NEW o \in book.sells, CancelSell(o)
  PROVE  GInv'
<1>. DEFINE S == book.sells \ {o}
            B == [book EXCEPT !.sells = S]
<1>1. book' = B /\ engine' = engine /\ Touch(o.bot)
  BY DEF CancelSell, Changes
<1>2. BookOK(book, HeldSells) /\ book \in Books
  BY DEF IInv, BookOK
<1>3. B.bot = book.bot
  BY <1>2 DEF Books
<1>4. ASSUME ~Working(book, o.bot), book.bot.active PROVE Untouched(book, B)
  <2>1. o.bot # book.bot.n
    BY <1>2, <1>4 DEF Working, BookOK, BotOK
  <2>2. {y \in S : y.bot = book.bot.n} = Own(book)
    BY <2>1 DEF Own
  <2>. HIDE DEF S
  <2>. QED BY <1>2, <2>2, OtherSellsGrid
<1>. HIDE DEF B
<1>. QED BY <1>1, <1>3, <1>4, TouchedGrid

LEMMA CloseGridEnds ==
  ASSUME IInv, GInv, NEW P \in (SUBSET Asked) \ {{}}, NEW f \in Follows, CloseGrid(P, f)
  PROVE  GInv'
<1>. DEFINE C == HaltBot(book, book.trade.bot)
            B(qty) == [C EXCEPT !.sells = {Sell(C, p, qty, 0, 0) : p \in P}, !.trade.follow = f]
<1>1. book.trade.open /\ \E qty \in {1, Left(book.trade) \div Cardinality(P)} : Changes(B(qty))
  BY DEF CloseGrid
<1>2. PICK qty : Changes(B(qty))
  BY <1>1
<1>3. book' = B(qty) /\ engine' = engine
  BY <1>2 DEF Changes
<1>4. BookOK(book, HeldSells) /\ TRUE \in BOOLEAN
  BY DEF IInv
<1>5. BookOK(C, HeldSells) /\ (C.bot.active => book.bot.active /\ ~Working(book, book.trade.bot))
  BY <1>4, HaltFacts
<1>6. ~C.bot.active
  BY <1>1, <1>4, <1>5 DEF Working, BookOK, BotOK
<1>. HIDE DEF C
<1>. DEFINE S == {Sell(C, p, qty, 0, 0) : p \in P}
<1>7. B(qty) = [C EXCEPT !.sells = S, !.trade.follow = f]
  OBVIOUS
<1>. HIDE DEF S, B
<1>8. B(qty).bot = C.bot
  BY <1>5, <1>7 DEF BookOK, Books
<1>. QED BY <1>3, <1>6, <1>8, HaltedGrid

(* A bot starts with its grid whole, and with ids that no one holds.       *)
LEMMA StartBotGrid ==
  ASSUME IInv, GInv, NEW price \in Prices, NEW f \in Follows, StartBot(price, f)
  PROVE  GInv'
<1>. DEFINE n == book.bot.n + 1
            market == {p \in BotPrices : p >= price}
            bot == [n |-> n, active |-> TRUE, follow |-> f]
            B == [book EXCEPT !.bot = bot]
            O == Opened(B, Cardinality(market), price, BotStop, n, 0)
            s(p) == Sell(B, p + Step, 1, p, n)
            S == {s(p) : p \in market}
            C == IF market = {} THEN B ELSE [O EXCEPT !.sells = S]
            P == BotPrices \ market
            b(p) == Buy(C, p, BotStop, 0, C.bot.n)
            T == {b(p) : p \in P}
            D == BoughtBack(C, P)
<1>1. /\ book' = D /\ engine' = engine
      /\ ~book.bot.active /\ ~book.trade.open /\ book.buys = {}
  BY DEF StartBot, Changes
<1>2. BookOK(book, HeldSells) /\ EngineOK /\ book \in Books /\ book.sells = {}
  BY <1>1 DEF IInv, BookOK, SellsOK
<1>3. B.bot = bot /\ B.trade = book.trade /\ B.buys = {} /\ B.sells = {} /\ B \in [trade : Trades, buys : {{}}, sells : {{}}, bot : {bot}]
  BY <1>1, <1>2 DEF Books
<1>4. bot.n = n
  OBVIOUS
<1>. HIDE DEF B, bot
<1>5. O.bot = bot /\ O.buys = {} /\ O.sells = {} /\ O = [trade |-> O.trade, buys |-> {}, sells |-> {}, bot |-> bot]
  BY <1>3 DEF Opened
<1>. HIDE DEF O
<1>6. C.bot = bot /\ C.buys = {} /\ C.sells = S
  BY <1>3, <1>5
<1>. HIDE DEF C
<1>7. D = [C EXCEPT !.buys = @ \cup T]
  BY DEF BoughtBack
<1>8. \A p \in P : b(p).bot = n /\ b(p).price = p
  BY <1>4, <1>6 DEF Buy
<1>9. \A p \in market : s(p).bot = n /\ s(p).from = p /\ s(p).price = p + Step
                        /\ s(p).id = FreshId({}, p + Step)
  BY <1>3 DEF Sell
<1>. HIDE DEF b, s, n, market
<1>10. D.bot = bot /\ D.sells = S /\ D.buys = T
  <2>1. C = [trade |-> C.trade, buys |-> {}, sells |-> S, bot |-> bot]
    BY <1>3, <1>5, <1>6 DEF C
  <2>. HIDE DEF T
  <2>. QED BY <1>6, <1>7, <2>1
<1>11. OwnBuys(D) = T /\ Own(D) = S
  <2>1. (\A y \in T : y.bot = n) /\ \A x \in S : x.bot = n
    BY <1>8, <1>9
  <2>. HIDE DEF T, S
  <2>2. D.bot.n = n
    BY <1>4, <1>10
  <2>. HIDE DEF D
  <2>. QED BY <1>10, <2>1, <2>2 DEF OwnBuys, Own
<1>. HIDE DEF D
<1>12. Grid(T, S, Low(D.trade))
  <2>1. market \subseteq BotPrices
    BY DEF market
  <2>2. Placed(T, S)
    BY <1>8, <1>9, <2>1 DEF Placed
  <2>3. Once(T, S)
    BY <1>8, <1>9 DEF Once
  <2>4. Covered(T, S, Low(D.trade))
    BY <1>8, <1>9 DEF Covered
  <2>. QED BY <2>2, <2>3, <2>4 DEF Grid
<1>13. GridOf(D)
  BY <1>11, <1>12 DEF GridOf
<1>14. \A o \in HeldSells, x \in S : o.id # x.id
  <2>1. IsFiniteSet(Held) /\ \A o \in HeldSells : o.id \in Held
    BY <1>2, HeldFacts
  <2>2. ASSUME NEW p \in market PROVE s(p).id \notin Held
    <3>1. p + Step \in Nat
      BY GridInMarket, GridIsSane DEF market, Prices
    <3>2. FreshId({}, p + Step) \notin Held
      BY <2>1, <3>1, FS_EmptySet, FreshIsFresh
    <3>. QED BY <1>9, <3>2
  <2>. QED BY <2>1, <2>2
<1>. HIDE DEF S, T
<1>15. HeldSells' = HeldSells /\ Own(book)' = S
  BY <1>1, <1>11 DEF HeldSells, Own
<1>16. AsHeld'
  BY <1>14, <1>15 DEF AsHeld
<1>17. GridOf(book)'
  BY <1>1, <1>13
<1>. QED BY <1>16, <1>17 DEF GInv

LEMMA RequestsGrid ==
  ASSUME IInv, GInv, NEW t \in Tabs, Requests(t)
  PROVE  GInv'
<1>1. BookOK(book, HeldSells) /\ book \in Books /\ EngineOK /\ TabOK
  BY DEF IInv, BookOK
<1>2. book.bot.active => book.bot.n # 0
  BY <1>1 DEF BookOK, BotOK
<1>3. ASSUME book' = book, engine' = engine, intact' = intact PROVE GInv'
  <2>1. Untouched(book, book)
    BY DEF Untouched
  <2>. QED BY <1>3, <2>1, SameGrid
<1>4. ASSUME NEW want \in {0, 1}, ReadToClose(t, want) PROVE GInv'
  BY <1>3, <1>4 DEF ReadToClose, Asks
<1>5. ASSUME NEW p \in Asked, ReadToSell(t, p) PROVE GInv'
  BY <1>3, <1>5 DEF ReadToSell, Asks
<1>6. ASSUME NEW p \in Asked, NEW s \in Stops, NEW a \in {0, p - 1}, ReadToBuy(t, p, s, a) PROVE GInv'
  BY <1>3, <1>6 DEF ReadToBuy, Asks
<1>7. ASSUME CloseTrade(t) PROVE GInv'
  <2>. DEFINE done == ApplyClose(book, tab[t].seen, tab[t].want, NoId, 0)
  <2>1. /\ engine' = engine /\ intact' = intact
        /\ book' = book \/ book' \in done
        /\ tab[t].want \in Nat
    BY <1>1, <1>7 DEF CloseTrade, Answers, Asking, TabOK
  <2>2. ASSUME book' \in done PROVE GInv'
    <3>. HIDE DEF done
    <3>1. PICK C \in done : book' = C
      BY <2>2
    <3>2. ~C.bot.active
      BY <1>1, <2>1, <3>1, EndsByHand DEF done
    <3>. QED BY <2>1, <3>1, <3>2, HaltedGrid
  <2>. QED BY <1>3, <2>1, <2>2
<1>8. ASSUME CreateCloseOrder(t) PROVE GInv'
  <2>. DEFINE x == Sell(book, tab[t].price, 1, 0, 0)
              S == book.sells \cup {x}
              B == [book EXCEPT !.sells = S]
  <2>1. engine' = engine /\ intact' = intact /\ (book' = book \/ book' = B)
    BY <1>8 DEF CreateCloseOrder, Answers
  <2>2. x.bot = 0
    BY DEF Sell
  <2>. HIDE DEF x
  <2>3. ASSUME book.bot.active PROVE Untouched(book, B)
    <3>1. {o \in S : o.bot = book.bot.n} = Own(book)
      BY <1>2, <2>2, <2>3 DEF Own
    <3>. HIDE DEF S
    <3>. QED BY <1>1, <3>1, OtherSellsGrid
  <2>4. B.bot = book.bot
    BY <1>1 DEF Books
  <2>. HIDE DEF B
  <2>. QED BY <1>3, <2>1, <2>3, <2>4, SameGrid
<1>9. ASSUME CreateEntryOrders(t) PROVE GInv'
  <2>. DEFINE x == Buy(book, tab[t].price, tab[t].stop, tab[t].after, 0)
              S == book.buys \cup {x}
              B == [book EXCEPT !.buys = S]
  <2>1. engine' = engine /\ intact' = intact /\ book' = B
    BY <1>9 DEF CreateEntryOrders, Answers
  <2>2. x.bot = 0
    BY DEF Buy
  <2>. HIDE DEF x
  <2>3. ASSUME book.bot.active PROVE Untouched(book, B)
    <3>1. {o \in S : o.bot = book.bot.n} = OwnBuys(book)
      BY <1>2, <2>2, <2>3 DEF OwnBuys
    <3>. HIDE DEF S
    <3>. QED BY <1>1, <3>1, OtherBuysGrid
  <2>4. B.bot = book.bot
    BY <1>1 DEF Books
  <2>. HIDE DEF B
  <2>. QED BY <2>1, <2>3, <2>4, SameGrid
<1>. QED BY <1>4, <1>5, <1>6, <1>7, <1>8, <1>9 DEF Requests

-----------------------------------------------------------------------------
(* The engine's steps. None of the bot's sells is new but by an entry, when *)
(* the engine holds none.                                                  *)

LEMMA FewerHeld ==
  ASSUME GInv, NEW C, book' = C, C.bot.active /\ intact' = "yes" =>
           /\ book.bot.active /\ intact = "yes"
           /\ HeldSells' \subseteq HeldSells /\ Own(C) \subseteq Own(book)
           /\ LevelLost' \/ GridOf(C)
  PROVE  GInv'
<1>1. SUFFICES ASSUME C.bot.active, intact' = "yes" PROVE (AsHeld /\ (LevelLost \/ GridOf(book)))'
  BY DEF GInv
<1>2. AsHeld /\ Own(book)' = Own(C) /\ GridOf(book)' = GridOf(C)
  BY <1>1 DEF GInv
<1>3. AsHeld'
  BY <1>1, <1>2 DEF AsHeld
<1>. QED BY <1>1, <1>2, <1>3

LEMMA NoneHeld ==
  ASSUME NEW C, book' = C, HeldSells' = {},
         C.bot.active /\ intact' = "yes" => LevelLost' \/ GridOf(C)
  PROVE  GInv'
<1>1. GridOf(book)' = GridOf(C) /\ AsHeld'
  BY DEF AsHeld
<1>. QED BY <1>1 DEF GInv

LEMMA EngineReadsGrid ==
  ASSUME IInv, GInv, EngineReads
  PROVE  GInv'
<1>. DEFINE C == Aged(book, Older)
<1>1. /\ engine.pc = "idle" /\ book' = C /\ intact' = intact
      /\ \/ engine'.pc = "check" /\ engine'.orders = book.sells
         \/ engine'.pc = "list"
  BY DEF EngineReads, ToEntries
<1>2. BookOK(book, HeldSells) /\ TRUE \in BOOLEAN /\ C \in {Aged(book, Older), Aged(book, Again)}
  BY DEF IInv
<1>. HIDE DEF C
<1>3. C.bot = book.bot /\ C.sells = book.sells
  BY <1>2, AgedFacts
<1>4. GridOf(book) => GridOf(C)
  BY <1>2, AgedGrid
<1>5. C.bot.active /\ intact' = "yes" => GridOf(C)
  BY <1>1, <1>3, <1>4 DEF GInv, LevelLost
<1>6. HeldSells' \subseteq book.sells
  BY <1>1 DEF HeldSells
<1>7. Own(book)' \subseteq book.sells
  BY <1>1, <1>3 DEF Own
<1>8. AsHeld'
  <2>1. \A o, x \in book.sells : x.id = o.id => x = o
    BY <1>2 DEF BookOK, SellsOK, Orders
  <2>. QED BY <1>6, <1>7, <2>1 DEF AsHeld
<1>9. book'.bot.active /\ intact' = "yes" => GridOf(book)'
  BY <1>1, <1>5
<1>. QED BY <1>8, <1>9 DEF GInv

LEMMA EngineChecksGrid ==
  ASSUME IInv, GInv, EngineChecks
  PROVE  GInv'
<1>1. EngineOK /\ engine.pc = "check" /\ book' = book /\ intact' = intact
  BY DEF IInv, EngineChecks, At, Quietly
<1>2. engine' = ToEntries(engine.bar) \/ \E f : engine' = [engine EXCEPT !.pc = "close", !.fires = f]
  BY DEF EngineChecks, EngineGoes, NoMoreExits
<1>3. HeldSells' \subseteq HeldSells
  <2>1. CASE engine' = ToEntries(engine.bar)
    BY <2>1 DEF HeldSells, ToEntries
  <2>2. ASSUME NEW f, engine' = [engine EXCEPT !.pc = "close", !.fires = f] PROVE HeldSells' \subseteq HeldSells
    <3>1. engine = [pc |-> engine.pc, bar |-> engine.bar, own |-> engine.own, n |-> engine.n,
                    stop |-> engine.stop, orders |-> engine.orders, pass |-> engine.pass,
                    fires |-> engine.fires, entries |-> engine.entries]
      BY <1>1 DEF EngineOK
    <3>2. engine'.orders = engine.orders
      BY <2>2, <3>1
    <3>. QED BY <1>1, <3>2 DEF HeldSells
  <2>. QED BY <1>2, <2>1, <2>2
<1>4. book.bot.active /\ intact' = "yes" => GridOf(book)
  BY <1>1 DEF GInv, LevelLost
<1>. QED BY <1>1, <1>3, <1>4, FewerHeld

LEMMA EngineClosesGrid ==
  ASSUME IInv, GInv, EngineCloses
  PROVE  GInv'
<1>. DEFINE f == engine.fires
            done == ApplyClose(book, f.seen, f.want, f.id, f.price)
            rest == {o \in engine.orders : o.id # f.id}
<1>1. /\ engine.pc = "close"
      /\ IF done = {} THEN engine' = ToEntries(engine.bar) /\ book' = book /\ intact' = intact
         ELSE /\ engine' = (IF f.id = NoId THEN ToEntries(engine.bar)
                            ELSE [engine EXCEPT !.pc = "check", !.pass = @ + 1, !.fires = NoId, !.orders = rest])
              /\ book' \in done
              /\ intact' = IF intact = "yes" /\ f.id # NoId /\ f.price <= book.trade.stop THEN "crossed" ELSE intact
  BY DEF EngineCloses, At, EngineGoes, NoMoreExits
<1>2. /\ BookOK(book, HeldSells) /\ Fit(book, intact # "no") /\ EngineOK /\ FiresOK
      /\ intact \in {"yes", "crossed", "no"}
  BY DEF IInv, Scalars
<1>3. HeldSells' \subseteq HeldSells
  <2>1. CASE engine' = ToEntries(engine.bar)
    BY <2>1 DEF HeldSells, ToEntries
  <2>2. CASE engine' = [engine EXCEPT !.pc = "check", !.pass = @ + 1, !.fires = NoId, !.orders = rest]
    <3>. HIDE DEF rest, f
    <3>1. engine = [pc |-> engine.pc, bar |-> engine.bar, own |-> engine.own, n |-> engine.n,
                    stop |-> engine.stop, orders |-> engine.orders, pass |-> engine.pass,
                    fires |-> engine.fires, entries |-> engine.entries]
      BY <1>1, <1>2 DEF EngineOK
    <3>2. engine'.orders = rest
      BY <2>2, <3>1
    <3>. QED BY <1>1, <3>2 DEF HeldSells, rest
  <2>. QED BY <1>1, <2>1, <2>2
<1>4. CASE done = {}
  <2>1. book' = book /\ intact' = intact
    BY <1>1, <1>4
  <2>2. book.bot.active /\ intact = "yes" => GridOf(book)
    BY <1>1 DEF GInv, LevelLost
  <2>. QED BY <1>3, <2>1, <2>2, FewerHeld
<1>5. ASSUME NEW C \in done, book' = C PROVE GInv'
  <2>. HIDE DEF done, f
  <2>1. /\ f.want \in Nat
        /\ f.id = NoId \/ \E o \in HeldSells : o.id = f.id /\ o.qty = f.want /\ o.price = f.price
    <3>1. \A o \in HeldSells : o.qty \in Nat
      BY <1>2 DEF EngineOK, Sells
    <3>. QED BY <1>1, <1>2, <3>1 DEF FiresOK, f
  <2>2. f.id = NoId \/ \A x \in book.sells : x.id = f.id => x.qty = f.want
    BY <1>2, <2>1 DEF BookOK, SellsOK
  <2>3. C.bot.active => book.bot.active
    <3>. DEFINE all == intact # "no"
    <3>1. all \in BOOLEAN /\ Fit(book, all)
      BY <1>2
    <3>. HIDE DEF all
    <3>. QED BY <1>2, <2>1, <2>2, <3>1, ApplyCloseFacts DEF done
  <2>4. ASSUME C.bot.active, intact' = "yes"
        PROVE  book.bot.active /\ intact = "yes" /\ Own(C) \subseteq Own(book) /\ GridOf(C)
    <3>1. book.bot.active /\ intact = "yes" /\ (f.id = NoId \/ ~(f.price <= book.trade.stop))
      BY <1>1, <1>5, <2>3, <2>4
    <3>2. AsHeld /\ GridOf(book)
      BY <1>1, <3>1 DEF GInv, LevelLost
    <3>3. f.id = NoId \/ \A x \in Own(book) : x.id = f.id => x.price = f.price
      BY <2>1, <3>2 DEF AsHeld
    <3>4. Fit(book, TRUE)
      BY <1>2, <3>1
    <3>5. GridOf(C) /\ C.sells \subseteq book.sells
      BY <1>2, <2>1, <2>2, <2>4, <3>1, <3>2, <3>3, <3>4, ApplyCloseGrid DEF done
    <3>6. C.bot.n = book.bot.n
      <4>. HIDE DEF f
      <4>1. PICK D : /\ BookOK(D, HeldSells) /\ D.bot = book.bot
                     /\ C = AfterClose(book, D, f.id, f.price)
        BY <1>2, <2>1, ClosedParts DEF done
      <4>2. EngineOK /\ BookOK(book, HeldSells)
        BY <1>2
      <4>. QED BY <4>1, <4>2, AfterCloseBot
    <3>. QED BY <3>1, <3>5, <3>6 DEF Own
  <2>. QED BY <1>3, <1>5, <2>4, FewerHeld
<1>. QED BY <1>1, <1>4, <1>5

LEMMA EngineListsGrid ==
  ASSUME IInv, GInv, EngineLists
  PROVE  GInv'
<1>1. engine.pc = "list" /\ book' = book /\ intact' = intact /\ engine'.pc = "enter"
  BY DEF EngineLists, At, Quietly, EngineGoes
<1>2. HeldSells' = {}
  BY <1>1 DEF HeldSells
<1>3. book.bot.active /\ intact' = "yes" => GridOf(book)
  BY <1>1 DEF GInv, LevelLost
<1>. QED BY <1>1, <1>2, <1>3, NoneHeld

LEMMA EngineEntersGrid ==
  ASSUME IInv, GInv, engine.pc = "enter", NEW o \in engine.entries, EngineEnters(o)
  PROVE  GInv'
<1>. DEFINE S == engine.entries \ {o}
            R == book.buys \ {o}
            B == [book EXCEPT !.buys = R]
            C == Enter(B, o.price, o.stop, o.after, o.bot, 1)
<1>1. /\ BookOK(book, HeldSells) /\ book \in Books /\ EngineOK
      /\ \A b \in book.buys : b.bot # 0 => Working(book, b.bot)
      /\ book.bot.active => book.bot.n # 0
  BY DEF IInv, BookOK, BuysOK, BotOK
<1>2. /\ engine.entries \subseteq Buys
      /\ engine = [pc |-> "enter", o |-> engine.o, c |-> engine.c, orders |-> engine.orders, bot |-> engine.bot,
                   entries |-> engine.entries]
  BY <1>1 DEF EngineOK, HeldBuys
<1>. HIDE DEF S
<1>3. intact' = intact
  BY DEF EngineEnters, EngineGoes, Quietly
<1>4. \/ /\ o \in book.buys /\ LongIsFree(book, o.bot)
         /\ book' = C /\ engine' = Passed(o)
      \/ /\ o \in book.buys /\ book' = B /\ LongIsFree(book, o.bot)
         /\ IF o.bot = 0 THEN engine' = Passed(o) ELSE engine' = [Passed(o) EXCEPT !.pc = "halt", !.bot = o.bot]
      \/ book' = book /\ engine' = Passed(o)
  BY DEF EngineEnters, EngineGoes, Quietly
<1>5. /\ Passed(o) = [pc |-> "enter", o |-> engine.o, c |-> engine.c, orders |-> engine.orders,
                       bot |-> engine.bot, entries |-> S]
      /\ engine' = [Passed(o) EXCEPT !.pc = "halt", !.bot = o.bot] =>
           engine' = [pc |-> "halt", o |-> engine.o, c |-> engine.c, orders |-> engine.orders,
                      bot |-> o.bot, entries |-> S]
  <2>. DEFINE x == Passed(o)
  <2>1. x = [pc |-> "enter", o |-> engine.o, c |-> engine.c, orders |-> engine.orders,
             bot |-> engine.bot, entries |-> S]
    BY <1>2 DEF Passed, S
  <2>. HIDE DEF x
  <2>2. ASSUME engine' = [x EXCEPT !.pc = "halt", !.bot = o.bot]
        PROVE  engine' = [pc |-> "halt", o |-> engine.o, c |-> engine.c, orders |-> engine.orders,
                          bot |-> o.bot, entries |-> S]
    BY <2>1, <2>2
  <2>. QED BY <2>1, <2>2 DEF x
<1>6. book.bot.active /\ intact = "yes" => GridOf(book)
  BY DEF GInv, LevelLost
<1>7. HeldSells' = {}
  <2>1. engine'.pc \in {"enter", "halt"}
    <3>1. engine' = Passed(o) \/ engine' = [Passed(o) EXCEPT !.pc = "halt", !.bot = o.bot]
      BY <1>4
    <3>. QED BY <1>5, <3>1
  <2>. QED BY <2>1 DEF HeldSells
<1>8. CASE book' = book /\ engine' = Passed(o)
  BY <1>3, <1>6, <1>7, <1>8, NoneHeld
<1>9. B.trade = book.trade /\ B.bot = book.bot /\ B.sells = book.sells /\ B.buys = R
  BY <1>1 DEF Books
<1>10. BookOK(B, HeldSells)
  <2>1. TRUE \in BOOLEAN /\ R \in SUBSET book.buys
    OBVIOUS
  <2>. HIDE DEF R
  <2>. QED BY <1>1, <2>1, FewerBuys
<1>. HIDE DEF B
<1>11. CASE /\ o \in book.buys /\ book' = B /\ LongIsFree(book, o.bot)
            /\ IF o.bot = 0 THEN engine' = Passed(o) ELSE engine' = [Passed(o) EXCEPT !.pc = "halt", !.bot = o.bot]
  <2>1. ASSUME B.bot.active PROVE LevelLost'
    <3>1. o.bot = book.bot.n /\ o.bot # 0
      BY <1>1, <1>9, <1>11, <2>1 DEF LongIsFree
    <3>2. engine' = [pc |-> "halt", o |-> engine.o, c |-> engine.c, orders |-> engine.orders,
                     bot |-> o.bot, entries |-> S]
      <4>1. engine' = [Passed(o) EXCEPT !.pc = "halt", !.bot = o.bot]
        BY <1>11, <3>1
      <4>. QED BY <1>5, <4>1
    <3>3. engine'.pc = "halt" /\ engine'.bot = o.bot
      BY <3>2
    <3>. QED BY <1>9, <1>11, <3>1, <3>3 DEF LevelLost
  <2>. QED BY <1>7, <1>11, <2>1, NoneHeld
<1>12. CASE /\ o \in book.buys /\ LongIsFree(book, o.bot)
            /\ book' = C /\ engine' = Passed(o)
  <2>1. o.price \in Prices /\ o.stop \in 0..Top /\ o.after \in 0..Top /\ o.bot \in Nat /\ 1 \in 0..2
    BY <1>2 DEF Buys
  <2>2. ASSUME C.bot.active, intact' = "yes" PROVE GridOf(C)
    <3>1. C.bot = B.bot
      <4>. DEFINE all == TRUE
      <4>1. all \in BOOLEAN
        OBVIOUS
      <4>2. LongIsFree(B, o.bot) /\ (o.bot # 0 => Working(B, o.bot))
        BY <1>1, <1>9, <1>12 DEF LongIsFree, Working
      <4>. HIDE DEF C
      <4>. HIDE DEF all
      <4>3. (Fit(B, all) => Fit(C, all)) /\ C.bot = B.bot
        BY <1>1, <1>10, <2>1, <4>1, <4>2, EnterFacts DEF C
      <4>. QED BY <4>3
    <3>2. o.bot = book.bot.n /\ book.bot.active /\ book.bot.n # 0
      BY <1>1, <1>9, <1>12, <2>2, <3>1 DEF LongIsFree
    <3>3. Working(B, o.bot)
      BY <1>9, <3>2 DEF Working
    <3>4. GridOf(book)
      BY <1>3, <1>6, <2>2, <3>2
    <3>5. B.buys = book.buys \ {o}
      BY <1>9
    <3>. QED BY <1>9, <1>10, <1>12, <2>1, <3>2, <3>3, <3>4, <3>5, EnterGrid
  <2>. HIDE DEF C
  <2>. QED BY <1>7, <1>12, <2>2, NoneHeld
<1>. QED BY <1>4, <1>8, <1>11, <1>12

LEMMA EngineHaltsGrid ==
  ASSUME IInv, GInv, EngineHalts
  PROVE  GInv'
<1>. DEFINE C == HaltBot(book, engine.bot)
<1>1. /\ engine.pc = "halt" /\ book' = C /\ intact' = intact
      /\ engine' = [engine EXCEPT !.pc = "enter", !.bot = 0]
  BY DEF EngineHalts, At, EngineGoes
<1>2. BookOK(book, HeldSells) /\ EngineOK /\ TRUE \in BOOLEAN
  BY DEF IInv
<1>3. engine = [pc |-> engine.pc, o |-> engine.o, c |-> engine.c, orders |-> engine.orders,
                bot |-> engine.bot, entries |-> engine.entries]
  BY <1>1, <1>2 DEF EngineOK
<1>4. engine'.pc = "enter"
  BY <1>1, <1>3
<1>5. HeldSells' = {}
  BY <1>4 DEF HeldSells
<1>6. C.bot.active => book.bot.active /\ ~Working(book, engine.bot)
  BY <1>2, HaltFacts
<1>7. ~Working(book, engine.bot) => C = book
  BY DEF HaltBot
<1>. HIDE DEF C
<1>8. ASSUME C.bot.active, intact' = "yes" PROVE GridOf(C)
  <2>1. book.bot.active /\ ~Working(book, engine.bot) /\ C = book /\ intact = "yes"
    BY <1>1, <1>6, <1>7, <1>8
  <2>2. engine.bot # book.bot.n
    BY <1>2, <2>1 DEF Working, BookOK, BotOK
  <2>. QED BY <2>1, <2>2 DEF GInv, LevelLost
<1>. QED BY <1>1, <1>5, <1>8, NoneHeld

LEMMA EngineEndsGrid ==
  ASSUME IInv, GInv, EngineEnds
  PROVE  GInv'
<1>1. engine.pc = "enter" /\ book' = book /\ intact' = intact /\ engine'.pc = "idle"
  BY DEF EngineEnds, At, NotBusy
<1>2. HeldSells' = {}
  BY <1>1 DEF HeldSells
<1>3. book.bot.active /\ intact' = "yes" => GridOf(book)
  BY <1>1 DEF GInv, LevelLost
<1>. QED BY <1>1, <1>2, <1>3, NoneHeld

LEMMA EngineFailsGrid ==
  ASSUME IInv, GInv, EngineFails
  PROVE  GInv'
<1>. DEFINE A == Aged(book, Again)
<1>1. /\ engine'.pc = "idle"
      /\ book' = A \/ book' = Young(A)
      /\ intact' = IF engine.pc = "halt" THEN "no" ELSE intact
  BY DEF EngineFails, At, NotBusy
<1>2. BookOK(book, HeldSells) /\ TRUE \in BOOLEAN /\ A \in {Aged(book, Older), Aged(book, Again)}
  BY DEF IInv
<1>3. HeldSells' = {}
  BY <1>1 DEF HeldSells
<1>. HIDE DEF A
<1>4. BookOK(A, HeldSells) /\ A.bot = book.bot
  BY <1>2, AgedFacts
<1>5. Young(A).bot = book.bot
  BY <1>2, <1>4, YoungFacts
<1>6. book.bot.active /\ intact' = "yes" => GridOf(A) /\ GridOf(Young(A))
  <2>1. SUFFICES ASSUME book.bot.active, intact' = "yes" PROVE GridOf(A) /\ GridOf(Young(A))
    OBVIOUS
  <2>2. GridOf(book)
    BY <1>1, <2>1 DEF GInv, LevelLost
  <2>3. GridOf(A)
    BY <1>2, <2>2, AgedGrid
  <2>. QED BY <1>4, <2>3, YoungGrid
<1>7. CASE book' = A
  BY <1>3, <1>4, <1>6, <1>7, NoneHeld
<1>8. CASE book' = Young(A)
  BY <1>3, <1>5, <1>6, <1>8, NoneHeld
<1>. QED BY <1>1, <1>7, <1>8


LEMMA InitGrid == Init => GInv
<1>. SUFFICES ASSUME Init PROVE GInv
  OBVIOUS
<1>1. book = [trade |-> NoTrade(0), buys |-> {}, sells |-> {}, bot |-> NoBot]
  BY DEF Init
<1>. QED BY <1>1 DEF NoBot, GInv

LEMMA PersonGrid ==
  ASSUME IInv, GInv, Person
  PROVE  GInv'
<1>1. ASSUME NEW s \in Stops, ModifyTrade(s) PROVE GInv'
  BY <1>1, ModifyTradeGrid
<1>2. ASSUME NEW s \in Stops, NEW p \in Asked, BuyAtMarket(p, s) PROVE GInv'
  BY <1>2, BuyAtMarketGrid
<1>3. ASSUME NEW p \in Prices, NEW f \in Follows, StartBot(p, f) PROVE GInv'
  BY <1>3, StartBotGrid
<1>4. CASE StopBot
  BY <1>4, StopBotGrid
<1>5. CASE Finish
  BY <1>5, FinishGrid
<1>6. ASSUME NEW o \in book.buys, CancelBuy(o) PROVE GInv'
  BY <1>6, CancelBuyGrid
<1>7. ASSUME NEW o \in book.buys, NEW p \in Asked, MoveBuy(o, p) PROVE GInv'
  BY <1>7, MoveBuyGrid
<1>8. ASSUME NEW o \in book.sells, CancelSell(o) PROVE GInv'
  BY <1>8, CancelSellGrid
<1>9. ASSUME NEW o \in book.sells, NEW p \in Asked, MoveSell(o, p) PROVE GInv'
  BY <1>9, MoveSellGrid
<1>10. ASSUME NEW P \in (SUBSET Asked) \ {{}}, NEW f \in Follows, CloseGrid(P, f) PROVE GInv'
  BY <1>10, CloseGridEnds
<1>. QED BY <1>1, <1>2, <1>3, <1>4, <1>5, <1>6, <1>7, <1>8, <1>9, <1>10 DEF Person

LEMMA EngineGrid ==
  ASSUME IInv, GInv, Engine
  PROVE  GInv'
<1>1. ASSUME At("enter"), NEW o \in engine.entries, EngineEnters(o) PROVE GInv'
  BY <1>1, EngineEntersGrid DEF At
<1>. QED BY <1>1, EngineReadsGrid, EngineChecksGrid, EngineClosesGrid, EngineListsGrid, EngineHaltsGrid,
            EngineEndsGrid, EngineFailsGrid DEF Engine

LEMMA StutterGrid ==
  ASSUME GInv, UNCHANGED vars
  PROVE  GInv'
<1>1. book' = book /\ engine' = engine /\ intact' = intact
  BY DEF vars
<1>2. Untouched(book, book)
  BY DEF Untouched
<1>. QED BY <1>1, <1>2, SameGrid

(***************************************************************************)
(* What every step keeps of a grid nobody has touched: each level is       *)
(* placed once, as a buy or as the sell of what it bought, and is missing  *)
(* only below the stop of the position; or the engine is about to halt     *)
(* the bot whose level it has just lost.                                   *)
(***************************************************************************)
THEOREM GridInvariance == Spec => []GInv
<1>1. IInv /\ GInv /\ [Next]_vars => GInv'
  BY PersonGrid, RequestsGrid, EngineGrid, StutterGrid DEF Next
<1>. QED BY InitGrid, <1>1, Invariance, PTL DEF Spec

(* What is placed once and covers the grid is one order of each level.     *)
LEMMA LevelKept ==
  ASSUME NEW U, NEW S, NEW low, Grid(U, S, low), NEW p \in BotPrices
  PROVE  LET n == Cardinality({o \in U : LevelOf(o.price) = LevelOf(p)})
                    + Cardinality({o \in S : LevelOf(o.from) = LevelOf(p)})
         IN n = 1 \/ (n = 0 /\ p <= low)
<1>. DEFINE X == {o \in U : LevelOf(o.price) = LevelOf(p)}
            Y == {o \in S : LevelOf(o.from) = LevelOf(p)}
<1>1. (\A o \in U : o.price \in BotPrices) /\ (\A x \in S : x.from \in BotPrices)
  BY DEF Grid, Placed
<1>2. (\A o \in X : o.price = p) /\ (\A x \in Y : x.from = p)
  BY <1>1, LevelIsOne
<1>3. /\ \A o, x \in X : o = x
      /\ \A o, x \in Y : o = x
      /\ X = {} \/ Y = {}
  BY <1>2 DEF Grid, Once
<1>4. X # {} \/ Y # {} \/ p <= low
  BY DEF Grid, Covered
<1>. HIDE DEF X, Y
<1>5. Cardinality({}) = 0
  BY FS_EmptySet
<1>6. ASSUME NEW Z, Z # {}, \A o, x \in Z : o = x PROVE Cardinality(Z) = 1
  <2>1. PICK o : Z = {o}
    BY <1>6
  <2>. QED BY <2>1, FS_Singleton
<1>7. ASSUME NEW a, NEW b, a = Cardinality(X), b = Cardinality(Y)
      PROVE  a + b = 1 \/ (a + b = 0 /\ p <= low)
  <2>1. CASE X # {}
    BY <1>3, <1>5, <1>6, <1>7, <2>1
  <2>2. CASE X = {} /\ Y # {}
    BY <1>3, <1>5, <1>6, <1>7, <2>2
  <2>3. CASE X = {} /\ Y = {}
    BY <1>4, <1>5, <1>7, <2>3
  <2>. QED BY <2>1, <2>2, <2>3
<1>. QED BY <1>7 DEF X, Y

(* The grid of a working bot that nobody touches, and whose sells nobody   *)
(* fires at the stop, is whole: each level waits to be bought or is held   *)
(* by one sell, and only below the stop it may wait for nothing, whatever  *)
(* is closed, aged or failed meanwhile (backtest.service.ts:1105, 1128).   *)
THEOREM GridWhole == Spec => []GridIsWhole
<1>1. ASSUME GInv, Undisturbed, intact = "yes", NEW p \in BotPrices PROVE LevelIsKept(p)
  <2>. DEFINE U == OwnBuys(book)
              S == Own(book)
              t == book.trade
              n == Cardinality({o \in U : LevelOf(o.price) = LevelOf(p)})
                     + Cardinality({o \in S : LevelOf(o.from) = LevelOf(p)})
  <2>1. Grid(U, S, Low(t))
    BY <1>1 DEF GInv, LevelLost, Undisturbed, At, GridOf
  <2>2. p \in Nat /\ p # 0
    BY GridInMarket, GridIsSane DEF Prices
  <2>. HIDE DEF U, S, t
  <2>3. n = 1 \/ (n = 0 /\ p <= Low(t))
    BY <2>1, LevelKept
  <2>4. {o \in U : LevelOf(o.price) = LevelOf(p)}
          = {o \in book.buys : o.bot = book.bot.n /\ LevelOf(o.price) = LevelOf(p)}
    BY DEF U, OwnBuys
  <2>5. S = SellsOf(book.bot.n)
    BY DEF S, Own, SellsOf
  <2>6. p <= Low(t) => t.open /\ p <= t.stop
    BY <2>2 DEF Low
  <2>. QED BY <2>3, <2>4, <2>5, <2>6 DEF LevelIsKept, t
<1>2. GInv => GridIsWhole
  BY <1>1 DEF GridIsWhole
<1>. QED BY <1>2, GridInvariance, PTL

==============================================================================
