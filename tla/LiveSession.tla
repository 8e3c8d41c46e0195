---------------------------- MODULE LiveSession ----------------------------
(***************************************************************************)
(* A session of one person in the live market (backtest.service.ts with    *)
(* bot-grid.ts, live-engine.service.ts with live-segments.ts and fills.ts, *)
(* live-session-runner.service.ts): the long position of one symbol, its   *)
(* limits to enter and to close, and the grid bot that may lead it.        *)
(*                                                                         *)
(* The engine ticks every two seconds: it reads the position with its stop *)
(* and its limits, tries them on the segment the price has gone since, and *)
(* then tries the limits to enter, a transaction for each. Meanwhile the   *)
(* person opens, closes, moves, cancels and starts bots from any tab. A    *)
(* transaction holds the row of the session (bumpCursor()), so an operator *)
(* here takes the rows of the symbol, the book, to what a transaction      *)
(* makes of them. What is read before it, is read in a step of its own.    *)
(*                                                                         *)
(* Quantities are counted in levels. What a transaction decides by sums of *)
(* money is left open: the exchange may refuse a buy for good.             *)
(***************************************************************************)
EXTENDS Integers, FiniteSetsExt

CONSTANTS
    Tabs,         \* where the person asks from
    Top,          \* the market moves within 1..Top
    Lower, Step,  \* the grid of a bot
    Levels,       \* and how many levels it has
    BotStop,      \* the stop of its position
    StopsAfter,   \* where a level, once sold, moves it: 0 for nowhere
    Asked, Stops, \* the prices and the stops the person may ask for
    Follows,      \* and whether the stop shall follow the takes
    MaxActs,      \* how often the person does something
    MaxTicks,     \* how many segments there are
    MaxFailures,  \* how many things go wrong
    Idle, NoId

Prices == 1..Top
Upper == Lower + Levels * Step
BotPrices == {Lower + j * Step : j \in 0..Levels - 1}

ASSUME GridIsSane ==
    /\ {Top, Lower, Step, Levels, BotStop} \subseteq Nat \ {0}
    /\ BotStop < Lower /\ Upper <= Top
    /\ StopsAfter \in [0..Levels - 1 -> 0..Top] /\ Asked \cup Stops \subseteq Prices
    /\ Follows \subseteq BOOLEAN /\ NoId \notin Nat \X Nat \* the ids are made of two numbers

VARIABLES
    session,      \* backtest_sessions.status
    book,         \* the position, the limits and the bot
    tab,          \* what a tab has read and is about to write
    engine,       \* the tick of the engine
    last,         \* the price the engine has come to: the snapshot of the minute
    intact,       \* "yes", "no" once another than the bot has touched its orders,
                  \* or "crossed" once a sell of it has fired at its stop or below
    acts, ticks, failures

vars == <<session, book, tab, engine, last, intact, acts, ticks, failures>>

(***************************************************************************)
(* age: 2 for what was there when the segment began, 1 for what was made   *)
(* inside it, 0 for what was made after it. prices: the entry price is an  *)
(* average of prices from the first of them to the second, kept for as     *)
(* long as it matters, which is until the position is of age 2.            *)
(***************************************************************************)
NoTrade(n) == [n |-> n, open |-> FALSE, qty |-> 0, closed |-> 0, prices |-> <<0, 0>>, stop |-> 0,
               bot |-> 0, follow |-> FALSE, age |-> 0]
NewTrade(n, qty, price, stop, bot, age) ==
    [NoTrade(n) EXCEPT !.open = TRUE, !.qty = qty, !.prices = <<price, price>>, !.stop = stop, !.bot = bot, !.age = age]
NoBot == [n |-> 0, active |-> FALSE, follow |-> FALSE]
NotBusy == [pc |-> "idle"]

Init ==
    /\ session = "active"
    /\ book = [trade |-> NoTrade(0), buys |-> {}, sells |-> {}, bot |-> NoBot]
    /\ tab = [t \in Tabs |-> Idle] /\ engine = NotBusy /\ last \in Prices
    /\ intact = "yes" /\ acts = 0 /\ ticks = 0 /\ failures = 0

Left(t) == t.qty - t.closed
Working(B, b) == b # 0 /\ B.bot.n = b /\ B.bot.active

\* the ids the engine still holds are not given again
Held == IF engine.pc = "idle" THEN {} ELSE {o.id : o \in engine.orders \cup engine.entries}
FreshId(orders, price) ==
    <<price, Min({k \in 0..Cardinality(orders) + Cardinality(Held) : <<price, k>> \notin {o.id : o \in orders} \cup Held})>>

Buy(B, price, stop, after, bot) ==
    [id |-> FreshId(B.buys, price), price |-> price, stop |-> stop, after |-> after, bot |-> bot, age |-> 0]
Sell(B, price, qty, from, bot) ==
    [id |-> FreshId(B.sells, price), price |-> price, qty |-> qty, from |-> from, bot |-> bot]

-----------------------------------------------------------------------------
(* What the transactions are made of.                                      *)

LevelOf(price) == \* botLevelOf(): the nearest level
    LET j == (2 * (price - Lower) + Step) \div (2 * Step)
    IN IF j < 0 THEN 0 ELSE IF j >= Levels THEN Levels - 1 ELSE j

AnyLong(B, by) == TRUE \* mutant: the long is not kept for the bot
LongIsFree(B, by) == B.bot.active => by = B.bot.n

HaltBot(B, b) ==
    IF Working(B, b) THEN [B EXCEPT !.bot.active = FALSE, !.buys = {o \in @ : o.bot # b}] ELSE B

TightenStop(B, target, price) ==
    IF B.trade.open /\ target < price /\ target > B.trade.stop THEN [B EXCEPT !.trade.stop = target] ELSE B

Added(t, qty, price) == \* addCore()
    [t EXCEPT !.qty = @ + qty,
              !.prices = IF t.age = 2 THEN @ ELSE <<Min({@[1], price}), Max({@[2], price})>>]

Opened(B, qty, price, stop, by, age) == \* openInTx(): a position, or more of the one there is
    [B EXCEPT !.trade = IF @.open THEN Added(@, qty, price) ELSE NewTrade(@.n + 1, qty, price, stop, by, age)]

SellAfterBotBuy(B, price, by) ==
    IF Working(B, by) THEN [B EXCEPT !.sells = @ \cup {Sell(B, price + Step, 1, price, by)}] ELSE B

Enter(B, price, stop, after, by, age) == \* openChecked() once the order is taken
    LET C == SellAfterBotBuy(Opened(B, 1, price, stop, by, age), price, by)
    IN IF after > 0 THEN TightenStop(C, after, price) ELSE C

BoughtBack(B, levels) ==
    [B EXCEPT !.buys = @ \cup {Buy(B, p, BotStop, 0, B.bot.n) : p \in levels}]

SoldLevelOnly(B, exit) == {p \in BotPrices : p + Step = exit} \* mutant: what the stop took stays away
Standing(B) == {LevelOf(o.price) : o \in {o \in B.buys : o.bot = B.bot.n}}
LevelsAgain(B, exit) == {p \in BotPrices : p < exit /\ LevelOf(p) \notin Standing(B)}

BuyAfterBotSell(B, from, exit, by) ==
    IF ~Working(B, by) THEN B
    ELSE IF ~B.trade.open THEN BoughtBack(B, LevelsAgain(B, exit))
    ELSE LET target == StopsAfter[LevelOf(from)]
             C == IF B.bot.follow /\ target > 0 THEN TightenStop(B, target, exit) ELSE B
             D == IF C = B THEN B ELSE [C EXCEPT !.buys = {o \in @ : o.bot = by => o.price > target}]
         IN IF from <= D.trade.stop THEN D ELSE BoughtBack(D, {from})

KeepGoing(B, by) == B \* mutant: a close by another hand does not end the bot

\* the position of the bot was closed, whole or in part, by other than its sell
HaltOnClose(B, by) ==
    LET C == HaltBot(B, by)
    IN IF C # B /\ B.trade.open THEN [C EXCEPT !.sells = {o \in @ : o.bot # by}] ELSE C

\* followStop(): the entry, the limit before, or a target of its own: any tighter stop below the fill
FollowStop(B, price) ==
    IF B.trade.follow THEN {TightenStop(B, s, price) : s \in Prices} ELSE {B}

LeftAsSeen(B, seen) == Left(seen) \* mutant: by the row the caller has read
LeftNow(B, seen) == Left(B.trade)

Moved(B, seen) == ~B.trade.open \/ B.trade.n # seen.n \/ B.trade.closed # seen.closed

(***************************************************************************)
(* applyClose(): what may become of a book, none if it was overtaken.      *)
(* seen is the row as the caller read it, want the quantity (0 for all),   *)
(* id the limit that fired, if it was one.                                 *)
(***************************************************************************)
ApplyClose(B, seen, want, id, price) ==
    LET left == LeftNow(B, seen)
        qty == IF want = 0 THEN left ELSE Min({want, left})
        fired == {o \in B.sells : o.id = id}
        by == B.trade.bot
        part == [B EXCEPT !.trade.closed = @ + qty, !.sells = @ \ fired]
        rest == [NoTrade(B.trade.n) EXCEPT !.qty = Left(part.trade)]
        closed == IF qty < left THEN IF id = NoId THEN {part} ELSE FollowStop(part, price)
                  ELSE {[part EXCEPT !.trade = rest, !.sells = {}]}
    IN IF Moved(B, seen) THEN {}
       ELSE {IF \E o \in fired : o.bot # 0
               THEN LET o == CHOOSE o \in fired : TRUE IN BuyAfterBotSell(C, o.from, price, o.bot)
             ELSE HaltOnClose(C, by) : C \in closed}
-----------------------------------------------------------------------------
(* The person. What goes by one transaction, or one statement, is a step.  *)

Acts == acts < MaxActs /\ acts' = acts + 1
Changes(B) == book' = B /\ Acts /\ UNCHANGED <<tab, engine, last, ticks, failures>>
Touch(b) == intact' = IF Working(book, b) THEN "no" ELSE intact

BuyAtMarket(price, stop) == \* openTrade(), addToTrade()
    /\ session = "active" /\ LongIsFree(book, 0) /\ stop < price
    /\ Changes(Opened(book, 1, price, stop, 0, 0)) /\ UNCHANGED <<session, intact>>

StartBot(price, follow) == \* at the price and above it bought at once, with the sells; below it limits
    /\ session = "active" /\ ~book.bot.active /\ ~book.trade.open /\ book.buys = {}
    /\ price \in Lower..Upper
    /\ LET n == book.bot.n + 1
           market == {p \in BotPrices : p >= price}
           B == [book EXCEPT !.bot = [n |-> n, active |-> TRUE, follow |-> follow]]
           C == IF market = {} THEN B
                ELSE [Opened(B, Cardinality(market), price, BotStop, n, 0)
                        EXCEPT !.sells = {Sell(B, p + Step, 1, p, n) : p \in market}]
       IN Changes(BoughtBack(C, BotPrices \ market))
    /\ intact' = "yes" /\ UNCHANGED session

StopBot ==
    /\ session = "active" /\ book.bot.active
    /\ Changes(HaltBot(book, book.bot.n)) /\ UNCHANGED <<session, intact>>

ModifyTrade(stop) == \* on any side of the price: only the browser knows it
    /\ session = "active" /\ book.trade.open /\ stop # book.trade.stop
    /\ Changes([book EXCEPT !.trade.stop = stop]) /\ Touch(book.trade.bot) /\ UNCHANGED session

MoveBuy(o, price) == \* canceled and placed anew, for the engine holds limits by their ids
    /\ session = "active" /\ o \in book.buys
    /\ price # o.price /\ price > o.stop /\ price > o.after
    /\ Changes([book EXCEPT !.buys = (@ \ {o}) \cup {Buy(book, price, o.stop, o.after, o.bot)}])
    /\ Touch(o.bot) /\ UNCHANGED session

MoveSell(o, price) == \* in place
    /\ session = "active" /\ o \in book.sells /\ price # o.price
    /\ Changes([book EXCEPT !.sells = (@ \ {o}) \cup {[o EXCEPT !.price = price]}])
    /\ Touch(o.bot) /\ UNCHANGED session

CancelBuy(o) ==
    /\ o \in book.buys
    /\ Changes([book EXCEPT !.buys = @ \ {o}]) /\ Touch(o.bot) /\ UNCHANGED session

CancelSell(o) ==
    /\ o \in book.sells
    /\ Changes([book EXCEPT !.sells = @ \ {o}]) /\ Touch(o.bot) /\ UNCHANGED session

CloseGrid(prices, follow) == \* createCloseGrid(): the position is the person's from now on
    /\ session = "active" /\ book.trade.open /\ Cardinality(prices) <= Left(book.trade)
    /\ LET B == HaltBot(book, book.trade.bot) IN
       \E qty \in {1, Left(book.trade) \div Cardinality(prices)} :
         Changes([B EXCEPT !.sells = {Sell(B, p, qty, 0, 0) : p \in prices}, !.trade.follow = follow])
    /\ UNCHANGED <<session, intact>>

Finish ==
    /\ session = "active" /\ ~book.trade.open /\ session' = "finished"
    /\ Changes([book EXCEPT !.buys = {}, !.bot.active = FALSE]) /\ UNCHANGED intact

Asks(t, request) ==
    /\ tab[t] = Idle /\ tab' = [tab EXCEPT ![t] = request] /\ Acts
    /\ UNCHANGED <<session, book, engine, last, intact, ticks, failures>>
Answers(t, B) ==
    /\ tab' = [tab EXCEPT ![t] = Idle] /\ book' = B
    /\ UNCHANGED <<session, engine, last, intact, acts, ticks, failures>>
Asking(t, kind) == tab[t] # Idle /\ tab[t].kind = kind

Seen == [n |-> book.trade.n, qty |-> book.trade.qty, closed |-> book.trade.closed]

ReadToClose(t, want) == \* closeTrade() before its transaction
    /\ book.trade.open /\ want <= Left(book.trade)
    /\ Asks(t, [kind |-> "close", seen |-> Seen, want |-> want])

CloseTrade(t) ==
    /\ Asking(t, "close")
    /\ LET done == ApplyClose(book, tab[t].seen, tab[t].want, NoId, 0)
       IN IF done = {} THEN Answers(t, book) ELSE \E B \in done : Answers(t, B)

ReadToSell(t, price) == \* createCloseOrder() takes no lock: what is left is what was read
    /\ session = "active" /\ book.trade.open
    /\ Asks(t, [kind |-> "sell", n |-> book.trade.n, price |-> price])

CreateCloseOrder(t) == \* on a closed position it is never read again
    /\ Asking(t, "sell")
    /\ Answers(t, IF book.trade.open /\ book.trade.n = tab[t].n
                    THEN [book EXCEPT !.sells = @ \cup {Sell(book, tab[t].price, 1, 0, 0)}] ELSE book)

ReadToBuy(t, price, stop, after) == \* createEntryOrders() neither
    /\ session = "active" /\ LongIsFree(book, 0) /\ stop < price /\ after < price
    /\ Asks(t, [kind |-> "buy", price |-> price, stop |-> stop, after |-> after])

CreateEntryOrders(t) ==
    /\ Asking(t, "buy")
    /\ Answers(t, [book EXCEPT !.buys = @ \cup {Buy(book, tab[t].price, tab[t].stop, tab[t].after, 0)}])

-----------------------------------------------------------------------------
(* The engine: one segment of the price, from what it has come to.         *)

Bar(o, c, lo, hi) == [o |-> o, c |-> c, lo |-> lo, hi |-> hi]
Bars(o) == UNION {{Bar(o, c, lo, hi) : lo \in 1..Min({o, c}), hi \in Max({o, c})..Top} : c \in Prices}
\* barForTrade(): a position from inside the segment has seen only the way from its entry to the end
BarsOfTrade(t, bar) ==
    IF t.open /\ t.age < 2 THEN {Bar(e, bar.c, Min({e, bar.c}), Max({e, bar.c})) : e \in t.prices[1]..t.prices[2]}
    ELSE {bar}

Touches(bar, price) == bar.lo <= price /\ price <= bar.hi
Distance(p, q) == IF p < q THEN q - p ELSE p - q
Closest(open, orders) == {o \in orders : \A x \in orders : Distance(open, o.price) <= Distance(open, x.price)}
Touched(bar, orders) == {o \in orders : Touches(bar, o.price)}

Older(age) == IF age = 2 THEN 2 ELSE age + 1
Again(age) == IF age = 2 THEN 2 ELSE 0 \* the segment is tried again, and longer
Aged(B, Age(_)) ==
    LET t == [B.trade EXCEPT !.age = IF B.trade.open THEN Age(@) ELSE 0] IN
    [B EXCEPT !.trade = IF t.age = 2 THEN [t EXCEPT !.prices = <<0, 0>>] ELSE t,
              !.buys = {[o EXCEPT !.age = Age(@)] : o \in B.buys}]
Young(B) == [B EXCEPT !.buys = {[o EXCEPT !.age = 0] : o \in B.buys}] \* the minute is tried again, all of it

ToEntries(bar) == [pc |-> "list", bar |-> bar, orders |-> {}, entries |-> {}]

\* Whatever is made while the engine is at it, is made after its segment.
EngineReads ==
    /\ engine.pc = "idle" /\ session = "active" /\ (book.trade.open \/ book.buys # {})
    /\ ticks < MaxTicks /\ ticks' = ticks + 1
    /\ book' = Aged(book, Older)
    /\ \E bar \in Bars(last) : \E own \in BarsOfTrade(book'.trade, bar) :
         engine' = IF book.trade.open
                     THEN [pc |-> "check", bar |-> bar, own |-> own, n |-> book.trade.n, stop |-> book.trade.stop,
                           orders |-> book.sells, pass |-> 0, fires |-> NoId, entries |-> {}]
                     ELSE ToEntries(bar)
    /\ UNCHANGED <<session, tab, last, intact, acts, failures>>

At(pc) == engine.pc = pc
EngineGoes(e) == engine' = e /\ UNCHANGED <<session, tab, last, acts, ticks>>
Quietly == UNCHANGED <<book, intact, failures>>
NoMoreExits == ToEntries(engine.bar)

StopHit(bar, stop) == bar.o <= stop \/ bar.lo <= stop
PassesOver == engine.pass > Cardinality(engine.orders)

(***************************************************************************)
(* applySegment(): a pass of its loop, with the row systemClose() reads.   *)
(* A stop, and a take like it, closes everything; a limit its quantity.    *)
(* The stop and the limits are those the segment began with.               *)
(***************************************************************************)
EngineChecks ==
    /\ At("check")
    /\ LET touched == Touched(engine.own, engine.orders)
           here == book.trade.open /\ book.trade.n = engine.n
           Fires(want, id, price) ==
               IF here THEN [engine EXCEPT !.pc = "close", !.fires = [seen |-> Seen, want |-> want, id |-> id, price |-> price]]
               ELSE NoMoreExits
       IN IF PassesOver THEN EngineGoes(NoMoreExits)
          ELSE IF StopHit(engine.own, engine.stop) THEN EngineGoes(Fires(0, NoId, engine.stop))
          ELSE IF touched = {} THEN EngineGoes(NoMoreExits)
          ELSE \E o \in Closest(engine.own.o, touched) : EngineGoes(Fires(o.qty, o.id, o.price))
    /\ Quietly

EngineCloses == \* systemClose(): a close that was overtaken waits for the next tick
    /\ At("close")
    /\ LET f == engine.fires
           done == ApplyClose(book, f.seen, f.want, f.id, f.price)
       IN IF done = {} THEN EngineGoes(NoMoreExits) /\ UNCHANGED <<book, intact>>
          ELSE /\ EngineGoes(IF f.id = NoId THEN NoMoreExits
                             ELSE [engine EXCEPT !.pc = "check", !.pass = @ + 1, !.fires = NoId,
                                                 !.orders = {o \in @ : o.id # f.id}])
               /\ book' \in done
               /\ intact' = IF intact = "yes" /\ f.id # NoId /\ f.price <= book.trade.stop THEN "crossed" ELSE intact
    /\ UNCHANGED failures

EngineLists == \* fillEntries(): those that stood when the segment began
    /\ At("list")
    /\ EngineGoes([pc |-> "enter", o |-> engine.bar.o, c |-> engine.bar.c, orders |-> {}, bot |-> 0,
                   entries |-> Touched(engine.bar, {o \in book.buys : o.age = 2})])
    /\ Quietly

Passed(o) == [engine EXCEPT !.entries = @ \ {o}]
EngineEnters(o) == \* systemEnter(); its time is the end of the segment
    /\ At("enter") /\ o \in Closest(engine.o, engine.entries)
    /\ IF session = "active" /\ o \in book.buys /\ LongIsFree(book, o.bot)
         THEN \/ /\ book' = Enter([book EXCEPT !.buys = @ \ {o}], o.price, o.stop, o.after, o.bot, 1)
                 /\ EngineGoes(Passed(o)) /\ UNCHANGED <<intact, failures>>
              \/ /\ failures < MaxFailures /\ failures' = failures + 1 \* hopeless: no money, no margin, past the stop
                 /\ book' = [book EXCEPT !.buys = @ \ {o}]
                 /\ EngineGoes(IF o.bot = 0 THEN Passed(o) ELSE [Passed(o) EXCEPT !.pc = "halt", !.bot = o.bot])
                 /\ UNCHANGED intact
         ELSE EngineGoes(Passed(o)) /\ Quietly

EngineHalts == \* a bot without a level would trade no more
    /\ At("halt")
    /\ book' = HaltBot(book, engine.bot)
    /\ EngineGoes([engine EXCEPT !.pc = "enter", !.bot = 0]) /\ UNCHANGED <<intact, failures>>

EngineEnds ==
    /\ At("enter") /\ engine.entries = {}
    /\ engine' = NotBusy /\ last' = engine.c
    /\ UNCHANGED <<session, book, tab, intact, acts, ticks, failures>>

EngineFails == \* a statement throws, or the worker restarts and its snapshot is lost
    /\ engine.pc # "idle" /\ failures < MaxFailures /\ failures' = failures + 1
    /\ engine' = NotBusy
    /\ \/ book' = Aged(book, Again) /\ UNCHANGED last
       \/ book' \in {Aged(book, Again), Young(Aged(book, Again))} /\ last' \in Prices
    /\ intact' = IF At("halt") THEN "no" ELSE intact \* the level is gone, and the bot goes on
    /\ UNCHANGED <<session, tab, acts, ticks>>

-----------------------------------------------------------------------------
Person ==
    \/ \E s \in Stops : ModifyTrade(s) \/ \E p \in Asked : BuyAtMarket(p, s)
    \/ \E p \in Prices, f \in Follows : StartBot(p, f)
    \/ StopBot \/ Finish
    \/ \E o \in book.buys : CancelBuy(o) \/ \E p \in Asked : MoveBuy(o, p)
    \/ \E o \in book.sells : CancelSell(o) \/ \E p \in Asked : MoveSell(o, p)
    \/ \E prices \in (SUBSET Asked) \ {{}}, f \in Follows : CloseGrid(prices, f)

Requests(t) ==
    \/ \E want \in {0, 1} : ReadToClose(t, want)
    \/ \E p \in Asked : ReadToSell(t, p)
    \/ \E p \in Asked, s \in Stops : \E a \in {0, p - 1} : ReadToBuy(t, p, s, a)
    \/ CloseTrade(t) \/ CreateCloseOrder(t) \/ CreateEntryOrders(t)

Engine ==
    \/ EngineReads \/ EngineChecks \/ EngineCloses \/ EngineLists
    \/ (At("enter") /\ \E o \in engine.entries : EngineEnters(o))
    \/ EngineHalts \/ EngineEnds \/ EngineFails

Next == Person \/ (\E t \in Tabs : Requests(t)) \/ Engine

Spec == Init /\ [][Next]_vars

-----------------------------------------------------------------------------
Ids == Nat \X Nat
Trades == [n : Nat, open : BOOLEAN, qty : Nat, closed : Nat, prices : Nat \X Nat, stop : 0..Top,
           bot : Nat, follow : BOOLEAN, age : 0..2]
Buys == [id : Ids, price : Prices, stop : 0..Top, after : 0..Top, bot : Nat, age : 0..2]
Sells == [id : Ids, price : 1..Top + Step, qty : Nat, from : 0..Top, bot : Nat]
Bots == [n : Nat, active : BOOLEAN, follow : BOOLEAN]

TypeOK ==
    /\ session \in {"active", "finished"} /\ last \in Prices /\ intact \in {"yes", "crossed", "no"}
    /\ book \in [trade : Trades, buys : SUBSET Buys, sells : SUBSET Sells, bot : Bots]
    /\ book.trade.closed <= book.trade.qty
    /\ \A orders \in {book.buys, book.sells} :
         /\ IsFiniteSet(orders)
         /\ \A o, x \in orders : o.bot <= book.bot.n /\ (x.id = o.id => x = o)
    /\ engine.pc \in {"idle", "check", "close", "list", "enter", "halt"}

(***************************************************************************)
(* A position that is closed whole has nothing left inside it: a buy of    *)
(* the bot, or of the person, between the read of the one who closes it    *)
(* and the lock is closed with it (backtest.service.ts:1379).              *)
(***************************************************************************)
ClosedIsWhole == ~book.trade.open => book.trade.qty = 0

(***************************************************************************)
(* While a bot works, the long is its own, whoever buys beside it; a bot   *)
(* that does not work has no buys left standing; and a finished session    *)
(* has neither a position nor a bot (backtest.service.ts:1171, 1083).      *)
(***************************************************************************)
LongHasOneOwner ==
    /\ book.bot.active /\ book.trade.open => book.trade.bot = book.bot.n
    /\ \A o \in book.buys : o.bot # 0 => Working(book, o.bot)
    /\ session = "finished" => ~book.trade.open /\ ~book.bot.active

SellsOf(b) == {o \in book.sells : o.bot = b}

(***************************************************************************)
(* The sells of a working bot fit in what is left of the position, and are *)
(* all of it while nobody has touched them: what another hand closes, or a *)
(* limit that fires after it was canceled, ends the bot (:1459).           *)
(***************************************************************************)
SellsFit ==
    book.bot.active =>
        LET sum == Cardinality(SellsOf(book.bot.n)) IN
        IF intact # "no" THEN sum = Left(book.trade) ELSE sum <= Left(book.trade)

(***************************************************************************)
(* The grid of a working bot is whole: each level is bought, or waits to   *)
(* be, and not twice; only below the stop of an open position it may wait  *)
(* for nothing, and is back when the position is gone (:1105, :1128).      *)
(***************************************************************************)
LevelIsKept(p) ==
    LET n == Cardinality({o \in book.buys : o.bot = book.bot.n /\ LevelOf(o.price) = LevelOf(p)})
               + Cardinality({o \in SellsOf(book.bot.n) : LevelOf(o.from) = LevelOf(p)})
    IN n = 1 \/ (n = 0 /\ book.trade.open /\ p <= book.trade.stop)
Undisturbed == book.bot.active /\ ~At("halt")

GridIsWhole == Undisturbed /\ intact = "yes" => \A p \in BotPrices : LevelIsKept(p)

(***************************************************************************)
(* As the comment says it: what the stop took away comes back whenever the *)
(* position is closed whole (:1128), though sells fired at the stop.       *)
(***************************************************************************)
GridComesBack == Undisturbed /\ intact # "no" => \A p \in BotPrices : LevelIsKept(p)

(***************************************************************************)
(* The limits of a position that a segment touches all fire in it: to put  *)
(* one off would be to close at a price the market has left                *)
(* (live-engine.service.ts:150).                                           *)
(***************************************************************************)
TouchedLimitsFire == At("check") /\ PassesOver => Touched(engine.own, engine.orders) = {}
=============================================================================
