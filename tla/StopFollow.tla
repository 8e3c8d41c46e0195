----------------------------- MODULE StopFollow -----------------------------
(***************************************************************************)
(* The stop that follows the takes (terminal/stream/stop-follow.service.ts *)
(* with its store and rule, the stream of the account it listens to,       *)
(* terminal-stream.service.ts and stream-state.ts, and the grid that makes *)
(* its plans, closeGrid() of terminal.service.ts).                         *)
(*                                                                         *)
(* The worker holds a socket to the exchange for one user and one long     *)
(* position (a short one is its mirror). A plan in the database names the  *)
(* takes of a grid. When a take fills, the stop moves: to the entry after  *)
(* the first, to the price of the previous one after each next. A step is  *)
(* a job in the user's queue: it reads the plan, writes it by its id, asks *)
(* for the mark, sets the stop. Between two awaits the person may replace  *)
(* the grid or move the stop, takes fill, the socket falls, the worker     *)
(* dies, an answer is lost. Prices are small numbers; 0 is no stop.        *)
(***************************************************************************)
EXTENDS Integers, FiniteSets, SequencesExt

CONSTANTS
    Grids,        \* the grids of takes the person may ask for, the first one placed
    First,        \* the grid placed before we begin
    TakesOf,      \* the orders of a grid, in its order
    Price,        \* the price of an order
    StopAfter,    \* the stop asked for after an order, 0 for the rule
    Entry, Size,  \* the position: its entry, and how many takes it is good for
    Marks,        \* the prices the market visits
    Stops,        \* the stops the person may set by hand
    UnknownTries, \* UNKNOWN_TRIES
    MaxQueue,     \* the jobs that may wait behind one another
    MaxWire,      \* the exchange and the person wait while so many events are on the wire
    MaxMoves,     \* how often the price or the person moves
    MaxFaults,    \* how many things go wrong
    NoPlan, NoGrid, NoView, NoJob

Orders == UNION {ToSet(TakesOf[g]) : g \in Grids}

\* a grid has a take at least (terminal.dto.ts:123), and every take is an order of its own
ASSUME GridsAreSane ==
    /\ IsFiniteSet(Grids) /\ First \in Grids
    /\ TakesOf \in [Grids -> Seq(Orders)]
    /\ \A g \in Grids : TakesOf[g] # <<>> /\ IsInjective(TakesOf[g])
    /\ \A g, h \in Grids : g # h => ToSet(TakesOf[g]) \cap ToSet(TakesOf[h]) = {}
    /\ Price \in [Orders -> Nat] /\ StopAfter \in [Orders -> Nat]
    /\ Entry \in Nat /\ \A o \in Orders : Price[o] > Entry
    /\ Size \in Nat /\ Marks \subseteq Nat /\ Stops \subseteq Nat /\ UnknownTries \in Nat

VARIABLES
    size, stop, mark, orders, done,     \* the exchange; done holds the orders by updatedTime
    grid, plan,                         \* closeGrid() under way, and its row in the database
    wire, up, view,                     \* the socket, and the state built from it
    planned, due, tries, queue, job,    \* the memory of StopFollowService
    own,                                \* the last stop set for a plan, since the person last moved it
    moves, faults

exchange == <<size, stop, mark, orders, done>>
stream   == <<wire, up, view>>
memory   == <<planned, due, tries, queue, job>>
budget   == <<own, moves, faults>>
vars     == <<exchange, grid, plan, stream, memory, budget>>

NewPlan(g, takes) ==
    [id |-> g, takes |-> takes, filled |-> <<>>, cancelled |-> {}, target |-> 0, applied |-> TRUE, active |-> TRUE]

Open == {o \in Orders : orders[o] = "New"}
NoPosition == [open |-> FALSE, stop |-> 0]
Fresh == [position |-> IF size > 0 THEN [open |-> TRUE, stop |-> stop] ELSE NoPosition, orders |-> Open]

Init ==
    /\ size = Size /\ stop = 0 /\ mark \in Marks
    /\ \A o \in ToSet(TakesOf[First]) : mark < Price[o]
    /\ orders = [o \in Orders |-> IF o \in ToSet(TakesOf[First]) THEN "New" ELSE "none"]
    /\ done = <<>> /\ grid = NoGrid /\ plan = NewPlan(First, TakesOf[First])
    /\ wire = <<>> /\ up = TRUE /\ view = Fresh \* the screen is open; the tick has not seen the plan yet
    /\ planned = FALSE /\ due = FALSE /\ tries = 0 /\ queue = <<>> /\ job = NoJob
    /\ own = [g \in Grids |-> 0] /\ moves = 0 /\ faults = 0

Fault == faults < MaxFaults /\ faults' = faults + 1
NoFault == UNCHANGED faults

-----------------------------------------------------------------------------
(* The exchange, external: takes, the stop, and what it tells the socket.  *)

OrderEvent(o, status) == [topic |-> "order", order |-> o, status |-> status]
PositionEvent(open, s) == [topic |-> "position", open |-> open, stop |-> s]
Tell(events) == wire' = IF up THEN wire \o events ELSE wire
Room == ~up \/ Len(wire) < MaxWire

Gone(o) == \* an open order is canceled; one that is gone already is no error
    /\ orders' = [orders EXCEPT ![o] = IF @ = "New" THEN "Cancelled" ELSE @]
    /\ done' = IF o \in Open THEN Append(done, o) ELSE done
    /\ Tell(IF o \in Open THEN <<OrderEvent(o, "Cancelled")>> ELSE <<>>)
    /\ UNCHANGED <<size, stop, mark>>

Closed == \* the position is gone, and its reduce-only orders with it
    LET left == SetToSeq(Open) IN
    /\ size' = 0 /\ stop' = 0
    /\ orders' = [o \in Orders |-> IF o \in Open THEN "Cancelled" ELSE orders[o]]
    /\ done' = done \o left
    /\ Tell([i \in DOMAIN left |-> OrderEvent(left[i], "Cancelled")] \o <<PositionEvent(FALSE, 0)>>)

StopSet(s) ==
    /\ stop' = s
    /\ Tell(<<PositionEvent(TRUE, s)>>)
    /\ UNCHANGED <<size, mark, orders, done>>

Fill(o) == \* the last one takes the position with it; its event may come twice, if a cancel met the fill
    /\ o \in Open /\ mark >= Price[o] /\ size > 0 /\ Room
    /\ LET left == IF size = 1 THEN SetToSeq(Open \ {o}) ELSE <<>>
           told == <<OrderEvent(o, "Filled")>> \o [i \in DOMAIN left |-> OrderEvent(left[i], "Cancelled")]
                     \o (IF size = 1 THEN <<PositionEvent(FALSE, 0)>> ELSE <<>>)
       IN /\ orders' = [x \in Orders |-> IF x = o THEN "Filled"
                                        ELSE IF x \in ToSet(left) THEN "Cancelled" ELSE orders[x]]
          /\ done' = Append(done, o) \o left
          /\ stop' = IF size = 1 THEN 0 ELSE stop
          /\ \/ Tell(told) /\ NoFault
             \/ up /\ Tell(<<OrderEvent(o, "Filled")>> \o told) /\ Fault
    /\ size' = size - 1
    /\ UNCHANGED <<mark, grid, plan, up, view, memory, own, moves>>

PriceMoves(m) ==
    /\ m # mark /\ size > 0 /\ Room /\ moves < MaxMoves
    /\ mark' = m /\ moves' = moves + 1
    /\ IF stop > 0 /\ m <= stop THEN Closed ELSE UNCHANGED <<size, stop, orders, done, wire>>
    /\ UNCHANGED <<grid, plan, up, view, memory, own, faults>>

MoveByHand(s) == \* the person sets the stop, on this screen or the exchange's own
    /\ size > 0 /\ s < mark /\ s # stop /\ Room /\ moves < MaxMoves
    /\ StopSet(s) /\ own' = [g \in Grids |-> 0] /\ moves' = moves + 1
    /\ UNCHANGED <<grid, plan, up, view, memory, faults>>

-----------------------------------------------------------------------------
(* closeGrid() in the api process: cancel what hangs, place, record.       *)

GridStart(g) ==
    /\ grid = NoGrid /\ size > 0
    /\ \A o \in ToSet(TakesOf[g]) : orders[o] = "none"
    /\ grid' = [g |-> g, stale |-> SetToSeq(Open), had |-> Open # {}, placed |-> 0]
    /\ UNCHANGED <<exchange, plan, stream, memory, budget>>

GridCancel ==
    /\ grid # NoGrid /\ grid.stale # <<>> /\ Room
    /\ Gone(Head(grid.stale)) /\ grid' = [grid EXCEPT !.stale = Tail(@)]
    /\ UNCHANGED <<plan, up, view, memory, budget>>

Placing == grid # NoGrid /\ grid.stale = <<>> /\ grid.placed < Len(TakesOf[grid.g])

GridPlace ==
    /\ Placing /\ size > 0 /\ Room
    /\ LET o == TakesOf[grid.g][grid.placed + 1] IN
         /\ orders' = [orders EXCEPT ![o] = "New"]
         /\ Tell(<<OrderEvent(o, "New")>>)
    /\ grid' = [grid EXCEPT !.placed = @ + 1]
    /\ UNCHANGED <<size, stop, mark, done, plan, up, view, memory, budget>>

Placed == SubSeq(TakesOf[grid.g], 1, grid.placed)

\* recordFollow(): the old plan gives way to one of a new id, or to none; the request says which
Recorded == \E follow \in BOOLEAN :
    plan' = IF follow /\ grid.placed > 0 THEN NewPlan(grid.g, Placed) ELSE NoPlan

GridRecord == \* after the last take, or after the exchange refused one
    /\ grid # NoGrid /\ grid.stale = <<>>
    /\ \/ ~Placing /\ Recorded /\ NoFault
       \/ /\ Placing /\ IF size = 0 THEN NoFault ELSE Fault
          /\ IF grid.had \/ grid.placed > 0 THEN Recorded ELSE UNCHANGED plan
    /\ grid' = NoGrid
    /\ UNCHANGED <<exchange, stream, memory, own, moves>>

GridLost == \* a cancel fails, the record fails, or the process dies: the plan stays as it was
    /\ grid # NoGrid /\ Fault /\ grid' = NoGrid
    /\ UNCHANGED <<exchange, plan, stream, memory, own, moves>>

-----------------------------------------------------------------------------
(* The stream: a snapshot under a subscription, and events over it.        *)

Kept(seq, T) ==
    LET kept[i \in 0..Len(seq)] ==
          IF i = 0 THEN <<>> ELSE IF seq[i] \in T THEN Append(kept[i - 1], seq[i]) ELSE kept[i - 1]
    IN kept[Len(seq)]

Applied(v, e) == \* applyEvent()
    IF e.topic = "position" THEN [v EXCEPT !.position = [open |-> e.open, stop |-> e.stop]]
    ELSE [v EXCEPT !.orders = IF e.status = "New" THEN @ \cup {e.order} ELSE @ \ {e.order}]

\* what a snapshot leaves of the events before it: notOlder() drops the positions, the orders are told again
Outdated(events) == Kept(events, {e \in ToSet(events) : e.topic = "order"})

Enqueue(j) == queue' = IF planned THEN Append(queue, j) ELSE queue
Reconciling == [kind |-> "reconcile"]

Connect ==
    /\ ~up /\ up' = TRUE
    /\ UNCHANGED <<exchange, grid, plan, wire, view, memory, budget>>

Snapshot == \* the first of a connection: what came before its answer lies over it unseen by the listener
    /\ up /\ view = NoView
    /\ \E k \in 0..Len(wire) :
         /\ view' = FoldLeft(Applied, Fresh, Outdated(SubSeq(wire, 1, k)))
         /\ wire' = Outdated(SubSeq(wire, k + 1, Len(wire)))
    /\ Enqueue(Reconciling)
    /\ UNCHANGED <<exchange, grid, plan, up, planned, due, tries, job, budget>>

Resnapshot == \* the repeated one, at a quiet moment
    /\ up /\ view # NoView /\ wire = <<>> /\ queue = <<>> /\ job = NoJob
    /\ view' = Fresh /\ Enqueue(Reconciling)
    /\ UNCHANGED <<exchange, grid, plan, wire, up, planned, due, tries, job, budget>>

\* a job for a position that is there does nothing: it is left out, the event that ends the position brings another
Deliver ==
    /\ up /\ view # NoView /\ wire # <<>> /\ Len(queue) < MaxQueue
    /\ view' = Applied(view, Head(wire)) /\ wire' = Tail(wire)
    /\ LET e == Head(wire) IN
         IF e.topic = "position" /\ ~e.open THEN Enqueue([kind |-> "gone"])
         ELSE IF e.topic = "order" /\ e.status # "New" THEN Enqueue([kind |-> "orders", order |-> e.order])
         ELSE UNCHANGED queue
    /\ UNCHANGED <<exchange, grid, plan, up, planned, due, tries, job, budget>>

Disconnect == \* nothing that happens until the next snapshot is told
    /\ up /\ Fault
    /\ up' = FALSE /\ view' = NoView /\ wire' = <<>>
    /\ UNCHANGED <<exchange, grid, plan, memory, own, moves>>

-----------------------------------------------------------------------------
(* The rule and the steps of a job.                                        *)

Position == IF view = NoView THEN NoPosition ELSE view.position
Pending(p) == {o \in ToSet(p.takes) : o \notin ToSet(p.filled) /\ o \notin p.cancelled}

FollowTarget(fills, current, explicit) == \* 0: do not move
    LET n == Len(fills)
        target == IF explicit > 0 THEN explicit ELSE IF n >= 2 THEN Price[fills[n - 1]] ELSE Entry
    IN IF target < Price[fills[n]] /\ target > current THEN target ELSE 0

TightestSeen(p) == Position.stop \* mutant: only what the stream has told

\* the plan's own target counts as standing while its event is on the way
Tightest(p) == IF p.target > Position.stop THEN p.target ELSE Position.stop

\* advance() before its save: what the rows of done orders make of the plan
Advance(p, o) ==
    IF o \notin Pending(p) THEN p
    ELSE IF orders[o] # "Filled" THEN [p EXCEPT !.cancelled = @ \cup {o}]
    ELSE LET fills == Append(p.filled, o)
             target == FollowTarget(fills, Tightest(p), StopAfter[o])
         IN IF target = 0 THEN [p EXCEPT !.filled = fills]
            ELSE [p EXCEPT !.filled = fills, !.target = target, !.applied = FALSE]

Step(pc, p) == [pc |-> pc, plan |-> p, moved |-> FALSE, missing |-> {}]
Saving(p, rows) ==
    LET q == FoldLeft(Advance, p, rows) IN [Step("save", q) EXCEPT !.moved = q.target # p.target]
FinishWithoutState(p) == \* mutant: no state is taken for no position
    IF ~Position.open \/ (Pending(p) = {} /\ p.applied) THEN Step("end", p) ELSE NoJob

\* finishIfDone(): the position is gone, or no take can fill and the stop stands
Finish(p) ==
    IF view # NoView /\ (~Position.open \/ (Pending(p) = {} /\ p.applied)) THEN Step("end", p) ELSE NoJob
NoRowsNoPlace(p) == Finish(p) \* mutant: a reconciliation only counts takes

NoRows(p) == IF p.applied THEN Finish(p) ELSE Step("place", p)

Pinned == \* the tick reads whose plans are active; a user it did not know is due at once
    /\ planned # (plan # NoPlan /\ plan.active)
    /\ planned' = ~planned /\ due' = (due \/ ~planned)
    /\ UNCHANGED <<exchange, grid, plan, stream, tries, queue, job, budget>>

Idle ==
    /\ due /\ up /\ view # NoView /\ Len(queue) < MaxQueue
    /\ due' = FALSE /\ queue' = Append(queue, Reconciling)
    /\ UNCHANGED <<exchange, grid, plan, stream, planned, tries, job, budget>>

Begin == \* the next job reads the plan
    /\ job = NoJob /\ queue # <<>> /\ queue' = Tail(queue)
    /\ LET j == Head(queue) IN
         job' = IF plan = NoPlan \/ (plan # NoPlan /\ ~plan.active) THEN NoJob
                ELSE IF j.kind = "orders"
                  THEN IF j.order \in ToSet(plan.takes) THEN Saving(plan, <<j.order>>) ELSE NoJob
                ELSE IF view = NoView THEN NoJob
                ELSE IF ~Position.open THEN Step("end", plan)
                ELSE IF j.kind = "gone" THEN NoJob
                ELSE IF Pending(plan) \subseteq view.orders THEN NoRows(plan)
                ELSE [Step("history", plan) EXCEPT !.missing = Pending(plan) \ view.orders]
    /\ UNCHANGED <<exchange, grid, plan, stream, planned, due, tries, budget>>

At(pc) == job # NoJob /\ job.pc = pc
Goto(pc) == job' = [job EXCEPT !.pc = pc]

History == \* the history may lag; an order placed a moment ago is not in it as done either
    /\ At("history")
    /\ LET missing == job.missing
           ended == missing \cap ToSet(done)
       IN \E known \in SUBSET ended :
            /\ IF known = ended THEN NoFault ELSE Fault
            /\ IF known = missing
                 THEN tries' = 0 /\ UNCHANGED due
                 ELSE /\ tries' = IF tries > UnknownTries THEN tries ELSE tries + 1
                      /\ due' = (due \/ tries < UnknownTries)
            /\ LET rows == Kept(done, known) IN
                 job' = IF rows # <<>> THEN Saving(job.plan, rows) ELSE NoRows(job.plan)
    /\ UNCHANGED <<exchange, grid, plan, stream, planned, queue, own, moves>>

MineByUser == plan # NoPlan \* mutant: the write goes by the user and the position

\* update(): only into the plan the step has read
Mine == plan # NoPlan /\ plan.id = job.plan.id
Write(p) == plan' = IF Mine THEN p ELSE plan

Save ==
    /\ At("save")
    /\ LET p == job.plan IN
         Write([plan EXCEPT !.filled = p.filled, !.cancelled = p.cancelled, !.target = p.target, !.applied = p.applied])
    /\ job' = IF ~Mine THEN NoJob ELSE IF job.moved THEN Step("place", job.plan) ELSE Finish(job.plan)
    /\ UNCHANGED <<exchange, grid, stream, planned, due, tries, queue, budget>>

Looser(s, target) == s < target
Crossed(target) == mark <= target

Place == \* is there anything to set, and is the price past it
    /\ At("place")
    /\ IF job.plan.target = 0 \/ ~Position.open THEN job' = Finish(job.plan)
       ELSE Goto(IF ~Looser(Position.stop, job.plan.target) THEN "stands"
                 ELSE IF Crossed(job.plan.target) THEN "cancel" ELSE "post")
    /\ UNCHANGED <<exchange, grid, plan, stream, planned, due, tries, queue, budget>>

CancelTake(o) ==
    /\ At("cancel") /\ o \in Pending(job.plan) \cap Open
    /\ Gone(o)
    /\ UNCHANGED <<grid, plan, up, view, memory, budget>>

Retry == due' = TRUE /\ job' = Finish(job.plan)

CloseAtMarket ==
    /\ At("cancel") /\ Pending(job.plan) \cap Open = {}
    /\ IF size > 0 THEN Closed /\ UNCHANGED mark ELSE UNCHANGED <<exchange, wire>>
    /\ \/ size > 0 /\ NoFault /\ Goto("closed") /\ UNCHANGED due
       \/ size > 0 /\ Fault /\ Retry
       \/ size = 0 /\ NoFault /\ Retry
    /\ UNCHANGED <<grid, plan, up, view, planned, tries, queue, own, moves>>

PostStop == \* the exchange takes a stop below the mark; the same one is no error
    /\ At("post") /\ size > 0 /\ job.plan.target < mark
    /\ IF stop = job.plan.target THEN UNCHANGED <<exchange, wire>> ELSE StopSet(job.plan.target)
    /\ own' = [own EXCEPT ![job.plan.id] = job.plan.target]
    /\ \/ NoFault /\ Goto("applied") /\ UNCHANGED due
       \/ Fault /\ Retry
    /\ UNCHANGED <<grid, plan, up, view, planned, tries, queue, moves>>

PostRefused ==
    /\ At("post") /\ ~(size > 0 /\ job.plan.target < mark) /\ Retry
    /\ UNCHANGED <<exchange, grid, plan, stream, planned, tries, queue, budget>>

TryFails == \* a request of place() gets no answer, or its write none: the copy is marked all the same
    /\ Fault
    /\ \/ (At("cancel") \/ At("post")) /\ Retry
       \/ At("applied") /\ due' = TRUE /\ job' = Finish([job.plan EXCEPT !.applied = TRUE])
    /\ UNCHANGED <<exchange, grid, plan, stream, planned, tries, queue, own, moves>>

MarkApplied ==
    /\ At("applied") \/ At("stands")
    /\ Write([plan EXCEPT !.applied = TRUE])
    /\ job' = Finish([job.plan EXCEPT !.applied = TRUE])
    /\ UNCHANGED <<exchange, grid, stream, planned, due, tries, queue, budget>>

End ==
    /\ \/ At("end") /\ Write([plan EXCEPT !.active = FALSE])
       \/ At("closed") /\ Write([plan EXCEPT !.applied = TRUE, !.active = FALSE])
    /\ job' = NoJob
    /\ UNCHANGED <<exchange, grid, stream, planned, due, tries, queue, budget>>

StepFails == \* the database or the history throws
    /\ job # NoJob /\ Fault
    /\ job' = NoJob /\ due' = TRUE
    /\ UNCHANGED <<exchange, grid, plan, stream, planned, tries, queue, own, moves>>

Die == \* the worker restarts with an empty memory
    /\ Fault
    /\ up' = FALSE /\ view' = NoView /\ wire' = <<>>
    /\ planned' = FALSE /\ due' = FALSE /\ tries' = 0 /\ queue' = <<>> /\ job' = NoJob
    /\ UNCHANGED <<exchange, grid, plan, own, moves>>

-----------------------------------------------------------------------------
Worker ==
    \/ Begin \/ History \/ Save \/ Place \/ (\E o \in Orders : CancelTake(o)) \/ CloseAtMarket
    \/ PostStop \/ PostRefused \/ TryFails \/ MarkApplied \/ End \/ StepFails
Socket == Connect \/ Snapshot \/ Deliver
Api == GridCancel \/ GridPlace \/ GridRecord \/ GridLost

Next ==
    \/ \E o \in Orders : Fill(o)
    \/ \E m \in Marks : PriceMoves(m)
    \/ \E s \in Stops : MoveByHand(s)
    \/ \E g \in Grids : GridStart(g)
    \/ Api \/ Socket \/ Resnapshot \/ Disconnect \/ Pinned \/ Idle \/ Worker \/ Die

Spec == Init /\ [][Next]_vars

(***************************************************************************)
(* The stream ticks, the queue runs, a repeated snapshot comes every ten   *)
(* minutes or so, and the socket is served: strongly, for the bound on the *)
(* queue may close it now and then, the code never does. Nothing is asked  *)
(* of Idle: the retries are for speed, the snapshots alone suffice.        *)
(***************************************************************************)
FairSpec ==
    /\ Spec
    /\ SF_vars(Socket) /\ WF_vars(Resnapshot) /\ WF_vars(Pinned) /\ WF_vars(Worker)

-----------------------------------------------------------------------------
TypeOK ==
    /\ size \in 0..Size /\ stop \in Nat /\ own \in [Grids -> Nat] /\ mark \in Marks
    /\ orders \in [Orders -> {"none", "New", "Filled", "Cancelled"}] /\ ToSet(done) \subseteq Orders
    /\ grid # NoGrid => ToSet(grid.stale) \subseteq Orders /\ grid.placed \in 0..Len(TakesOf[grid.g])
    /\ plan # NoPlan => plan.id \in Grids /\ plan.target \in Nat
    /\ {up, planned, due} \subseteq BOOLEAN /\ tries \in 0..UnknownTries + 1
    /\ view # NoView => up /\ view.orders \subseteq Orders

(***************************************************************************)
(* A plan counts a take of its own once, as filled or as canceled, and as  *)
(* what it was on the exchange: through events that come twice, events and *)
(* the history telling of one order, and a grid replaced in mid-step       *)
(* (stop-follow.service.ts:154, stop-follow.store.ts:70).                  *)
(***************************************************************************)
CountsItsOwn ==
    plan # NoPlan =>
        /\ ToSet(plan.filled) \cup plan.cancelled \subseteq ToSet(plan.takes)
        /\ Len(plan.filled) = Cardinality(ToSet(plan.filled))
        /\ \A o \in ToSet(plan.filled) : orders[o] = "Filled"
        /\ \A o \in plan.cancelled : orders[o] = "Cancelled"

(***************************************************************************)
(* The worker never takes the stop of a plan back: until the person moves  *)
(* it, what a step sets is at least what the steps before it have set,     *)
(* across retries, lost answers, late events and restarts (the comment at  *)
(* stop-follow.service.ts:196). It is said of one plan: a step of a plan   *)
(* that was replaced may still set a stop the next plan does not know of.  *)
(***************************************************************************)
OwnStopHolds == [][(\A g \in Grids : own'[g] >= own[g]) \/ (job' = job /\ stop' # stop)]_vars

(***************************************************************************)
(* A plan ends with its position, or when none of its takes can fill any   *)
(* more and its last stop was set; a stream without a state is not a       *)
(* position that is gone (stop-follow.service.ts:300, 306).                *)
(***************************************************************************)
PlanEndsWhenDone ==
    [][plan # NoPlan /\ plan.active /\ plan' # NoPlan /\ plan'.id = plan.id /\ ~plan'.active =>
        size = 0 \/ (job.plan.applied /\ \A o \in ToSet(plan.takes) : orders[o] \in {"Filled", "Cancelled"})]_vars

Filled(o) == orders[o] = "Filled" /\ o \in Pending(plan)
Behind == plan # NoPlan /\ plan.active /\ (~plan.applied \/ \E o \in ToSet(plan.takes) : Filled(o))

(***************************************************************************)
(* The stop catches up: a filled take is counted and its stop set, or the  *)
(* plan is over, whatever was lost on the way; this is what reconcile()    *)
(* and due are for (stop-follow.service.ts:243).                           *)
(***************************************************************************)
StopCatchesUp == Behind ~> ~Behind

(***************************************************************************)
(* A new plan is checked at once, for its take may have filled before the  *)
(* stream knew of it (stop-follow.service.ts:98): a filled take of a plan  *)
(* is never left with nothing under way.                                   *)
(***************************************************************************)
NewPlanIsChecked ==
    plan # NoPlan /\ plan.active /\ size > 0 /\ (\E o \in ToSet(plan.takes) : Filled(o)) =>
        \/ ~planned \/ view = NoView \/ wire # <<>>
        \/ due \/ queue # <<>> \/ job # NoJob \/ tries > UnknownTries
=============================================================================
