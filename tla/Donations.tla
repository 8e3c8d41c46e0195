------------------------------ MODULE Donations -------------------------------
(***************************************************************************)
(* Donations in USDT to the single wallet of the project.  A donor opens an *)
(* intent and gets an amount with a tail nobody else holds; a watcher reads *)
(* the blockchain, journals every incoming transfer and credits it to the   *)
(* intent holding exactly that amount.  A step is one statement or one      *)
(* transaction of the database, for the requests of the API and the ticks   *)
(* of the watcher run beside each other with nothing else to order them.    *)
(***************************************************************************)
EXTENDS Coins, FiniteSets

CONSTANTS
  None,             \* no user, no transaction, no intent
  Ids,              \* donation ids
  Donors,           \* who opens intents: users, and None for an anonymous donor
  Bases,            \* amounts a person types, in units
  Tails,            \* the tails of amount.ts, below the granularity of a base
  InvitedBy,        \* Users -> Users \cup {None}
  UnitsPerUsdt, CoinsPerUsdt, BonusPercent, ReferralPercent,
  Transfers,        \* the Transfer logs that may appear on the chain
  TxOf,             \* Transfers -> Txs: a batch transaction carries several
  Txs,
  Workers,          \* processes running the watcher
  Ttl, LateGrace,   \* the payment window, and the margin after it
  MaxPending,       \* maxPendingPerUser
  MaxTime,          \* bound: last value of the clock
  MaxFailures,      \* bound: crashes and failed statements of the workers
  Timely            \* the chain and the watcher keep within LateGrace

ASSUME DonationsAssumption ==
  /\ None \notin Users \cup Ids \cup Txs
  /\ Donors \subseteq Users \cup {None}
  /\ Bases \subseteq Nat /\ Tails \subseteq Nat
  /\ InvitedBy \in [Users -> Users \cup {None}]
  /\ UnitsPerUsdt \in Nat \ {0} /\ CoinsPerUsdt \in Nat
  /\ BonusPercent \in Nat /\ ReferralPercent \in Nat
  /\ TxOf \in [Transfers -> Txs]
  /\ Ttl \in Nat /\ LateGrace \in Nat /\ MaxPending \in Nat
  /\ MaxTime \in Nat /\ MaxFailures \in Nat /\ Timely \in BOOLEAN

VARIABLES
  now,       \* the clock every process reads
  donation,  \* [Ids -> donation row]
  lock,      \* donation_amount_locks: [Amounts -> Ids \cup {None}]
  ledger,    \* balances and coin journal
  chain,     \* external: what was sent to the wallet
  row,       \* tron_incoming_transfers
  request,   \* POST /donations in progress, one per id
  cancel,    \* ids whose cancel() has read a PENDING row
  worker,    \* locals of the tick of each worker
  failures   \* failures of the workers so far

apiVars == <<request, cancel>>
vars == <<now, donation, lock, ledger, chain, row, request, cancel, worker,
          failures>>

Amounts == Bases \cup {b + k : b \in Bases, k \in Tails}
Claimable == {"PENDING", "EXPIRED"}

NoDonation == [status |-> "NONE", user |-> None, requested |-> 0, expected |-> 0,
               expiresAt |-> 0, matchUntil |-> 0, txHash |-> None,
               late |-> FALSE, notified |-> FALSE]
NotSent == [sent |-> FALSE, value |-> 0, time |-> 0, from |-> None]
NoRow == [status |-> "NONE", donation |-> None]
NoRequest == [pc |-> "none", user |-> None, base |-> 0, left |-> {}, at |-> 0]
Idle == [pc |-> "idle", phase |-> "retry", todo |-> {}, t |-> None, d |-> None]

Init ==
  /\ now = 0
  /\ donation = [d \in Ids |-> NoDonation]
  /\ lock = [a \in Amounts |-> None]
  /\ ledger = NewLedger
  /\ chain = [t \in Transfers |-> NotSent]
  /\ row = [t \in Transfers |-> NoRow]
  /\ request = [d \in Ids |-> NoRequest]
  /\ cancel = {}
  /\ worker = [w \in Workers |-> Idle]
  /\ failures = 0

-----------------------------------------------------------------------------
(* The world outside: the clock and the blockchain.                        *)

Resolved(t) == row[t].status \in {"MATCHED", "UNMATCHED"}
Overdue(t) == chain[t].sent /\ ~ Resolved(t) /\ now >= chain[t].time + LateGrace

Tick ==
  /\ now < MaxTime
  /\ Timely => \A t \in Transfers : ~ Overdue(t)
  /\ now' = now + 1
  /\ UNCHANGED <<donation, lock, ledger, chain, row, apiVars, worker, failures>>

Send(t, value, d) ==
  /\ ~ chain[t].sent
  /\ chain' = [chain EXCEPT ![t] = [sent |-> TRUE, value |-> value,
                                    time |-> now, from |-> d]]
  /\ UNCHANGED <<now, donation, lock, ledger, row, apiVars, worker, failures>>

(* A donor pays exactly what the intent shows; a timely one pays once and   *)
(* in the window.                                                           *)
Pay(t, d) ==
  /\ donation[d].status # "NONE"
  /\ Timely => /\ now <= donation[d].expiresAt
               /\ \A s \in Transfers : chain[s].from # d
  /\ Send(t, donation[d].expected, d)

(* Somebody sends a round amount past the form.                            *)
PayRound(t) == \E b \in Bases : Send(t, b, None)

-----------------------------------------------------------------------------
(* POST /donations.                                                        *)

Pending(u) == {d \in Ids : /\ donation[d].user = u
                           /\ donation[d].status = "PENDING"
                           /\ donation[d].expiresAt > now}

(* create(): the limit on open intents is a count that nothing holds until *)
(* the insert.  An anonymous donor is not counted.                          *)
CreateCheck(d, u, b) ==
  /\ request[d].pc = "none"
  /\ u # None => Cardinality(Pending(u)) < MaxPending
  /\ request' = [request EXCEPT ![d] = [pc |-> "release", user |-> u, base |-> b,
                                        left |-> Tails, at |-> now]]
  /\ UNCHANGED <<now, donation, lock, ledger, chain, row, cancel, worker, failures>>

(* releaseStaleLocks(): a lock is held until matchUntil of its intent.     *)
(* Mutants: a lock dropped with the window; one kept for a canceled intent. *)
StaleWithWindow(a) == lock[a] # None /\ donation[lock[a]].expiresAt < now
Stale(a) == lock[a] # None /\ donation[lock[a]].matchUntil < now
ReleaseNotCanceled ==
  lock' = [a \in Amounts |-> IF Stale(a) /\ donation[lock[a]].status # "CANCELED"
                             THEN None ELSE lock[a]]
ReleaseStaleLocks == lock' = [a \in Amounts |-> IF Stale(a) THEN None ELSE lock[a]]

CreateRelease(d) ==
  /\ request[d].pc = "release"
  /\ ReleaseStaleLocks
  /\ request' = [request EXCEPT ![d].pc = "try"]
  /\ UNCHANGED <<now, donation, ledger, chain, row, cancel, worker, failures>>

NewDonation(r, amount) ==
  [NoDonation EXCEPT !.status = "PENDING", !.user = r.user, !.requested = r.base,
                     !.expected = amount, !.expiresAt = r.at + Ttl,
                     !.matchUntil = r.at + Ttl + LateGrace]

(* createWithFreeAmount(): the tails come shuffled; the primary key of the *)
(* lock decides, and an amount that is taken rolls the insert back.        *)
CreateTry(d, k) ==
  LET r == request[d]
      amount == r.base + k
  IN  /\ r.pc = "try" /\ k \in r.left
      /\ IF lock[amount] = None
         THEN /\ donation' = [donation EXCEPT ![d] = NewDonation(r, amount)]
              /\ lock' = [lock EXCEPT ![amount] = d]
              /\ request' = [request EXCEPT ![d].pc = "done", ![d].left = {}]
         ELSE /\ request' = [request EXCEPT ![d].left = r.left \ {k}]
              /\ UNCHANGED <<donation, lock>>
      /\ UNCHANGED <<now, ledger, chain, row, cancel, worker, failures>>

CreateExhausted(d) ==
  /\ request[d].pc = "try" /\ request[d].left = {}
  /\ request' = [request EXCEPT ![d].pc = "rejected"]
  /\ UNCHANGED <<now, donation, lock, ledger, chain, row, cancel, worker, failures>>

(* cancel(): the status is read, then overwritten by an update with no     *)
(* condition on it.  The lock stays.                                       *)
CancelRead(d) ==
  /\ donation[d].status = "PENDING" /\ d \notin cancel
  /\ cancel' = cancel \cup {d}
  /\ UNCHANGED <<now, donation, lock, ledger, chain, row, request, worker, failures>>

CancelWrite(d) ==
  /\ d \in cancel
  /\ donation' = [donation EXCEPT ![d].status = "CANCELED"]
  /\ cancel' = cancel \ {d}
  /\ UNCHANGED <<now, lock, ledger, chain, row, request, worker, failures>>

-----------------------------------------------------------------------------
(* A tick of the watcher: expire, release, retry the NEW rows, scan.       *)

At(w, pc) == worker[w].pc = pc
Goto(w, pc) == worker' = [worker EXCEPT ![w].pc = pc]

ExpirePending(w) ==
  /\ At(w, "idle")
  /\ donation' = [d \in Ids |->
       IF donation[d].status = "PENDING" /\ donation[d].expiresAt < now
       THEN [donation[d] EXCEPT !.status = "EXPIRED"] ELSE donation[d]]
  /\ Goto(w, "release")
  /\ UNCHANGED <<now, lock, ledger, chain, row, apiVars, failures>>

WorkerRelease(w) ==
  /\ At(w, "release")
  /\ ReleaseStaleLocks
  /\ Goto(w, "list")
  /\ UNCHANGED <<now, donation, ledger, chain, row, apiVars, failures>>

(* retryPending(): the rows still NEW are read once, the oldest first.  The *)
(* mutant drops the retry.                                                  *)
NoRetry == {}
Unfinished == {t \in Transfers : row[t].status = "NEW"}

RetryList(w) ==
  /\ At(w, "list")
  /\ worker' = [worker EXCEPT ![w].pc = "next", ![w].phase = "retry",
                  ![w].todo = Unfinished]
  /\ UNCHANGED <<now, donation, lock, ledger, chain, row, apiVars, failures>>

RetryNext(w, t) ==
  /\ At(w, "next") /\ t \in worker[w].todo
  /\ \A s \in worker[w].todo : chain[t].time <= chain[s].time
  /\ worker' = [worker EXCEPT ![w].pc = "read", ![w].t = t, ![w].todo = @ \ {t}]
  /\ UNCHANGED <<now, donation, lock, ledger, chain, row, apiVars, failures>>

RetryDone(w) ==
  /\ At(w, "next") /\ worker[w].todo = {} /\ worker[w].phase = "retry"
  /\ worker' = [worker EXCEPT ![w].phase = "scan"]
  /\ UNCHANGED <<now, donation, lock, ledger, chain, row, apiVars, failures>>

(* ingest(): the unique key of the journal drops what was already seen.    *)
(* Which transfers a pass reaches is the matter of TronScan.               *)
Ingest(w, t) ==
  /\ At(w, "next") /\ worker[w].phase = "scan"
  /\ chain[t].sent /\ row[t].status = "NONE"
  /\ row' = [row EXCEPT ![t].status = "NEW"]
  /\ worker' = [worker EXCEPT ![w].pc = "read", ![w].t = t]
  /\ UNCHANGED <<now, donation, lock, ledger, chain, apiVars, failures>>

ScanDone(w) ==
  /\ At(w, "next") /\ worker[w].phase = "scan"
  /\ worker' = [worker EXCEPT ![w] = Idle]
  /\ UNCHANGED <<now, donation, lock, ledger, chain, row, apiVars, failures>>

-----------------------------------------------------------------------------
(* process(): claimByAmount(), the verdict in the journal, the thanks.     *)

(* The intent the first read of claimByAmount() settles on, None for null. *)
Candidate(t) ==
  LET d == IF chain[t].value \in Amounts THEN lock[chain[t].value] ELSE None
  IN  IF /\ d # None
         /\ donation[d].status \in Claimable
         /\ chain[t].time <= donation[d].matchUntil
      THEN d ELSE None

ClaimRead(w) ==
  /\ At(w, "read")
  /\ LET d == Candidate(worker[w].t)
     IN  worker' = [worker EXCEPT ![w].pc = IF d = None THEN "mark" ELSE "commit",
                                  ![w].d = d]
  /\ UNCHANGED <<now, donation, lock, ledger, chain, row, apiVars, failures>>

CoinsForDonation(units) == (units * CoinsPerUsdt) \div UnitsPerUsdt
PercentOfCoins(coins, percent) == (coins * percent) \div 100

(* The coins of one donation: for the donor, a bonus, and for the inviter. *)
(* In the mutant only the first of the three is credited.                  *)
RewardBought(L, d) ==
  Credit(L, donation[d].user, CoinsForDonation(donation[d].requested), "DONATION", d)
Reward(L, d) ==
  LET u     == donation[d].user
      coins == CoinsForDonation(donation[d].requested)
      bonus == PercentOfCoins(coins, BonusPercent)
      share == PercentOfCoins(coins, ReferralPercent)
      bought == Credit(Credit(L, u, coins, "DONATION", d), u, bonus, "DONATION_BONUS", d)
  IN  IF InvitedBy[u] = None THEN bought
      ELSE Credit(bought, InvitedBy[u], share, "REFERRAL_DONATION", d)

CanReward(L, d) ==
  \A r \in L.rows : ~ (r.ref = d /\ r.kind \in {"DONATION", "DONATION_BONUS", "REFERRAL_DONATION"})

(* The condition of the UPDATE: a compare-and-set on the intent, without   *)
(* which (the mutant) only the amount decides.                              *)
ClaimByAmountOnly(t, d) == donation[d].expected = chain[t].value
CanClaim(t, d) ==
  /\ donation[d].txHash = None
  /\ donation[d].status \in Claimable
  /\ donation[d].expected = chain[t].value

(* What the unique indexes reject: the hash, the keys of the coin journal. *)
(* The mutant has no index on the hash.                                    *)
UniqueCoinsOnly(t, d) == donation[d].user # None => CanReward(ledger, d)
Unique(t, d) ==
  /\ \A e \in Ids : donation[e].txHash # TxOf[t]
  /\ donation[d].user # None => CanReward(ledger, d)

(* One transaction: the intent is paid and its coins are credited.         *)
ClaimPays(w) ==
  LET t == worker[w].t
      d == worker[w].d
  IN  /\ At(w, "commit") /\ CanClaim(t, d) /\ Unique(t, d)
      /\ donation' = [donation EXCEPT
                         ![d].status = "PAID", ![d].txHash = TxOf[t],
                         ![d].late = chain[t].time > donation[d].expiresAt]
      /\ ledger' = IF donation[d].user = None THEN ledger ELSE Reward(ledger, d)
      /\ Goto(w, "unlock")
      /\ UNCHANGED <<now, lock, chain, row, apiVars, failures>>

(* The update changed no row, or an index rejected it: nobody is credited. *)
ClaimRejected(w) ==
  /\ At(w, "commit") /\ ~ (CanClaim(worker[w].t, worker[w].d) /\ Unique(worker[w].t, worker[w].d))
  /\ worker' = [worker EXCEPT ![w].pc = "mark", ![w].d = None]
  /\ UNCHANGED <<now, donation, lock, ledger, chain, row, apiVars, failures>>

(* The lock is deleted by amount, whichever intent holds it by now.        *)
Unlock(w) ==
  /\ At(w, "unlock")
  /\ lock' = [lock EXCEPT ![chain[worker[w].t].value] = None]
  /\ Goto(w, "mark")
  /\ UNCHANGED <<now, donation, ledger, chain, row, apiVars, failures>>

Mark(w) ==
  LET t == worker[w].t
      d == worker[w].d
  IN  /\ At(w, "mark")
      /\ row' = IF d = None THEN [row EXCEPT ![t].status = "UNMATCHED"]
                ELSE [row EXCEPT ![t] = [status |-> "MATCHED", donation |-> d]]
      /\ worker' = [worker EXCEPT ![w].pc = IF d = None THEN "next" ELSE "thank",
                                  ![w].t = None]
      /\ UNCHANGED <<now, donation, lock, ledger, chain, apiVars, failures>>

(* sendThanks(): notifiedAt is written whether or not the message went.    *)
Thank(w) ==
  LET d == worker[w].d
      due == donation[d].status = "PAID" /\ ~ donation[d].notified
  IN  /\ At(w, "thank")
      /\ donation' = IF due THEN [donation EXCEPT ![d].notified = TRUE] ELSE donation
      /\ worker' = [worker EXCEPT ![w].pc = "next", ![w].d = None]
      /\ UNCHANGED <<now, lock, ledger, chain, row, apiVars, failures>>

(* A statement throws or the process dies: the tick is abandoned.          *)
WorkerFails(w) ==
  /\ failures < MaxFailures /\ ~ At(w, "idle")
  /\ worker' = [worker EXCEPT ![w] = Idle]
  /\ failures' = failures + 1
  /\ UNCHANGED <<now, donation, lock, ledger, chain, row, apiVars>>

-----------------------------------------------------------------------------
Outside == Tick \/ (\E t \in Transfers : PayRound(t) \/ \E d \in Ids : Pay(t, d))

Api == \E d \in Ids :
  \/ \E u \in Donors, b \in Bases : CreateCheck(d, u, b)
  \/ CreateRelease(d)
  \/ \E k \in Tails : CreateTry(d, k)
  \/ CreateExhausted(d)
  \/ CancelRead(d)
  \/ CancelWrite(d)

Process(w) == ClaimRead(w) \/ ClaimPays(w) \/ ClaimRejected(w) \/ Unlock(w) \/ Mark(w) \/ Thank(w)

WorkerStep(w) ==
  \/ ExpirePending(w) \/ WorkerRelease(w) \/ RetryList(w) \/ RetryDone(w)
  \/ \E t \in Transfers : RetryNext(w, t) \/ Ingest(w, t)
  \/ ScanDone(w)
  \/ Process(w)

Next == Outside \/ Api \/ \E w \in Workers : WorkerStep(w) \/ WorkerFails(w)

Spec == Init /\ [][Next]_vars
-----------------------------------------------------------------------------
(* Properties.                                                             *)

Statuses == {"NONE", "PENDING", "PAID", "EXPIRED", "CANCELED"}
DonationRows ==
  [status : Statuses, user : Users \cup {None}, requested : Nat, expected : Nat,
   expiresAt : Nat, matchUntil : Nat, txHash : Txs \cup {None},
   late : BOOLEAN, notified : BOOLEAN]
Sendings == [sent : BOOLEAN, value : Nat, time : Nat, from : Ids \cup {None}]
Rows == [status : {"NONE", "NEW", "MATCHED", "UNMATCHED"}, donation : Ids \cup {None}]
RequestPcs == {"none", "release", "try", "done", "rejected"}
Requests == [pc : RequestPcs, user : Users \cup {None}, base : Bases \cup {0},
             left : SUBSET Tails, at : Nat]
WorkerPcs == {"idle", "release", "list", "next", "read", "commit", "unlock", "mark", "thank"}
Ticks == [pc : WorkerPcs, phase : {"retry", "scan"}, todo : SUBSET Transfers,
          t : Transfers \cup {None}, d : Ids \cup {None}]

(* Every variable stays in its type: statuses, ids and locals of a tick.   *)
TypeOK ==
  /\ now \in 0 .. MaxTime
  /\ donation \in [Ids -> DonationRows]
  /\ lock \in [Amounts -> Ids \cup {None}]
  /\ ledger.balance \in [Users -> Int]
  /\ chain \in [Transfers -> Sendings]
  /\ row \in [Transfers -> Rows]
  /\ request \in [Ids -> Requests]
  /\ cancel \subseteq Ids
  /\ worker \in [Workers -> Ticks]
  /\ failures \in 0 .. MaxFailures

Credited(t, d) ==
  /\ donation[d].txHash = TxOf[t]
  /\ donation[d].expected = chain[t].value

(* One transaction of the chain pays at most one intent, and what it pays  *)
(* was sent, to the last digit of the amount: claimByAmount()'s three locks *)
(* against crediting a transfer twice.                                      *)
TransfersPayOnce ==
  /\ \A d, e \in Ids :
       donation[d].txHash # None /\ donation[d].txHash = donation[e].txHash => d = e
  /\ \A d \in Ids : donation[d].txHash # None =>
       \E t \in Transfers : chain[t].sent /\ Credited(t, d)

RewardRows(d) ==
  LET u     == donation[d].user
      coins == CoinsForDonation(donation[d].requested)
      bonus == PercentOfCoins(coins, BonusPercent)
      share == PercentOfCoins(coins, ReferralPercent)
      all   == {Row(u, "DONATION", d, coins), Row(u, "DONATION_BONUS", d, bonus)} \cup
               (IF InvitedBy[u] = None THEN {}
                ELSE {Row(InvitedBy[u], "REFERRAL_DONATION", d, share)})
  IN  {r \in all : r.delta > 0}

(* Money accepted and coins given are one fact: an intent has exactly the   *)
(* coins of the amount its donor typed once it has a transaction, and none  *)
(* before, whatever crashes, retries and cancels happen around the claim.   *)
CoinsFollowPayment ==
  \A d \in Ids :
    {r \in ledger.rows : r.ref = d} =
      IF donation[d].txHash = None \/ donation[d].user = None THEN {} ELSE RewardRows(d)

(* A transfer the journal calls MATCHED is the one its intent was paid by.  *)
MatchedIsCredited ==
  \A t \in Transfers : row[t].status = "MATCHED" =>
    row[t].donation # None /\ Credited(t, row[t].donation)

(* An accepted payment is final: the transaction of an intent, its amount   *)
(* and its donor never change again.                                        *)
PaymentIsFinal ==
  [][\A d \in Ids : donation[d].txHash # None =>
       /\ donation'[d].txHash = donation[d].txHash
       /\ donation'[d].expected = donation[d].expected
       /\ donation'[d].user = donation[d].user]_vars

(* While an intent can still be paid, its amount is reserved for it alone.  *)
ReservationHolds ==
  \A d \in Ids : donation[d].status \in Claimable /\ now <= donation[d].matchUntil =>
    lock[donation[d].expected] = d

(* A transfer is credited to the intent it was paid for, not to a later     *)
(* holder of the same amount.                                               *)
CreditsItsPayer ==
  \A t \in Transfers, d \in Ids : chain[t].sent /\ Credited(t, d) => chain[t].from = d

(* PAID is the end: "the money is ours" (donation-status.ts).               *)
PaidStaysPaid ==
  [][\A d \in Ids : donation[d].status = "PAID" => donation'[d].status = "PAID"]_vars

(* Fairness: the tick is a timer, its statements complete, and a transfer   *)
(* the scans keep coming back to is ingested in the end (see TronScan).     *)
Fairness ==
  \A w \in Workers :
    /\ WF_vars(WorkerStep(w))
    /\ \A t \in Transfers : SF_vars(Ingest(w, t))

FairSpec == Spec /\ Fairness

(* A donor who paid in the window gets the intent credited, across crashes  *)
(* of the watcher, unless the donor canceled it first.                      *)
PaymentIsCredited ==
  \A t \in Transfers, d \in Ids :
    chain[t].from = d ~> Credited(t, d) \/ donation[d].status = "CANCELED"

(* Canceling does not lose the money: who paid at the last moment is        *)
(* credited all the same (the comment of cancel()).                         *)
CanceledIsCredited ==
  \A t \in Transfers, d \in Ids : chain[t].from = d ~> Credited(t, d)

(* An amount whose reservation has run out returns to the pool.             *)
AmountsReturn == \A a \in Amounts : Stale(a) ~> ~ Stale(a)

(* Every step that moves coins posts to the ledger of the economy.         *)
Ledger == INSTANCE CoinLedger WITH coins <- ledger.balance, journal <- ledger.rows
CoinLedgerSpec == Ledger!Spec

==============================================================================
