--------------------------- MODULE DonationsProofs ----------------------------
(***************************************************************************)
(* Proofs about the watcher of donations.  About Donations, for any sets of *)
(* users, intents, transfers and workers, any amounts and any bounds; then  *)
(* about TronScan for any transfers, page sizes and delays: under the       *)
(* delays the cursor's lag allows for, no transfer is skipped.              *)
(***************************************************************************)
EXTENDS Donations, TronScan, SumTheorems

(* Amounts of coins are integers, whatever the rates.                      *)
LEMMA CoinsAreIntegers ==
  \A units \in Nat, percent \in Nat :
    /\ CoinsForDonation(units) \in Nat
    /\ PercentOfCoins(CoinsForDonation(units), percent) \in Nat
<1>1. \A n \in Nat, k \in Nat \ {0} : n \div k \in Nat
  BY SMT
<1>2. \A m, n \in Nat : m * n \in Nat
  BY SMT
<1>. QED
  BY <1>1, <1>2, DonationsAssumption DEF CoinsForDonation, PercentOfCoins

(* A credit keeps balances integers.                                       *)
LEMMA CreditType ==
  ASSUME NEW L, L.balance \in [Users -> Int], NEW u \in Users, NEW n \in Nat, NEW kind, NEW ref
  PROVE  Credit(L, u, n, kind, ref).balance \in [Users -> Int]
BY DEF Credit, Move

LEMMA RewardType ==
  ASSUME TypeOK, NEW d \in Ids, donation[d].user # None
  PROVE  Reward(ledger, d).balance \in [Users -> Int]
<1>. DEFINE u == donation[d].user
            coins == CoinsForDonation(donation[d].requested)
            bonus == PercentOfCoins(coins, BonusPercent)
            share == PercentOfCoins(coins, ReferralPercent)
            first == Credit(ledger, u, coins, "DONATION", d)
            both  == Credit(first, u, bonus, "DONATION_BONUS", d)
<1>1. u \in Users /\ donation[d].requested \in Nat
  BY DEF TypeOK, DonationRows
<1>2. coins \in Nat /\ bonus \in Nat /\ share \in Nat
  BY <1>1, CoinsAreIntegers, DonationsAssumption
<1>. HIDE DEF u, coins, bonus, share
<1>3. first.balance \in [Users -> Int]
  BY <1>1, <1>2, CreditType DEF TypeOK
<1>. HIDE DEF first
<1>4. both.balance \in [Users -> Int]
  BY <1>1, <1>2, <1>3, CreditType
<1>. HIDE DEF both
<1>5. CASE InvitedBy[u] = None
  BY <1>4, <1>5 DEF Reward, u, coins, bonus, share, first, both
<1>6. CASE InvitedBy[u] # None
  <2>1. InvitedBy[u] \in Users
    BY <1>1, <1>6, DonationsAssumption
  <2>2. Credit(both, InvitedBy[u], share, "REFERRAL_DONATION", d).balance \in [Users -> Int]
    BY <2>1, <1>2, <1>4, CreditType
  <2>. QED
    BY <1>6, <2>2 DEF Reward, u, coins, bonus, share, first, both
<1>. QED BY <1>5, <1>6

-----------------------------------------------------------------------------
(* The inductive invariant.                                                *)

(* Only what the chain holds is journaled.                                 *)
RowsAreSent == \A t \in Transfers : row[t].status # "NONE" => chain[t].sent

(* A tick handles transfers of the chain, and commits on an intent.        *)
LocalsAreSent ==
  \A w \in Workers :
    /\ \A t \in worker[w].todo : chain[t].sent
    /\ worker[w].pc \in {"read", "commit", "unlock", "mark"} =>
         worker[w].t \in Transfers /\ chain[worker[w].t].sent
    /\ worker[w].pc \in {"commit", "unlock"} => worker[w].d \in Ids

(* An id is used by one request, which inserts the intent at its end.      *)
FreshIds ==
  /\ \A d \in Ids : request[d].pc # "done" =>
       donation[d].status = "NONE" /\ donation[d].txHash = None
  /\ \A d \in cancel : request[d].pc = "done"

(* Between the commit and the verdict in the journal the claim stands.     *)
ClaimedIsCredited ==
  \A w \in Workers :
    worker[w].pc \in {"unlock", "mark"} /\ worker[w].d # None =>
      Credited(worker[w].t, worker[w].d)

IInv ==
  /\ TypeOK
  /\ RowsAreSent
  /\ LocalsAreSent
  /\ FreshIds
  /\ ClaimedIsCredited
  /\ TransfersPayOnce
  /\ CoinsFollowPayment
  /\ MatchedIsCredited

LEMMA TypeInit == Init => TypeOK
<1>. SUFFICES ASSUME Init PROVE TypeOK
  OBVIOUS
<1>1. NoDonation \in DonationRows
  BY DEF NoDonation, DonationRows, Statuses
<1>. QED
  BY <1>1, DonationsAssumption, StartingCoinsAssumption
     DEF Init, TypeOK, NotSent, Sendings, NoRow, Rows, NoRequest, RequestPcs, Requests,
         Idle, WorkerPcs, Ticks, NewLedger

-----------------------------------------------------------------------------
(* Types.                                                                  *)

LEMMA AmountsAreNat ==
  /\ Amounts \subseteq Nat
  /\ \A b \in Bases \cup {0}, k \in Tails : b + k \in Nat
<1>1. \A b \in Bases \cup {0}, k \in Tails : b + k \in Nat
  <2>. TAKE b \in Bases \cup {0}, k \in Tails
  <2>1. b \in Nat /\ k \in Nat
    BY DonationsAssumption
  <2>. QED BY <2>1
<1>2. ASSUME NEW a \in Amounts PROVE a \in Nat
  <2>1. CASE a \in Bases
    BY <2>1, DonationsAssumption
  <2>2. CASE a \in {b + k : b \in Bases, k \in Tails}
    BY <1>1, <2>2
  <2>. QED BY <2>1, <2>2 DEF Amounts
<1>. QED BY <1>1, <1>2

(* The new row of an intent.                                               *)
LEMMA NewDonationType ==
  ASSUME NEW r \in Requests, NEW amount \in Nat
  PROVE  /\ NewDonation(r, amount) \in DonationRows
         /\ NewDonation(r, amount).txHash = None
<1>1. r.at \in Nat /\ r.user \in Users \cup {None} /\ r.base \in Nat
  <2>1. r.at \in Nat /\ r.user \in Users \cup {None} /\ r.base \in Bases \cup {0}
    BY DEF Requests
  <2>2. CASE r.base \in Bases
    BY <2>1, <2>2, DonationsAssumption
  <2>. QED BY <2>1, <2>2
<1>2. r.at + Ttl \in Nat /\ r.at + Ttl + LateGrace \in Nat
  BY <1>1, DonationsAssumption
<1>. QED
  BY <1>1, <1>2 DEF NewDonation, NoDonation, DonationRows, Statuses

(* A request moves on and keeps the rest of its locals.                    *)
LEMMA RequestType ==
  ASSUME request \in [Ids -> Requests], NEW d \in Ids, NEW pc \in RequestPcs,
         NEW left \in SUBSET Tails
  PROVE  /\ [request EXCEPT ![d].pc = pc] \in [Ids -> Requests]
         /\ [request EXCEPT ![d].left = left] \in [Ids -> Requests]
         /\ [request EXCEPT ![d].pc = pc, ![d].left = left] \in [Ids -> Requests]
BY DEF Requests

LEMMA TypeOutside ==
  ASSUME TypeOK, Outside
  PROVE  TypeOK'
<1>1. CASE Tick
  BY <1>1, DonationsAssumption DEF Tick, TypeOK, apiVars
<1>2. ASSUME NEW t \in Transfers, NEW value \in Nat, NEW d \in Ids \cup {None}, Send(t, value, d)
      PROVE  TypeOK'
  <2>1. [sent |-> TRUE, value |-> value, time |-> now, from |-> d] \in Sendings
    BY DonationsAssumption DEF Sendings, TypeOK
  <2>. QED
    BY <1>2, <2>1 DEF Send, TypeOK, apiVars
<1>3. ASSUME NEW t \in Transfers, PayRound(t)
      PROVE  TypeOK'
  BY <1>2, <1>3, DonationsAssumption DEF PayRound
<1>4. ASSUME NEW t \in Transfers, NEW d \in Ids, Pay(t, d)
      PROVE  TypeOK'
  <2>1. donation[d].expected \in Nat
    BY DEF TypeOK, DonationRows
  <2>. QED
    BY <1>2, <1>4, <2>1 DEF Pay
<1>. QED
  BY <1>1, <1>3, <1>4 DEF Outside

LEMMA TypeApi ==
  ASSUME TypeOK, Api
  PROVE  TypeOK'
<1>. PICK d \in Ids :
       \/ \E u \in Donors, b \in Bases : CreateCheck(d, u, b)
       \/ CreateRelease(d)
       \/ \E k \in Tails : CreateTry(d, k)
       \/ CreateExhausted(d)
       \/ CancelRead(d)
       \/ CancelWrite(d)
  BY DEF Api
<1>0. /\ donation \in [Ids -> DonationRows]
      /\ request \in [Ids -> Requests]
  BY DEF TypeOK
<1>1. ASSUME NEW u \in Donors, NEW b \in Bases, CreateCheck(d, u, b)
      PROVE  TypeOK'
  <2>1. [pc |-> "release", user |-> u, base |-> b, left |-> Tails, at |-> now] \in Requests
    BY DonationsAssumption DEF Requests, RequestPcs, TypeOK
  <2>. QED
    BY <1>1, <2>1 DEF CreateCheck, TypeOK
<1>2. CASE CreateRelease(d)
  <2>1. request' \in [Ids -> Requests]
    BY <1>0, <1>2, RequestType DEF CreateRelease, RequestPcs
  <2>2. lock' \in [Amounts -> Ids \cup {None}]
    BY <1>2 DEF CreateRelease, ReleaseStaleLocks, TypeOK
  <2>. QED
    BY <1>2, <2>1, <2>2 DEF CreateRelease, TypeOK
<1>3. ASSUME NEW k \in Tails, CreateTry(d, k)
      PROVE  TypeOK'
  <2>. DEFINE r == request[d]
              amount == r.base + k
  <2>1. r \in Requests
    BY <1>0
  <2>2. amount \in Nat
    BY <2>1, AmountsAreNat DEF Requests
  <2>3. NewDonation(r, amount) \in DonationRows
    BY <2>1, <2>2, NewDonationType
  <2>4. CASE lock[amount] = None
    <3>1. /\ donation' = [donation EXCEPT ![d] = NewDonation(r, amount)]
          /\ lock' = [lock EXCEPT ![amount] = d]
          /\ request' = [request EXCEPT ![d].pc = "done", ![d].left = {}]
      BY <1>3, <2>4 DEF CreateTry
    <3>2. request' \in [Ids -> Requests]
      BY <1>0, <3>1, RequestType DEF RequestPcs
    <3>. QED
      BY <1>3, <2>3, <3>1, <3>2 DEF CreateTry, TypeOK
  <2>5. CASE lock[amount] # None
    <3>1. /\ request' = [request EXCEPT ![d].left = r.left \ {k}]
          /\ UNCHANGED <<donation, lock>>
      BY <1>3, <2>5 DEF CreateTry
    <3>2. r.left \ {k} \in SUBSET Tails
      BY <2>1 DEF Requests
    <3>3. request' \in [Ids -> Requests]
      BY <1>0, <3>1, <3>2, RequestType DEF RequestPcs
    <3>. QED
      BY <1>3, <3>1, <3>3 DEF CreateTry, TypeOK
  <2>. QED BY <2>4, <2>5
<1>4. CASE CreateExhausted(d)
  <2>1. request' \in [Ids -> Requests]
    BY <1>0, <1>4, RequestType DEF CreateExhausted, RequestPcs
  <2>. QED
    BY <1>4, <2>1 DEF CreateExhausted, TypeOK
<1>5. CASE CancelRead(d)
  BY <1>5 DEF CancelRead, TypeOK
<1>6. CASE CancelWrite(d)
  <2>1. donation' \in [Ids -> DonationRows]
    BY <1>0, <1>6 DEF CancelWrite, DonationRows, Statuses
  <2>. QED
    BY <1>6, <2>1 DEF CancelWrite, TypeOK
<1>. QED
  BY <1>1, <1>2, <1>3, <1>4, <1>5, <1>6

(* A tick changes some of its locals; each is updated by itself here.      *)
LEMMA FieldType ==
  ASSUME NEW f \in [Workers -> Ticks], NEW w \in Workers
  PROVE  /\ \A pc \in WorkerPcs : [f EXCEPT ![w].pc = pc] \in [Workers -> Ticks]
         /\ \A phase \in {"retry", "scan"} : [f EXCEPT ![w].phase = phase] \in [Workers -> Ticks]
         /\ \A todo \in SUBSET Transfers : [f EXCEPT ![w].todo = todo] \in [Workers -> Ticks]
         /\ \A t \in Transfers \cup {None} : [f EXCEPT ![w].t = t] \in [Workers -> Ticks]
         /\ \A d \in Ids \cup {None} : [f EXCEPT ![w].d = d] \in [Workers -> Ticks]
BY DEF Ticks

LEMMA TickType ==
  ASSUME worker \in [Workers -> Ticks], NEW w \in Workers
  PROVE  \A pc \in WorkerPcs :
           /\ [worker EXCEPT ![w].pc = pc] \in [Workers -> Ticks]
           /\ \A t \in Transfers \cup {None} :
                [worker EXCEPT ![w].pc = pc, ![w].t = t] \in [Workers -> Ticks]
           /\ \A d \in Ids \cup {None} :
                [worker EXCEPT ![w].pc = pc, ![w].d = d] \in [Workers -> Ticks]
           /\ \A todo \in SUBSET Transfers :
                [worker EXCEPT ![w].pc = pc, ![w].phase = "retry", ![w].todo = todo]
                  \in [Workers -> Ticks]
<1>. TAKE pc \in WorkerPcs
<1>. DEFINE f == [worker EXCEPT ![w].pc = pc]
            g == [f EXCEPT ![w].phase = "retry"]
<1>1. f \in [Workers -> Ticks]
  BY FieldType
<1>. HIDE DEF f
<1>2. g \in [Workers -> Ticks]
  BY <1>1, FieldType
<1>. HIDE DEF g
<1>3. /\ \A t \in Transfers \cup {None} : [f EXCEPT ![w].t = t] \in [Workers -> Ticks]
      /\ \A d \in Ids \cup {None} : [f EXCEPT ![w].d = d] \in [Workers -> Ticks]
      /\ \A todo \in SUBSET Transfers : [g EXCEPT ![w].todo = todo] \in [Workers -> Ticks]
  BY <1>1, <1>2, FieldType
<1>. QED
  BY <1>1, <1>3, Zenon DEF f, g

(* The row of an intent a claim has paid.                                  *)
LEMMA PaidType ==
  ASSUME donation \in [Ids -> DonationRows], NEW d \in Ids, NEW hash \in Txs, NEW late \in BOOLEAN
  PROVE  [donation EXCEPT ![d].status = "PAID", ![d].txHash = hash, ![d].late = late]
           \in [Ids -> DonationRows]
<1>. DEFINE f == [donation EXCEPT ![d].status = "PAID"]
            g == [f EXCEPT ![d].txHash = hash]
            h == [g EXCEPT ![d].late = late]
<1>1. f \in [Ids -> DonationRows]
  BY DEF DonationRows, Statuses
<1>. HIDE DEF f
<1>2. g \in [Ids -> DonationRows]
  BY <1>1 DEF DonationRows
<1>. HIDE DEF g
<1>3. h \in [Ids -> DonationRows]
  BY <1>2 DEF DonationRows
<1>. QED
  BY <1>3, Zenon DEF f, g, h

LEMMA TypeWorker ==
  ASSUME TypeOK, LocalsAreSent, NEW w \in Workers, WorkerStep(w) \/ WorkerFails(w)
  PROVE  TypeOK'
<1>0. /\ donation \in [Ids -> DonationRows]
      /\ worker \in [Workers -> Ticks]
      /\ row \in [Transfers -> Rows]
      /\ lock \in [Amounts -> Ids \cup {None}]
  BY DEF TypeOK
<1>1. CASE ExpirePending(w)
  <2>1. worker' \in [Workers -> Ticks]
    BY <1>0, <1>1 DEF ExpirePending, Goto, Ticks, WorkerPcs
  <2>2. donation' \in [Ids -> DonationRows]
    <3>1. \A d \in Ids : [donation[d] EXCEPT !.status = "EXPIRED"] \in DonationRows
      BY <1>0 DEF DonationRows, Statuses
    <3>. QED BY <1>0, <1>1, <3>1 DEF ExpirePending
  <2>. QED
    BY <1>1, <2>1, <2>2 DEF ExpirePending, TypeOK, apiVars
<1>2. CASE WorkerRelease(w)
  <2>1. worker' \in [Workers -> Ticks]
    BY <1>0, <1>2 DEF WorkerRelease, Goto, Ticks, WorkerPcs
  <2>2. lock' \in [Amounts -> Ids \cup {None}]
    BY <1>0, <1>2 DEF WorkerRelease, ReleaseStaleLocks
  <2>. QED
    BY <1>2, <2>1, <2>2 DEF WorkerRelease, TypeOK, apiVars
<1>3. CASE RetryList(w)
  <2>1. worker' \in [Workers -> Ticks]
    <3>1. Unfinished \in SUBSET Transfers
      BY DEF Unfinished
    <3>. QED BY <1>0, <1>3, <3>1, TickType DEF RetryList, WorkerPcs
  <2>. QED
    BY <1>3, <2>1 DEF RetryList, TypeOK, apiVars
<1>4. ASSUME NEW t \in Transfers, RetryNext(w, t)
      PROVE  TypeOK'
  <2>1. worker' \in [Workers -> Ticks]
    BY <1>0, <1>4 DEF RetryNext, Ticks, WorkerPcs
  <2>. QED
    BY <1>4, <2>1 DEF RetryNext, TypeOK, apiVars
<1>5. CASE RetryDone(w)
  <2>1. worker' \in [Workers -> Ticks]
    BY <1>0, <1>5 DEF RetryDone, Goto, Ticks, WorkerPcs
  <2>. QED
    BY <1>5, <2>1 DEF RetryDone, TypeOK, apiVars
<1>6. ASSUME NEW t \in Transfers, Ingest(w, t)
      PROVE  TypeOK'
  <2>1. worker' \in [Workers -> Ticks]
    BY <1>0, <1>6, TickType DEF Ingest, WorkerPcs
  <2>2. row' \in [Transfers -> Rows]
    BY <1>0, <1>6 DEF Ingest, Rows
  <2>. QED
    BY <1>6, <2>1, <2>2 DEF Ingest, TypeOK, apiVars
<1>7. CASE ScanDone(w)
  <2>1. worker' \in [Workers -> Ticks]
    BY <1>0, <1>7 DEF ScanDone, Goto, Ticks, WorkerPcs, Idle
  <2>. QED
    BY <1>7, <2>1 DEF ScanDone, TypeOK, apiVars
<1>8. CASE ClaimRead(w)
  <2>1. Candidate(worker[w].t) \in Ids \cup {None}
    BY <1>0 DEF Candidate
  <2>2. worker' \in [Workers -> Ticks]
    <3>. DEFINE d == Candidate(worker[w].t)
    <3>1. worker' = [worker EXCEPT ![w].pc = IF d = None THEN "mark" ELSE "commit", ![w].d = d]
      BY <1>8 DEF ClaimRead
    <3>. HIDE DEF d
    <3>2. (IF d = None THEN "mark" ELSE "commit") \in WorkerPcs
      BY DEF WorkerPcs
    <3>. QED BY <1>0, <2>1, <3>1, <3>2, TickType DEF d
  <2>. QED
    BY <1>8, <2>2 DEF ClaimRead, TypeOK, apiVars
<1>9. CASE ClaimPays(w)
  <2>. DEFINE t == worker[w].t
              d == worker[w].d
  <2>1. t \in Transfers /\ d \in Ids
    BY <1>9 DEF LocalsAreSent, ClaimPays, At
  <2>2. worker' \in [Workers -> Ticks]
    BY <1>0, <1>9 DEF ClaimPays, Goto, Ticks, WorkerPcs
  <2>3. donation' \in [Ids -> DonationRows]
    <3>1. TxOf[t] \in Txs /\ (chain[t].time > donation[d].expiresAt) \in BOOLEAN
      BY <2>1, DonationsAssumption
    <3>2. donation' = [donation EXCEPT ![d].status = "PAID", ![d].txHash = TxOf[t],
                                       ![d].late = chain[t].time > donation[d].expiresAt]
      BY <1>9 DEF ClaimPays
    <3>. HIDE DEF t, d
    <3>. QED
      BY <1>0, <2>1, <3>1, <3>2, PaidType
  <2>4. ledger'.balance \in [Users -> Int]
    <3>1. CASE donation[d].user = None
      BY <1>9, <3>1 DEF ClaimPays, TypeOK
    <3>2. CASE donation[d].user # None
      BY <1>9, <2>1, <3>2, RewardType DEF ClaimPays
    <3>. QED BY <3>1, <3>2
  <2>. QED
    BY <1>9, <2>2, <2>3, <2>4 DEF ClaimPays, TypeOK, apiVars
<1>10. CASE ClaimRejected(w)
  <2>1. worker' \in [Workers -> Ticks]
    BY <1>0, <1>10, TickType DEF ClaimRejected, WorkerPcs
  <2>. QED
    BY <1>10, <2>1 DEF ClaimRejected, TypeOK, apiVars
<1>11. CASE Unlock(w)
  <2>1. worker' \in [Workers -> Ticks]
    BY <1>0, <1>11 DEF Unlock, Goto, Ticks, WorkerPcs
  <2>2. lock' \in [Amounts -> Ids \cup {None}]
    BY <1>0, <1>11 DEF Unlock
  <2>. QED
    BY <1>11, <2>1, <2>2 DEF Unlock, TypeOK, apiVars
<1>12. CASE Mark(w)
  <2>1. worker' \in [Workers -> Ticks]
    <3>1. (IF worker[w].d = None THEN "next" ELSE "thank") \in WorkerPcs
      BY DEF WorkerPcs
    <3>. QED BY <1>0, <1>12, <3>1, TickType DEF Mark
  <2>2. worker[w].d \in Ids \cup {None}
    BY <1>0 DEF Ticks
  <2>3. row' \in [Transfers -> Rows]
    <3>1. CASE worker[w].d = None
      BY <1>0, <1>12, <3>1 DEF Mark, Rows
    <3>2. CASE worker[w].d # None
      BY <1>0, <1>12, <2>2, <3>2 DEF Mark, Rows
    <3>. QED BY <3>1, <3>2
  <2>. QED
    BY <1>12, <2>1, <2>3 DEF Mark, TypeOK, apiVars
<1>13. CASE Thank(w)
  <2>1. worker' \in [Workers -> Ticks]
    BY <1>0, <1>13, TickType DEF Thank, WorkerPcs
  <2>2. donation' \in [Ids -> DonationRows]
    BY <1>0, <1>13 DEF Thank, DonationRows
  <2>. QED
    BY <1>13, <2>1, <2>2 DEF Thank, TypeOK, apiVars
<1>14. CASE WorkerFails(w)
  <2>1. worker' \in [Workers -> Ticks]
    BY <1>0, <1>14 DEF WorkerFails, Idle, Ticks, WorkerPcs
  <2>. QED
    BY <1>14, <2>1, DonationsAssumption DEF WorkerFails, TypeOK, apiVars
<1>. QED
  BY <1>1, <1>2, <1>3, <1>4, <1>5, <1>6, <1>7, <1>8, <1>9, <1>10, <1>11, <1>12, <1>13, <1>14
     DEF WorkerStep, Process

LEMMA TypeStep ==
  ASSUME TypeOK, LocalsAreSent, [Next]_vars
  PROVE  TypeOK'
<1>1. CASE Next
  BY <1>1, TypeOutside, TypeApi, TypeWorker DEF Next
<1>2. CASE UNCHANGED vars
  BY <1>2 DEF vars, apiVars, TypeOK
<1>. QED BY <1>1, <1>2

-----------------------------------------------------------------------------
(* What a step keeps.                                                      *)

(* What was sent to the wallet stays on the chain.                         *)
LEMMA SentStays ==
  ASSUME TypeOK, [Next]_vars, NEW t \in Transfers, chain[t].sent
  PROVE  chain'[t] = chain[t]
<1>1. ASSUME NEW s \in Transfers, NEW value, NEW d, Send(s, value, d)
      PROVE  chain'[t] = chain[t]
  BY <1>1 DEF Send, TypeOK
<1>2. CASE Outside
  BY <1>1, <1>2 DEF Outside, Tick, PayRound, Pay
<1>3. CASE Api
  BY <1>3 DEF Api, CreateCheck, CreateRelease, CreateTry, CreateExhausted, CancelRead, CancelWrite
<1>4. ASSUME NEW w \in Workers, WorkerStep(w) \/ WorkerFails(w)
      PROVE  chain' = chain
  BY <1>4 DEF WorkerStep, WorkerFails, ExpirePending, WorkerRelease, RetryList, RetryNext,
              RetryDone, Ingest, ScanDone, Process, ClaimRead, ClaimPays, ClaimRejected,
              Unlock, Mark, Thank
<1>. QED
  BY <1>2, <1>3, <1>4 DEF Next, vars

Keeps(d) ==
  /\ donation'[d].txHash = donation[d].txHash
  /\ donation'[d].expected = donation[d].expected
  /\ donation'[d].user = donation[d].user
  /\ donation'[d].requested = donation[d].requested

(* Only the claim gives an intent a transaction or moves coins, and it      *)
(* does so for an intent that has none.                                     *)
LEMMA OnlyClaimsPay ==
  ASSUME TypeOK, FreshIds, [Next]_vars, \A w \in Workers : ~ ClaimPays(w)
  PROVE  /\ ledger' = ledger
         /\ \A d \in Ids : /\ donation'[d].txHash = donation[d].txHash
                           /\ donation[d].txHash # None => Keeps(d)
<1>0. donation \in [Ids -> DonationRows] /\ request \in [Ids -> Requests]
  BY DEF TypeOK
<1>1. CASE Outside
  BY <1>1 DEF Outside, Tick, PayRound, Pay, Send, Keeps
<1>2. ASSUME NEW d \in Ids, NEW k \in Tails, CreateTry(d, k)
      PROVE  /\ ledger' = ledger
             /\ \A e \in Ids : /\ donation'[e].txHash = donation[e].txHash
                               /\ donation[e].txHash # None => Keeps(e)
  <2>. DEFINE amount == request[d].base + k
              new == NewDonation(request[d], amount)
  <2>1. donation[d].txHash = None
    BY <1>2 DEF CreateTry, FreshIds
  <2>2. request[d] \in Requests
    BY <1>0
  <2>3. new.txHash = None
    BY <2>2, AmountsAreNat, NewDonationType DEF Requests
  <2>4. CASE lock[amount] = None
    <3>1. donation' = [donation EXCEPT ![d] = new] /\ ledger' = ledger
      BY <1>2, <2>4 DEF CreateTry
    <3>. HIDE DEF new
    <3>. QED BY <1>0, <2>1, <2>3, <3>1 DEF Keeps
  <2>5. CASE lock[amount] # None
    BY <1>2, <2>5 DEF CreateTry, Keeps
  <2>. QED BY <2>4, <2>5
<1>3. ASSUME NEW d \in Ids, CancelWrite(d)
      PROVE  ledger' = ledger /\ \A e \in Ids : Keeps(e)
  BY <1>0, <1>3 DEF CancelWrite, Keeps, DonationRows
<1>4. CASE Api
  BY <1>2, <1>3, <1>4
     DEF Api, CreateCheck, CreateRelease, CreateExhausted, CancelRead, Keeps
<1>5. ASSUME NEW w \in Workers, ExpirePending(w)
      PROVE  ledger' = ledger /\ \A e \in Ids : Keeps(e)
  BY <1>0, <1>5 DEF ExpirePending, Keeps, DonationRows
<1>6. ASSUME NEW w \in Workers, Thank(w)
      PROVE  ledger' = ledger /\ \A e \in Ids : Keeps(e)
  BY <1>0, <1>6 DEF Thank, Keeps, DonationRows
<1>7. ASSUME NEW w \in Workers, WorkerStep(w) \/ WorkerFails(w)
      PROVE  /\ ledger' = ledger
             /\ \A e \in Ids : Keeps(e)
  BY <1>5, <1>6, <1>7
     DEF WorkerStep, WorkerFails, WorkerRelease, RetryList, RetryNext, RetryDone, Ingest,
         ScanDone, Process, ClaimRead, ClaimRejected, Unlock, Mark, Keeps
<1>8. CASE UNCHANGED vars
  BY <1>8 DEF vars, Keeps
<1>. QED
  BY <1>1, <1>4, <1>7, <1>8 DEF Next, Keeps

LEMMA ClaimFacts ==
  ASSUME TypeOK, LocalsAreSent, NEW w \in Workers, ClaimPays(w),
         NEW t, t = worker[w].t, NEW d, d = worker[w].d
  PROVE  /\ t \in Transfers /\ chain[t].sent /\ chain' = chain
         /\ d \in Ids /\ donation[d].txHash = None /\ donation[d].status \in Claimable
         /\ \A e \in Ids : donation[e].txHash # TxOf[t]
         /\ \A e \in Ids \ {d} : donation'[e] = donation[e]
         /\ donation'[d].txHash = TxOf[t] /\ donation'[d].expected = donation[d].expected
         /\ donation[d].expected = chain[t].value
         /\ donation'[d].user = donation[d].user
         /\ donation'[d].requested = donation[d].requested
<1>1. t \in Transfers /\ d \in Ids /\ chain[t].sent
  BY DEF ClaimPays, LocalsAreSent, At
<1>2. /\ CanClaim(t, d) /\ Unique(t, d)
      /\ donation' = [donation EXCEPT ![d].status = "PAID", ![d].txHash = TxOf[t],
                                      ![d].late = chain[t].time > donation[d].expiresAt]
      /\ chain' = chain
  BY DEF ClaimPays
<1>3. donation \in [Ids -> DonationRows]
  BY DEF TypeOK
<1>4. donation[d].txHash = None /\ donation[d].status \in Claimable
      /\ donation[d].expected = chain[t].value
  BY <1>2 DEF CanClaim
<1>5. \A e \in Ids : donation[e].txHash # TxOf[t]
  BY <1>2 DEF Unique
<1>6. \A e \in Ids \ {d} : donation'[e] = donation[e]
  BY <1>2, <1>3
<1>7. donation'[d] = [donation[d] EXCEPT !.status = "PAID", !.txHash = TxOf[t],
                                        !.late = chain[t].time > donation[d].expiresAt]
  BY <1>1, <1>2, <1>3
<1>8. donation[d] \in DonationRows
  BY <1>1, <1>3
<1>9. /\ donation'[d].txHash = TxOf[t]
      /\ donation'[d].expected = donation[d].expected
      /\ donation'[d].user = donation[d].user
      /\ donation'[d].requested = donation[d].requested
  BY <1>7, <1>8 DEF DonationRows
<1>. QED
  BY <1>1, <1>2, <1>4, <1>5, <1>6, <1>9

(* An intent that has a transaction keeps it, with its amount and donor.   *)
LEMMA PaidKeeps ==
  ASSUME TypeOK, LocalsAreSent, FreshIds, [Next]_vars, NEW d \in Ids, donation[d].txHash # None
  PROVE  Keeps(d)
<1>1. CASE \A w \in Workers : ~ ClaimPays(w)
  BY <1>1, OnlyClaimsPay
<1>2. ASSUME NEW w \in Workers, ClaimPays(w)
      PROVE  Keeps(d)
  BY <1>2, ClaimFacts DEF Keeps
<1>. QED BY <1>1, <1>2

LEMMA CreditedStays ==
  ASSUME TypeOK, LocalsAreSent, FreshIds, [Next]_vars,
         NEW t \in Transfers, NEW d \in Ids, chain[t].sent, Credited(t, d)
  PROVE  Credited(t, d)'
<1>1. donation[d].txHash # None
  <2>1. TxOf[t] \in Txs /\ None \notin Txs
    BY DonationsAssumption
  <2>. QED BY <2>1 DEF Credited
<1>2. Keeps(d) /\ chain'[t] = chain[t]
  BY <1>1, PaidKeeps, SentStays
<1>. QED BY <1>2 DEF Credited, Keeps

-----------------------------------------------------------------------------
(* Each part of the invariant is kept by every step.                       *)

LEMMA RowsStep ==
  ASSUME IInv, [Next]_vars
  PROVE  RowsAreSent'
<1>. SUFFICES ASSUME NEW t \in Transfers, row'[t].status # "NONE"
              PROVE  chain'[t].sent
  BY DEF RowsAreSent
<1>0. TypeOK /\ row \in [Transfers -> Rows]
  BY DEF IInv, TypeOK
<1>1. CASE row[t].status # "NONE"
  BY <1>0, <1>1, SentStays DEF IInv, RowsAreSent
<1>2. CASE row'[t] = row[t]
  BY <1>1, <1>2
<1>3. ASSUME NEW w \in Workers, NEW s \in Transfers, Ingest(w, s)
      PROVE  chain'[t].sent
  <2>1. chain' = chain /\ chain[s].sent /\ row' = [row EXCEPT ![s].status = "NEW"]
    BY <1>3 DEF Ingest
  <2>2. CASE s = t
    BY <2>1, <2>2
  <2>3. CASE s # t
    BY <1>0, <1>2, <2>1, <2>3
  <2>. QED BY <2>2, <2>3
<1>4. ASSUME NEW w \in Workers, Mark(w)
      PROVE  chain'[t].sent
  <2>1. chain' = chain /\ chain[worker[w].t].sent
    BY <1>4 DEF Mark, IInv, LocalsAreSent, At
  <2>2. CASE worker[w].t = t
    BY <2>1, <2>2
  <2>3. CASE worker[w].t # t
    BY <1>0, <1>2, <1>4, <2>3 DEF Mark
  <2>. QED BY <2>2, <2>3
<1>5. CASE Outside
  BY <1>2, <1>5 DEF Outside, Tick, PayRound, Pay, Send
<1>6. CASE Api
  BY <1>2, <1>6 DEF Api, CreateCheck, CreateRelease, CreateTry, CreateExhausted, CancelRead, CancelWrite
<1>7. ASSUME NEW w \in Workers, WorkerStep(w) \/ WorkerFails(w)
      PROVE  chain'[t].sent
  BY <1>2, <1>3, <1>4, <1>7
     DEF WorkerStep, WorkerFails, ExpirePending, WorkerRelease, RetryList, RetryNext, RetryDone,
         ScanDone, Process, ClaimRead, ClaimPays, ClaimRejected, Unlock, Thank
<1>. QED
  BY <1>2, <1>5, <1>6, <1>7 DEF Next, vars

(* A step of one worker leaves the locals of the others alone.             *)
LEMMA OthersKeep ==
  ASSUME TypeOK, NEW w \in Workers, WorkerStep(w) \/ WorkerFails(w), NEW v \in Workers, v # w
  PROVE  worker'[v] = worker[v]
<1>1. worker \in [Workers -> Ticks]
  BY DEF TypeOK
<1>. QED
  BY <1>1 DEF WorkerStep, WorkerFails, ExpirePending, WorkerRelease, RetryList, RetryNext, RetryDone,
              Ingest, ScanDone, Process, ClaimRead, ClaimPays, ClaimRejected, Unlock, Mark, Thank, Goto

LEMMA LocalsStep ==
  ASSUME IInv, [Next]_vars
  PROVE  LocalsAreSent'
<1>0. /\ TypeOK /\ LocalsAreSent /\ RowsAreSent
      /\ worker \in [Workers -> Ticks] /\ row \in [Transfers -> Rows]
  BY DEF IInv, TypeOK
<1>. SUFFICES ASSUME NEW w \in Workers
              PROVE  /\ \A t \in worker'[w].todo : chain'[t].sent
                     /\ worker'[w].pc \in {"read", "commit", "unlock", "mark"} =>
                          worker'[w].t \in Transfers /\ chain'[worker'[w].t].sent
                     /\ worker'[w].pc \in {"commit", "unlock"} => worker'[w].d \in Ids
  BY DEF LocalsAreSent
<1>. DEFINE Goal == /\ \A t \in worker'[w].todo : chain'[t].sent
                    /\ worker'[w].pc \in {"read", "commit", "unlock", "mark"} =>
                         worker'[w].t \in Transfers /\ chain'[worker'[w].t].sent
                    /\ worker'[w].pc \in {"commit", "unlock"} => worker'[w].d \in Ids
<1>1. /\ worker[w] \in Ticks /\ worker[w].todo \subseteq Transfers
      /\ \A t \in worker[w].todo : chain[t].sent
      /\ worker[w].pc \in {"read", "commit", "unlock", "mark"} =>
           worker[w].t \in Transfers /\ chain[worker[w].t].sent
      /\ worker[w].pc \in {"commit", "unlock"} => worker[w].d \in Ids
  BY <1>0 DEF LocalsAreSent, Ticks
<1>2. CASE worker'[w] = worker[w]
  BY <1>0, <1>1, <1>2, SentStays
<1>3. CASE WorkerStep(w) \/ WorkerFails(w)
  <2>0. chain' = chain
    BY <1>3 DEF WorkerStep, WorkerFails, ExpirePending, WorkerRelease, RetryList, RetryNext,
                RetryDone, Ingest, ScanDone, Process, ClaimRead, ClaimPays, ClaimRejected,
                Unlock, Mark, Thank
  <2>1. CASE ExpirePending(w) \/ WorkerRelease(w) \/ RetryDone(w)
    BY <1>0, <1>1, <2>0, <2>1 DEF ExpirePending, WorkerRelease, RetryDone, Goto, Ticks, At
  <2>2. CASE ScanDone(w) \/ WorkerFails(w)
    BY <1>0, <1>1, <2>0, <2>2 DEF ScanDone, WorkerFails, Idle
  <2>3. CASE RetryList(w)
    BY <1>0, <1>1, <2>0, <2>3 DEF RetryList, Unfinished, RowsAreSent, Ticks
  <2>4. ASSUME NEW t \in Transfers, RetryNext(w, t)
        PROVE  Goal
    BY <1>0, <1>1, <2>0, <2>4 DEF RetryNext, Ticks
  <2>5. ASSUME NEW t \in Transfers, Ingest(w, t)
        PROVE  Goal
    BY <1>0, <1>1, <2>0, <2>5 DEF Ingest, Ticks
  <2>6. CASE ClaimRead(w)
    <3>1. Candidate(worker[w].t) \in Ids \cup {None}
      BY <1>0 DEF Candidate, TypeOK
    <3>. QED
      BY <1>0, <1>1, <2>0, <2>6, <3>1 DEF ClaimRead, Ticks, At
  <2>7. CASE ClaimPays(w)
    BY <1>0, <1>1, <2>0, <2>7 DEF ClaimPays, Goto, Ticks, At
  <2>8. CASE ClaimRejected(w)
    BY <1>0, <1>1, <2>0, <2>8 DEF ClaimRejected, Ticks, At
  <2>9. CASE Unlock(w)
    BY <1>0, <1>1, <2>0, <2>9 DEF Unlock, Goto, Ticks, At
  <2>10. CASE Mark(w) \/ Thank(w)
    BY <1>0, <1>1, <2>0, <2>10 DEF Mark, Thank, Ticks, At
  <2>. QED
    BY <1>3, <2>1, <2>2, <2>3, <2>4, <2>5, <2>6, <2>7, <2>8, <2>9, <2>10 DEF WorkerStep, Process
<1>4. CASE Outside
  BY <1>2, <1>4 DEF Outside, Tick, PayRound, Pay, Send
<1>5. CASE Api
  BY <1>2, <1>5 DEF Api, CreateCheck, CreateRelease, CreateTry, CreateExhausted, CancelRead, CancelWrite
<1>. QED
  BY <1>0, <1>2, <1>3, <1>4, <1>5, OthersKeep DEF Next, vars

LEMMA FreshStep ==
  ASSUME IInv, [Next]_vars
  PROVE  FreshIds'
<1>0. /\ TypeOK /\ FreshIds /\ LocalsAreSent /\ cancel \subseteq Ids
      /\ request \in [Ids -> Requests] /\ donation \in [Ids -> DonationRows]
  BY DEF IInv, TypeOK
<1>1. ASSUME request' = request, cancel' \subseteq cancel,
             \A d \in Ids : donation[d].status = "NONE" /\ donation[d].txHash = None =>
                            donation'[d].status = "NONE" /\ donation'[d].txHash = None
      PROVE  FreshIds'
  BY <1>0, <1>1 DEF FreshIds
<1>2. ASSUME NEW d \in Ids, request[d].pc # "done", donation' = donation, cancel' = cancel,
             NEW r, request' = [request EXCEPT ![d] = r]
      PROVE  FreshIds'
  BY <1>0, <1>2 DEF FreshIds
<1>3. CASE Outside
  BY <1>1, <1>3 DEF Outside, Tick, PayRound, Pay, Send, apiVars
<1>4. CASE Api
  <2>. PICK d \in Ids :
         \/ \E u \in Donors, b \in Bases : CreateCheck(d, u, b)
         \/ CreateRelease(d)
         \/ \E k \in Tails : CreateTry(d, k)
         \/ CreateExhausted(d)
         \/ CancelRead(d)
         \/ CancelWrite(d)
    BY <1>4 DEF Api
  <2>1. ASSUME NEW u \in Donors, NEW b \in Bases, CreateCheck(d, u, b)
        PROVE  FreshIds'
    BY <1>0, <1>2, <2>1 DEF CreateCheck
  <2>2. CASE CreateRelease(d) \/ CreateExhausted(d)
    BY <1>0, <2>2 DEF CreateRelease, CreateExhausted, FreshIds, Requests
  <2>3. ASSUME NEW k \in Tails, CreateTry(d, k)
        PROVE  FreshIds'
    <3>1. CASE lock[request[d].base + k] = None
      <4>1. /\ request' = [request EXCEPT ![d].pc = "done", ![d].left = {}]
            /\ \E new : donation' = [donation EXCEPT ![d] = new]
            /\ cancel' = cancel
        BY <2>3, <3>1 DEF CreateTry
      <4>. QED
        BY <1>0, <4>1 DEF FreshIds, Requests
    <3>2. CASE lock[request[d].base + k] # None
      BY <1>0, <2>3, <3>2 DEF CreateTry, FreshIds, Requests
    <3>. QED BY <3>1, <3>2
  <2>4. CASE CancelRead(d)
    BY <1>0, <2>4 DEF CancelRead, FreshIds
  <2>5. CASE CancelWrite(d)
    BY <1>0, <2>5 DEF CancelWrite, FreshIds
  <2>. QED BY <2>1, <2>2, <2>3, <2>4, <2>5
<1>5. ASSUME NEW w \in Workers, WorkerStep(w) \/ WorkerFails(w)
      PROVE  FreshIds'
  <2>1. CASE ExpirePending(w)
    BY <1>0, <1>1, <2>1 DEF ExpirePending, apiVars
  <2>2. CASE Thank(w)
    BY <1>0, <1>1, <2>2 DEF Thank, apiVars
  <2>3. CASE ClaimPays(w)
    <3>. DEFINE d == worker[w].d
    <3>1. /\ d \in Ids /\ donation[d].status \in Claimable
          /\ \A e \in Ids \ {d} : donation'[e] = donation[e]
      BY <1>0, <2>3, ClaimFacts
    <3>2. donation[d].status # "NONE"
      BY <3>1 DEF Claimable
    <3>3. request' = request /\ cancel' = cancel
      BY <2>3 DEF ClaimPays, apiVars
    <3>. QED BY <1>1, <3>1, <3>2, <3>3
  <2>. QED
    BY <1>1, <1>5, <2>1, <2>2, <2>3
       DEF WorkerStep, WorkerFails, WorkerRelease, RetryList, RetryNext, RetryDone, Ingest,
           ScanDone, Process, ClaimRead, ClaimRejected, Unlock, Mark, apiVars
<1>. QED
  BY <1>1, <1>3, <1>4, <1>5 DEF Next, vars, apiVars

LEMMA ClaimedStep ==
  ASSUME IInv, [Next]_vars
  PROVE  ClaimedIsCredited'
<1>0. /\ TypeOK /\ LocalsAreSent /\ FreshIds /\ ClaimedIsCredited
      /\ worker \in [Workers -> Ticks]
  BY DEF IInv, TypeOK
<1>. SUFFICES ASSUME NEW w \in Workers, worker'[w].pc \in {"unlock", "mark"}, worker'[w].d # None
              PROVE  /\ donation'[worker'[w].d].txHash = TxOf[worker'[w].t]
                     /\ donation'[worker'[w].d].expected = chain'[worker'[w].t].value
  BY DEF ClaimedIsCredited, Credited
<1>1. ASSUME worker[w].pc \in {"unlock", "mark"},
             worker'[w].t = worker[w].t, worker'[w].d = worker[w].d
      PROVE  /\ donation'[worker'[w].d].txHash = TxOf[worker'[w].t]
             /\ donation'[worker'[w].d].expected = chain'[worker'[w].t].value
  <2>. DEFINE t == worker[w].t
              d == worker[w].d
  <2>1. t \in Transfers /\ chain[t].sent /\ d \in Ids
    BY <1>0, <1>1 DEF LocalsAreSent, Ticks
  <2>2. Credited(t, d)
    BY <1>0, <1>1 DEF ClaimedIsCredited
  <2>3. donation[d].txHash # None
    BY <2>1, <2>2, DonationsAssumption DEF Credited
  <2>4. Keeps(d) /\ chain'[t] = chain[t]
    BY <1>0, <2>1, <2>3, PaidKeeps, SentStays
  <2>. QED BY <1>1, <2>2, <2>4 DEF Credited, Keeps
<1>2. CASE worker'[w] = worker[w]
  BY <1>1, <1>2
<1>3. CASE WorkerStep(w) \/ WorkerFails(w)
  <2>1. CASE ClaimPays(w)
    <3>1. worker'[w].t = worker[w].t /\ worker'[w].d = worker[w].d
      BY <1>0, <2>1 DEF ClaimPays, Goto, Ticks
    <3>. QED BY <1>0, <2>1, <3>1, ClaimFacts
  <2>2. CASE Unlock(w)
    <3>1. /\ worker[w].pc = "unlock"
          /\ worker'[w].t = worker[w].t /\ worker'[w].d = worker[w].d
      BY <1>0, <2>2 DEF Unlock, Goto, Ticks, At
    <3>. QED BY <1>1, <3>1
  <2>3. CASE ClaimRead(w)
    BY <1>0, <2>3 DEF ClaimRead, Ticks
  <2>4. CASE ClaimRejected(w)
    BY <1>0, <2>4 DEF ClaimRejected, Ticks
  <2>5. CASE \/ ExpirePending(w) \/ WorkerRelease(w) \/ RetryDone(w) \/ RetryList(w)
             \/ ScanDone(w) \/ WorkerFails(w) \/ Mark(w) \/ Thank(w)
             \/ \E t \in Transfers : RetryNext(w, t) \/ Ingest(w, t)
    <3>1. CASE ExpirePending(w) \/ WorkerRelease(w) \/ RetryDone(w) \/ RetryList(w)
      BY <1>0, <3>1 DEF ExpirePending, WorkerRelease, RetryDone, RetryList, Goto, At, Ticks
    <3>2. CASE ScanDone(w) \/ WorkerFails(w)
      BY <1>0, <3>2 DEF ScanDone, WorkerFails, Idle
    <3>3. CASE Mark(w) \/ Thank(w)
      BY <1>0, <3>3 DEF Mark, Thank, Ticks
    <3>4. CASE \E t \in Transfers : RetryNext(w, t) \/ Ingest(w, t)
      BY <1>0, <3>4 DEF RetryNext, Ingest, Ticks
    <3>. QED BY <2>5, <3>1, <3>2, <3>3, <3>4
  <2>. QED
    BY <1>3, <2>1, <2>2, <2>3, <2>4, <2>5 DEF WorkerStep, Process
<1>4. CASE Outside
  BY <1>2, <1>4 DEF Outside, Tick, PayRound, Pay, Send
<1>5. CASE Api
  BY <1>2, <1>5 DEF Api, CreateCheck, CreateRelease, CreateTry, CreateExhausted, CancelRead, CancelWrite
<1>. QED
  BY <1>0, <1>2, <1>3, <1>4, <1>5, OthersKeep DEF Next, vars

LEMMA PayOnceStep ==
  ASSUME IInv, [Next]_vars
  PROVE  TransfersPayOnce'
<1>0. TypeOK /\ LocalsAreSent /\ FreshIds /\ TransfersPayOnce
  BY DEF IInv
<1>1. ASSUME NEW d \in Ids, NEW e \in Ids, donation'[d].txHash # None,
             donation'[d].txHash = donation'[e].txHash
      PROVE  d = e
  <2>1. CASE \A w \in Workers : ~ ClaimPays(w)
    BY <1>0, <1>1, <2>1, OnlyClaimsPay DEF TransfersPayOnce
  <2>2. ASSUME NEW w \in Workers, ClaimPays(w)
        PROVE  d = e
    BY <1>0, <1>1, <2>2, ClaimFacts DEF TransfersPayOnce
  <2>. QED BY <2>1, <2>2
<1>2. ASSUME NEW d \in Ids, donation'[d].txHash # None
      PROVE  \E t \in Transfers : chain'[t].sent /\ Credited(t, d)'
  <2>1. CASE donation[d].txHash # None
    <3>1. PICK t \in Transfers : chain[t].sent /\ Credited(t, d)
      BY <1>0, <2>1 DEF TransfersPayOnce
    <3>2. chain'[t].sent /\ Credited(t, d)'
      BY <1>0, <3>1, SentStays, CreditedStays
    <3>. QED BY <3>2
  <2>2. CASE donation[d].txHash = None
    <3>1. PICK w \in Workers : ClaimPays(w)
      BY <1>0, <1>2, <2>2, OnlyClaimsPay
    <3>. DEFINE t == worker[w].t
    <3>2. d = worker[w].d
      BY <1>0, <1>2, <2>2, <3>1, ClaimFacts
    <3>3. /\ t \in Transfers /\ chain'[t].sent
          /\ donation'[d].txHash = TxOf[t] /\ donation'[d].expected = chain'[t].value
      BY <1>0, <3>1, <3>2, ClaimFacts
    <3>. QED BY <3>3 DEF Credited
  <2>. QED BY <2>1, <2>2
<1>. QED
  BY <1>1, <1>2 DEF TransfersPayOnce

LEMMA MatchedStep ==
  ASSUME IInv, [Next]_vars
  PROVE  MatchedIsCredited'
<1>0. /\ TypeOK /\ LocalsAreSent /\ FreshIds /\ MatchedIsCredited /\ RowsAreSent
      /\ ClaimedIsCredited /\ row \in [Transfers -> Rows] /\ worker \in [Workers -> Ticks]
  BY DEF IInv, TypeOK
<1>. SUFFICES ASSUME NEW t \in Transfers, row'[t].status = "MATCHED"
              PROVE  /\ row'[t].donation # None
                     /\ donation'[row'[t].donation].txHash = TxOf[t]
                     /\ donation'[row'[t].donation].expected = chain'[t].value
  BY DEF MatchedIsCredited, Credited
<1>1. ASSUME NEW d \in Ids, chain[t].sent, Credited(t, d), row'[t].donation = d
      PROVE  /\ row'[t].donation # None
             /\ donation'[row'[t].donation].txHash = TxOf[t]
             /\ donation'[row'[t].donation].expected = chain'[t].value
  <2>1. donation[d].txHash # None /\ d # None
    BY <1>1, DonationsAssumption DEF Credited
  <2>2. Keeps(d) /\ chain'[t] = chain[t]
    BY <1>0, <1>1, <2>1, PaidKeeps, SentStays
  <2>. QED BY <1>1, <2>1, <2>2 DEF Credited, Keeps
<1>2. CASE row'[t] = row[t]
  <2>1. row[t].donation \in Ids /\ Credited(t, row[t].donation) /\ chain[t].sent
    BY <1>0, <1>2 DEF MatchedIsCredited, RowsAreSent, Rows
  <2>. QED BY <1>1, <1>2, <2>1
<1>3. ASSUME NEW w \in Workers, Mark(w)
      PROVE  /\ row'[t].donation # None
             /\ donation'[row'[t].donation].txHash = TxOf[t]
             /\ donation'[row'[t].donation].expected = chain'[t].value
  <2>. DEFINE d == worker[w].d
  <2>1. CASE worker[w].t # t
    <3>1. row'[t] = row[t]
      BY <1>0, <1>3, <2>1 DEF Mark
    <3>. QED BY <1>2, <3>1
  <2>2. CASE worker[w].t = t /\ d = None
    BY <1>0, <1>3, <2>2 DEF Mark, Rows
  <2>3. CASE worker[w].t = t /\ d # None
    <3>1. row' = [row EXCEPT ![t] = [status |-> "MATCHED", donation |-> d]]
      BY <1>3, <2>3 DEF Mark
    <3>2. /\ chain[t].sent /\ Credited(t, d) /\ d \in Ids
      BY <1>0, <1>3, <2>3 DEF Mark, At, LocalsAreSent, ClaimedIsCredited, Ticks
    <3>. QED BY <1>0, <1>1, <3>1, <3>2
  <2>. QED BY <2>1, <2>2, <2>3
<1>4. ASSUME NEW w \in Workers, NEW s \in Transfers, Ingest(w, s)
      PROVE  row'[t] = row[t]
  BY <1>0, <1>4 DEF Ingest, Rows
<1>5. CASE Outside
  BY <1>2, <1>5 DEF Outside, Tick, PayRound, Pay, Send
<1>6. CASE Api
  BY <1>2, <1>6 DEF Api, CreateCheck, CreateRelease, CreateTry, CreateExhausted, CancelRead, CancelWrite
<1>7. ASSUME NEW w \in Workers, WorkerStep(w) \/ WorkerFails(w), ~ Mark(w)
      PROVE  row'[t] = row[t]
  BY <1>4, <1>7
     DEF WorkerStep, WorkerFails, ExpirePending, WorkerRelease, RetryList, RetryNext, RetryDone,
         ScanDone, Process, ClaimRead, ClaimPays, ClaimRejected, Unlock, Thank
<1>. QED
  BY <1>2, <1>3, <1>5, <1>6, <1>7 DEF Next, vars

-----------------------------------------------------------------------------
(* Coins and payments.                                                     *)

RowsOf(L, d) == {r \in L.rows : r.ref = d}

(* A credit adds its row, and to its event alone.                          *)
LEMMA CreditRows ==
  ASSUME NEW L, NEW u, NEW n \in Nat, NEW kind, NEW ref, NEW d
  PROVE  RowsOf(Credit(L, u, n, kind, ref), d) =
           RowsOf(L, d) \cup {r \in {Row(u, kind, ref, n)} : n > 0 /\ ref = d}
<1>1. Row(u, kind, ref, n).ref = ref
  BY DEF Row
<1>2. CASE n > 0
  <2>1. Credit(L, u, n, kind, ref).rows = L.rows \cup {Row(u, kind, ref, n)}
    BY <1>2 DEF Credit, Move
  <2>. HIDE DEF Row
  <2>. QED BY <1>1, <1>2, <2>1 DEF RowsOf
<1>3. CASE ~ (n > 0)
  BY <1>3 DEF Credit, RowsOf
<1>. QED BY <1>2, <1>3

(* The coins of an intent are journaled under its id alone.                *)
LEMMA RewardJournal ==
  ASSUME TypeOK, NEW d \in Ids, donation[d].user # None, NEW e \in Ids
  PROVE  RowsOf(Reward(ledger, d), e) =
           RowsOf(ledger, e) \cup (IF e = d THEN RewardRows(d) ELSE {})
<1>. DEFINE u == donation[d].user
            coins == CoinsForDonation(donation[d].requested)
            bonus == PercentOfCoins(coins, BonusPercent)
            share == PercentOfCoins(coins, ReferralPercent)
            first == Credit(ledger, u, coins, "DONATION", d)
            both  == Credit(first, u, bonus, "DONATION_BONUS", d)
            all   == Credit(both, InvitedBy[u], share, "REFERRAL_DONATION", d)
            r1 == Row(u, "DONATION", d, coins)
            r2 == Row(u, "DONATION_BONUS", d, bonus)
            r3 == Row(InvitedBy[u], "REFERRAL_DONATION", d, share)
<1>1. donation[d].requested \in Nat
  BY DEF TypeOK, DonationRows
<1>2. coins \in Nat /\ bonus \in Nat /\ share \in Nat
  BY <1>1, CoinsAreIntegers, DonationsAssumption
<1>3. /\ Reward(ledger, d) = IF InvitedBy[u] = None THEN both ELSE all
      /\ RewardRows(d) = {r \in {r1, r2} \cup (IF InvitedBy[u] = None THEN {} ELSE {r3}) : r.delta > 0}
  BY DEF Reward, RewardRows
<1>4. r1.delta = coins /\ r2.delta = bonus /\ r3.delta = share
  BY DEF Row
<1>. HIDE DEF u, coins, bonus, share, r1, r2, r3
<1>5. RowsOf(first, e) = RowsOf(ledger, e) \cup {r \in {r1} : coins > 0 /\ d = e}
  BY <1>2, CreditRows DEF r1
<1>. HIDE DEF first
<1>6. RowsOf(both, e) = RowsOf(first, e) \cup {r \in {r2} : bonus > 0 /\ d = e}
  BY <1>2, CreditRows DEF r2
<1>. HIDE DEF both
<1>7. RowsOf(all, e) = RowsOf(both, e) \cup {r \in {r3} : share > 0 /\ d = e}
  BY <1>2, CreditRows DEF r3
<1>. HIDE DEF all
<1>8. CASE InvitedBy[u] = None
  BY <1>3, <1>4, <1>5, <1>6, <1>8
<1>9. CASE InvitedBy[u] # None
  BY <1>3, <1>4, <1>5, <1>6, <1>7, <1>9
<1>. QED BY <1>8, <1>9

LEMMA CoinsStep ==
  ASSUME IInv, [Next]_vars
  PROVE  CoinsFollowPayment'
<1>0. TypeOK /\ LocalsAreSent /\ FreshIds /\ CoinsFollowPayment
  BY DEF IInv
<1>1. ASSUME NEW d \in Ids, donation'[d].user = donation[d].user,
             donation'[d].requested = donation[d].requested
      PROVE  RewardRows(d)' = RewardRows(d)
  BY <1>1 DEF RewardRows, CoinsForDonation, PercentOfCoins, Row
<1>. SUFFICES ASSUME NEW d \in Ids
              PROVE  RowsOf(ledger', d) =
                       IF donation'[d].txHash = None \/ donation'[d].user = None THEN {}
                       ELSE RewardRows(d)'
  BY DEF CoinsFollowPayment, RowsOf
<1>2. RowsOf(ledger, d) =
        IF donation[d].txHash = None \/ donation[d].user = None THEN {} ELSE RewardRows(d)
  BY <1>0 DEF CoinsFollowPayment, RowsOf
<1>3. CASE \A w \in Workers : ~ ClaimPays(w)
  <2>1. /\ ledger' = ledger /\ donation'[d].txHash = donation[d].txHash
        /\ donation[d].txHash # None => Keeps(d)
    BY <1>0, <1>3, OnlyClaimsPay
  <2>2. CASE donation[d].txHash = None
    BY <1>2, <2>1, <2>2
  <2>3. CASE donation[d].txHash # None
    BY <1>1, <1>2, <2>1, <2>3 DEF Keeps
  <2>. QED BY <2>2, <2>3
<1>4. ASSUME NEW w \in Workers, ClaimPays(w)
      PROVE  RowsOf(ledger', d) =
               IF donation'[d].txHash = None \/ donation'[d].user = None THEN {}
               ELSE RewardRows(d)'
  <2>. DEFINE e == worker[w].d
              t == worker[w].t
  <2>1. /\ e \in Ids /\ t \in Transfers /\ donation[e].txHash = None
        /\ donation'[e].txHash = TxOf[t] /\ donation'[e].user = donation[e].user
        /\ donation'[e].requested = donation[e].requested
        /\ \A f \in Ids \ {e} : donation'[f] = donation[f]
    BY <1>0, <1>4, ClaimFacts
  <2>2. ledger' = IF donation[e].user = None THEN ledger ELSE Reward(ledger, e)
    BY <1>4 DEF ClaimPays
  <2>3. TxOf[t] # None
    BY <2>1, DonationsAssumption
  <2>. HIDE DEF e, t
  <2>4. RewardRows(d)' = RewardRows(d)
    BY <1>1, <2>1
  <2>5. CASE donation[e].user = None
    BY <1>2, <2>1, <2>2, <2>3, <2>4, <2>5
  <2>6. CASE donation[e].user # None
    <3>1. RowsOf(ledger', d) = RowsOf(ledger, d) \cup (IF d = e THEN RewardRows(e) ELSE {})
      BY <1>0, <2>1, <2>2, <2>6, RewardJournal
    <3>2. CASE d = e
      BY <1>2, <2>1, <2>3, <2>4, <2>6, <3>1, <3>2
    <3>3. CASE d # e
      BY <1>2, <2>1, <2>4, <3>1, <3>3
    <3>. QED BY <3>2, <3>3
  <2>. QED BY <2>5, <2>6
<1>. QED BY <1>3, <1>4

-----------------------------------------------------------------------------
(* Theorems.                                                               *)

(* The first states: nothing is sent, journaled or asked for.              *)
LEMMA InvInit == Init => IInv
<1>. SUFFICES ASSUME Init PROVE IInv
  OBVIOUS
<1>1. TypeOK
  BY TypeInit
<1>2. RowsAreSent /\ MatchedIsCredited
  BY DEF Init, RowsAreSent, MatchedIsCredited, NoRow
<1>3. LocalsAreSent /\ ClaimedIsCredited
  BY DEF Init, LocalsAreSent, ClaimedIsCredited, Idle
<1>4. FreshIds /\ TransfersPayOnce
  BY DEF Init, FreshIds, TransfersPayOnce, NoDonation, NoRequest
<1>5. CoinsFollowPayment
  BY DEF Init, CoinsFollowPayment, NoDonation, NewLedger
<1>. QED
  BY <1>1, <1>2, <1>3, <1>4, <1>5 DEF IInv

LEMMA InvStep == IInv /\ [Next]_vars => IInv'
<1>. SUFFICES ASSUME IInv, [Next]_vars PROVE IInv'
  OBVIOUS
<1>1. TypeOK'
  BY TypeStep DEF IInv
<1>. QED
  BY <1>1, RowsStep, LocalsStep, FreshStep, ClaimedStep, PayOnceStep, CoinsStep, MatchedStep
     DEF IInv

THEOREM Invariance == Spec => []IInv
<1>1. Init => IInv
  BY InvInit
<1>2. IInv /\ [Next]_vars => IInv'
  BY InvStep
<1>. QED BY <1>1, <1>2, PTL DEF Spec

(* Type correctness: every row, local and balance stays in its type.       *)
THEOREM TypeCorrect == Spec => []TypeOK
<1>1. IInv => TypeOK
  BY DEF IInv
<1>. QED BY <1>1, Invariance, PTL

(* A transaction of the chain pays at most one intent, and what it pays was *)
(* sent, whatever the watchers, the donors and the failures do: the claim   *)
(* of donations.service.ts credits no transfer twice.                       *)
THEOREM PaysOnce == Spec => []TransfersPayOnce
<1>1. IInv => TransfersPayOnce
  BY DEF IInv
<1>. QED BY <1>1, Invariance, PTL

(* An intent has exactly the coins of its amount once it is paid for and    *)
(* none before: the transaction of the claim is the only place that gives   *)
(* coins for a donation.                                                    *)
THEOREM CoinsFollow == Spec => []CoinsFollowPayment
<1>1. IInv => CoinsFollowPayment
  BY DEF IInv
<1>. QED BY <1>1, Invariance, PTL

(* What the journal of the watcher calls MATCHED was credited.             *)
THEOREM MatchedCredited == Spec => []MatchedIsCredited
<1>1. IInv => MatchedIsCredited
  BY DEF IInv
<1>. QED BY <1>1, Invariance, PTL

(* The transaction, the amount and the donor of a paid intent never change. *)
THEOREM PaidIsFinal == Spec => PaymentIsFinal
<1>1. IInv /\ [Next]_vars =>
        [\A d \in Ids : donation[d].txHash # None =>
            /\ donation'[d].txHash = donation[d].txHash
            /\ donation'[d].expected = donation[d].expected
            /\ donation'[d].user = donation[d].user]_vars
  BY PaidKeeps DEF IInv, Keeps
<1>. QED BY <1>1, Invariance, PTL DEF Spec, PaymentIsFinal

-----------------------------------------------------------------------------
(* The donations implement the coin ledger.                                *)

(* To post is the same in the module of the ledger, sums included.         *)
LEMMA LedgerPosts ==
  ASSUME NEW L, NEW K
  PROVE  Posts(L, K) => Ledger!Posts([balance |-> L.balance, rows |-> L.rows],
                                     [balance |-> K.balance, rows |-> K.rows])
<1>1. ASSUME NEW f, NEW S PROVE Ledger!SumFunctionOnSet(f, S) = SumFunctionOnSet(f, S)
  <2>1. Ledger!SumFunctionOnSet(f, S) = PartialSums(f, S)[S]
    BY DEF Ledger!SumFunctionOnSet, Ledger!FoldFunctionOnSet, Ledger!MapThenFoldSet,
           PartialSums, Defines, Chosen
  <2>. QED BY <2>1, SumIsPartialSum
<1>2. ASSUME NEW rows, NEW u PROVE Ledger!SumDelta(rows, u) = SumDelta(rows, u)
  BY <1>1 DEF Ledger!SumDelta, SumDelta
<1>. QED BY <1>2 DEF Ledger!Posts, Posts, Ledger!KeysUnique, KeysUnique

(* A credit takes one key and no other.                                    *)
LEMMA CreditLeavesFree ==
  ASSUME NEW L, NEW u, NEW n, NEW kind, NEW ref, NEW v, NEW other, other # kind,
         Fresh(L, v, other, ref)
  PROVE  Fresh(Credit(L, u, n, kind, ref), v, other, ref)
BY DEF Fresh, Credit, Move, Row

(* The three credits of a payment are one transaction under free keys.      *)
LEMMA RewardPosts ==
  ASSUME TypeOK, Booked(ledger), NEW d \in Ids, donation[d].user # None, CanReward(ledger, d)
  PROVE  Settles(ledger, Reward(ledger, d))
<1>. DEFINE u == donation[d].user
            coins == CoinsForDonation(donation[d].requested)
            bonus == PercentOfCoins(coins, BonusPercent)
            share == PercentOfCoins(coins, ReferralPercent)
            first == Credit(ledger, u, coins, "DONATION", d)
            both  == Credit(first, u, bonus, "DONATION_BONUS", d)
            all   == Credit(both, InvitedBy[u], share, "REFERRAL_DONATION", d)
<1>1. donation[d].requested \in Nat /\ u \in Users
  BY DEF TypeOK, DonationRows
<1>2. coins \in Nat /\ bonus \in Nat /\ share \in Nat
  BY <1>1, CoinsAreIntegers, DonationsAssumption
<1>3. Reward(ledger, d) = IF InvitedBy[u] = None THEN both ELSE all
  BY DEF Reward
<1>4. \A v : /\ Fresh(ledger, v, "DONATION", d) /\ Fresh(ledger, v, "DONATION_BONUS", d)
             /\ Fresh(ledger, v, "REFERRAL_DONATION", d)
  BY DEF CanReward, Fresh
<1>. HIDE DEF u, coins, bonus, share
<1>5. Settles(ledger, first)
  BY <1>1, <1>2, <1>4, CreditPosts DEF CanCredit
<1>6. \A v : Fresh(first, v, "DONATION_BONUS", d) /\ Fresh(first, v, "REFERRAL_DONATION", d)
  BY <1>4, CreditLeavesFree
<1>. HIDE DEF first
<1>7. Settles(first, both)
  BY <1>1, <1>2, <1>5, <1>6, CreditPosts DEF CanCredit, Settles
<1>8. \A v : Fresh(both, v, "REFERRAL_DONATION", d)
  BY <1>6, CreditLeavesFree
<1>. HIDE DEF both
<1>9. Settles(ledger, both)
  BY <1>5, <1>7, SettlesAgain
<1>10. CASE InvitedBy[u] = None
  BY <1>3, <1>9, <1>10
<1>11. CASE InvitedBy[u] # None
  <2>1. InvitedBy[u] \in Users
    BY <1>1, <1>11, DonationsAssumption
  <2>2. Settles(both, all)
    BY <1>2, <1>8, <1>9, <2>1, CreditPosts DEF CanCredit, Settles
  <2>. HIDE DEF all
  <2>. QED BY <1>3, <1>9, <1>11, <2>2, SettlesAgain
<1>. QED BY <1>10, <1>11

(* A step posts to the ledger or leaves it alone.                          *)
LEMMA LedgerStep ==
  ASSUME IInv, Booked(ledger), [Next]_vars
  PROVE  Settles(ledger, ledger')
<1>1. CASE \A w \in Workers : ~ ClaimPays(w)
  <2>1. ledger' = ledger
    BY <1>1, OnlyClaimsPay DEF IInv
  <2>. QED BY <2>1 DEF Settles
<1>2. ASSUME NEW w \in Workers, ClaimPays(w)
      PROVE  Settles(ledger, ledger')
  <2>. DEFINE d == worker[w].d
  <2>1. d \in Ids
    BY <1>2, ClaimFacts DEF IInv
  <2>2. CASE donation[d].user = None
    <3>1. ledger' = ledger
      BY <1>2, <2>2 DEF ClaimPays
    <3>. QED BY <3>1 DEF Settles
  <2>3. CASE donation[d].user # None
    <3>1. CanReward(ledger, d) /\ ledger' = Reward(ledger, d)
      BY <1>2, <2>3 DEF ClaimPays, Unique
    <3>. HIDE DEF d
    <3>. QED BY <2>1, <2>3, <3>1, RewardPosts DEF IInv
  <2>. QED BY <2>2, <2>3
<1>. QED BY <1>1, <1>2

(* The donations implement the coin ledger, for any rates, inviters and      *)
(* number of watchers: balances are the journal, and nothing is paid twice. *)
THEOREM ImplementsLedger == Spec => CoinLedgerSpec
<1>1. Init => ledger = NewLedger /\ Booked(ledger)
  BY NewIsBooked DEF Init
<1>2. IInv /\ Booked(ledger) /\ [Next]_vars => Booked(ledger)' /\ [Ledger!Post]_<<ledger.balance, ledger.rows>>
  <2>. SUFFICES ASSUME IInv, Booked(ledger), [Next]_vars
                PROVE  Booked(ledger)' /\ [Ledger!Post]_<<ledger.balance, ledger.rows>>
    OBVIOUS
  <2>1. Settles(ledger, ledger')
    BY LedgerStep
  <2>. QED BY <2>1, LedgerPosts DEF Ledger!Post, Settles
<1>3. ledger = NewLedger => Ledger!Init
  BY DEF Ledger!Init, NewLedger
<1>. QED BY <1>1, <1>2, <1>3, Invariance, PTL DEF Spec, CoinLedgerSpec, Ledger!Spec

-----------------------------------------------------------------------------
(* Amounts that return to the pool.  What a transfer is credited to rests   *)
(* on the clock, and on what follows; each is met by an instance of TLC.    *)

(* A tail is below the distance of two bases (amount.ts:28-32).            *)
TailsApart == \A b, c \in Bases, k \in Tails : b + k # c
(* No batches: a transaction carries one transfer to the wallet.           *)
OneTransferEach == \A s, t \in Transfers : TxOf[s] = TxOf[t] => s = t
(* "Exactly one process of this service" (docker-compose.prod.yml:135).     *)
OneWorker == \A v, w \in Workers : v = w
Orderly == Timely /\ TailsApart /\ OneTransferEach /\ OneWorker

AsksForBase == \A d \in Ids : request[d].pc \in {"release", "try"} => request[d].base \in Bases

CanceledIsOpened == \A d \in cancel : donation[d].status # "NONE"

(* An intent can be paid until the margin after its window is over, and    *)
(* never shows a round amount.                                              *)
Windows ==
  \A d \in Ids : donation[d].status # "NONE" =>
    /\ donation[d].matchUntil = donation[d].expiresAt + LateGrace
    /\ \E b \in Bases, k \in Tails : donation[d].expected = b + k
OpenIsUnpaid == \A d \in Ids : donation[d].status \in Claimable => donation[d].txHash = None

LocksName ==
  \A a \in Amounts : lock[a] # None =>
    donation[lock[a]].status # "NONE" /\ donation[lock[a]].expected = a

(* What was sent, was sent round or as its intent shows, in its window.     *)
SentAsShown ==
  \A t \in Transfers : chain[t].sent =>
    IF chain[t].from = None THEN chain[t].value \in Bases
    ELSE LET d == chain[t].from IN
         /\ donation[d].status # "NONE" /\ chain[t].value = donation[d].expected
         /\ chain[t].time <= donation[d].expiresAt
PaidOnce == \A s, t \in Transfers : chain[s].from # None /\ chain[s].from = chain[t].from => s = t
NotOverdue ==
  \A t \in Transfers : chain[t].sent /\ ~ Resolved(t) => now <= chain[t].time + LateGrace

(* What a tick has in its hands has no verdict yet.                        *)
InHand ==
  \A w \in Workers :
    /\ \A t \in worker[w].todo : row[t].status = "NEW"
    /\ worker[w].pc \in {"read", "commit", "unlock", "mark"} =>
         row[worker[w].t].status = "NEW" /\ worker[w].t \notin worker[w].todo

(* An amount is reserved for its intent, canceled or not, until it is paid. *)
Reserved ==
  \A d \in Ids :
    donation[d].status # "NONE" /\ donation[d].txHash = None /\ now <= donation[d].matchUntil =>
      lock[donation[d].expected] = d

(* A tick that commits on another intent than the payer's retries a        *)
(* transfer that paid already, which the index on the hash will reject.     *)
ClaimsItsPayer ==
  \A w \in Workers :
    /\ worker[w].pc = "commit" =>
         \/ worker[w].d = chain[worker[w].t].from
         \/ \E e \in Ids : donation[e].txHash = TxOf[worker[w].t]
    /\ worker[w].pc = "unlock" =>
         worker[w].d = chain[worker[w].t].from /\ lock[chain[worker[w].t].value] = worker[w].d

RInv ==
  /\ AsksForBase /\ CanceledIsOpened /\ Windows /\ OpenIsUnpaid /\ LocksName
  /\ SentAsShown /\ PaidOnce /\ NotOverdue
  /\ InHand /\ Reserved /\ ClaimsItsPayer /\ CreditsItsPayer

(* What a step makes of an intent: it lasts, or is opened on an amount      *)
(* nobody holds.                                                           *)
Lasts(d) ==
  /\ donation'[d].expected = donation[d].expected
  /\ donation'[d].expiresAt = donation[d].expiresAt
  /\ donation'[d].matchUntil = donation[d].matchUntil
  /\ donation'[d].status = "NONE" <=> donation[d].status = "NONE"
  /\ donation'[d].status \in Claimable => donation[d].status \in Claimable
Opens(d, a) ==
  /\ request[d].pc = "try" /\ lock[a] = None /\ lock' = [lock EXCEPT ![a] = d]
  /\ \E k \in Tails : a = request[d].base + k
  /\ donation' = [donation EXCEPT ![d] = NewDonation(request[d], a)]
  /\ UNCHANGED <<now, chain, row, worker>>

LEMMA IntentStep ==
  ASSUME IInv, CanceledIsOpened, [Next]_vars, NEW d \in Ids
  PROVE  Lasts(d) \/ \E a : Opens(d, a)
<1>0. /\ TypeOK /\ FreshIds /\ LocalsAreSent /\ cancel \subseteq Ids
      /\ donation \in [Ids -> DonationRows] /\ request \in [Ids -> Requests]
      /\ worker \in [Workers -> Ticks]
  BY DEF IInv, TypeOK
<1>1. ASSUME donation' = donation PROVE Lasts(d)
  BY <1>1 DEF Lasts
<1>2. ASSUME NEW e \in Ids, NEW k \in Tails, CreateTry(e, k)
      PROVE  Lasts(d) \/ \E a : Opens(d, a)
  <2>. DEFINE a == request[e].base + k
  <2>1. CASE lock[a] # None
    BY <1>1, <1>2, <2>1 DEF CreateTry
  <2>2. CASE lock[a] = None /\ e = d
    BY <1>2, <2>2 DEF CreateTry, Opens
  <2>3. CASE lock[a] = None /\ e # d
    <3>1. donation' = [donation EXCEPT ![e] = NewDonation(request[e], a)]
      BY <1>2, <2>3 DEF CreateTry
    <3>. QED BY <1>0, <2>3, <3>1 DEF Lasts
  <2>. QED BY <2>1, <2>2, <2>3
<1>3. ASSUME NEW e \in Ids, CancelWrite(e)
      PROVE  Lasts(d)
  <2>1. donation[e].status # "NONE" /\ donation' = [donation EXCEPT ![e].status = "CANCELED"]
    BY <1>3 DEF CancelWrite, CanceledIsOpened
  <2>2. CASE e # d
    BY <1>0, <2>1, <2>2 DEF Lasts
  <2>3. CASE e = d
    BY <1>0, <2>1, <2>3 DEF Lasts, DonationRows, Claimable
  <2>. QED BY <2>2, <2>3
<1>4. CASE Outside
  BY <1>1, <1>4 DEF Outside, Tick, PayRound, Pay, Send
<1>5. CASE Api
  BY <1>1, <1>2, <1>3, <1>5
     DEF Api, CreateCheck, CreateRelease, CreateExhausted, CancelRead
<1>6. ASSUME NEW w \in Workers, WorkerStep(w) \/ WorkerFails(w)
      PROVE  Lasts(d)
  <2>1. CASE ExpirePending(w)
    BY <1>0, <2>1 DEF ExpirePending, Lasts, DonationRows, Claimable
  <2>2. CASE Thank(w)
    BY <1>0, <2>2 DEF Thank, Lasts, DonationRows, Claimable
  <2>3. CASE ClaimPays(w)
    <3>. DEFINE e == worker[w].d
                late == chain[worker[w].t].time > donation[e].expiresAt
    <3>1. /\ donation' = [donation EXCEPT ![e].status = "PAID", ![e].txHash = TxOf[worker[w].t],
                                          ![e].late = late]
          /\ e \in Ids /\ donation[e].status \in Claimable
      BY <1>0, <2>3, ClaimFacts DEF ClaimPays
    <3>. HIDE DEF late
    <3>2. CASE e # d
      <4>1. donation'[d] = donation[d]
        BY <1>0, <2>3, <3>2, ClaimFacts
      <4>. QED BY <4>1 DEF Lasts
    <3>3. CASE e = d
      <4>1. donation'[d] = [donation[d] EXCEPT !.status = "PAID", !.txHash = TxOf[worker[w].t], !.late = late]
        BY <1>0, <3>1, <3>3
      <4>2. donation[d] \in DonationRows
        BY <1>0
      <4>3. /\ donation'[d].status = "PAID" /\ donation'[d].expected = donation[d].expected
            /\ donation'[d].expiresAt = donation[d].expiresAt
            /\ donation'[d].matchUntil = donation[d].matchUntil
        BY <4>1, <4>2 DEF DonationRows
      <4>. QED BY <3>1, <3>3, <4>3 DEF Lasts, Claimable
    <3>. QED BY <3>2, <3>3
  <2>4. CASE \/ WorkerRelease(w) \/ RetryList(w) \/ RetryDone(w) \/ ScanDone(w) \/ WorkerFails(w)
             \/ \E t \in Transfers : RetryNext(w, t) \/ Ingest(w, t)
    BY <1>1, <2>4 DEF WorkerRelease, RetryList, RetryDone, ScanDone, WorkerFails, RetryNext, Ingest
  <2>5. CASE ClaimRead(w) \/ ClaimRejected(w) \/ Unlock(w) \/ Mark(w)
    BY <1>1, <2>5 DEF ClaimRead, ClaimRejected, Unlock, Mark
  <2>. QED
    BY <1>6, <2>1, <2>2, <2>3, <2>4, <2>5 DEF WorkerStep, Process
<1>. QED
  BY <1>1, <1>4, <1>5, <1>6 DEF Next, vars

(* What a step makes of the locks.                                         *)
Releases == ReleaseStaleLocks /\ UNCHANGED <<now, donation, chain>>

LEMMA LockStep ==
  ASSUME IInv, AsksForBase, [Next]_vars
  PROVE  \/ lock' = lock
         \/ Releases
         \/ \E d \in Ids, a \in Amounts : Opens(d, a)
         \/ \E w \in Workers : Unlock(w)
<1>0. TypeOK /\ request \in [Ids -> Requests]
  BY DEF IInv, TypeOK
<1>1. CASE Outside
  BY <1>1 DEF Outside, Tick, PayRound, Pay, Send
<1>2. ASSUME NEW d \in Ids, NEW k \in Tails, CreateTry(d, k), lock' # lock
      PROVE  \E a : Opens(d, a)
  BY <1>2 DEF CreateTry, Opens
<1>3. ASSUME NEW d \in Ids, NEW a, Opens(d, a)
      PROVE  a \in Amounts
  BY <1>3 DEF Opens, AsksForBase, Amounts
<1>4. CASE Api
  BY <1>2, <1>3, <1>4
     DEF Api, CreateCheck, CreateRelease, CreateExhausted, CancelRead, CancelWrite, Releases
<1>5. ASSUME NEW w \in Workers, WorkerStep(w) \/ WorkerFails(w)
      PROVE  lock' = lock \/ Releases \/ Unlock(w)
  BY <1>5
     DEF WorkerStep, WorkerFails, ExpirePending, WorkerRelease, RetryList, RetryNext, RetryDone, Ingest,
         ScanDone, Process, ClaimRead, ClaimPays, ClaimRejected, Mark, Thank, Releases
<1>. QED
  BY <1>1, <1>4, <1>5 DEF Next, vars

(* Time passes only if no transfer is left without a verdict too long, and  *)
(* a verdict is not taken back.                                            *)
LEMMA TimeStep ==
  ASSUME IInv, [Next]_vars
  PROVE  /\ now' = now \/ (Tick /\ now' = now + 1)
         /\ now \in Nat /\ now <= now'
<1>1. now \in Nat
  BY DonationsAssumption DEF IInv, TypeOK
<1>2. CASE Outside
  BY <1>1, <1>2 DEF Outside, Tick, PayRound, Pay, Send
<1>3. CASE Api
  BY <1>1, <1>3 DEF Api, CreateCheck, CreateRelease, CreateTry, CreateExhausted, CancelRead, CancelWrite
<1>4. ASSUME NEW w \in Workers, WorkerStep(w) \/ WorkerFails(w)
      PROVE  now' = now
  BY <1>4 DEF WorkerStep, WorkerFails, ExpirePending, WorkerRelease, RetryList, RetryNext,
              RetryDone, Ingest, ScanDone, Process, ClaimRead, ClaimPays, ClaimRejected,
              Unlock, Mark, Thank
<1>. QED
  BY <1>1, <1>2, <1>3, <1>4 DEF Next, vars

LEMMA RowStep ==
  ASSUME IInv, [Next]_vars
  PROVE  \/ row' = row
         \/ \E w \in Workers, t \in Transfers : Ingest(w, t)
         \/ \E w \in Workers : Mark(w)
<1>1. CASE Outside
  BY <1>1 DEF Outside, Tick, PayRound, Pay, Send
<1>2. CASE Api
  BY <1>2 DEF Api, CreateCheck, CreateRelease, CreateTry, CreateExhausted, CancelRead, CancelWrite
<1>3. ASSUME NEW w \in Workers, WorkerStep(w) \/ WorkerFails(w)
      PROVE  row' = row \/ Mark(w) \/ \E t \in Transfers : Ingest(w, t)
  BY <1>3 DEF WorkerStep, WorkerFails, ExpirePending, WorkerRelease, RetryList, RetryNext,
              RetryDone, ScanDone, Process, ClaimRead, ClaimPays, ClaimRejected, Unlock, Thank
<1>. QED
  BY <1>1, <1>2, <1>3 DEF Next, vars

LEMMA ResolvedStays ==
  ASSUME IInv, [Next]_vars, NEW t \in Transfers, Resolved(t)
  PROVE  Resolved(t)'
<1>0. row \in [Transfers -> Rows]
  BY DEF IInv, TypeOK
<1>1. CASE row' = row
  BY <1>1 DEF Resolved
<1>2. ASSUME NEW w \in Workers, NEW s \in Transfers, Ingest(w, s)
      PROVE  row'[t].status \in {"MATCHED", "UNMATCHED"}
  BY <1>0, <1>2 DEF Ingest, Resolved
<1>3. ASSUME NEW w \in Workers, Mark(w)
      PROVE  row'[t].status \in {"MATCHED", "UNMATCHED"}
  BY <1>0, <1>3 DEF Mark, Resolved, Rows
<1>. QED BY <1>1, <1>2, <1>3, RowStep DEF Resolved

(* What is sent in a step.                                                 *)
LEMMA SendStep ==
  ASSUME IInv, [Next]_vars
  PROVE  \/ chain' = chain
         \/ \E t \in Transfers, b \in Bases : Send(t, b, None)
         \/ \E t \in Transfers, d \in Ids : Pay(t, d)
<1>1. CASE Outside
  BY <1>1 DEF Outside, Tick, PayRound
<1>2. CASE Api
  BY <1>2 DEF Api, CreateCheck, CreateRelease, CreateTry, CreateExhausted, CancelRead, CancelWrite
<1>3. ASSUME NEW w \in Workers, WorkerStep(w) \/ WorkerFails(w)
      PROVE  chain' = chain
  BY <1>3 DEF WorkerStep, WorkerFails, ExpirePending, WorkerRelease, RetryList, RetryNext,
              RetryDone, Ingest, ScanDone, Process, ClaimRead, ClaimPays, ClaimRejected,
              Unlock, Mark, Thank
<1>. QED
  BY <1>1, <1>2, <1>3 DEF Next, vars

(* An amount with a tail is no round one.                                  *)
LEMMA TailIsNotRound ==
  ASSUME TailsApart, NEW a, \E b \in Bases, k \in Tails : a = b + k
  PROVE  a \in Amounts /\ a \notin Bases
BY DEF TailsApart, Amounts

-----------------------------------------------------------------------------
(* Each part of it is kept by every step.                                  *)

LEMMA AskStep ==
  ASSUME IInv, AsksForBase, CanceledIsOpened, [Next]_vars
  PROVE  AsksForBase' /\ CanceledIsOpened'
<1>0. /\ request \in [Ids -> Requests] /\ cancel \subseteq Ids
      /\ FreshIds
  BY DEF IInv, TypeOK
<1>1. ASSUME request' = request PROVE AsksForBase'
  BY <1>1 DEF AsksForBase
<1>2. ASSUME NEW e \in Ids, NEW r, request' = [request EXCEPT ![e] = r],
             r.pc \in {"release", "try"} => r.base \in Bases
      PROVE  AsksForBase'
  BY <1>0, <1>2 DEF AsksForBase
<1>3. ASSUME NEW d \in Ids, NEW u \in Donors, NEW b \in Bases, CreateCheck(d, u, b)
      PROVE  AsksForBase'
  <2>. DEFINE r == [pc |-> "release", user |-> u, base |-> b, left |-> Tails, at |-> now]
  <2>1. request' = [request EXCEPT ![d] = r] /\ r.base \in Bases
    BY <1>3 DEF CreateCheck
  <2>. HIDE DEF r
  <2>. QED BY <1>2, <2>1
<1>4. ASSUME NEW d \in Ids, CreateRelease(d) \/ CreateExhausted(d) \/ \E k \in Tails : CreateTry(d, k)
      PROVE  AsksForBase'
  <2>1. request[d].base \in Bases /\ request[d] \in Requests
    BY <1>0, <1>4 DEF CreateRelease, CreateExhausted, CreateTry, AsksForBase
  <2>2. CASE CreateRelease(d)
    BY <1>0, <2>1, <2>2 DEF CreateRelease, AsksForBase, Requests
  <2>3. CASE CreateExhausted(d)
    BY <1>0, <2>1, <2>3 DEF CreateExhausted, AsksForBase, Requests
  <2>4. ASSUME NEW k \in Tails, CreateTry(d, k) PROVE AsksForBase'
    <3>1. \/ request' = [request EXCEPT ![d].pc = "done", ![d].left = {}]
          \/ request' = [request EXCEPT ![d].left = request[d].left \ {k}]
      BY <2>4 DEF CreateTry
    <3>2. CASE request' = [request EXCEPT ![d].left = request[d].left \ {k}]
      BY <1>0, <2>1, <3>2 DEF AsksForBase, Requests
    <3>3. CASE request' = [request EXCEPT ![d].pc = "done", ![d].left = {}]
      BY <1>0, <2>1, <3>3 DEF AsksForBase, Requests
    <3>. QED BY <3>1, <3>2, <3>3
  <2>. QED BY <1>4, <2>2, <2>3, <2>4
<1>5. ASSUME Outside PROVE AsksForBase'
  BY <1>1, <1>5 DEF Outside, Tick, PayRound, Pay, Send, apiVars
<1>6. ASSUME Api PROVE AsksForBase'
  BY <1>1, <1>3, <1>4, <1>6 DEF Api, CancelRead, CancelWrite
<1>7. ASSUME NEW w \in Workers, WorkerStep(w) \/ WorkerFails(w)
      PROVE  request' = request /\ cancel' = cancel
  BY <1>7 DEF WorkerStep, WorkerFails, ExpirePending, WorkerRelease, RetryList, RetryNext,
              RetryDone, Ingest, ScanDone, Process, ClaimRead, ClaimPays, ClaimRejected,
              Unlock, Mark, Thank, apiVars
<1>8. AsksForBase'
  BY <1>1, <1>5, <1>6, <1>7 DEF Next, vars, apiVars
<1>9. CanceledIsOpened'
  <2>. SUFFICES ASSUME NEW d \in cancel' PROVE donation'[d].status # "NONE"
    BY DEF CanceledIsOpened
  <2>1. d \in Ids /\ donation[d].status # "NONE"
    <3>1. CASE d \in cancel
      BY <1>0, <3>1 DEF CanceledIsOpened
    <3>2. CASE d \notin cancel
      BY <1>7, <3>2 DEF Next, Outside, Tick, PayRound, Pay, Send, Api, CreateCheck, CreateRelease, CreateTry,
                  CreateExhausted, CancelRead, CancelWrite, vars, apiVars
    <3>. QED BY <3>1, <3>2
  <2>2. Lasts(d) \/ \E a : Opens(d, a)
    BY <2>1, IntentStep
  <2>3. ASSUME NEW a, Opens(d, a) PROVE FALSE
    BY <1>0, <2>1, <2>3 DEF Opens, FreshIds
  <2>. QED BY <2>1, <2>2, <2>3 DEF Lasts
<1>. QED BY <1>8, <1>9

(* The row of an intent that is opened.                                    *)
LEMMA OpenedIs ==
  ASSUME IInv, AsksForBase, NEW d \in Ids, NEW a, Opens(d, a)
  PROVE  /\ a \in Amounts /\ donation'[d].status = "PENDING" /\ donation'[d].expected = a
         /\ donation'[d].txHash = None /\ donation[d].status = "NONE"
         /\ donation'[d].matchUntil = donation'[d].expiresAt + LateGrace
         /\ \E b \in Bases, k \in Tails : a = b + k
         /\ \A e \in Ids \ {d} : donation'[e] = donation[e]
<1>0. donation \in [Ids -> DonationRows] /\ FreshIds
  BY DEF IInv, TypeOK
<1>1. donation'[d] = NewDonation(request[d], a)
  BY <1>0 DEF Opens
<1>2. /\ donation'[d].status = "PENDING" /\ donation'[d].expected = a /\ donation'[d].txHash = None
      /\ donation'[d].expiresAt = request[d].at + Ttl
      /\ donation'[d].matchUntil = request[d].at + Ttl + LateGrace
  BY <1>1 DEF NewDonation, NoDonation
<1>3. \E b \in Bases, k \in Tails : a = b + k
  BY DEF Opens, AsksForBase
<1>4. donation[d].status = "NONE" /\ \A e \in Ids \ {d} : donation'[e] = donation[e]
  BY <1>0 DEF Opens, FreshIds
<1>. QED BY <1>2, <1>3, <1>4 DEF Amounts

LEMMA WindowStep ==
  ASSUME IInv, RInv, [Next]_vars
  PROVE  Windows' /\ OpenIsUnpaid'
<1>0. /\ TypeOK /\ FreshIds /\ LocalsAreSent /\ Windows /\ OpenIsUnpaid /\ AsksForBase /\ CanceledIsOpened
  BY DEF IInv, RInv
<1>1. ASSUME NEW d \in Ids
      PROVE  /\ donation'[d].status # "NONE" =>
                  /\ donation'[d].matchUntil = donation'[d].expiresAt + LateGrace
                  /\ \E b \in Bases, k \in Tails : donation'[d].expected = b + k
             /\ donation'[d].status \in Claimable => donation'[d].txHash = None
  <2>1. ASSUME NEW a, Opens(d, a)
        PROVE  /\ donation'[d].matchUntil = donation'[d].expiresAt + LateGrace
               /\ \E b \in Bases, k \in Tails : donation'[d].expected = b + k
               /\ donation'[d].txHash = None
    BY <1>0, <2>1, OpenedIs
  <2>2. CASE Lasts(d)
    <3>1. ASSUME donation'[d].status \in Claimable PROVE donation'[d].txHash = None
      <4>1. donation[d].txHash = None
        BY <1>0, <2>2, <3>1 DEF Lasts, OpenIsUnpaid
      <4>2. CASE \A w \in Workers : ~ ClaimPays(w)
        BY <1>0, <4>1, <4>2, OnlyClaimsPay
      <4>3. ASSUME NEW w \in Workers, ClaimPays(w) PROVE donation'[d].txHash = None
        <5>1. CASE d = worker[w].d
          <6>1. donation'[d].status = "PAID"
            BY <1>0, <4>3, <5>1 DEF ClaimPays, TypeOK, DonationRows
          <6>. QED BY <3>1, <6>1 DEF Claimable
        <5>2. CASE d # worker[w].d
          BY <1>0, <4>1, <4>3, <5>2, ClaimFacts
        <5>. QED BY <5>1, <5>2
      <4>. QED BY <4>2, <4>3
    <3>. QED BY <1>0, <2>2, <3>1 DEF Lasts, Windows
  <2>. QED BY <1>0, <2>1, <2>2, IntentStep
<1>. QED BY <1>1 DEF Windows, OpenIsUnpaid

LEMMA LocksStep ==
  ASSUME IInv, RInv, [Next]_vars
  PROVE  LocksName'
<1>0. /\ TypeOK /\ LocksName /\ AsksForBase /\ CanceledIsOpened
      /\ lock \in [Amounts -> Ids \cup {None}]
  BY DEF IInv, RInv, TypeOK
<1>. SUFFICES ASSUME NEW a \in Amounts, lock'[a] # None
              PROVE  donation'[lock'[a]].status # "NONE" /\ donation'[lock'[a]].expected = a
  BY DEF LocksName
<1>1. CASE lock'[a] = lock[a]
  <2>. DEFINE d == lock[a]
  <2>1. d \in Ids /\ donation[d].status # "NONE" /\ donation[d].expected = a
    BY <1>0, <1>1 DEF LocksName
  <2>2. ASSUME NEW b, Opens(d, b) PROVE FALSE
    BY <1>0, <2>1, <2>2, OpenedIs
  <2>3. Lasts(d)
    BY <1>0, <2>1, <2>2, IntentStep
  <2>. QED BY <1>1, <2>1, <2>3 DEF Lasts
<1>2. CASE lock'[a] # lock[a]
  <2>1. \/ \E d \in Ids, b \in Amounts : Opens(d, b)
        \/ Releases \/ \E w \in Workers : Unlock(w)
    BY <1>0, <1>2, LockStep
  <2>2. CASE Releases
    BY <1>0, <1>2, <2>2 DEF Releases, ReleaseStaleLocks
  <2>3. ASSUME NEW w \in Workers, Unlock(w) PROVE FALSE
    BY <1>0, <1>2, <2>3 DEF Unlock
  <2>4. ASSUME NEW d \in Ids, NEW b \in Amounts, Opens(d, b)
        PROVE  donation'[lock'[a]].status # "NONE" /\ donation'[lock'[a]].expected = a
    <3>1. lock'[a] = d /\ b = a
      BY <1>0, <1>2, <2>4 DEF Opens
    <3>. QED BY <1>0, <2>4, <3>1, OpenedIs
  <2>. QED BY <2>1, <2>2, <2>3, <2>4
<1>. QED BY <1>1, <1>2

LEMMA SentStep ==
  ASSUME IInv, RInv, Timely, [Next]_vars
  PROVE  SentAsShown' /\ PaidOnce' /\ NotOverdue'
<1>0. /\ TypeOK /\ SentAsShown /\ PaidOnce /\ NotOverdue /\ AsksForBase /\ CanceledIsOpened
      /\ chain \in [Transfers -> Sendings] /\ now \in Nat /\ LateGrace \in Nat
  BY DonationsAssumption DEF IInv, RInv, TypeOK
<1>1. ASSUME NEW d \in Ids, donation[d].status # "NONE"
      PROVE  /\ donation'[d].status # "NONE" /\ donation'[d].expected = donation[d].expected
             /\ donation'[d].expiresAt = donation[d].expiresAt
  <2>1. ASSUME NEW a, Opens(d, a) PROVE FALSE
    BY <1>0, <1>1, <2>1, OpenedIs
  <2>. QED BY <1>0, <1>1, <2>1, IntentStep DEF Lasts
<1>2. ASSUME NEW t \in Transfers, chain'[t].sent
      PROVE  \/ chain[t].sent /\ chain'[t] = chain[t]
             \/ \E b \in Bases : Send(t, b, None)
             \/ \E d \in Ids : Pay(t, d)
  <2>1. CASE chain[t].sent
    BY <1>0, <2>1, SentStays
  <2>2. CASE ~ chain[t].sent
    <3>1. chain' # chain
      BY <1>2, <2>2
    <3>2. ASSUME NEW s \in Transfers, NEW b, NEW d, Send(s, b, d) PROVE s = t
      BY <1>0, <1>2, <2>2, <3>2 DEF Send
    <3>. QED BY <3>1, <3>2, SendStep DEF Pay
  <2>. QED BY <2>1, <2>2
<1>3. ASSUME NEW t \in Transfers, NEW b, NEW d, Send(t, b, d)
      PROVE  /\ ~ chain[t].sent /\ now' = now
             /\ chain'[t].value = b /\ chain'[t].time = now /\ chain'[t].from = d
             /\ \A s \in Transfers \ {t} : chain'[s] = chain[s]
  BY <1>0, <1>3 DEF Send
<1>4. SentAsShown'
  <2>. SUFFICES ASSUME NEW t \in Transfers, chain'[t].sent
                PROVE  IF chain'[t].from = None THEN chain'[t].value \in Bases
                       ELSE /\ donation'[chain'[t].from].status # "NONE"
                            /\ chain'[t].value = donation'[chain'[t].from].expected
                            /\ chain'[t].time <= donation'[chain'[t].from].expiresAt
    BY DEF SentAsShown
  <2>1. CASE chain[t].sent /\ chain'[t] = chain[t]
    <3>1. chain[t].from \in Ids \cup {None}
      BY <1>0 DEF Sendings
    <3>. QED BY <1>0, <1>1, <2>1, <3>1 DEF SentAsShown
  <2>2. ASSUME NEW b \in Bases, Send(t, b, None)
        PROVE  chain'[t].from = None /\ chain'[t].value \in Bases
    BY <1>3, <2>2
  <2>3. ASSUME NEW d \in Ids, Pay(t, d)
        PROVE  /\ chain'[t].from = d /\ donation[d].status # "NONE"
               /\ chain'[t].value = donation[d].expected /\ chain'[t].time <= donation[d].expiresAt
    BY <1>3, <2>3 DEF Pay
  <2>4. None \notin Ids
    BY DonationsAssumption
  <2>. QED BY <1>1, <1>2, <2>1, <2>2, <2>3, <2>4
<1>5. PaidOnce'
  <2>1. CASE chain' = chain
    BY <1>0, <2>1 DEF PaidOnce
  <2>2. ASSUME NEW t \in Transfers, NEW b \in Bases, Send(t, b, None) PROVE PaidOnce'
    BY <1>0, <1>3, <2>2 DEF PaidOnce
  <2>3. ASSUME NEW t \in Transfers, NEW d \in Ids, Pay(t, d) PROVE PaidOnce'
    <3>1. Send(t, donation[d].expected, d) /\ \A s \in Transfers : chain[s].from # d
      BY <2>3 DEF Pay
    <3>2. chain'[t].from = d /\ \A s \in Transfers \ {t} : chain'[s] = chain[s]
      BY <1>3, <3>1
    <3>. QED BY <1>0, <3>1, <3>2 DEF PaidOnce
  <2>. QED BY <2>1, <2>2, <2>3, SendStep
<1>6. NotOverdue'
  <2>. SUFFICES ASSUME NEW t \in Transfers, chain'[t].sent, ~ Resolved(t)'
                PROVE  now' <= chain'[t].time + LateGrace
    BY DEF NotOverdue
  <2>1. CASE chain[t].sent /\ chain'[t] = chain[t]
    <3>1. ~ Resolved(t) /\ now <= chain[t].time + LateGrace /\ chain[t].time \in Nat
      BY <1>0, <2>1, ResolvedStays DEF NotOverdue, Sendings
    <3>2. CASE now' = now
      BY <2>1, <3>1, <3>2
    <3>3. CASE Tick /\ now' = now + 1
      <4>1. ~ (now >= chain[t].time + LateGrace)
        BY <2>1, <3>1, <3>3 DEF Tick, Overdue
      <4>. QED BY <1>0, <2>1, <3>1, <3>3, <4>1
    <3>. QED BY <3>2, <3>3, TimeStep
  <2>2. ASSUME NEW b, NEW d, Send(t, b, d) PROVE now' <= chain'[t].time + LateGrace
    BY <1>0, <1>3, <2>2
  <2>. QED BY <1>2, <2>1, <2>2 DEF Pay
<1>. QED BY <1>4, <1>5, <1>6

(* What the tick of the only worker does with what it holds.               *)
LEMMA HandStep ==
  ASSUME IInv, RInv, OneWorker, [Next]_vars
  PROVE  InHand'
<1>0. /\ TypeOK /\ InHand /\ LocalsAreSent
      /\ worker \in [Workers -> Ticks] /\ row \in [Transfers -> Rows]
  BY DEF IInv, RInv, TypeOK
<1>. SUFFICES ASSUME NEW w \in Workers
              PROVE  /\ \A t \in worker'[w].todo : row'[t].status = "NEW"
                     /\ worker'[w].pc \in {"read", "commit", "unlock", "mark"} =>
                          row'[worker'[w].t].status = "NEW" /\ worker'[w].t \notin worker'[w].todo
  BY DEF InHand
<1>. DEFINE Goal == /\ \A t \in worker'[w].todo : row'[t].status = "NEW"
                    /\ worker'[w].pc \in {"read", "commit", "unlock", "mark"} =>
                         row'[worker'[w].t].status = "NEW" /\ worker'[w].t \notin worker'[w].todo
<1>1. /\ worker[w] \in Ticks /\ worker[w].todo \subseteq Transfers
      /\ \A t \in worker[w].todo : row[t].status = "NEW"
      /\ worker[w].pc \in {"read", "commit", "unlock", "mark"} =>
           /\ worker[w].t \in Transfers /\ row[worker[w].t].status = "NEW"
           /\ worker[w].t \notin worker[w].todo
  BY <1>0 DEF InHand, LocalsAreSent, Ticks
<1>2. CASE worker' = worker /\ row' = row
  BY <1>1, <1>2
<1>3. CASE Outside
  BY <1>2, <1>3 DEF Outside, Tick, PayRound, Pay, Send
<1>4. CASE Api
  BY <1>2, <1>4 DEF Api, CreateCheck, CreateRelease, CreateTry, CreateExhausted, CancelRead, CancelWrite
<1>5. CASE WorkerStep(w) \/ WorkerFails(w)
  <2>1. CASE ExpirePending(w) \/ WorkerRelease(w) \/ RetryDone(w)
    BY <1>0, <1>1, <2>1 DEF ExpirePending, WorkerRelease, RetryDone, Goto, Ticks, At
  <2>2. CASE ScanDone(w) \/ WorkerFails(w)
    BY <1>0, <1>1, <2>2 DEF ScanDone, WorkerFails, Idle
  <2>3. CASE RetryList(w)
    BY <1>0, <1>1, <2>3 DEF RetryList, Unfinished, Ticks
  <2>4. ASSUME NEW t \in Transfers, RetryNext(w, t) PROVE Goal
    BY <1>0, <1>1, <2>4 DEF RetryNext, Ticks
  <2>5. ASSUME NEW t \in Transfers, Ingest(w, t) PROVE Goal
    <3>1. /\ row[t].status = "NONE" /\ row' = [row EXCEPT ![t].status = "NEW"]
          /\ worker'[w].todo = worker[w].todo /\ worker'[w].t = t
      BY <1>0, <1>1, <2>5 DEF Ingest, Ticks
    <3>2. row'[t].status = "NEW" /\ \A s \in Transfers \ {t} : row'[s] = row[s]
      BY <1>0, <3>1 DEF Rows
    <3>. QED BY <1>1, <3>1, <3>2
  <2>6. CASE ClaimRead(w)
    BY <1>0, <1>1, <2>6 DEF ClaimRead, Ticks, At
  <2>7. CASE ClaimPays(w) \/ Unlock(w)
    BY <1>0, <1>1, <2>7 DEF ClaimPays, Unlock, Goto, Ticks, At
  <2>8. CASE ClaimRejected(w)
    BY <1>0, <1>1, <2>8 DEF ClaimRejected, Ticks, At
  <2>9. CASE Mark(w)
    <3>1. /\ worker[w].pc = "mark" /\ worker'[w].todo = worker[w].todo
          /\ worker'[w].pc \in {"next", "thank"}
      BY <1>0, <1>1, <2>9 DEF Mark, Ticks, At
    <3>2. \A s \in Transfers \ {worker[w].t} : row'[s] = row[s]
      BY <1>0, <2>9 DEF Mark
    <3>. QED BY <1>1, <3>1, <3>2
  <2>10. CASE Thank(w)
    BY <1>0, <1>1, <2>10 DEF Thank, Ticks, At
  <2>. QED
    BY <1>5, <2>1, <2>2, <2>3, <2>4, <2>5, <2>6, <2>7, <2>8, <2>9, <2>10 DEF WorkerStep, Process
<1>6. CASE UNCHANGED vars
  BY <1>2, <1>6 DEF vars
<1>7. \A v \in Workers : v = w
  BY DEF RInv, OneWorker
<1>. QED
  BY <1>3, <1>4, <1>5, <1>6, <1>7 DEF Next

(* While a transfer is in hand, its payer's amount is not stale.           *)
LEMMA PayerInWindow ==
  ASSUME IInv, RInv, NEW t \in Transfers, chain[t].sent, ~ Resolved(t), chain[t].from # None
  PROVE  LET d == chain[t].from IN
         /\ d \in Ids /\ now <= donation[d].matchUntil /\ donation[d].status # "NONE"
         /\ chain[t].value = donation[d].expected /\ chain[t].value \in Amounts
<1>. DEFINE d == chain[t].from
<1>1. d \in Ids /\ chain[t].time \in Nat /\ now \in Nat /\ LateGrace \in Nat
  BY DonationsAssumption DEF IInv, TypeOK, Sendings
<1>2. donation[d].expiresAt \in Nat
  BY <1>1 DEF IInv, TypeOK, DonationRows
<1>3. /\ donation[d].status # "NONE" /\ chain[t].value = donation[d].expected
      /\ chain[t].time <= donation[d].expiresAt
  BY DEF RInv, SentAsShown
<1>4. /\ donation[d].matchUntil = donation[d].expiresAt + LateGrace
      /\ \E b \in Bases, k \in Tails : donation[d].expected = b + k
  BY <1>1, <1>3 DEF RInv, Windows
<1>5. now <= chain[t].time + LateGrace
  BY DEF RInv, NotOverdue
<1>. QED BY <1>1, <1>2, <1>3, <1>4, <1>5 DEF Amounts

LEMMA ReservedStep ==
  ASSUME IInv, RInv, [Next]_vars
  PROVE  Reserved'
<1>0. /\ TypeOK /\ LocalsAreSent /\ FreshIds /\ ClaimedIsCredited /\ Reserved /\ Windows /\ ClaimsItsPayer
      /\ AsksForBase /\ CanceledIsOpened
      /\ lock \in [Amounts -> Ids \cup {None}] /\ donation \in [Ids -> DonationRows]
      /\ worker \in [Workers -> Ticks]
  BY DEF IInv, RInv, TypeOK
<1>. SUFFICES ASSUME NEW d \in Ids, donation'[d].status # "NONE", donation'[d].txHash = None,
                     now' <= donation'[d].matchUntil
              PROVE  lock'[donation'[d].expected] = d
  BY DEF Reserved
<1>1. ASSUME NEW a, Opens(d, a) PROVE lock'[donation'[d].expected] = d
  <2>1. a \in Amounts /\ donation'[d].expected = a
    BY <1>0, <1>1, OpenedIs
  <2>. QED BY <1>0, <1>1, <2>1 DEF Opens
<1>2. CASE Lasts(d)
  <2>. DEFINE a == donation[d].expected
  <2>1. /\ donation[d].status # "NONE" /\ donation'[d].expected = a
        /\ donation'[d].matchUntil = donation[d].matchUntil
    BY <1>2 DEF Lasts
  <2>2. donation[d].txHash = None
    BY <1>0, PaidKeeps DEF Keeps
  <2>3. now <= donation[d].matchUntil /\ now \in Nat /\ donation[d].matchUntil \in Nat
    <3>1. now \in Nat /\ now' \in Nat /\ now <= now'
      BY TimeStep
    <3>2. donation[d].matchUntil \in Nat
      BY <1>0 DEF DonationRows
    <3>. QED BY <2>1, <3>1, <3>2
  <2>4. lock[a] = d /\ a \in Amounts
    BY <1>0, <2>1, <2>2, <2>3 DEF Reserved, Windows, Amounts
  <2>5. CASE lock' = lock
    BY <2>1, <2>4, <2>5
  <2>6. CASE Releases
    <3>1. ~ Stale(a)
      BY <2>3, <2>4 DEF Stale
    <3>. QED BY <2>1, <2>4, <2>6, <3>1 DEF Releases, ReleaseStaleLocks
  <2>7. ASSUME NEW e \in Ids, NEW b \in Amounts, Opens(e, b) PROVE lock'[a] = d
    <3>1. lock[b] = None /\ d # None
      BY <2>7, DonationsAssumption DEF Opens
    <3>. QED BY <1>0, <2>4, <2>7, <3>1 DEF Opens
  <2>8. ASSUME NEW w \in Workers, Unlock(w) PROVE lock'[a] = d
    <3>. DEFINE t == worker[w].t
                e == worker[w].d
    <3>1. worker[w].pc = "unlock" /\ lock' = [lock EXCEPT ![chain[t].value] = None]
      BY <2>8 DEF Unlock, At
    <3>2. lock[chain[t].value] = e /\ Credited(t, e) /\ t \in Transfers /\ e \in Ids
      BY <1>0, <3>1, DonationsAssumption DEF ClaimsItsPayer, ClaimedIsCredited, LocalsAreSent
    <3>3. donation[e].txHash # None
      BY <3>2, DonationsAssumption DEF Credited
    <3>4. chain[t].value # a
      BY <2>2, <2>4, <3>2, <3>3
    <3>. QED BY <1>0, <2>4, <3>1, <3>4
  <2>. QED BY <1>0, <2>1, <2>5, <2>6, <2>7, <2>8, LockStep
<1>. QED BY <1>0, <1>1, <1>2, IntentStep

(* What a first read settles on: the payer, or another only if the          *)
(* transfer has paid already.                                              *)
LEMMA CandidatePays ==
  ASSUME IInv, RInv, Orderly, NEW t \in Transfers, chain[t].sent, ~ Resolved(t), Candidate(t) # None
  PROVE  \/ Candidate(t) = chain[t].from
         \/ \E e \in Ids : donation[e].txHash = TxOf[t]
<1>. DEFINE a == chain[t].value
            d == Candidate(t)
            e == chain[t].from
<1>0. /\ TypeOK /\ LocksName /\ Windows /\ Reserved /\ PaidOnce /\ CreditsItsPayer /\ TransfersPayOnce
      /\ SentAsShown /\ lock \in [Amounts -> Ids \cup {None}] /\ TailsApart
  BY DEF IInv, RInv, TypeOK, Orderly
<1>1. a \in Amounts /\ d = lock[a]
  BY DEF Candidate
<1>2. d \in Ids /\ donation[d].status # "NONE" /\ donation[d].expected = a
  BY <1>0, <1>1 DEF LocksName
<1>3. a \notin Bases
  BY <1>0, <1>2, TailIsNotRound DEF Windows
<1>4. e # None
  BY <1>0, <1>3 DEF SentAsShown
<1>5. e \in Ids /\ now <= donation[e].matchUntil /\ donation[e].status # "NONE" /\ a = donation[e].expected
  BY <1>4, PayerInWindow
<1>6. CASE donation[e].txHash = None
  BY <1>0, <1>1, <1>5, <1>6 DEF Reserved
<1>7. CASE donation[e].txHash # None
  <2>1. PICK s \in Transfers : chain[s].sent /\ Credited(s, e)
    BY <1>0, <1>5, <1>7 DEF TransfersPayOnce
  <2>2. s = t
    BY <1>0, <1>4, <1>5, <2>1 DEF CreditsItsPayer, PaidOnce
  <2>. QED BY <1>5, <2>1, <2>2 DEF Credited
<1>. QED BY <1>6, <1>7

(* The lock of the intent that a tick has just paid is still its own.       *)
LEMMA LockIsKept ==
  ASSUME IInv, RInv, Orderly, [Next]_vars, NEW w \in Workers,
         worker[w].pc = "unlock", worker'[w] = worker[w]
  PROVE  lock'[chain[worker[w].t].value] = worker[w].d
<1>. DEFINE t == worker[w].t
            d == worker[w].d
            a == chain[t].value
<1>0. /\ TypeOK /\ LocalsAreSent /\ ClaimsItsPayer /\ AsksForBase /\ InHand
      /\ lock \in [Amounts -> Ids \cup {None}] /\ worker \in [Workers -> Ticks] /\ OneWorker
      /\ donation \in [Ids -> DonationRows]
  BY DEF IInv, RInv, TypeOK, Orderly
<1>1. /\ t \in Transfers /\ chain[t].sent /\ d \in Ids /\ d = chain[t].from /\ lock[a] = d
      /\ ~ Resolved(t)
  BY <1>0 DEF LocalsAreSent, ClaimsItsPayer, InHand, Resolved
<1>2. d # None /\ None \notin Ids
  BY <1>1, DonationsAssumption
<1>3. now <= donation[d].matchUntil /\ a \in Amounts
  BY <1>1, <1>2, PayerInWindow
<1>4. now \in Nat /\ donation[d].matchUntil \in Nat
  BY <1>0, <1>1, DonationsAssumption DEF TypeOK, DonationRows
<1>5. CASE lock' = lock
  BY <1>1, <1>5
<1>6. CASE Releases
  <2>1. ~ Stale(a)
    BY <1>1, <1>3, <1>4 DEF Stale
  <2>. QED BY <1>1, <1>3, <1>6, <2>1 DEF Releases, ReleaseStaleLocks
<1>7. ASSUME NEW e \in Ids, NEW b \in Amounts, Opens(e, b) PROVE lock'[a] = d
  BY <1>0, <1>1, <1>2, <1>3, <1>7 DEF Opens
<1>8. ASSUME NEW v \in Workers, Unlock(v) PROVE FALSE
  <2>1. v = w
    BY <1>0 DEF OneWorker
  <2>2. worker'[w].pc = "mark"
    BY <1>0, <1>8, <2>1 DEF Unlock, Goto, Ticks
  <2>. QED BY <2>2
<1>. QED BY <1>0, <1>5, <1>6, <1>7, <1>8, LockStep

LEMMA ClaimsStep ==
  ASSUME IInv, RInv, Orderly, [Next]_vars
  PROVE  ClaimsItsPayer'
<1>0. /\ TypeOK /\ LocalsAreSent /\ FreshIds /\ ClaimsItsPayer /\ AsksForBase /\ InHand /\ Reserved
      /\ worker \in [Workers -> Ticks] /\ OneWorker /\ TransfersPayOnce
  BY DEF IInv, RInv, TypeOK, Orderly
<1>. SUFFICES ASSUME NEW w \in Workers
              PROVE  /\ worker'[w].pc = "commit" =>
                          \/ worker'[w].d = chain'[worker'[w].t].from
                          \/ \E e \in Ids : donation'[e].txHash = TxOf[worker'[w].t]
                     /\ worker'[w].pc = "unlock" =>
                          /\ worker'[w].d = chain'[worker'[w].t].from
                          /\ lock'[chain'[worker'[w].t].value] = worker'[w].d
  BY DEF ClaimsItsPayer
<1>. DEFINE t == worker[w].t
            d == worker[w].d
<1>1. worker[w].pc \in {"read", "commit", "unlock", "mark"} =>
        t \in Transfers /\ chain[t].sent /\ ~ Resolved(t) /\ chain'[t] = chain[t]
  BY <1>0, SentStays DEF LocalsAreSent, InHand, Resolved
<1>2. ASSUME NEW e \in Ids, t \in Transfers, donation[e].txHash = TxOf[t]
      PROVE  donation'[e].txHash = TxOf[t]
  <2>1. donation[e].txHash # None
    BY <1>2, DonationsAssumption
  <2>. QED BY <1>0, <1>2, <2>1, PaidKeeps DEF Keeps
<1>3. CASE worker'[w] = worker[w]
  BY <1>0, <1>1, <1>2, <1>3, LockIsKept DEF ClaimsItsPayer
<1>4. CASE ClaimRead(w)
  <2>1. /\ worker[w].pc = "read" /\ worker'[w].t = t /\ worker'[w].d = Candidate(t)
        /\ worker'[w].pc = IF Candidate(t) = None THEN "mark" ELSE "commit"
    BY <1>0, <1>4 DEF ClaimRead, Ticks, At
  <2>2. CASE Candidate(t) = None
    BY <2>1, <2>2
  <2>3. CASE Candidate(t) # None
    <3>1. Candidate(t) = chain[t].from \/ \E e \in Ids : donation[e].txHash = TxOf[t]
      BY <1>1, <2>1, <2>3, CandidatePays
    <3>. QED BY <1>1, <1>2, <2>1, <2>3, <3>1
  <2>. QED BY <2>2, <2>3
<1>5. CASE ClaimPays(w)
  <2>1. /\ worker[w].pc = "commit" /\ worker'[w].pc = "unlock" /\ worker'[w].t = t /\ worker'[w].d = d
        /\ lock' = lock
    BY <1>0, <1>5 DEF ClaimPays, Goto, Ticks, At
  <2>2. /\ d \in Ids /\ donation[d].txHash = None /\ donation[d].status \in Claimable
        /\ donation[d].expected = chain[t].value
        /\ \A e \in Ids : donation[e].txHash # TxOf[t]
    BY <1>0, <1>5, ClaimFacts
  <2>3. d = chain[t].from
    BY <1>0, <2>1, <2>2 DEF ClaimsItsPayer
  <2>4. d # None
    BY <2>2, DonationsAssumption
  <2>5. now <= donation[d].matchUntil /\ donation[d].status # "NONE"
    BY <1>1, <2>1, <2>3, <2>4, PayerInWindow
  <2>6. lock[chain[t].value] = d
    BY <1>0, <2>2, <2>5 DEF Reserved
  <2>. QED BY <1>1, <2>1, <2>3, <2>6
<1>6. CASE Outside
  BY <1>3, <1>6 DEF Outside, Tick, PayRound, Pay, Send
<1>7. CASE Api
  BY <1>3, <1>7 DEF Api, CreateCheck, CreateRelease, CreateTry, CreateExhausted, CancelRead, CancelWrite
<1>8. CASE WorkerStep(w) \/ WorkerFails(w)
  <2>1. CASE ExpirePending(w) \/ WorkerRelease(w)
    <3>1. worker'[w].pc \in {"release", "list"}
      BY <1>0, <2>1 DEF ExpirePending, WorkerRelease, Goto, Ticks
    <3>. QED BY <3>1
  <2>4. CASE RetryList(w)
    <3>1. worker'[w].pc = "next"
      BY <1>0, <2>4 DEF RetryList, Ticks
    <3>. QED BY <3>1
  <2>5. ASSUME NEW s \in Transfers, RetryNext(w, s) \/ Ingest(w, s)
        PROVE  worker'[w].pc = "read"
    <3>1. CASE RetryNext(w, s)
      BY <1>0, <3>1 DEF RetryNext, Ticks
    <3>2. CASE Ingest(w, s)
      BY <1>0, <3>2 DEF Ingest, Ticks
    <3>. QED BY <2>5, <3>1, <3>2
  <2>2. CASE RetryDone(w) \/ ScanDone(w) \/ WorkerFails(w)
    BY <1>0, <2>2 DEF RetryDone, ScanDone, WorkerFails, Idle, At, Ticks
  <2>3. CASE ClaimRejected(w) \/ Unlock(w) \/ Mark(w) \/ Thank(w)
    BY <1>0, <2>3 DEF ClaimRejected, Unlock, Mark, Thank, Goto, Ticks
  <2>. QED
    BY <1>4, <1>5, <1>8, <2>1, <2>2, <2>3, <2>4, <2>5 DEF WorkerStep, Process
<1>9. CASE UNCHANGED vars
  BY <1>3, <1>9 DEF vars
<1>10. \A v \in Workers : v = w
  BY <1>0 DEF OneWorker
<1>. QED
  BY <1>6, <1>7, <1>8, <1>9, <1>10 DEF Next

LEMMA CreditsStep ==
  ASSUME IInv, RInv, Orderly, [Next]_vars
  PROVE  CreditsItsPayer'
<1>0. /\ TypeOK /\ LocalsAreSent /\ FreshIds /\ ClaimsItsPayer /\ CreditsItsPayer /\ TransfersPayOnce
      /\ OneTransferEach
  BY DEF IInv, RInv, Orderly
<1>. SUFFICES ASSUME NEW t \in Transfers, NEW d \in Ids, chain'[t].sent, Credited(t, d)'
              PROVE  chain'[t].from = d
  BY DEF CreditsItsPayer
<1>1. donation'[d].txHash = TxOf[t] /\ TxOf[t] # None
  BY DonationsAssumption DEF Credited
<1>2. CASE donation[d].txHash # None
  <2>1. PICK s \in Transfers : chain[s].sent /\ Credited(s, d)
    BY <1>0, <1>2 DEF TransfersPayOnce
  <2>2. donation'[d].txHash = donation[d].txHash
    BY <1>0, <1>2, PaidKeeps DEF Keeps
  <2>3. s = t
    BY <1>0, <1>1, <2>1, <2>2 DEF Credited, OneTransferEach
  <2>. QED BY <1>0, <2>1, <2>3, SentStays DEF CreditsItsPayer
<1>3. CASE donation[d].txHash = None
  <2>1. PICK w \in Workers : ClaimPays(w)
    BY <1>0, <1>1, <1>3, OnlyClaimsPay
  <2>. DEFINE s == worker[w].t
  <2>2. d = worker[w].d
    BY <1>0, <1>1, <1>3, <2>1, ClaimFacts
  <2>3. /\ s \in Transfers /\ chain[s].sent /\ chain' = chain /\ donation'[d].txHash = TxOf[s]
        /\ \A e \in Ids : donation[e].txHash # TxOf[s]
    BY <1>0, <2>1, <2>2, ClaimFacts
  <2>4. s = t
    BY <1>0, <1>1, <2>3 DEF OneTransferEach
  <2>5. worker[w].pc = "commit"
    BY <2>1 DEF ClaimPays, At
  <2>. QED BY <1>0, <2>2, <2>3, <2>4, <2>5 DEF ClaimsItsPayer
<1>. QED BY <1>2, <1>3

LEMMA ReserveInit == Init => RInv
<1>. SUFFICES ASSUME Init PROVE RInv
  OBVIOUS
<1>1. /\ \A d \in Ids : donation[d] = NoDonation /\ request[d] = NoRequest
      /\ \A a \in Amounts : lock[a] = None
      /\ \A t \in Transfers : chain[t] = NotSent /\ row[t] = NoRow
      /\ \A w \in Workers : worker[w] = Idle
      /\ cancel = {}
  BY DEF Init
<1>2. /\ NoDonation.status = "NONE" /\ NoDonation.txHash = None /\ NoRequest.pc = "none"
      /\ ~ NotSent.sent /\ NotSent.from = None /\ Idle.pc = "idle" /\ Idle.todo = {}
  BY DEF NoDonation, NoRequest, NotSent, Idle
<1>3. /\ AsksForBase /\ CanceledIsOpened /\ Windows /\ OpenIsUnpaid /\ LocksName
  BY <1>1, <1>2 DEF AsksForBase, CanceledIsOpened, Windows, OpenIsUnpaid, LocksName, Claimable
<1>4. /\ SentAsShown /\ PaidOnce /\ NotOverdue /\ CreditsItsPayer
  BY <1>1, <1>2 DEF SentAsShown, PaidOnce, NotOverdue, CreditsItsPayer
<1>5. /\ InHand /\ Reserved /\ ClaimsItsPayer
  BY <1>1, <1>2 DEF InHand, Reserved, ClaimsItsPayer
<1>. QED BY <1>3, <1>4, <1>5 DEF RInv

(***************************************************************************)
(* With one watcher that keeps within the margin, what a transfer can be   *)
(* credited to is settled when it is sent.                                 *)
(***************************************************************************)
THEOREM ReserveInvariance == ASSUME Orderly PROVE Spec => [](IInv /\ RInv)
<1>1. Init => IInv /\ RInv
  BY InvInit, ReserveInit
<1>2. (IInv /\ RInv) /\ [Next]_vars => (IInv /\ RInv)'
  <2>. SUFFICES ASSUME IInv, RInv, [Next]_vars PROVE IInv' /\ RInv'
    OBVIOUS
  <2>1. IInv'
    BY InvStep
  <2>2. AsksForBase' /\ CanceledIsOpened' /\ Windows' /\ OpenIsUnpaid' /\ LocksName'
    BY AskStep, WindowStep, LocksStep DEF RInv
  <2>3. SentAsShown' /\ PaidOnce' /\ NotOverdue' /\ InHand'
    BY SentStep, HandStep DEF Orderly
  <2>4. Reserved' /\ ClaimsItsPayer' /\ CreditsItsPayer'
    BY ReservedStep, ClaimsStep, CreditsStep
  <2>. QED BY <2>1, <2>2, <2>3, <2>4 DEF RInv
<1>. QED BY <1>1, <1>2, PTL DEF Spec

(* While an intent can still be paid, its amount is reserved for it alone,  *)
(* whatever is canceled, released and opened meanwhile.                     *)
THEOREM ReservationsHold == ASSUME Orderly PROVE Spec => []ReservationHolds
<1>1. IInv /\ RInv => ReservationHolds
  BY DEF RInv, Reserved, OpenIsUnpaid, ReservationHolds, Claimable
<1>. QED BY <1>1, ReserveInvariance, PTL

(* A transfer is credited to the intent it was paid for and not to a later  *)
(* holder of the amount, though the watcher dies between the release of the *)
(* amount and the verdict and takes the transfer up again.                 *)
THEOREM PayerIsCredited == ASSUME Orderly PROVE Spec => []CreditsItsPayer
<1>1. IInv /\ RInv => CreditsItsPayer
  BY DEF RInv
<1>. QED BY <1>1, ReserveInvariance, PTL

-----------------------------------------------------------------------------
(* TronScan: the cursor, the journal and the pages.                        *)

(* What CURSOR_LAG_MS and FIRST_RUN_LOOKBACK_MS are margins for.           *)
Delays ==
  /\ ClockSkew <= IndexDelay
  /\ ClockSkew <= Lookback
  /\ IndexDelay + ScanTime <= CursorLag

-----------------------------------------------------------------------------
(* The inductive invariant of TronScan.                                    *)

(* The clock has not passed a delay it waits for.                          *)
Indexed == \A t \in sent \ visible : clock <= time[t] + IndexDelay
FirstPass == ~ cursor.set => \A t \in sent : clock <= time[t] + Lookback

(* The cursor stays behind any block time still to come.                   *)
Behind == cursor.set => cursor.at + ClockSkew <= clock

(* A pass reads from the cursor, in its time, and what it reads is visible. *)
Passing ==
  scan.pc # "idle" =>
    /\ cursor.set /\ scan.from = cursor.at
    /\ scan.start <= clock /\ clock <= scan.start + ScanTime
    /\ scan.after # 0 => scan.after \in visible
    /\ scan.page \subseteq visible
    /\ scan.pc # "write" => scan.pages < MaxPages

(* A transfer a pass has not journaled yet came too late for it, or is on   *)
(* the page at hand, or on a page to come.                                  *)
Late(t) == scan.start <= time[t] + IndexDelay
Ahead(t) ==
  /\ t \in visible
  /\ scan.after # 0 => Before(scan.after, t)
  /\ scan.pc = "fetch" \/ (scan.pc = "page" /\ scan.more)
Limited == scan.pc = "write" /\ scan.pages >= MaxPages
Reached ==
  scan.pc # "idle" =>
    \A t \in sent \ journaled :
      Late(t) \/ (scan.pc = "page" /\ t \in scan.page) \/ Ahead(t) \/ Limited

ScanInv ==
  /\ ScanTypeOK
  /\ Indexed
  /\ FirstPass
  /\ Behind
  /\ Passing
  /\ Reached
  /\ NothingSkipped

-----------------------------------------------------------------------------
(* The order of the rows and their pages.                                  *)

LEMMA BeforeOrders ==
  ASSUME time \in [ChainTransfers -> Int]
  PROVE  /\ \A s \in ChainTransfers : ~ Before(s, s)
         /\ \A s, t \in ChainTransfers : s = t \/ Before(s, t) \/ Before(t, s)
         /\ \A r, s, t \in ChainTransfers : Before(r, s) /\ Before(s, t) => Before(r, t)
BY TronScanAssumption DEF Before

(* A set of rows has an earliest one: a smallest set of predecessors has   *)
(* no member, for the predecessors of a member would be a smaller one.     *)
LEMMA EarliestRow ==
  ASSUME time \in [ChainTransfers -> Int], NEW F \in SUBSET ChainTransfers, F # {}
  PROVE  \E m \in F : \A s \in F : ~ Before(s, m)
<1>. DEFINE Down(t) == {s \in F : Before(s, t)}
            Downs == {Down(t) : t \in F}
<1>1. IsFiniteSet(F)
  BY TronScanAssumption, FS_Subset
<1>2. Downs \subseteq FiniteSubsetsOf(F) /\ Downs # {}
  <2>1. \A t \in F : Down(t) \in SUBSET F
    OBVIOUS
  <2>2. FiniteSubsetsOf(F) = SUBSET F
    BY <1>1, FS_FiniteSubsetsOfFinite
  <2>3. Downs \subseteq SUBSET F
    BY <2>1
  <2>4. PICK t \in F : TRUE
    OBVIOUS
  <2>5. Down(t) \in Downs
    OBVIOUS
  <2>. HIDE DEF Downs
  <2>. QED BY <2>2, <2>3, <2>5
<1>3. IsWellFoundedOn(StrictSubsetOrdering(F), FiniteSubsetsOf(F))
  BY FS_StrictSubsetOrderingWellFounded
<1>4. PICK D \in Downs : \A E \in Downs : ~ (<<E, D>> \in StrictSubsetOrdering(F))
  <2>. HIDE DEF Downs
  <2>. QED BY <1>2, <1>3, WFMin
<1>5. PICK m \in F : D = Down(m)
  OBVIOUS
<1>6. ASSUME NEW s \in F, Before(s, m)
      PROVE  FALSE
  <2>1. Down(s) \subseteq Down(m)
    BY <1>6, BeforeOrders
  <2>2. s \in Down(m) /\ s \notin Down(s)
    BY <1>6, BeforeOrders
  <2>3. Down(s) # Down(m)
    BY <2>2
  <2>4. Down(s) \in SUBSET F /\ Down(m) \in SUBSET F
    OBVIOUS
  <2>. HIDE DEF Down
  <2>5. <<Down(s), Down(m)>> \in StrictSubsetOrdering(F)
    BY <2>1, <2>3, <2>4 DEF StrictSubsetOrdering
  <2>. QED BY <1>4, <1>5, <2>5
<1>. QED BY <1>6

(* A page takes the first rows, at least one; the rest follow its last row. *)
LEMMA PageIsPrefix ==
  ASSUME time \in [ChainTransfers -> Int], visible \subseteq ChainTransfers
  PROVE  /\ Page \subseteq Following /\ Following \subseteq visible
         /\ Following # {} => Page # {}
         /\ \A last \in Page : (\A s \in Page : s = last \/ Before(s, last)) =>
              \A t \in Following \ Page : Before(last, t)
<1>. DEFINE Down(t) == {s \in Following : Before(s, t)}
<1>1. Page \subseteq Following /\ Following \subseteq visible /\ Following \in SUBSET ChainTransfers
  BY DEF Page, Following
<1>2. IsFiniteSet(Following)
  BY <1>1, TronScanAssumption, FS_Subset
<1>3. ASSUME Following # {} PROVE Page # {}
  <2>1. PICK m \in Following : \A s \in Following : ~ Before(s, m)
    BY <1>1, <1>3, EarliestRow
  <2>2. Down(m) = {}
    BY <2>1
  <2>3. Cardinality(Down(m)) = 0
    BY <2>2, FS_EmptySet
  <2>4. Cardinality({s \in Following : Before(s, m)}) < PageSize
    BY <2>3, TronScanAssumption
  <2>. QED BY <2>1, <2>4 DEF Page
<1>4. ASSUME NEW last \in Page, NEW t \in Following \ Page, ~ Before(last, t)
      PROVE  FALSE
  <2>1. Before(t, last)
    BY <1>1, <1>4, BeforeOrders
  <2>2. Down(t) \subseteq Down(last)
    BY <1>1, <1>4, <2>1, BeforeOrders
  <2>3. IsFiniteSet(Down(last)) /\ IsFiniteSet(Down(t))
    BY <1>2, FS_Subset
  <2>4. /\ Cardinality(Down(t)) <= Cardinality(Down(last))
        /\ Cardinality(Down(t)) \in Nat /\ Cardinality(Down(last)) \in Nat
    BY <2>2, <2>3, FS_Subset, FS_CardinalityType
  <2>5. Cardinality(Down(last)) < PageSize
    BY <1>4 DEF Page
  <2>6. Cardinality(Down(t)) < PageSize
    <3>. HIDE DEF Down
    <3>. QED BY <2>4, <2>5, TronScanAssumption
  <2>. QED BY <1>4, <2>6 DEF Page
<1>. QED BY <1>1, <1>3, <1>4

-----------------------------------------------------------------------------
(* Types.                                                                  *)

LEMMA ScanTypeInit == ScanInit => ScanTypeOK
BY TronScanAssumption DEF ScanInit, ScanTypeOK, Resting, Passes

LEMMA WaitType ==
  ASSUME failuresInRow \in Nat
  PROVE  Wait \in Int
<1>1. 2 ^ (failuresInRow + 1) \in Int
  OBVIOUS
<1>. QED BY <1>1, TronScanAssumption DEF Wait, Least

LEMMA ScanTypeStep ==
  ASSUME ScanTypeOK, Passing, [ScanNext]_scanVars
  PROVE  ScanTypeOK'
<1>0. /\ scan \in Passes /\ time \in [ChainTransfers -> Int] /\ visible \subseteq sent
      /\ sent \subseteq ChainTransfers /\ Resting \in Passes /\ clock \in Nat /\ 0 \in 0 .. MaxPages
  BY TronScanAssumption DEF ScanTypeOK, Resting, Passes
<1>1. CASE ClockTick
  BY <1>1, TronScanAssumption DEF ClockTick, ScanTypeOK, chainVars
<1>2. ASSUME NEW t \in ChainTransfers, NEW k \in (- ClockSkew) .. ClockSkew, Confirm(t, k)
      PROVE  ScanTypeOK'
  <2>1. clock + k \in Int
    BY <1>0, TronScanAssumption
  <2>. QED BY <1>2, <2>1 DEF Confirm, ScanTypeOK
<1>3. ASSUME NEW t \in ChainTransfers, Appear(t)
      PROVE  ScanTypeOK'
  BY <1>3 DEF Appear, ScanTypeOK
<1>4. CASE Start
  <2>. DEFINE from == IF cursor.set THEN cursor.at ELSE clock - Lookback
  <2>1. from \in Int
    BY <1>0, TronScanAssumption DEF ScanTypeOK
  <2>2. /\ cursor' = [set |-> TRUE, at |-> from]
        /\ scan' = [Resting EXCEPT !.pc = "fetch", !.start = clock, !.from = from, !.maxSeen = from]
    BY <1>4 DEF Start
  <2>. HIDE DEF from
  <2>3. scan' = [pc |-> "fetch", start |-> clock, from |-> from, after |-> 0, more |-> FALSE,
                 page |-> {}, maxSeen |-> from, pages |-> 0]
    BY <2>2 DEF Resting
  <2>4. scan' \in Passes
    BY <1>0, <2>1, <2>3 DEF Passes
  <2>. QED BY <1>4, <2>1, <2>2, <2>4 DEF Start, ScanTypeOK, chainVars
<1>5. CASE Fetch
  <2>1. Page \subseteq visible
    BY <1>0, PageIsPrefix
  <2>2. PICK more \in BOOLEAN, last \in IF Page = {} THEN {scan.after} ELSE Page :
          scan' = [scan EXCEPT !.pc = "page", !.page = Page, !.after = last,
                               !.more = more /\ Page # {}]
    BY <1>5 DEF Fetch
  <2>3. last \in ChainTransfers \cup {0} /\ Page \subseteq ChainTransfers /\ (more /\ Page # {}) \in BOOLEAN
    BY <1>0, <2>1 DEF Passes
  <2>4. scan' \in Passes
    <3>. HIDE DEF Page
    <3>. QED BY <1>0, <2>2, <2>3 DEF Passes
  <2>. QED BY <1>5, <2>4 DEF Fetch, ScanTypeOK, chainVars
<1>6. ASSUME NEW t \in ChainTransfers, IngestRow(t)
      PROVE  ScanTypeOK'
  <2>1. t \in visible
    BY <1>6 DEF IngestRow, Passing
  <2>2. Greatest(scan.maxSeen, time[t]) \in Int
    BY <1>0 DEF Passes, Greatest
  <2>3. scan' = [scan EXCEPT !.page = scan.page \ {t}, !.maxSeen = Greatest(scan.maxSeen, time[t])]
    BY <1>6 DEF IngestRow
  <2>4. scan' \in Passes
    BY <1>0, <2>2, <2>3 DEF Passes
  <2>. QED BY <1>6, <2>1, <2>4 DEF IngestRow, ScanTypeOK, chainVars
<1>7. CASE PageDone
  <2>1. scan.pages + 1 \in 0 .. MaxPages
    BY <1>0, <1>7, TronScanAssumption DEF PageDone, Passing, Passes
  <2>2. scan' \in Passes
    BY <1>0, <1>7, <2>1 DEF PageDone, Passes
  <2>. QED BY <1>7, <2>2 DEF PageDone, ScanTypeOK, chainVars
<1>8. CASE WriteCursor
  <2>1. NextCursor \in Int
    BY <1>0, TronScanAssumption DEF NextCursor, Greatest, Least, Passes
  <2>. QED
    BY <1>0, <1>8, <2>1 DEF WriteCursor, ScanTypeOK, chainVars
<1>9. CASE Fail
  <2>1. clock + Wait \in Int
    BY <1>0, WaitType DEF ScanTypeOK
  <2>. QED
    BY <1>0, <1>9, <2>1, TronScanAssumption DEF Fail, ScanTypeOK, chainVars
<1>10. CASE Crash
  BY <1>0, <1>10, TronScanAssumption DEF Crash, ScanTypeOK, chainVars
<1>11. CASE UNCHANGED scanVars
  BY <1>11 DEF scanVars, chainVars, ScanTypeOK
<1>. QED
  BY <1>1, <1>2, <1>3, <1>4, <1>5, <1>6, <1>7, <1>8, <1>9, <1>10, <1>11 DEF ScanNext, Watcher

-----------------------------------------------------------------------------
(* The delays of the world.                                                *)

(* Of what the steps of the watcher do to the world: nothing.              *)
LEMMA WatcherKeepsWorld ==
  ASSUME Watcher \/ Fail \/ Crash
  PROVE  UNCHANGED <<clock, sent, time, visible>>
BY DEF Watcher, Fail, Crash, Start, Fetch, PageDone, WriteCursor, IngestRow, chainVars

(* A new transfer carries a block time off the clock by the skew at most.  *)
LEMMA ConfirmFacts ==
  ASSUME ScanTypeOK, NEW t \in ChainTransfers, NEW k \in (- ClockSkew) .. ClockSkew, Confirm(t, k)
  PROVE  /\ t \notin sent /\ sent' = sent \cup {t} /\ clock' = clock /\ visible' = visible
         /\ \A s \in sent : time'[s] = time[s]
         /\ time'[t] \in Int /\ clock <= time'[t] + ClockSkew
<1>1. time' = [time EXCEPT ![t] = clock + k] /\ time \in [ChainTransfers -> Int]
  BY DEF Confirm, ScanTypeOK
<1>2. k \in Int /\ clock \in Int /\ clock <= clock + k + ClockSkew
  BY TronScanAssumption DEF ScanTypeOK
<1>. QED BY <1>1, <1>2 DEF Confirm, ScanTypeOK

LEMMA WorldStep ==
  ASSUME Delays, ScanInv, [ScanNext]_scanVars
  PROVE  Indexed' /\ FirstPass'
<1>0. /\ ScanTypeOK /\ Indexed /\ FirstPass /\ clock \in Int /\ clock' \in Int
      /\ \A t \in sent : t \in ChainTransfers /\ time[t] \in Int
  <2>1. ScanTypeOK /\ Passing
    BY DEF ScanInv
  <2>2. ScanTypeOK'
    BY <2>1, ScanTypeStep
  <2>. QED BY <2>1, <2>2 DEF ScanInv, ScanTypeOK
<1>1. CASE ClockTick
  BY <1>0, <1>1, TronScanAssumption DEF ClockTick, Indexed, FirstPass, chainVars
<1>2. ASSUME NEW t \in ChainTransfers, NEW k \in (- ClockSkew) .. ClockSkew, Confirm(t, k)
      PROVE  Indexed' /\ FirstPass'
  <2>1. clock <= time'[t] + IndexDelay /\ clock <= time'[t] + Lookback
    <3>1. time'[t] \in Int /\ clock <= time'[t] + ClockSkew
      BY <1>0, <1>2, ConfirmFacts
    <3>. QED BY <1>0, <3>1, TronScanAssumption DEF Delays
  <2>2. cursor' = cursor
    BY <1>2 DEF Confirm
  <2>. QED BY <1>0, <1>2, <2>1, <2>2, ConfirmFacts DEF Indexed, FirstPass
<1>3. ASSUME NEW t \in ChainTransfers, Appear(t)
      PROVE  Indexed' /\ FirstPass'
  BY <1>0, <1>3 DEF Appear, Indexed, FirstPass
<1>4. CASE Watcher \/ Fail \/ Crash
  <2>1. cursor.set => cursor'.set
    BY <1>0, <1>4 DEF Watcher, Fail, Crash, Start, Fetch, PageDone, WriteCursor, IngestRow, ScanTypeOK
  <2>. QED BY <1>0, <1>4, <2>1, WatcherKeepsWorld DEF Indexed, FirstPass
<1>5. CASE UNCHANGED scanVars
  BY <1>0, <1>5 DEF scanVars, chainVars, Indexed, FirstPass
<1>. QED BY <1>1, <1>2, <1>3, <1>4, <1>5 DEF ScanNext

LEMMA PassingStep ==
  ASSUME ScanTypeOK, Passing, [ScanNext]_scanVars
  PROVE  Passing'
<1>0. /\ ScanTypeOK /\ Passing /\ clock \in Int /\ scan \in Passes /\ time \in [ChainTransfers -> Int]
      /\ visible \subseteq ChainTransfers
  BY DEF ScanInv, ScanTypeOK
<1>1. CASE ClockTick
  BY <1>0, <1>1, TronScanAssumption DEF ClockTick, Passing, Passes, chainVars
<1>2. ASSUME NEW t \in ChainTransfers, NEW k, Confirm(t, k)
      PROVE  Passing'
  BY <1>0, <1>2 DEF Confirm, Passing
<1>3. ASSUME NEW t \in ChainTransfers, Appear(t)
      PROVE  Passing'
  BY <1>0, <1>3 DEF Appear, Passing
<1>4. CASE Start
  BY <1>0, <1>4, TronScanAssumption DEF Start, Resting, Passing, chainVars
<1>5. CASE Fetch
  <2>1. Page \subseteq visible
    BY <1>0, PageIsPrefix
  <2>2. PICK more \in BOOLEAN, last \in IF Page = {} THEN {scan.after} ELSE Page :
          scan' = [scan EXCEPT !.pc = "page", !.page = Page, !.after = last,
                               !.more = more /\ Page # {}]
    BY <1>5 DEF Fetch
  <2>3. last # 0 => last \in visible
    BY <1>0, <1>5, <2>1 DEF Fetch, Passing
  <2>. HIDE DEF Page
  <2>4. scan'.pc = "page" /\ scan'.page = Page /\ scan'.after = last /\ scan'.start = scan.start
        /\ scan'.from = scan.from /\ scan'.pages = scan.pages
    BY <1>0, <2>2 DEF Passes
  <2>. QED BY <1>0, <1>5, <2>1, <2>3, <2>4 DEF Fetch, Passing, chainVars
<1>6. ASSUME NEW t \in ChainTransfers, IngestRow(t)
      PROVE  Passing'
  <2>1. scan'.pc = "page" /\ scan'.page = scan.page \ {t} /\ scan'.after = scan.after
        /\ scan'.start = scan.start /\ scan'.from = scan.from /\ scan'.pages = scan.pages
    BY <1>0, <1>6 DEF IngestRow, Passes
  <2>. QED BY <1>0, <1>6, <2>1 DEF IngestRow, Passing, chainVars
<1>7. CASE PageDone
  <2>1. scan'.page = scan.page /\ scan'.after = scan.after /\ scan'.start = scan.start
        /\ scan'.from = scan.from /\ scan'.pages = scan.pages + 1
        /\ scan'.pc = IF More THEN "fetch" ELSE "write"
    BY <1>0, <1>7 DEF PageDone, Passes
  <2>. QED BY <1>0, <1>7, <2>1 DEF PageDone, More, Passing, chainVars
<1>8. CASE WriteCursor \/ Fail \/ Crash
  BY <1>8 DEF WriteCursor, Fail, Crash, Resting, Passing
<1>9. CASE UNCHANGED scanVars
  BY <1>0, <1>9 DEF scanVars, chainVars, Passing
<1>. QED
  BY <1>1, <1>2, <1>3, <1>4, <1>5, <1>6, <1>7, <1>8, <1>9 DEF ScanNext, Watcher

LEMMA ReachedStep ==
  ASSUME Delays, ScanInv, [ScanNext]_scanVars
  PROVE  Reached'
<1>0. /\ ScanTypeOK /\ Passing /\ Reached /\ Indexed /\ NothingSkipped /\ FirstPass
      /\ clock \in Int /\ scan \in Passes /\ time \in [ChainTransfers -> Int]
      /\ visible \subseteq sent /\ sent \subseteq ChainTransfers /\ journaled \subseteq visible
      /\ \A t \in ChainTransfers : t # 0
  BY TronScanAssumption DEF ScanInv, ScanTypeOK
<1>. SUFFICES ASSUME scan'.pc # "idle", NEW t \in sent' \ journaled'
              PROVE  Late(t)' \/ (scan'.pc = "page" /\ t \in scan'.page) \/ Ahead(t)' \/ Limited'
  BY DEF Reached
<1>. DEFINE Goal == Late(t)' \/ (scan'.pc = "page" /\ t \in scan'.page) \/ Ahead(t)' \/ Limited'
<1>1. ASSUME scan' = scan, t \in sent \ journaled, time'[t] = time[t], visible \subseteq visible',
             scan.after # 0 => time'[scan.after] = time[scan.after]
      PROVE  Goal
  BY <1>0, <1>1 DEF Reached, Late, Ahead, Limited, Before
<1>2. CASE ClockTick \/ UNCHANGED scanVars
  BY <1>1, <1>2 DEF ClockTick, chainVars, scanVars
<1>3. ASSUME NEW s \in ChainTransfers, NEW k \in (- ClockSkew) .. ClockSkew, Confirm(s, k)
      PROVE  Goal
  <2>1. scan' = scan /\ journaled' = journaled
    BY <1>3 DEF Confirm
  <2>2. CASE s = t
    <3>1. clock <= time'[t] + ClockSkew /\ time'[t] \in Int
      BY <1>0, <1>3, <2>2, ConfirmFacts
    <3>2. scan.start <= clock /\ scan.start \in Int
      BY <1>0, <2>1 DEF Passing, Passes
    <3>3. scan.start <= time'[t] + IndexDelay
      BY <1>0, <3>1, <3>2, TronScanAssumption DEF Delays
    <3>. QED BY <2>1, <3>3 DEF Late
  <2>3. CASE s # t
    <3>1. t \in sent /\ time'[t] = time[t] /\ visible' = visible
      BY <1>0, <1>3, <2>3, ConfirmFacts
    <3>2. scan.after # 0 => time'[scan.after] = time[scan.after]
      BY <1>0, <1>3, <2>1, ConfirmFacts DEF Passing
    <3>. QED BY <1>1, <2>1, <3>1, <3>2
  <2>. QED BY <2>2, <2>3
<1>4. ASSUME NEW s \in ChainTransfers, Appear(s)
      PROVE  Goal
  BY <1>1, <1>4 DEF Appear
<1>5. CASE Start
  <2>1. /\ scan'.pc = "fetch" /\ scan'.start = clock /\ scan'.after = 0
        /\ t \in sent \ journaled /\ time' = time /\ visible' = visible
    BY <1>5 DEF Start, Resting, chainVars
  <2>2. CASE t \in visible
    BY <2>1, <2>2 DEF Ahead
  <2>3. CASE t \notin visible
    BY <1>0, <2>1, <2>3 DEF Indexed, Late
  <2>. QED BY <2>2, <2>3
<1>6. CASE Fetch
  <2>1. PICK more \in BOOLEAN, last \in IF Page = {} THEN {scan.after} ELSE Page :
          /\ Following \ Page # {} => more
          /\ \A s \in Page : s = last \/ Before(s, last)
          /\ scan' = [scan EXCEPT !.pc = "page", !.page = Page, !.after = last,
                                  !.more = more /\ Page # {}]
    BY <1>6 DEF Fetch
  <2>2. /\ Page \subseteq Following /\ Following \subseteq visible
        /\ Following # {} => Page # {}
        /\ \A l \in Page : (\A s \in Page : s = l \/ Before(s, l)) =>
             \A s \in Following \ Page : Before(l, s)
    BY <1>0, PageIsPrefix
  <2>3. t \in sent \ journaled /\ time' = time /\ visible' = visible /\ scan.pc = "fetch"
    BY <1>6 DEF Fetch, chainVars
  <2>4. Late(t) \/ Ahead(t)
    BY <1>0, <2>3 DEF Reached, Limited
  <2>5. Ahead(t) => t \in Following
    <3>1. cursor.set /\ scan.from = cursor.at
      BY <1>0, <2>3 DEF Passing
    <3>2. time[t] >= scan.from
      BY <1>0, <2>3, <3>1 DEF NothingSkipped
    <3>. QED BY <3>2 DEF Ahead, Following
  <2>. HIDE DEF Page, Following
  <2>6. /\ scan'.pc = "page" /\ scan'.page = Page /\ scan'.after = last
        /\ scan'.more = (more /\ Page # {}) /\ scan'.start = scan.start
    BY <1>0, <2>1 DEF Passes
  <2>7. CASE Late(t)
    BY <2>3, <2>6, <2>7 DEF Late
  <2>8. CASE t \in Page
    BY <2>6, <2>8
  <2>9. CASE t \in Following \ Page
    <3>1. more /\ Page # {} /\ last \in Page
      BY <2>1, <2>2, <2>9
    <3>2. Before(last, t) /\ t \in visible
      BY <2>1, <2>2, <2>9, <3>1
    <3>. QED BY <2>3, <2>6, <3>1, <3>2 DEF Ahead, Before
  <2>. QED BY <2>4, <2>5, <2>7, <2>8, <2>9
<1>7. ASSUME NEW s \in ChainTransfers, IngestRow(s)
      PROVE  Goal
  <2>1. /\ scan'.pc = "page" /\ scan.pc = "page" /\ scan'.page = scan.page \ {s}
        /\ scan'.after = scan.after /\ scan'.more = scan.more /\ scan'.start = scan.start
    BY <1>0, <1>7 DEF IngestRow, Passes
  <2>2. t \in sent \ journaled /\ t # s /\ time' = time /\ visible' = visible
    BY <1>7 DEF IngestRow, chainVars
  <2>3. Late(t) \/ t \in scan.page \/ Ahead(t)
    BY <1>0, <2>1, <2>2 DEF Reached, Limited
  <2>. QED BY <2>1, <2>2, <2>3 DEF Late, Ahead, Before
<1>8. CASE PageDone
  <2>1. /\ scan.pc = "page" /\ scan.page = {} /\ scan'.pages = scan.pages + 1
        /\ scan'.after = scan.after /\ scan'.start = scan.start
        /\ scan'.pc = IF More THEN "fetch" ELSE "write"
    BY <1>0, <1>8 DEF PageDone, Passes
  <2>2. t \in sent \ journaled /\ time' = time /\ visible' = visible
    BY <1>8 DEF PageDone, chainVars
  <2>3. Late(t) \/ Ahead(t)
    BY <1>0, <2>1, <2>2 DEF Reached, Limited
  <2>4. CASE Late(t)
    BY <2>1, <2>2, <2>4 DEF Late
  <2>5. CASE Ahead(t) /\ More
    BY <2>1, <2>2, <2>5 DEF Ahead, Before
  <2>6. CASE Ahead(t) /\ ~ More
    <3>1. scan.more
      BY <2>1, <2>6 DEF Ahead
    <3>2. scan.pages + 1 >= MaxPages
      BY <1>0, <2>6, <3>1, TronScanAssumption DEF More, Passes
    <3>. QED BY <2>1, <2>6, <3>2 DEF Limited
  <2>. QED BY <2>3, <2>4, <2>5, <2>6
<1>9. CASE WriteCursor \/ Fail \/ Crash
  BY <1>9 DEF WriteCursor, Fail, Crash, Resting
<1>. QED
  BY <1>2, <1>3, <1>4, <1>5, <1>6, <1>7, <1>8, <1>9 DEF ScanNext, Watcher

-----------------------------------------------------------------------------
(* The cursor.                                                             *)

(* Where a whole pass leaves the cursor: not before where it was.          *)
LEMMA NextCursorType ==
  ASSUME ScanTypeOK, Passing, scan.pc # "idle"
  PROVE  /\ NextCursor \in Int
         /\ NextCursor >= cursor.at
         /\ (NextCursor = cursor.at \/ NextCursor + CursorLag <= clock)
<1>1. /\ scan.from \in Int /\ scan.maxSeen \in Int /\ clock \in Int /\ scan.from = cursor.at
  BY DEF ScanTypeOK, Passes, Passing
<1>2. Least(clock, scan.maxSeen) \in Int /\ Least(clock, scan.maxSeen) <= clock
  BY <1>1 DEF Least
<1>. QED
  BY <1>1, <1>2, TronScanAssumption DEF NextCursor, Greatest

(* It does not pass a transfer that came too late for the pass either.     *)
LEMMA LateIsKept ==
  ASSUME Delays, ScanTypeOK, Passing, scan.pc # "idle",
         NEW t \in ChainTransfers, Late(t), time[t] >= cursor.at
  PROVE  time[t] >= NextCursor
<1>1. /\ clock \in Int /\ scan.start \in Int /\ time[t] \in Int /\ cursor.at \in Int
      /\ clock <= scan.start + ScanTime /\ scan.start <= time[t] + IndexDelay
  BY DEF ScanTypeOK, Passes, Passing, Late
<1>2. clock <= time[t] + CursorLag
  BY <1>1, TronScanAssumption DEF Delays
<1>3. /\ NextCursor \in Int
      /\ (NextCursor = cursor.at \/ NextCursor + CursorLag <= clock)
  BY NextCursorType
<1>. QED BY <1>1, <1>2, <1>3, TronScanAssumption

LEMMA BehindStep ==
  ASSUME Delays, ScanInv, [ScanNext]_scanVars
  PROVE  Behind'
<1>0. /\ ScanTypeOK /\ Passing /\ Behind /\ clock \in Int /\ cursor.at \in Int
      /\ cursor \in [set : BOOLEAN, at : Int] /\ ClockSkew <= CursorLag
  BY TronScanAssumption DEF ScanInv, ScanTypeOK, Delays
<1>1. CASE ClockTick
  BY <1>0, <1>1, TronScanAssumption DEF ClockTick, Behind
<1>2. CASE Start
  BY <1>0, <1>2, TronScanAssumption DEF Start, Behind, Delays
<1>3. CASE WriteCursor
  <2>1. /\ NextCursor \in Int /\ cursor.set
        /\ (NextCursor = cursor.at \/ NextCursor + CursorLag <= clock)
    BY <1>0, <1>3, NextCursorType DEF WriteCursor, Passing
  <2>2. NextCursor + ClockSkew <= clock
    BY <1>0, <2>1, TronScanAssumption DEF Behind
  <2>. QED BY <1>0, <1>3, <2>2 DEF WriteCursor, Behind
<1>4. CASE UNCHANGED <<clock, cursor>>
  BY <1>0, <1>4 DEF Behind
<1>. QED
  BY <1>1, <1>2, <1>3, <1>4
     DEF ScanNext, Watcher, Confirm, Appear, Fetch, PageDone, IngestRow, Fail, Crash, scanVars

LEMMA SkipStep ==
  ASSUME Delays, ScanInv, [ScanNext]_scanVars
  PROVE  NothingSkipped'
<1>0. /\ ScanTypeOK /\ Passing /\ Reached /\ NothingSkipped /\ FirstPass /\ Behind
      /\ clock \in Int /\ cursor.at \in Int
      /\ scan \in Passes /\ time \in [ChainTransfers -> Int] /\ sent \subseteq ChainTransfers
  BY DEF ScanInv, ScanTypeOK
<1>. SUFFICES ASSUME cursor'.set, NEW t \in sent' \ journaled'
              PROVE  time'[t] >= cursor'.at
  BY DEF NothingSkipped
<1>1. ASSUME cursor' = cursor, t \in sent \ journaled, time'[t] = time[t]
      PROVE  time'[t] >= cursor'.at
  BY <1>0, <1>1 DEF NothingSkipped
<1>2. CASE ClockTick \/ UNCHANGED scanVars
  BY <1>1, <1>2 DEF ClockTick, chainVars, scanVars
<1>3. ASSUME NEW s \in ChainTransfers, Appear(s)
      PROVE  time'[t] >= cursor'.at
  BY <1>1, <1>3 DEF Appear
<1>4. CASE Start
  <2>1. t \in sent \ journaled /\ time' = time
    BY <1>4 DEF Start, chainVars
  <2>2. CASE cursor.set
    BY <1>0, <1>4, <2>1, <2>2 DEF Start, NothingSkipped
  <2>3. CASE ~ cursor.set
    <3>1. cursor'.at = clock - Lookback
      BY <1>4, <2>3 DEF Start
    <3>2. clock <= time[t] + Lookback /\ time[t] \in Int
      BY <1>0, <2>1, <2>3 DEF FirstPass
    <3>. QED BY <1>0, <2>1, <3>1, <3>2, TronScanAssumption
  <2>. QED BY <2>2, <2>3
<1>5. CASE Fetch \/ PageDone \/ Fail \/ Crash
  BY <1>1, <1>5 DEF Fetch, PageDone, Fail, Crash, chainVars
<1>6. ASSUME NEW s \in ChainTransfers, IngestRow(s)
      PROVE  time'[t] >= cursor'.at
  BY <1>1, <1>6 DEF IngestRow, chainVars
<1>7. CASE WriteCursor
  <2>1. t \in sent \ journaled /\ time' = time /\ scan.pc = "write"
    BY <1>7 DEF WriteCursor, chainVars
  <2>2. CASE scan.pages >= MaxPages
    <3>1. cursor' = cursor
      BY <1>0, <1>7, <2>2, TronScanAssumption DEF WriteCursor, Passes
    <3>. QED BY <1>1, <2>1, <3>1
  <2>3. CASE ~ (scan.pages >= MaxPages)
    <3>1. Late(t)
      BY <1>0, <2>1, <2>3 DEF Reached, Ahead, Limited
    <3>2. cursor.set /\ time[t] >= cursor.at
      BY <1>0, <2>1 DEF Passing, NothingSkipped
    <3>3. scan.pages < MaxPages
      BY <1>0, <2>3, TronScanAssumption DEF Passes
    <3>4. cursor' = [cursor EXCEPT !.at = NextCursor] /\ cursor \in [set : BOOLEAN, at : Int]
      BY <1>0, <1>7, <3>3 DEF WriteCursor, ScanTypeOK
    <3>5. cursor'.at = NextCursor
      BY <3>4
    <3>. QED BY <1>0, <2>1, <3>1, <3>2, <3>5, LateIsKept
  <2>. QED BY <2>2, <2>3
<1>8. ASSUME NEW s \in ChainTransfers, NEW k \in (- ClockSkew) .. ClockSkew, Confirm(s, k)
      PROVE  time'[t] >= cursor'.at
  <2>1. cursor' = cursor /\ journaled' = journaled
    BY <1>8 DEF Confirm
  <2>2. CASE t = s
    <3>1. clock <= time'[t] + ClockSkew /\ time'[t] \in Int
      BY <1>0, <1>8, <2>2, ConfirmFacts
    <3>2. cursor.at + ClockSkew <= clock
      BY <1>0, <2>1 DEF Behind
    <3>. QED BY <1>0, <2>1, <3>1, <3>2, TronScanAssumption
  <2>3. CASE t # s
    <3>1. t \in sent /\ time'[t] = time[t]
      BY <1>0, <1>8, <2>3, ConfirmFacts
    <3>. QED BY <1>1, <2>1, <3>1
  <2>. QED BY <2>2, <2>3
<1>. QED
  BY <1>2, <1>3, <1>4, <1>5, <1>6, <1>7, <1>8 DEF ScanNext, Watcher

-----------------------------------------------------------------------------
(* Theorems.                                                               *)

LEMMA ScanInvInit == ScanInit => ScanInv
<1>. SUFFICES ASSUME ScanInit PROVE ScanInv
  OBVIOUS
<1>1. ScanTypeOK
  BY ScanTypeInit
<1>2. Indexed /\ FirstPass /\ Behind /\ Passing /\ Reached /\ NothingSkipped
  BY DEF ScanInit, Resting, Indexed, FirstPass, Behind, Passing, Reached, NothingSkipped
<1>. QED BY <1>1, <1>2 DEF ScanInv

LEMMA ScanInvStep ==
  ASSUME Delays
  PROVE  ScanInv /\ [ScanNext]_scanVars => ScanInv'
<1>. SUFFICES ASSUME ScanInv, [ScanNext]_scanVars PROVE ScanInv'
  OBVIOUS
<1>1. ScanTypeOK'
  BY ScanTypeStep DEF ScanInv
<1>. QED
  BY <1>1, WorldStep, PassingStep, ReachedStep, BehindStep, SkipStep DEF ScanInv

THEOREM ScanInvariance ==
  ASSUME Delays
  PROVE  ScanSpec => []ScanInv
<1>1. ScanInit => ScanInv
  BY ScanInvInit
<1>2. ScanInv /\ [ScanNext]_scanVars => ScanInv'
  BY ScanInvStep
<1>. QED BY <1>1, <1>2, PTL DEF ScanSpec

LEMMA ScanTypeInvariance == ScanSpec => [](ScanTypeOK /\ Passing)
<1>1. ScanInit => ScanTypeOK /\ Passing
  BY ScanTypeInit DEF ScanInit, Passing, Resting
<1>2. ScanTypeOK /\ Passing /\ [ScanNext]_scanVars => ScanTypeOK' /\ Passing'
  BY ScanTypeStep, PassingStep
<1>. QED BY <1>1, <1>2, PTL DEF ScanSpec

(* Every variable stays in its type, and only what the API returned is      *)
(* journaled, whatever the delays of the world.                             *)
THEOREM ScanTypeCorrect == ScanSpec => []ScanTypeOK
BY ScanTypeInvariance, PTL

(* An outage of the watcher or of the API delays the detection of a payment *)
(* and never skips one: the cursor of scan() stays at or before every       *)
(* transfer that is not in the journal, as long as the delays of the world  *)
(* are within the lag.                                                      *)
THEOREM NoneSkipped ==
  ASSUME Delays
  PROVE  ScanSpec => []NothingSkipped
<1>1. ScanInv => NothingSkipped
  BY DEF ScanInv
<1>. QED BY <1>1, ScanInvariance, PTL

(* The cursor never falls, whatever the delays.                            *)
THEOREM CursorForwards == ScanSpec => CursorForward
<1>1. ASSUME ScanTypeOK, Passing, ScanNext, cursor.set
      PROVE  cursor'.at >= cursor.at
  <2>0. cursor \in [set : BOOLEAN, at : Int]
    BY <1>1 DEF ScanTypeOK
  <2>1. CASE cursor' = cursor
    BY <2>0, <2>1
  <2>2. CASE Start
    BY <1>1, <2>0, <2>2 DEF Start
  <2>3. CASE WriteCursor
    BY <1>1, <2>0, <2>1, <2>3, NextCursorType DEF WriteCursor
  <2>. QED
    BY <1>1, <2>1, <2>2, <2>3
       DEF ScanNext, Watcher, ClockTick, Confirm, Appear, Fetch, PageDone, IngestRow, Fail, Crash
<1>2. ScanTypeOK /\ Passing /\ [ScanNext]_scanVars => [cursor.set => cursor'.at >= cursor.at]_scanVars
  BY <1>1
<1>. QED BY <1>2, ScanTypeInvariance, PTL DEF ScanSpec, CursorForward

==============================================================================
