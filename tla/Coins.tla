-------------------------------- MODULE Coins --------------------------------
(***************************************************************************)
(* CoinsService: the balance of every user and the journal of movements.   *)
(* Every changing method takes the caller's transaction, so a movement is  *)
(* an operator from a ledger to a ledger, and the component that moves     *)
(* coins applies it inside its own action.  The unique key of the journal  *)
(* (user, kind, ref) is what makes an event payable once: a movement under *)
(* a key that is taken aborts the caller's transaction.                    *)
(***************************************************************************)
EXTENDS Integers, FiniteSets, Functions

CONSTANTS Users,         \* accounts
          StartingCoins  \* balance of a new account

ASSUME StartingCoinsAssumption == StartingCoins \in Nat
ASSUME UsersAssumption == IsFiniteSet(Users)

(* A ledger is [balance, rows]; a row is [user, kind, ref, delta].         *)
NewLedger == [balance |-> [u \in Users |-> StartingCoins], rows |-> {}]

Row(u, kind, ref, delta) == [user |-> u, kind |-> kind, ref |-> ref, delta |-> delta]

(* The journal has no row under the key yet (coin_tx_once).                *)
Fresh(L, u, kind, ref) ==
  \A r \in L.rows : ~ (r.user = u /\ r.kind = kind /\ r.ref = ref)

(* A mutant of Move: the journal row is forgotten.                         *)
MoveUnjournaled(L, u, delta, kind, ref) == [L EXCEPT !.balance[u] = @ + delta]

Move(L, u, delta, kind, ref) ==
  [balance |-> [L.balance EXCEPT ![u] = @ + delta],
   rows    |-> L.rows \cup {Row(u, kind, ref, delta)}]

(* charge(): compare-and-set in the UPDATE itself, then the journal row.   *)
CanCharge(L, u, n, kind, ref) ==
  n > 0 => L.balance[u] >= n /\ Fresh(L, u, kind, ref)
Charge(L, u, n, kind, ref) == IF n > 0 THEN Move(L, u, - n, kind, ref) ELSE L

(* credit(): an amount of zero leaves no trace.                            *)
CanCredit(L, u, n, kind, ref) == n > 0 => Fresh(L, u, kind, ref)
Credit(L, u, n, kind, ref) == IF n > 0 THEN Move(L, u, n, kind, ref) ELSE L

-----------------------------------------------------------------------------
(* What one committed transaction may make of a ledger, whatever it charges *)
(* and credits: any rows under free keys, applied to the balances at once.  *)

KeysUnique(rows) ==
  \A r, s \in rows :
    r.user = s.user /\ r.kind = s.kind /\ r.ref = s.ref => r = s

SumDelta(rows, u) == SumFunctionOnSet([r \in rows |-> r.delta], {r \in rows : r.user = u})

Posts(L, K) ==
  /\ L.rows \subseteq K.rows
  /\ KeysUnique(K.rows)
  /\ K.balance = [u \in Users |-> L.balance[u] + SumDelta(K.rows \ L.rows, u)]
  /\ \A u \in Users : K.balance[u] >= 0

==============================================================================
