------------------------------ MODULE CoinLedger ------------------------------
(***************************************************************************)
(* What the coin economy promises, whatever component moves the coins: the *)
(* journal only grows, no event is paid twice, a balance is always the     *)
(* starting coins plus the journal, and it is never negative.  Components  *)
(* that move coins implement this specification.                           *)
(***************************************************************************)
EXTENDS Coins

VARIABLES
  coins,    \* the balance of every user
  journal   \* the movements posted so far

Init ==
  /\ coins = [u \in Users |-> StartingCoins]
  /\ journal = {}

Post == Posts([balance |-> coins, rows |-> journal], [balance |-> coins', rows |-> journal'])

Spec == Init /\ [][Post]_<<coins, journal>>

==============================================================================
