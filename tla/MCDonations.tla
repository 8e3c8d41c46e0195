----------------------------- MODULE MCDonations ------------------------------
(***************************************************************************)
(* Instances of Donations.  A base of 20 units is 2 USDT; the tails stay    *)
(* below the distance of two bases, as 0.0099 does below 0.01.              *)
(***************************************************************************)
EXTENDS Donations, TLC

CONSTANTS alice, bob

MCInvitedBy == [u \in Users |-> IF u = alice THEN bob ELSE None]
OneTxEach == [t \in Transfers |-> t]
OneBatch == [t \in Transfers |-> CHOOSE x \in Txs : TRUE]
Symmetric == Permutations(Ids) \cup Permutations(Transfers)
==============================================================================
