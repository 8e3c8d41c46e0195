------------------------------ MODULE MCJetpack -------------------------------
(***************************************************************************)
(* Instances of Jetpack: a flight of two ticks with the multipliers 1.00,   *)
(* 1.50 and 2.00, and the faults each run allows.                           *)
(***************************************************************************)
EXTENDS Jetpack, TLC

Flight == (100 :> 0) @@ (150 :> 1) @@ (200 :> 2)

Death == {<<"process", "fail">>}
PayFaults == {<<"payout", "fail">>, <<"payout", "lost">>}
FinishFaults == {<<"finish", "fail">>, <<"finish", "lost">>}
BetFails == {<<"bet", "fail">>}
BetLost == {<<"bet", "lost">>}
OpenFaults == {<<"open", "fail">>, <<"open", "lost">>}
BootFaults == {<<"boot", "fail">>, <<"boot", "lost">>}

Survivable == Death \cup PayFaults \cup FinishFaults \cup BetFails
AllFaults == Survivable \cup BetLost \cup OpenFaults \cup BootFaults

Symmetric == Permutations(Users) \cup Permutations(Rounds)
==============================================================================
