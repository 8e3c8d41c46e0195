----------------------------- MODULE MCGameTables -----------------------------
(***************************************************************************)
(* Instances of GameTables: two or three players with two coins each, and   *)
(* the faults each run allows.                                             *)
(***************************************************************************)
EXTENDS GameTables, TLC

Survivable == {<<"process", "fail">>, <<"start", "fail">>, <<"commit", "fail">>,
                <<"cashout", "fail">>, <<"cashout", "lost">>}

Symmetric == Permutations(Users) \cup Permutations(SeatIds) \cup Permutations(Hands)
==============================================================================
