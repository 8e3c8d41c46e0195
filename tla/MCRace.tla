------------------------------- MODULE MCRace --------------------------------
(***************************************************************************)
(* Instances of Race.                                                      *)
(***************************************************************************)
EXTENDS Race, TLC

CONSTANTS ann, bob

MCSources == {"game.race"}
MCDailyCap == [s \in Sources |-> 10]
MCDailyCoins == <<1, 2>>
==============================================================================
