---------------------------- MODULE MCTournaments -----------------------------
(***************************************************************************)
(* Instances of Tournaments: a duel for one place, an arena by the clock    *)
(* with more prizes than players, teams, and a fee nobody can afford.        *)
(***************************************************************************)
EXTENDS Tournaments

CONSTANTS ann, bob, cat

Offer(fee, bonus, shares, max, teams, scheduled) ==
  [fee |-> fee, bonus |-> bonus, shares |-> shares, max |-> max, size |-> max \div 2,
   teams |-> teams, scheduled |-> scheduled, lead |-> IF scheduled THEN 1 ELSE 0]

MCOffers == {Offer(1, 1, <<100>>, 2, FALSE, FALSE),
             Offer(1, 2, <<50, 30, 20>>, 4, FALSE, TRUE),
             Offer(1, 1, <<100>>, 4, TRUE, FALSE),
             Offer(4, 0, <<100>>, 2, FALSE, FALSE)}
MCSources == {"game.tournament"}
MCDailyCap == [s \in Sources |-> 3]
MCDailyCoins == <<1>>
==============================================================================
