------------------------------ MODULE MCPassPage ------------------------------
(***************************************************************************)
(* Instances of PassPage: two sources, one of them with a cap that cuts an  *)
(* award short, a season that ends, and a cycle longer than the days there  *)
(* are, or one of two days that comes round.                                *)
(***************************************************************************)
EXTENDS PassPage, TLC

CONSTANTS ann, j1, j2, t1, t2

MCSources == {"game.race", "trade.open"}
MCDailyCap == ("game.race" :> 1) @@ ("trade.open" :> 10)
MCEventXp == ("game.race" :> 2) @@ ("trade.open" :> 3)
MCRefs == {<<"event", 1>>}
MCDailyCoins == <<1, 2, 3>>
MCTwoDays == <<1, 2>>

Symmetric == Permutations(Jobs) \cup Permutations(Tabs)
==============================================================================
