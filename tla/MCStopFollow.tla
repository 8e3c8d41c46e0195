---------------------------- MODULE MCStopFollow ----------------------------
(* Two grids on a position of three parts: two takes over the entry, then  *)
(* one in their place; after a1 a stop of its own.                          *)
EXTENDS StopFollow

CONSTANTS g1, g2, a1, a2, b1
MCTakesOf == (g1 :> <<a1, a2>>) @@ (g2 :> <<b1>>)
MCPrice == (a1 :> 4) @@ (a2 :> 6) @@ (b1 :> 4)
MCStopAfter == (a1 :> 1) @@ (a2 :> 0) @@ (b1 :> 0)
=============================================================================
