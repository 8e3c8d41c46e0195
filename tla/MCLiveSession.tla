---------------------------- MODULE MCLiveSession ----------------------------
(* Three levels at 2, 3 and 4, sold a step above; the two lower ones, once  *)
(* sold, take the stop from 1 to where they were bought.                    *)
EXTENDS LiveSession, TLC

ToTheirBuys == (0 :> 2) @@ (1 :> 3) @@ (2 :> 0)
==============================================================================
