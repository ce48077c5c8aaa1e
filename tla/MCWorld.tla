------------------------------ MODULE MCWorld ------------------------------
(* World for TLC: two chunks of two blocks, in view of each other.         *)
EXTENDS World, TLC

CONSTANTS home, next, low, high, air, stone, grass, ore

MCGround == (low :> grass) @@ (high :> air)

\* A chunk of another generator.
MCImports == {(low :> ore) @@ (high :> ore)}

MCAround == [c \in {home, next} |-> {home, next}]
=============================================================================
