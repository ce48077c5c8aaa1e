---------------------------- MODULE MCConnection ----------------------------
(***************************************************************************)
(* Connection for TLC: the spawn chunk, one beside it and one across the   *)
(* corner, each sent with its eight neighbours.                            *)
(***************************************************************************)
EXTENDS Connection

MCChunks == {<<0, 0>>, <<0, 1>>, <<2, 1>>}
MCSpawn == <<0, 0>>
=============================================================================
