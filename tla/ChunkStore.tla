----------------------------- MODULE ChunkStore -----------------------------
(***************************************************************************)
(* What RegionFile promises to saveChunk and loadChunk: a map from chunk   *)
(* positions to chunk images in which a save takes effect at one instant,  *)
(* wholly or not at all.  A crash drops the saves that are under way and   *)
(* changes nothing that was committed.  The module is the abstract         *)
(* specification that RegionFile.tla is shown to implement.                *)
(***************************************************************************)
CONSTANTS
  Writers,  \* the threads that save
  Slots,    \* chunk positions of the file
  Values,   \* chunk images
  Absent    \* the answer for a position without a chunk; also "no save"

VARIABLES
  store,    \* the image each position holds
  pending   \* the save each thread has under way

vars == <<store, pending>>

TypeOK ==
  /\ store \in [Slots -> Values \cup {Absent}]
  /\ pending \in [Writers -> (Slots \X Values) \cup {Absent}]

Init ==
  /\ store = [s \in Slots |-> Absent]
  /\ pending = [w \in Writers |-> Absent]

Begin(w, s, v) ==
  /\ pending[w] = Absent
  /\ pending' = [pending EXCEPT ![w] = <<s, v>>]
  /\ UNCHANGED store

Commit(w) ==
  /\ pending[w] # Absent
  /\ store' = [store EXCEPT ![pending[w][1]] = pending[w][2]]
  /\ pending' = [pending EXCEPT ![w] = Absent]

\* A save fails half-way and is given up.
Drop(w) ==
  /\ pending[w] # Absent
  /\ pending' = [pending EXCEPT ![w] = Absent]
  /\ UNCHANGED store

\* The process dies: every save under way is forgotten.
Abort ==
  /\ pending' = [w \in Writers |-> Absent]
  /\ UNCHANGED store

Next ==
  \/ \E w \in Writers, s \in Slots, v \in Values : Begin(w, s, v)
  \/ \E w \in Writers : Commit(w) \/ Drop(w)
  \/ Abort

Spec == Init /\ [][Next]_vars
=============================================================================
