---------------------------- MODULE MCRegionFile ----------------------------
(* RegionFile for TLC: three images, one of them two sectors long.         *)
EXTENDS RegionFile, TLC

CONSTANTS fresh, edited, imported

MCValues == {fresh, edited, imported}

MCSizeOf == (fresh :> 1) @@ (edited :> 1) @@ (imported :> 2)

\* Only an image that was not written by this program deflates so poorly that
\* readChunk's buffer is large enough for it.
MCInflatable == {imported}
=============================================================================
