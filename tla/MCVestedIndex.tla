--------------------------- MODULE MCVestedIndex ---------------------------
(* A market the factory opens with a leg the clamp cuts, for one more user. *)
EXTENDS VestedSurfaces

CONSTANTS factory, alice, bob, feed

CutSeed == {<<2, 5>>}
Two == {2}
=============================================================================
