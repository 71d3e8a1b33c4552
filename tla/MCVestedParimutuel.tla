------------------------ MODULE MCVestedParimutuel ------------------------
(* Small instances of VestedParimutuel: constants that a .cfg cannot write. *)
EXTENDS VestedRefinement, SeedRule

CONSTANTS alice, bob, feed

Unbounded == KAPPA_UNBOUNDED

(* A seed that the clamp cuts for a small kappa and that does not divide evenly. *)
UnevenSeeds == {<<3, 7>>}
MixedKappas == {2, Unbounded}
ThreeWaySeeds == {<<1, 2, 3>>}

(* With the last of these a third of the seed, staked again, overflows a capacity. *)
Large == 2000
AllKappas == {1, 2, Large, Unbounded}
LargeKappa == {Large}

=============================================================================
