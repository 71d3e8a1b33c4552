-------------------------- MODULE VestedRefinement --------------------------
(***************************************************************************)
(* The vesting settler as an implementation of the settlement interface.   *)
(* A buffered entry is an undecided stake; the rationing of its vintage    *)
(* decides it; of the seed only the accepted part was ever taken.          *)
(***************************************************************************)
EXTENDS VestedParimutuel

StakesOf == [i \in 1..Count |->
  [outcome   |-> positions[i].outcome,
   undecided |-> OfferPending(positions[i]),
   accepted  |-> positions[i].accepted,
   remainder |-> IF positions[i].finalized THEN Remainder(positions[i]) ELSE 0,
   claimed   |-> positions[i].claimed]]

Settler == INSTANCE ParimutuelSettler
  WITH stakes <- StakesOf, balance <- escrow, residueTaken <- residueClaimed

(* The vesting settler keeps every promise of IParimutuelSettler: no offer is
   decided twice, no stake paid twice, a winner gets its principal at least, a void
   gives it back exactly, and no payment eats into what others are still owed. *)
ImplementsSettler == Settler!Spec

=============================================================================
