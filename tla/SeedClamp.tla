----------------------------- MODULE SeedClamp -----------------------------
(***************************************************************************)
(* _seedClamp of contracts/src/VestedParimutuel.sol, and the arithmetic    *)
(* with the unbounded coefficient that it shares with the rest of the      *)
(* settler.  Outcome o of the code is o+1 here.                            *)
(***************************************************************************)
EXTENDS Integers, FiniteSetsExt

CONSTANTS
  N,                  \* |O|, the number of outcomes
  MAX_CLAMP_PASSES,   \* bound on the passes of the seed clamp
  MaxU256             \* type(uint256).max

Outcomes == 1..N

ASSUME SizeAssumption == N \in Nat /\ N >= 2
ASSUME PassAssumption == MAX_CLAMP_PASSES \in Nat /\ MAX_CLAMP_PASSES >= 2
ASSUME WordAssumption == MaxU256 \in Nat

(* The sentinel for an unbounded coefficient, outside the naturals. *)
KAPPA_UNBOUNDED == -1

(* kappa * x, with unbounded * 0 = 0. *)
Times(k, x) ==
  IF k = KAPPA_UNBOUNDED THEN (IF x = 0 THEN 0 ELSE KAPPA_UNBOUNDED) ELSE k * x

(* Caps compare as uint256, where the sentinel is the largest value. *)
Cut(x, cap) == IF cap # KAPPA_UNBOUNDED /\ cap < x THEN cap ELSE x

(* The new value of one leg: the offer, cut to kappa times every other leg. *)
ClampLeg(offered, acc, o, k) ==
  Min({Cut(offered[o], Times(k, acc[w])) : w \in Outcomes \ {o}})

(* Mutant of ClampPass: the inner loop stops after the first leg. *)
FirstLegOnly(offered, acc, k) ==
  [acc EXCEPT ![1] = ClampLeg(offered, acc, 1, k)]

(* One pass updates the legs in order, each from the legs already updated. *)
ClampPass(offered, acc, k) ==
  LET leg[o \in 0..N] ==
        IF o = 0 THEN acc
        ELSE [leg[o-1] EXCEPT ![o] = ClampLeg(offered, leg[o-1], o, k)]
  IN  leg[N]

(* The legs after p passes.  A pass that changes nothing ends the loop, and
   passing over a fixed point again changes nothing either. *)
ClampAfter(offered, k, p) ==
  LET pass[i \in 0..p] ==
        IF i = 0 THEN offered ELSE ClampPass(offered, pass[i-1], k)
  IN  pass[p]

SeedClamp(offered, k) == ClampAfter(offered, k, MAX_CLAMP_PASSES)

(* Some product of a pass does not fit a uint256, and creation reverts.  Legs only
   fall, so the products to look at are the first of each leg: leg 1 is cut before
   it is multiplied, every other leg is multiplied as offered. *)
ClampOverflows(offered, k) ==
  \E w \in Outcomes :
    Times(k, IF w = 1 THEN ClampLeg(offered, offered, 1, k) ELSE offered[w]) > MaxU256

(* Some pass within the bound changed nothing. *)
Converged(offered, k) ==
  SeedClamp(offered, k) = ClampAfter(offered, k, MAX_CLAMP_PASSES - 1)

=============================================================================
