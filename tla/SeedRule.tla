------------------------------ MODULE SeedRule ------------------------------
(***************************************************************************)
(* What _seedClamp is for: the seed a market opens with keeps Rule 2, on   *)
(* every call of create a small market could see.                          *)
(***************************************************************************)
EXTENDS VestedParimutuel

CONSTANT MaxSeed      \* bound on an offered leg

ASSUME MaxSeedAssumption == MaxSeed \in Nat

(* A vector of legs within the offer, none above kappa times another one. *)
RuleTwo(legs, offered, k) ==
  \A o \in Outcomes : /\ legs[o] <= offered[o]
                      /\ \A w \in Outcomes \ {o} : Cut(legs[o], Times(k, legs[w])) = legs[o]

(* create's comment: "the accepted legs are the greatest a_o <= seed[o] with
   a_o <= kappa * min a_w", and the one on MAX_CLAMP_PASSES: the loop "converges in
   <= 2 passes".  The legs a market opens with satisfy Rule 2, every other vector
   that does lies below them leg by leg, and ClampDidNotConverge is never raised. *)
ClampIsGreatest ==
  status = "None" /\ blockNo = 1 =>
    LET Offers == [Outcomes -> 0..MaxSeed]
    IN  \A offered \in Offers, k \in Kappas :
          LET legs == SeedClamp(offered, k)
          IN  /\ Converged(offered, k)
              /\ ClampAfter(offered, k, 2) = legs
              /\ RuleTwo(legs, offered, k)
              /\ \A other \in Offers :
                   RuleTwo(other, offered, k) => \A o \in Outcomes : other[o] <= legs[o]

=============================================================================
