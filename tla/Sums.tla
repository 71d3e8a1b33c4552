-------------------------------- MODULE Sums --------------------------------
(***************************************************************************)
(* The one aggregate the settlers compute in a loop: the sum of a list of  *)
(* amounts.  It is written as a recursive function, not as a fold over an  *)
(* operator, so that SumTheorems can prove what it computes.               *)
(***************************************************************************)
EXTENDS Integers

(* f[1] + ... + f[k]; every `t += xs[i]' loop of the contracts. *)
Sum(f, k) == LET s[i \in 0..k] == IF i = 0 THEN 0 ELSE s[i-1] + f[i] IN s[k]

=============================================================================
