------------------------- MODULE ParimutuelSettler -------------------------
(***************************************************************************)
(* What the surface contracts/src/interfaces/IParimutuelSettler.sol        *)
(* promises of one market, whichever settler is behind it.  A stake is     *)
(* offered; the settler decides, once, how much of it it accepts and how   *)
(* much it owes back; one winner or a void is declared, once; every stake  *)
(* is then paid once, a winner at least its principal and a void exactly   *)
(* it; and at every moment the balance covers what is still owed.  How     *)
(* much is accepted and what a winner gains are settler-defined, so they   *)
(* are left open here.                                                     *)
(***************************************************************************)
EXTENDS Integers, Sequences, Sums

CONSTANT N          \* number of outcomes, N >= 2

VARIABLES
  status,           \* "None" before create, then the Status of the interface
  winner,           \* the realized outcome, 0 until there is one
  stakes,           \* the market's positions, in the order they were taken
  balance,          \* tokens the settler holds for this market
  residueTaken      \* the residue owner has been paid

settlerVars == <<status, winner, stakes, balance, residueTaken>>

(* A stake is split when it is decided: undecided = accepted + remainder. *)
Stake == [outcome: 1..N, undecided: Nat, accepted: Nat, remainder: Nat, claimed: BOOLEAN]

(* A later list of stakes in which some more of the offers have been decided. *)
Decision(old, new) ==
  /\ Len(new) = Len(old)
  /\ \A i \in 1..Len(old) :
       \/ new[i] = old[i]
       \/ /\ old[i].undecided > 0
          /\ new[i] = [old[i] EXCEPT !.undecided = 0, !.accepted = new[i].accepted,
                                     !.remainder = new[i].remainder]
          /\ new[i].accepted >= 0 /\ new[i].remainder >= 0
          /\ new[i].accepted + new[i].remainder = old[i].undecided

(* What a stake is owed for certain: all of it while the market may still void,
   then its principal unless it lost, then nothing but an unpaid remainder. *)
Owed(s) ==
  s.undecided + s.remainder +
  (IF s.claimed \/ (status = "Resolved" /\ s.outcome # winner) THEN 0 ELSE s.accepted)

TotalOwed == Sum([i \in 1..Len(stakes) |-> Owed(stakes[i])], Len(stakes))

Covered == balance >= TotalOwed

-----------------------------------------------------------------------------
(* create: a decided, non-empty stake on every outcome, and nothing else. *)
Create ==
  /\ status = "None"
  /\ status' = "Open"
  /\ Len(stakes') = N
  /\ \A o \in 1..N : /\ stakes'[o] = [outcome |-> o, undecided |-> 0, remainder |-> 0,
                                      accepted |-> stakes'[o].accepted, claimed |-> FALSE]
                     /\ stakes'[o].accepted > 0
  /\ balance' = Sum([o \in 1..N |-> stakes'[o].accepted], N)
  /\ UNCHANGED <<winner, residueTaken>>

(* enter: one more stake, decided at once or left for later. *)
Enter ==
  LET k == Len(stakes) + 1
  IN /\ status = "Open"
     /\ Len(stakes') = k
     /\ Decision(stakes, SubSeq(stakes', 1, k - 1))
     /\ stakes'[k].remainder = 0 /\ ~stakes'[k].claimed
     /\ stakes'[k].outcome \in 1..N
     /\ stakes'[k].undecided + stakes'[k].accepted > 0
     /\ balance' = balance + stakes'[k].undecided + stakes'[k].accepted
     /\ UNCHANGED <<status, winner, residueTaken>>

(* Offers may be decided at any time while the market is open. *)
Decide ==
  /\ status = "Open"
  /\ Decision(stakes, stakes')
  /\ UNCHANGED <<status, winner, balance, residueTaken>>

(* resolve and voidMarket: final, and every offer is decided by then. *)
Settle ==
  /\ status = "Open"
  /\ \/ status' = "Resolved" /\ winner' \in 1..N
     \/ status' = "Voided" /\ UNCHANGED winner
  /\ Decision(stakes, stakes')
  /\ \A i \in 1..Len(stakes') : stakes'[i].undecided = 0
  /\ UNCHANGED <<balance, residueTaken>>

(* withdrawRefund: exactly the remainder, once. *)
WithdrawRefund(i) ==
  \E r \in {balance - balance'} :
    /\ r > 0
    /\ stakes'[i].remainder = 0 /\ stakes'[i].undecided = 0
    /\ Decision(stakes, [stakes' EXCEPT ![i].remainder = r])
    /\ UNCHANGED <<status, winner, residueTaken>>

(* claim: the remainder and, on void, the principal; a loser gets no more than its
   remainder, and a winner at least its principal on top of it. *)
Claim(i) ==
  LET s == stakes[i]
      settlement == balance - balance' - s.remainder
  IN /\ status \in {"Resolved", "Voided"}
     /\ ~s.claimed
     /\ stakes' = [stakes EXCEPT ![i].claimed = TRUE, ![i].remainder = 0]
     /\ \/ status = "Voided" /\ settlement = s.accepted
        \/ status = "Resolved" /\ s.outcome # winner /\ settlement = 0
        \/ status = "Resolved" /\ s.outcome = winner /\ settlement >= s.accepted
     /\ Covered'
     /\ UNCHANGED <<status, winner, residueTaken>>

(* claimResidue: once, after every winner, and it leaves exactly what is owed. *)
ClaimResidue ==
  /\ status = "Resolved"
  /\ ~residueTaken
  /\ \A i \in 1..Len(stakes) :
       stakes[i].outcome = winner /\ stakes[i].accepted > 0 => stakes[i].claimed
  /\ residueTaken' = TRUE
  /\ balance' = TotalOwed /\ balance' <= balance
  /\ UNCHANGED <<status, winner, stakes>>

-----------------------------------------------------------------------------
Init == status = "None" /\ winner = 0 /\ stakes = <<>> /\ balance = 0 /\ residueTaken = FALSE

Next ==
  \/ Create \/ Enter \/ Decide \/ Settle \/ ClaimResidue
  \/ \E i \in 1..Len(stakes) : WithdrawRefund(i) \/ Claim(i)

Spec == Init /\ [][Next]_settlerVars

=============================================================================
