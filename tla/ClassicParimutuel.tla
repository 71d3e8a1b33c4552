------------------------- MODULE ClassicParimutuel -------------------------
(***************************************************************************)
(* One market of contracts/src/ClassicParimutuel.sol, the settler without  *)
(* vesting: every stake is accepted in full and every unit on the winning  *)
(* outcome is paid the same multiple.  As in VestedParimutuel, a function  *)
(* is one atomic action whose guard is the conjunction of its reverts,     *)
(* outcome o of the code is o+1, and escrow is this market's part of the   *)
(* token balance.  withdrawRefund always reverts, so it is no action.      *)
(***************************************************************************)
EXTENDS Integers, Sequences, FiniteSets, FiniteSetsExt, Sums

CONSTANTS
  N,                  \* m.n, the number of outcomes
  MaxU128,            \* type(uint128).max
  Users,              \* addresses that may hold positions
  Creator,            \* msg.sender of create
  Resolver,           \* m.resolver
  ResidueOwner,       \* m.residueOwner
  ResolutionTime,     \* m.resolutionTime, the freeze
  VoidTimeout,        \* m.voidTimeout
  Seeds,              \* seed vectors create may be called with
  Amounts,            \* amounts enter may be called with
  MaxPositions,       \* bound: positions ever pushed
  MaxTime             \* bound: block.timestamp

ASSUME OutcomeAssumption == N \in Nat /\ N >= 2
ASSUME UserAssumption == Creator \in Users /\ ResidueOwner \in Users
ASSUME TimeAssumption == ResolutionTime \in Nat /\ VoidTimeout \in Nat
ASSUME InputAssumption == /\ Seeds \subseteq [1..N -> Nat]
                          /\ Amounts \subseteq Nat
ASSUME BoundAssumption == MaxU128 \in Nat /\ MaxPositions \in Nat /\ MaxTime \in Nat

Outcomes == 1..N

VARIABLES
  now,             \* block.timestamp
  status,          \* m.status; "None" until the market is created
  winner,          \* m.winner, 0 until resolved
  books,           \* m.books
  positions,       \* the market's slice of positions[]
  acceptedPool,    \* m.acceptedPool
  paidOut,         \* m.paidOut
  residueClaimed,  \* m.residueClaimed
  seen,            \* seen[marketId]: the addresses that have staked
  distinctParticipants,  \* m.distinctParticipants
  escrow           \* the settler's token balance held for this market

settleVars == <<status, winner>>
ledgerVars == <<books, positions, acceptedPool>>
crowdVars == <<seen, distinctParticipants>>
vars == <<now, settleVars, ledgerVars, crowdVars, paidOut, residueClaimed, escrow>>

Book == [principal: Nat, live: Int]

(* offered always equals accepted, so one of the two is kept. *)
Position == [owner: Users, outcome: Outcomes, accepted: Nat, claimed: BOOLEAN]

Count == Len(positions)

NewPosition(u, o, amount) ==
  [owner |-> u, outcome |-> o, accepted |-> amount, claimed |-> FALSE]

-----------------------------------------------------------------------------
Create(seed) ==
  /\ status = "None"
  /\ ResolutionTime > now
  /\ \A o \in Outcomes : seed[o] # 0 /\ seed[o] <= MaxU128
  /\ status' = "Open"
  /\ books' = [o \in Outcomes |-> [principal |-> seed[o], live |-> 1]]
  /\ positions' = [o \in Outcomes |-> NewPosition(Creator, o, seed[o])]
  /\ acceptedPool' = Sum(seed, N)
  /\ seen' = {Creator}
  /\ distinctParticipants' = 1
  /\ escrow' = escrow + Sum(seed, N)
  /\ UNCHANGED <<now, winner, paidOut, residueClaimed>>

(* Mutant of Participants: every entry counts as a new participant. *)
ParticipantsPerEntry(u) == distinctParticipants + 1

Participants(u) == IF u \in seen THEN distinctParticipants ELSE distinctParticipants + 1

Booked(o, amount) == [books EXCEPT ![o].principal = @ + amount, ![o].live = @ + 1]

Enter(u, o, amount) ==
  /\ status = "Open"
  /\ now < ResolutionTime
  /\ o \in Outcomes
  /\ amount # 0
  /\ amount <= MaxU128
  /\ Count < MaxPositions
  /\ books' = Booked(o, amount)
  /\ acceptedPool' = acceptedPool + amount
  /\ seen' = seen \cup {u}
  /\ distinctParticipants' = Participants(u)
  /\ positions' = Append(positions, NewPosition(u, o, amount))
  /\ escrow' = escrow + amount
  /\ UNCHANGED <<now, settleVars, paidOut, residueClaimed>>

(* A market with one participant, or with nothing on the winner, is voided. *)
Verdict(w) ==
  IF distinctParticipants < 2 \/ books[w].principal = 0
  THEN status' = "Voided" /\ UNCHANGED winner
  ELSE status' = "Resolved" /\ winner' = w

Resolve(u, w) ==
  /\ status = "Open"
  /\ u = Resolver
  /\ now >= ResolutionTime
  /\ w \in Outcomes
  /\ Verdict(w)
  /\ UNCHANGED <<now, ledgerVars, crowdVars, paidOut, residueClaimed, escrow>>

VoidMarket(u) ==
  /\ status = "Open"
  /\ \/ u = Resolver /\ now >= ResolutionTime
     \/ now >= ResolutionTime + VoidTimeout
  /\ status' = "Voided"
  /\ UNCHANGED <<now, winner, ledgerVars, crowdVars, paidOut, residueClaimed, escrow>>

(* What position p is paid in the branch where w wins. *)
Share(p, w) ==
  IF p.outcome # w \/ books[w].principal = 0 THEN 0
  ELSE (acceptedPool * p.accepted) \div books[w].principal

(* Mutant of Payout: the losing side is paid too. *)
PayoutAnySide(p) == (acceptedPool * p.accepted) \div books[winner].principal

(* floor(pool * stake / winningPrincipal), and nothing to the losing side. *)
Payout(p) == Share(p, winner)

(* Mutant of Released: only a refund releases the position. *)
ReleasedOnVoid(p) ==
  IF status = "Voided" THEN [books EXCEPT ![p.outcome].live = @ - 1] ELSE books

(* A claimed position no longer holds the residue back. *)
Released(p) ==
  IF p.accepted > 0 THEN [books EXCEPT ![p.outcome].live = @ - 1] ELSE books

Claim(u, i) ==
  LET p == positions[i]
      payout == IF status = "Voided" THEN 0 ELSE Payout(p)
      refund == IF status = "Voided" THEN p.accepted ELSE 0
  IN /\ p.owner = u
     /\ ~p.claimed
     /\ status \in {"Resolved", "Voided"}
     /\ paidOut' = paidOut + payout
     /\ positions' = [positions EXCEPT ![i].claimed = TRUE]
     /\ books' = Released(p)
     /\ escrow' = escrow - (payout + refund)
     /\ UNCHANGED <<now, settleVars, acceptedPool, crowdVars, residueClaimed>>

TransferPosition(u, i, to) ==
  /\ positions[i].owner = u
  /\ ~positions[i].claimed
  /\ positions' = [positions EXCEPT ![i].owner = to]
  /\ UNCHANGED <<now, settleVars, books, acceptedPool, crowdVars, paidOut,
                 residueClaimed, escrow>>

ClaimResidue(u) ==
  /\ status = "Resolved"
  /\ u = ResidueOwner
  /\ ~residueClaimed
  /\ books[winner].live = 0
  /\ residueClaimed' = TRUE
  /\ escrow' = escrow - (acceptedPool - paidOut)
  /\ UNCHANGED <<now, settleVars, ledgerVars, crowdVars, paidOut>>

(* block.timestamp moves on. *)
Tick ==
  /\ now < MaxTime
  /\ now' = now + 1
  /\ UNCHANGED <<settleVars, ledgerVars, crowdVars, paidOut, residueClaimed, escrow>>

-----------------------------------------------------------------------------
Init ==
  /\ now = 0 /\ status = "None" /\ winner = 0
  /\ books = [o \in Outcomes |-> [principal |-> 0, live |-> 0]]
  /\ positions = <<>> /\ acceptedPool = 0 /\ paidOut = 0 /\ residueClaimed = FALSE
  /\ seen = {} /\ distinctParticipants = 0 /\ escrow = 0

Next ==
  \/ \E seed \in Seeds : Create(seed)
  \/ \E u \in Users, o \in Outcomes, amount \in Amounts : Enter(u, o, amount)
  \/ \E u \in Users \cup {Resolver}, w \in Outcomes : Resolve(u, w)
  \/ \E u \in Users \cup {Resolver} : VoidMarket(u)
  \/ \E u \in Users, i \in 1..Count : Claim(u, i)
  \/ \E u \in Users, to \in Users, i \in 1..Count : TransferPosition(u, i, to)
  \/ \E u \in Users : ClaimResidue(u)
  \/ Tick

Spec == Init /\ [][Next]_vars

(* Time passes, somebody voids a market whose timeout passed, owners claim what
   they hold and the residue owner the rest. *)
FairSpec ==
  /\ Spec
  /\ WF_vars(Tick)
  /\ WF_vars(\E u \in Users : VoidMarket(u))
  /\ WF_vars(\E u \in Users, i \in 1..Count : Claim(u, i))
  /\ WF_vars(\E u \in Users : ClaimResidue(u))

-----------------------------------------------------------------------------
(* Properties.                                                             *)

Settled == status \in {"Resolved", "Voided"}

Over(F(_)) == Sum([i \in 1..Count |-> F(positions[i])], Count)

AcceptedOf(p) == p.accepted

(* An open market is settled in the end, and a settled one empties. *)
EventuallyDrained == status = "Open" ~> Settled /\ escrow = 0

(* The positions as the stakes of the interface: decided on entry, in full. *)
StakesOf == [i \in 1..Count |->
  [outcome |-> positions[i].outcome, undecided |-> 0, accepted |-> positions[i].accepted,
   remainder |-> 0, claimed |-> positions[i].claimed]]

Settler == INSTANCE ParimutuelSettler
  WITH stakes <- StakesOf, balance <- escrow, residueTaken <- residueClaimed

(* The classic settler keeps every promise of IParimutuelSettler. *)
ImplementsSettler == Settler!Spec

=============================================================================
