-------------------------- MODULE VestedParimutuel --------------------------
(***************************************************************************)
(* One market of contracts/src/VestedParimutuel.sol, from creation to the  *)
(* last claim.  The contract keeps many markets in one array; every        *)
(* function touches exactly one of them and its own positions, so a market *)
(* is modelled on its own: its slot, its positions (numbered from 1 in the *)
(* order they are pushed) and the part of the token balance it holds.      *)
(* A transaction that reverts changes nothing, so each guard below is the  *)
(* conjunction of the function's early reverts.                            *)
(*                                                                         *)
(* Outcome o of the code is o+1 here.  What can leave its width does: the  *)
(* accumulator in _u128, and kappa times a stake, or the capacity it adds  *)
(* up to, in a uint256; both revert.  Other sums and products are of       *)
(* amounts below 2^128 and are unbounded.  A capacity of exactly 2^256-1,  *)
(* which the code takes for its own sentinel, is left out.                 *)
(* A subtraction that would underflow, and so revert, is left negative     *)
(* for EscrowBacksLedger to rule out.  The balance is shared by all        *)
(* markets, so nothing in the code stops a market from paying out more     *)
(* than it took in: escrow is its share, and staying above zero is a       *)
(* property.  Every token transfer is the last step of its function, so a  *)
(* function is one atomic action.                                          *)
(***************************************************************************)
EXTENDS SeedClamp, Sequences, Sums

CONSTANTS
  SCALE,              \* fixed-point scale S of the accumulator
  MaxU128,            \* type(uint128).max
  Users,              \* addresses that may hold positions
  Creator,            \* msg.sender of create
  Resolver,           \* m.resolver
  ResidueOwner,       \* m.residueOwner
  ResolutionTime,     \* m.resolutionTime, the freeze
  VoidTimeout,        \* m.voidTimeout
  Seeds,              \* seed vectors create may be called with
  Kappas,             \* capacity coefficients create may be called with
  Amounts,            \* amounts enter may be called with
  MaxPositions,       \* bound: positions ever pushed
  MaxBlock,           \* bound: block.number
  MaxTime             \* bound: block.timestamp

ASSUME ScaleAssumption == SCALE \in Nat /\ SCALE > 0
ASSUME WidthAssumption == MaxU128 \in Nat
ASSUME UserAssumption == Creator \in Users /\ ResidueOwner \in Users
ASSUME TimeAssumption == ResolutionTime \in Nat /\ VoidTimeout \in Nat
ASSUME InputAssumption == /\ Seeds \subseteq [Outcomes -> Nat]
                          /\ Kappas \subseteq Nat \cup {KAPPA_UNBOUNDED}
                          /\ Amounts \subseteq Nat
ASSUME BoundAssumption == MaxPositions \in Nat /\ MaxBlock \in Nat /\ MaxTime \in Nat

VARIABLES
  blockNo,         \* block.number
  now,             \* block.timestamp
  status,          \* m.status; "None" until the market is created
  winner,          \* m.winner, 0 until resolved
  kappa,           \* m.kappa
  books,           \* m.books
  positions,       \* the market's slice of positions[]
  pending,         \* m.pending: the position ids of the open vintage
  vintageOpen,     \* m.vintageOpen
  vintageBlock,    \* m.vintageBlock
  acceptedPool,    \* m.acceptedPool
  paidOut,         \* m.paidOut
  residueClaimed,  \* m.residueClaimed
  escrow           \* the settler's token balance held for this market

chainVars == <<blockNo, now>>
vintageVars == <<pending, vintageOpen, vintageBlock>>
settleVars == <<status, winner>>
ledgerVars == <<books, positions, acceptedPool>>
vars == <<chainVars, settleVars, kappa, ledgerVars, vintageVars, paidOut,
          residueClaimed, escrow>>

Book == [principal: Nat, acc: Nat, capacity: Nat \cup {KAPPA_UNBOUNDED},
         vested: Nat, demand: Nat, live: Int]

Position == [owner: Users, outcome: Outcomes, finalized: BOOLEAN,
             refunded: BOOLEAN, claimed: BOOLEAN, vintage: Nat,
             offered: Nat, accepted: Nat, entryAcc: Nat]

-----------------------------------------------------------------------------
(* Creation and capacity.                                                  *)

(* Mutant of AddCapacity: the sentinel is added like any number. *)
AddCapacityPlain(c, d) == c + d

AddCapacity(c, d) ==
  IF KAPPA_UNBOUNDED \in {c, d} THEN KAPPA_UNBOUNDED ELSE c + d

(* H_w = C_w - V_w, saturating at 0. *)
Headroom(b) ==
  IF b.capacity = KAPPA_UNBOUNDED THEN KAPPA_UNBOUNDED
  ELSE IF b.capacity > b.vested THEN b.capacity - b.vested ELSE 0

(* Book w opens with its leg as principal, and the other legs vested into it. *)
SeedBook(leg, w, total, k) ==
  [principal |-> leg[w], capacity |-> Times(k, leg[w]), vested |-> total - leg[w],
   acc |-> ((total - leg[w]) * SCALE) \div leg[w], demand |-> 0, live |-> 1]

(* The creator's leg on w; what the clamp refused was never pulled. *)
SeedPosition(seed, leg, w) ==
  [owner |-> Creator, outcome |-> w, finalized |-> TRUE, refunded |-> TRUE,
   claimed |-> FALSE, vintage |-> 0, offered |-> seed[w], accepted |-> leg[w],
   entryAcc |-> 0]

-----------------------------------------------------------------------------
(* Vintages: rationing, vesting and booking of the buffered entries.       *)

(* The books that ration an entry on o: bounded, and short of the demand. *)
RationingBooks(o) ==
  {w \in Outcomes \ {o} : /\ Headroom(books[w]) # KAPPA_UNBOUNDED
                          /\ books[w].demand > Headroom(books[w])}

(* Mutant of Accepted: the loosest share, not the tightest. *)
AcceptedLoosest(p) ==
  IF RationingBooks(p.outcome) = {} THEN p.offered
  ELSE Max({(p.offered * Headroom(books[w])) \div books[w].demand : w \in RationingBooks(p.outcome)})

(* (iii) the accepted part of entry p: its tightest pro-rata share. *)
Accepted(p) ==
  Min({p.offered} \cup
      {(p.offered * Headroom(books[w])) \div books[w].demand : w \in RationingBooks(p.outcome)})

Count == Len(positions)

(* The accepted amounts of the open vintage, 0 for every other position. *)
AcceptedNow == [i \in 1..Count |-> IF i \in pending THEN Accepted(positions[i]) ELSE 0]

Inflow(w) ==
  Sum([i \in 1..Count |-> IF positions[i].outcome # w THEN AcceptedNow[i] ELSE 0], Count)

Stake(w) ==
  Sum([i \in 1..Count |-> IF positions[i].outcome = w THEN AcceptedNow[i] ELSE 0], Count)

(* Mutant of Joiners: it takes in refused entries. *)
JoinersRefusedToo(w) ==
  Sum([i \in 1..Count |-> IF positions[i].outcome = w /\ i \in pending THEN 1 ELSE 0], Count)

Joiners(w) ==
  Sum([i \in 1..Count |-> IF positions[i].outcome = w /\ AcceptedNow[i] > 0 THEN 1 ELSE 0], Count)

(* Mutants of AccAfter: rounded up; against the principal after the vintage;
   recomputed from the totals. *)
AccRoundedUp(w) ==
  books[w].acc + (Inflow(w) * SCALE + books[w].principal - 1) \div books[w].principal
AccAgainstNewPrincipal(w) ==
  books[w].acc + (Inflow(w) * SCALE) \div (books[w].principal + Stake(w))
AccFromTotals(w) ==
  ((books[w].vested + Inflow(w)) * SCALE) \div books[w].principal

(* (i) A_w after the vintage, against the vintage-start principal. *)
AccAfter(w) ==
  IF Inflow(w) > 0 THEN books[w].acc + (Inflow(w) * SCALE) \div books[w].principal
                   ELSE books[w].acc

(* (ii) principal and capacity are booked last. *)
FinalBooks ==
  [w \in Outcomes |->
     [principal |-> books[w].principal + Stake(w),
      acc       |-> AccAfter(w),
      capacity  |-> AddCapacity(books[w].capacity, Times(kappa, Stake(w))),
      vested    |-> books[w].vested + Inflow(w),
      demand    |-> 0,
      live      |-> books[w].live + Joiners(w)]]

(* Mutant of FinalPositions: entries record A before the increments. *)
FinalPositionsEarly ==
  [i \in 1..Count |->
     IF i \in pending
     THEN [positions[i] EXCEPT !.accepted = AcceptedNow[i],
                               !.entryAcc = books[positions[i].outcome].acc,
                               !.finalized = TRUE]
     ELSE positions[i]]

FinalPositions ==
  [i \in 1..Count |->
     IF i \in pending
     THEN [positions[i] EXCEPT !.accepted = AcceptedNow[i],
                               !.entryAcc = AccAfter(positions[i].outcome),
                               !.finalized = TRUE]
     ELSE positions[i]]

(* Mutant of RollDue: one block late. *)
RollDueLate == vintageOpen /\ blockNo > vintageBlock + 1

(* _rollVintage acts only once the vintage's block has passed. *)
RollDue == vintageOpen /\ blockNo > vintageBlock

(* Rolling reverts, and the whole transaction with it: an entry's accumulator does
   not fit _u128, or a capacity grown by kappa times the stakes a uint256. *)
RollReverts ==
  \/ \E i \in pending : AccAfter(positions[i].outcome) > MaxU128
  \/ \E w \in Outcomes : FinalBooks[w].capacity > MaxU256

(* The state after _rollVintage, due or not. *)
BooksAfter(due) == IF due THEN FinalBooks ELSE books
PositionsAfter(due) == IF due THEN FinalPositions ELSE positions
PoolAfter(due) == IF due THEN acceptedPool + Sum(AcceptedNow, Count) ELSE acceptedPool
PendingAfter(due) == IF due THEN {} ELSE pending

(* A function that rolls the vintage and touches nothing else of the ledger. *)
Roll ==
  /\ RollDue => ~RollReverts
  /\ books' = BooksAfter(RollDue)
  /\ positions' = PositionsAfter(RollDue)
  /\ acceptedPool' = PoolAfter(RollDue)
  /\ pending' = PendingAfter(RollDue)
  /\ vintageOpen' = (vintageOpen /\ ~RollDue)
  /\ UNCHANGED vintageBlock

-----------------------------------------------------------------------------
(* The contract's functions.                                               *)

Create(seed, k) ==
  LET leg == SeedClamp(seed, k)
      total == Sum(leg, N)
  IN /\ status = "None"
     /\ k = KAPPA_UNBOUNDED \/ k >= 1
     /\ ResolutionTime > now
     /\ ~ClampOverflows(seed, k)
     /\ Converged(seed, k)
     /\ \A o \in Outcomes : leg[o] # 0
     /\ \A o \in Outcomes : seed[o] <= MaxU128
     /\ status' = "Open"
     /\ kappa' = k
     /\ books' = [w \in Outcomes |-> SeedBook(leg, w, total, k)]
     /\ positions' = [w \in Outcomes |-> SeedPosition(seed, leg, w)]
     /\ acceptedPool' = total
     /\ escrow' = escrow + total
     /\ UNCHANGED <<chainVars, winner, vintageVars, paidOut, residueClaimed>>

(* The entry's demand lands on every opposing book. *)
Enter(u, o, amount) ==
  /\ status = "Open"
  /\ o \in Outcomes
  /\ amount # 0
  /\ now < ResolutionTime
  /\ RollDue => ~RollReverts
  /\ amount <= MaxU128
  /\ Count < MaxPositions
  /\ vintageOpen' = TRUE
  /\ vintageBlock' = IF vintageOpen /\ ~RollDue THEN vintageBlock ELSE blockNo
  /\ positions' = Append(PositionsAfter(RollDue),
        [owner |-> u, outcome |-> o, finalized |-> FALSE, refunded |-> FALSE,
         claimed |-> FALSE, vintage |-> blockNo, offered |-> amount,
         accepted |-> 0, entryAcc |-> 0])
  /\ pending' = PendingAfter(RollDue) \cup {Count + 1}
  /\ books' = [w \in Outcomes |->
                 IF w = o THEN BooksAfter(RollDue)[w]
                 ELSE [BooksAfter(RollDue)[w] EXCEPT !.demand = @ + amount]]
  /\ acceptedPool' = PoolAfter(RollDue)
  /\ escrow' = escrow + amount
  /\ UNCHANGED <<chainVars, settleVars, kappa, paidOut, residueClaimed>>

FinalizeVintage ==
  /\ status # "None"
  /\ Roll
  /\ UNCHANGED <<chainVars, settleVars, kappa, paidOut, residueClaimed, escrow>>

Resolve(u, w) ==
  /\ status = "Open"
  /\ u = Resolver
  /\ now >= ResolutionTime
  /\ w \in Outcomes
  /\ Roll
  /\ status' = "Resolved"
  /\ winner' = w
  /\ UNCHANGED <<chainVars, kappa, paidOut, residueClaimed, escrow>>

VoidMarket(u) ==
  /\ status = "Open"
  /\ \/ u = Resolver /\ now >= ResolutionTime
     \/ now >= ResolutionTime + VoidTimeout
  /\ Roll
  /\ status' = "Voided"
  /\ UNCHANGED <<chainVars, winner, kappa, paidOut, residueClaimed, escrow>>

(* Pulls the refused remainder; only an open market is rolled first. *)
WithdrawRefund(u, i) ==
  LET due == status = "Open" /\ RollDue
      p == PositionsAfter(due)[i]
      refund == p.offered - p.accepted
  IN /\ positions[i].owner = u
     /\ due => ~RollReverts
     /\ p.finalized
     /\ ~p.refunded
     /\ refund # 0
     /\ books' = BooksAfter(due)
     /\ positions' = [PositionsAfter(due) EXCEPT ![i].refunded = TRUE]
     /\ acceptedPool' = PoolAfter(due)
     /\ pending' = PendingAfter(due)
     /\ vintageOpen' = (vintageOpen /\ ~due)
     /\ escrow' = escrow - refund
     /\ UNCHANGED <<chainVars, settleVars, kappa, vintageBlock, paidOut, residueClaimed>>

(* SCALE times what a position on the winning outcome is paid, before flooring. *)
Weight(p) == p.accepted * (SCALE + books[p.outcome].acc - p.entryAcc)

Payout(p) == Weight(p) \div SCALE

Wins(p) == status = "Resolved" /\ p.outcome = winner /\ p.accepted > 0

(* Mutant of Settlement: a void refunds the offer, not the accepted part. *)
SettlementOfOffer(p) ==
  IF status = "Voided" THEN p.offered ELSE IF Wins(p) THEN Payout(p) ELSE 0

(* What a claim pays: a winner its payout, a loser nothing, on void the principal. *)
Settlement(p) ==
  IF status = "Voided" THEN p.accepted ELSE IF Wins(p) THEN Payout(p) ELSE 0

(* The refused remainder, if it was not pulled already. *)
Remainder(p) == IF p.refunded THEN 0 ELSE p.offered - p.accepted

Claim(u, i) ==
  LET p == positions[i]
  IN /\ p.owner = u
     /\ ~p.claimed
     /\ status \in {"Resolved", "Voided"}
     /\ paidOut' = IF Wins(p) THEN paidOut + Settlement(p) ELSE paidOut
     /\ books' = IF Wins(p) THEN [books EXCEPT ![winner].live = @ - 1] ELSE books
     /\ positions' = [positions EXCEPT ![i].refunded = TRUE, ![i].claimed = TRUE]
     /\ escrow' = escrow - (Settlement(p) + Remainder(p))
     /\ UNCHANGED <<chainVars, settleVars, kappa, vintageVars, acceptedPool, residueClaimed>>

ClaimResidue(u) ==
  /\ u = ResidueOwner
  /\ status = "Resolved"
  /\ books[winner].live = 0
  /\ ~residueClaimed
  /\ residueClaimed' = TRUE
  /\ escrow' = escrow - (acceptedPool - paidOut)
  /\ UNCHANGED <<chainVars, settleVars, kappa, ledgerVars, vintageVars, paidOut>>

TransferPosition(u, i, to) ==
  /\ positions[i].owner = u
  /\ ~positions[i].claimed
  /\ positions' = [positions EXCEPT ![i].owner = to]
  /\ UNCHANGED <<chainVars, settleVars, kappa, books, acceptedPool, vintageVars,
                 paidOut, residueClaimed, escrow>>

(* The chain: block numbers grow, timestamps never go back.  The last block
   the model looks at is stamped with the last timestamp it looks at. *)
NextBlock ==
  /\ blockNo < MaxBlock
  /\ blockNo' = blockNo + 1
  /\ now' \in {t \in now..MaxTime : blockNo' = MaxBlock => t = MaxTime}
  /\ UNCHANGED <<settleVars, kappa, ledgerVars, vintageVars, paidOut, residueClaimed, escrow>>

-----------------------------------------------------------------------------
Init ==
  /\ blockNo = 1 /\ now = 0
  /\ status = "None" /\ winner = 0 /\ kappa = 1
  /\ books = [w \in Outcomes |-> [principal |-> 0, acc |-> 0, capacity |-> 0,
                                  vested |-> 0, demand |-> 0, live |-> 0]]
  /\ positions = <<>> /\ pending = {} /\ vintageOpen = FALSE /\ vintageBlock = 0
  /\ acceptedPool = 0 /\ paidOut = 0 /\ residueClaimed = FALSE /\ escrow = 0

Next ==
  \/ \E seed \in Seeds, k \in Kappas : Create(seed, k)
  \/ \E u \in Users, o \in Outcomes, amount \in Amounts : Enter(u, o, amount)
  \/ FinalizeVintage
  \/ \E u \in Users \cup {Resolver}, w \in Outcomes : Resolve(u, w)
  \/ \E u \in Users \cup {Resolver} : VoidMarket(u)
  \/ \E u \in Users, i \in 1..Count : WithdrawRefund(u, i)
  \/ \E u \in Users, i \in 1..Count : Claim(u, i)
  \/ \E u \in Users : ClaimResidue(u)
  \/ \E u \in Users, to \in Users, i \in 1..Count : TransferPosition(u, i, to)
  \/ NextBlock

Spec == Init /\ [][Next]_vars

(* The chain produces blocks, somebody voids a market whose timeout passed
   (voidMarket is open to anyone, and the keeper does), owners claim what they
   hold and the residue owner the rest. *)
FairSpec ==
  /\ Spec
  /\ WF_vars(NextBlock)
  /\ WF_vars(\E u \in Users : VoidMarket(u))
  /\ WF_vars(\E u \in Users, i \in 1..Count : Claim(u, i))
  /\ WF_vars(\E u \in Users : ClaimResidue(u))

-----------------------------------------------------------------------------
(* Properties.                                                             *)

Settled == status \in {"Resolved", "Voided"}

(* The shape of the market: in particular a capacity is a natural or exactly the
   sentinel, and the open vintage names positions that exist. *)
TypeOK ==
  /\ blockNo \in Nat /\ now \in Nat /\ vintageBlock \in Nat
  /\ status \in {"None", "Open", "Resolved", "Voided"}
  /\ winner \in IF status = "Resolved" THEN Outcomes ELSE {0}
  /\ kappa \in Nat \cup {KAPPA_UNBOUNDED}
  /\ books \in [Outcomes -> Book]
  /\ positions \in Seq(Position)
  /\ pending \subseteq 1..Count
  /\ vintageOpen \in BOOLEAN /\ residueClaimed \in BOOLEAN
  /\ acceptedPool \in Nat /\ paidOut \in Nat /\ escrow \in Int

(* Sums over the positions on w, and over the positions not on w. *)
On(w, F(_)) ==
  Sum([i \in 1..Count |-> IF positions[i].outcome = w THEN F(positions[i]) ELSE 0], Count)
Against(w, F(_)) ==
  Sum([i \in 1..Count |-> IF positions[i].outcome # w THEN F(positions[i]) ELSE 0], Count)
Over(F(_)) == Sum([i \in 1..Count |-> F(positions[i])], Count)

(* The accepted principal of a position, 0 until its vintage is finalized. *)
AcceptedOf(p) == p.accepted
OfferPending(p) == IF p.finalized THEN 0 ELSE p.offered

(* P_w is the accepted stake on w, V_w the accepted stake against it, and the two
   make up the pool in every branch. *)
PoolSplits ==
  \A w \in Outcomes :
    /\ books[w].principal = On(w, AcceptedOf)
    /\ books[w].vested = Against(w, AcceptedOf)
    /\ books[w].principal + books[w].vested = acceptedPool

(* claim's comment "resolve/void finalized the last vintage, so p.finalized holds
   here": no entry can share a block with the settlement, so none is left behind. *)
NothingPendingOnceSettled ==
  Settled => /\ ~vintageOpen
             /\ pending = {}
             /\ \A i \in 1..Count : positions[i].finalized

(* P1, in every branch at every moment: were w to win now, the payouts of the
   stakes on w, before flooring, would not exceed the accepted pool. *)
PayoutsCovered ==
  \A w \in Outcomes : On(w, Weight) <= SCALE * acceptedPool

(* ... and nothing but rounding is left over: what a branch does not pay out is
   less than one unit of accumulator per vintage that vested into it.  The residue
   owner of claimResidue takes dust, never a share of the pool. *)
ResidueIsRounding ==
  \A w \in Outcomes :
    LET vesting == {positions[i].vintage :
                     i \in {j \in 1..Count : positions[j].finalized /\ positions[j].outcome # w}}
    IN  SCALE * acceptedPool - On(w, Weight) <= Cardinality(vesting) * books[w].principal

(* What the market's share of the token balance has to cover. *)
VoidDue(p) == IF p.claimed THEN 0 ELSE p.accepted

(* The balance is exactly the pool not paid out yet plus the remainders not
   refunded yet, whatever the order of claims, refunds, transfers and residue; and
   once settled, whoever claims last is still paid in full. *)
StillDue(p) == IF p.claimed THEN 0 ELSE Settlement(p) + Remainder(p)
EscrowBacksLedger ==
  /\ escrow = Over(Remainder) +
              (IF status = "Voided" THEN Over(VoidDue)
               ELSE IF residueClaimed THEN 0 ELSE acceptedPool - paidOut)
  /\ Settled => Over(StillDue) <= escrow

(* The batching rule of _finalizeVintage: stake of a vintage never vests to its own
   vintage or to a later one.  What entries from vintage v on can gain on w is
   covered by stakes against w that are strictly younger than v. *)
VestsOnlyToEarlier ==
  \A w \in Outcomes : \A v \in {positions[i].vintage : i \in 1..Count} \ {0} :
    LET Gain(p) == IF p.vintage >= v THEN Weight(p) - SCALE * p.accepted ELSE 0
        Younger(p) == IF p.vintage > v THEN SCALE * p.accepted ELSE 0
    IN  On(w, Gain) <= Against(w, Younger)

(* P3: what an accepted stake would be paid never falls, and its terms never
   change, whatever enters after it. *)
ClaimsNeverDiluted ==
  [][\A i \in 1..Count : positions[i].finalized =>
       /\ positions'[i].finalized
       /\ positions'[i].accepted = positions[i].accepted
       /\ positions'[i].entryAcc = positions[i].entryAcc
       /\ Weight(positions[i])' >= Weight(positions[i])]_vars

(* Rule 2 for a whole vintage: however many entries share it, what they vest into a
   bounded book keeps it within the capacity it had before the vintage. *)
VestsWithinCapacity ==
  [][\A w \in Outcomes :
       /\ status = "Open"
       /\ books[w].capacity # KAPPA_UNBOUNDED
       /\ books'[w].vested > books[w].vested
       => books'[w].vested <= books[w].capacity]_vars

(* voidMarket's comment: "the resolver may at any time after the freeze, anyone
   after resolutionTime + voidTimeout".  Once that time has passed, and as long as
   somebody is left to call it, an open market does not stay open. *)
AnyoneMayVoid ==
  status = "Open" /\ now >= ResolutionTime + VoidTimeout ~> Settled

(* An open market whose stakes and kappa never overflow the roll is settled in the
   end, resolver or no resolver, and a settled one empties: every holder is paid and
   the balance goes to zero. *)
EventuallyDrained ==
  status = "Open" ~> /\ Settled
                     /\ escrow = 0
                     /\ \A i \in 1..Count : positions[i].claimed

=============================================================================
