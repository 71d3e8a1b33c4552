------------------------------ MODULE VenueClient ------------------------------
(***************************************************************************)
(* What packages/client tells a wallet from the index: how much room a     *)
(* stake has, how much of it would be taken, what is owed and which call   *)
(* pays it.  Pure arithmetic on one answer of the index: m is the market   *)
(* as decoded, p a position of it, head the index's own head block and at  *)
(* the caller's clock.  Outcome o of the code is o+1; null is None; prose, *)
(* encodings and the echoes of a request are left out.                     *)
(***************************************************************************)
EXTENDS Integers, FiniteSetsExt, SequencesExt, TLC

CONSTANTS
  KIND,                  \* market.settlerKind: "VESTED" or "CLASSIC"
  SCALE,                 \* ACC_SCALE
  UNBOUNDED,             \* a capacity the index flags as unbounded
  None,                  \* null
  VINTAGE_ENTRY_LIMIT,   \* entries of a vintage one query returns
  MAX_PAGED_ENTITIES,    \* how far the gateway lets a walk skip
  PPM,                   \* parts per million
  MaxU128                \* UINT128_MAX

NonNegative(a) == IF a > 0 THEN a ELSE 0
FirstIn(ids, limit) == {i \in ids : Cardinality({j \in ids : j <= i}) <= limit}
SumOf(ids, f(_)) == MapThenSumSet(f, ids)

-----------------------------------------------------------------------------
(* decode.ts: the index's answer as a market.                              *)

\* An unbounded capacity is null, never a number.
CapacityFrom(b, kappa) ==
  IF kappa = UNBOUNDED \/ b.capacity = UNBOUNDED THEN None ELSE b.capacity

EntriesOf(ix, v) == {i \in DOMAIN ix.positions : ix.positions[i].vintage = v}

\* The open vintage, in offers per outcome; null when one page does not hold it.
OpenVintage(ix) ==
  LET v == ix.market.openVintage
      page == FirstIn(EntriesOf(ix, v), VINTAGE_ENTRY_LIMIT)
      offer(i) == ix.positions[i].offered
      onOutcome(w) == SumOf({i \in page : ix.positions[i].outcome = w}, offer)
      whole == /\ Cardinality(page) = ix.vintages[v].entryCount
               /\ SumOf(page, offer) = ix.vintages[v].offered
  IN  IF v = None
      THEN [open |-> FALSE, block |-> None, offers |-> [w \in DOMAIN ix.books |-> 0]]
      ELSE [open |-> TRUE, block |-> v,
            offers |-> IF whole THEN [w \in DOMAIN ix.books |-> onOutcome(w)] ELSE None]

\* D_w: everything the vintage offers, less what it offers on w itself.
DemandFor(vintage, w) ==
  IF vintage.offers = None THEN None
  ELSE SumOf(DOMAIN vintage.offers \ {w}, LAMBDA x : vintage.offers[x])

DecodeBook(ix, kappa, vintage, w) ==
  LET b == ix.books[w]
  IN  [principal |-> b.principal, vested |-> b.vested, acc |-> b.acc,
       capacity |-> CapacityFrom(b, kappa), demand |-> DemandFor(vintage, w)]

\* A query that does not select the open vintage leaves it unknown, not closed.
DecodeMarket(ix, kappa, readOpenVintage) ==
  LET vintage == IF readOpenVintage THEN OpenVintage(ix)
                 ELSE [open |-> None, block |-> None, offers |-> None]
  IN  [status |-> ix.market.status,
       winner |-> IF ix.market.status = "Resolved" THEN ix.market.winner ELSE None,
       acceptedPool |-> ix.market.acceptedPool, paidOut |-> ix.market.paidOut,
       residueClaimed |-> ix.market.residueClaimed, spec |-> ix.market.spec,
       vintageOpen |-> vintage.open, vintageBlock |-> vintage.block,
       books |-> [w \in DOMAIN ix.books |-> DecodeBook(ix, kappa, vintage, w)]]

-----------------------------------------------------------------------------
(* mechanics.ts: the settler's arithmetic restated.                        *)

\* H_w = C_w - V_w, null without a capacity.
BookHeadroom(b) == IF b.capacity = None THEN None ELSE NonNegative(b.capacity - b.vested)

\* Mutant of CompetingDemand: a vintage of the head block is taken for stale too.
NoCompetingDemand(m, b, head) == 0
\* A vintage competes only when it is the head block's; an older one is said to
\* have been rationed already.
CompetingDemand(m, b, head) ==
  IF m.vintageOpen # TRUE \/ m.vintageBlock # head \/ b.demand = None THEN 0 ELSE b.demand

OpposingRoom(m, w, head) ==
  LET headroom == BookHeadroom(m.books[w])
      demand == CompetingDemand(m, m.books[w], head)
  IN  [headroom |-> headroom, competingDemand |-> demand,
       allowance |-> IF headroom = None THEN None ELSE NonNegative(headroom - demand)]

OpposingRooms(m, o, head) == [w \in DOMAIN m.books \ {o} |-> OpposingRoom(m, w, head)]

\* The book with the least allowance, the lower outcome on a tie.
Tightest(rooms) ==
  LET bounded == {w \in DOMAIN rooms : rooms[w].allowance # None}
      least == {w \in bounded : \A x \in bounded : rooms[w].allowance <= rooms[x].allowance}
  IN  IF bounded = {} THEN None ELSE Min(least)

\* The largest stake taken whole: null when no opposing book is bounded, nothing
\* when there is no opposing book.
MaxFullyAccepted(rooms) ==
  IF DOMAIN rooms = {} THEN 0
  ELSE IF Tightest(rooms) = None THEN None ELSE rooms[Tightest(rooms)].allowance

\* outcomeHeadroom: every figure of the binding book comes from that one book.
OutcomeHeadroom(m, o, head) ==
  LET rooms == OpposingRooms(m, o, head)
      binding == Tightest(rooms)
  IN  [outcome |-> o, maxFullyAccepted |-> MaxFullyAccepted(rooms),
       bindingHeadroom |-> CASE DOMAIN rooms = {} -> 0
                             [] binding = None -> None
                             [] OTHER -> rooms[binding].headroom,
       bindingOutcome |-> binding]

EarnedVesting(p, currentAcc) ==
  IF currentAcc <= p.entryAcc \/ p.accepted <= 0 THEN 0
  ELSE (p.accepted * (currentAcc - p.entryAcc)) \div SCALE

-----------------------------------------------------------------------------
(* reads: where a stake has room, and what the money implies.              *)

Frozen(m, at, resolutionTime) == m.status # "Open" \/ at >= resolutionTime

\* Unbounded beats every number; a tie stays with the lower outcome.
IsBetter(a, b) == b # None /\ (a = None \/ a > b)

BestHeadroom(m, head, at, resolutionTime) ==
  LET room(o) == MaxFullyAccepted(OpposingRooms(m, o, head))
      usable == {o \in DOMAIN m.books : room(o) # 0}
      best == {o \in usable : \A x \in usable :
                 /\ ~IsBetter(room(x), room(o))
                 /\ x < o => IsBetter(room(o), room(x))}
  IN  IF Frozen(m, at, resolutionTime) \/ usable = {} THEN None ELSE Min(best)

DemandUnknown(m) ==
  m.vintageOpen = None \/ \E w \in DOMAIN m.books : m.books[w].demand = None

TotalPrincipal(m) == SumOf(DOMAIN m.books, LAMBDA w : m.books[w].principal)
ShareToPpm(part, total) == IF total = 0 THEN 0 ELSE (part * PPM) \div total
ImpliedOdds(m) ==
  [w \in DOMAIN m.books |->
     [probabilityPpm |-> ShareToPpm(m.books[w].principal, TotalPrincipal(m)),
      decimalOddsPpm |-> IF m.books[w].principal = 0 THEN None
                         ELSE (TotalPrincipal(m) * PPM) \div m.books[w].principal]]

\* fetchUnclaimedWinners: as far as the gateway lets the walk go.
UnclaimedWinners(ix, w) ==
  LET all == {i \in DOMAIN ix.positions :
                /\ ix.positions[i].outcome = w /\ ~ix.positions[i].claimed
                /\ ix.positions[i].accepted > 0}
      seen == FirstIn(all, MAX_PAGED_ENTITIES)
  IN  [count |-> Cardinality(seen), complete |-> Cardinality(seen) < MAX_PAGED_ENTITIES,
       outstandingPayout |-> SumOf(seen, LAMBDA i : ix.positions[i].previewPayout)]

\* marketBook's live count: only the winner of a resolved market has one.
Live(ix, m, w) ==
  IF m.winner # w THEN None
  ELSE IF m.residueClaimed THEN 0 ELSE UnclaimedWinners(ix, w).count

\* marketBook: the whole market in one answer.
MarketBook(ix, m, head, at, resolutionTime) ==
  [status |-> m.status, winner |-> m.winner, acceptedPool |-> m.acceptedPool,
   resolutionTime |-> resolutionTime, frozen |-> at >= resolutionTime,
   books |-> [w \in DOMAIN m.books |->
     [principal |-> m.books[w].principal, vested |-> m.books[w].vested, acc |-> m.books[w].acc,
      capacity |-> m.books[w].capacity, headroom |-> BookHeadroom(m.books[w]),
      probabilityPpm |-> ImpliedOdds(m)[w].probabilityPpm,
      maxFullyAccepted |-> MaxFullyAccepted(OpposingRooms(m, w, head)),
      live |-> Live(ix, m, w)]]]

-----------------------------------------------------------------------------
(* reads: what a position has earned and what a wallet may pull.           *)

StateOf(m, p) ==
  CASE p.claimed -> "claimed"
    [] ~p.finalized -> "pending-vintage"
    [] m.status = "Voided" -> "voided"
    [] m.status = "Resolved" -> IF m.winner = p.outcome THEN "won" ELSE "lost"
    [] OTHER -> "open"

\* Nothing vests in a classic pool: its figure is the index's share.
PayoutIfOutcomeWins(m, p) ==
  CASE ~p.finalized -> None
    [] KIND = "VESTED" -> p.accepted + EarnedVesting(p, m.books[p.outcome].acc)
    [] OTHER -> p.previewPayout

OutstandingRefund(p) == IF p.finalized /\ ~p.refundWithdrawn THEN p.refused ELSE 0

\* vestingEarned: the settlement, or on a void the principal, and the remainder.
ClaimableNow(m, p) ==
  OutstandingRefund(p) +
  (CASE StateOf(m, p) = "won" -> PayoutIfOutcomeWins(m, p)
     [] StateOf(m, p) = "voided" -> p.accepted
     [] OTHER -> 0)

\* vestingEarned: nothing is known before the entry is final, and nothing vests
\* in a classic pool.
VestingEarned(m, p) ==
  [accepted |-> p.accepted, claimableNow |-> ClaimableNow(m, p),
   earned |-> IF p.finalized /\ KIND = "VESTED" THEN EarnedVesting(p, m.books[p.outcome].acc)
              ELSE None,
   payoutIfOutcomeWins |-> PayoutIfOutcomeWins(m, p)]

NothingOwed == [settlement |-> 0, voidRefund |-> 0, refusedRemainder |-> 0, residue |-> 0]

\* itemForPosition: one call per position, and nothing when it would pay nothing.
\* The settlement is the index's own figure.
ItemForPosition(m, p) ==
  LET owed == [NothingOwed EXCEPT
                 !.refusedRemainder = IF p.refundWithdrawn THEN 0 ELSE NonNegative(p.refused),
                 !.voidRefund = IF m.status = "Voided" THEN p.accepted ELSE 0,
                 !.settlement = IF m.status = "Resolved" /\ m.winner = p.outcome
                                THEN p.previewPayout ELSE 0]
      amount == SumOf(DOMAIN owed, LAMBDA reason : owed[reason])
  IN  IF ~p.finalized \/ p.claimed \/ amount = 0 THEN None
      ELSE [call |-> IF m.status = "Open" THEN "withdrawRefund" ELSE "claim",
            amount |-> amount, breakdown |-> owed]

\* Mutant of ResidueFor: it is ready while a winner is still owed.
ResidueForUngated(row, winners) ==
  LET atMost == NonNegative(row.acceptedPool - row.paidOut)
      held == row.status # "Resolved" \/ row.residueClaimed \/ atMost = 0
  IN  [ready |-> ~held, amount |-> IF held THEN 0 ELSE atMost, blocked |-> None]
\* residueFor: ready once every winner has claimed; before that, what the
\* outstanding settlements will leave, or an upper bound if they were not all read.
\* The market's row and the walk over its winners are two queries, neither pinned
\* to a block: the winners may be those of a later state of the index.
ResidueFor(row, winners) ==
  LET atMost == NonNegative(row.acceptedPool - row.paidOut)
      exact == NonNegative(atMost - winners.outstandingPayout)
      none == [ready |-> FALSE, amount |-> 0, blocked |-> None]
  IN  CASE row.status # "Resolved" \/ row.residueClaimed \/ atMost = 0 -> none
        [] winners.count = 0 -> [none EXCEPT !.ready = TRUE, !.amount = atMost]
        [] winners.complete /\ exact = 0 -> none
        [] OTHER -> [none EXCEPT !.blocked =
                      [amount |-> IF winners.complete THEN exact ELSE atMost,
                       isUpperBound |-> ~winners.complete]]

\* claimable: everything a wallet can pull, the largest amount first.  Three
\* queries, one after the other: the wallet's positions, each with its market m,
\* from state ix; the markets it owns the residue of, as row; the unclaimed
\* winners of such a market, from state walked.
Claimable(ix, m, row, walked, wallet, residueOwner) ==
  LET owned == {i \in DOMAIN ix.positions :
                  ix.positions[i].owner = wallet /\ ~ix.positions[i].claimed}
      item(i) == ItemForPosition(m, ix.positions[i])
      paying == {i \in owned : item(i) # None}
      positions == {[call |-> item(i).call, argument |-> i, marketId |-> 0,
                     amount |-> item(i).amount,
                     breakdown |-> item(i).breakdown] : i \in paying}
      residue == ResidueFor(row, UnclaimedWinners(walked, row.winner))
      sweep == IF wallet = residueOwner /\ ~row.residueClaimed /\ residue.ready
               THEN {[call |-> "claimResidue", argument |-> 0, marketId |-> 0,
                       amount |-> residue.amount,
                       breakdown |-> [NothingOwed EXCEPT !.residue = residue.amount]]} ELSE {}
  IN  SetToSortSeq(positions \cup sweep,
        LAMBDA a, b : a.amount > b.amount \/ (a.amount = b.amount /\ a.argument < b.argument))

\* The totals over a claimable list, by reason and in all.
ClaimTotals(items) ==
  LET sum(reason) == SumOf(DOMAIN items, LAMBDA k : items[k].breakdown[reason])
  IN  [total |-> SumOf(DOMAIN items, LAMBDA k : items[k].amount),
       reasons |-> [reason \in DOMAIN NothingOwed |-> sum(reason)]]

\* arcPositions: what a wallet has not claimed yet, summed.
ArcPositions(ix, m, wallet) ==
  LET held == {i \in DOMAIN ix.positions :
                 ix.positions[i].owner = wallet /\ ~ix.positions[i].claimed}
  IN  [staked |-> SumOf(held, LAMBDA i : ix.positions[i].offered),
       accepted |-> SumOf(held, LAMBDA i : ix.positions[i].accepted),
       refused |-> SumOf(held, LAMBDA i : ix.positions[i].refused),
       claimableNow |-> SumOf(held, LAMBDA i : ClaimableNow(m, ix.positions[i]))]

-----------------------------------------------------------------------------
(* rail: the acceptance of a stake, and what is handed back to sign.       *)

\* acceptedByBook: all of it while the demand with it fits, else pro rata.
AcceptedByBook(room, amount) ==
  LET demand == room.competingDemand + amount
  IN  IF room.headroom = None \/ demand <= room.headroom THEN amount
      ELSE (amount * room.headroom) \div demand

\* acceptanceOf: the smallest of what the opposing books let through.
AcceptanceOf(rooms, amount) ==
  IF DOMAIN rooms = {} THEN 0
  ELSE Min({amount} \cup {AcceptedByBook(rooms[w], amount) : w \in DOMAIN rooms})

\* The book that cut the offer: the first that let the least through.
BindingBook(rooms, amount) ==
  LET accepted == AcceptanceOf(rooms, amount)
      cutting == {w \in DOMAIN rooms : AcceptedByBook(rooms[w], amount) = accepted}
  IN  IF accepted = amount \/ cutting = {} THEN None ELSE Min(cutting)

\* What the accepted stake pays if nothing more enters.
PayoutPreview(m, o, accepted) ==
  LET winning == m.books[o].principal + accepted
  IN  IF KIND = "VESTED" THEN accepted
      ELSE IF winning = 0 THEN 0 ELSE ((m.acceptedPool + accepted) * accepted) \div winning

RefusalFor(m, closed, rooms, amount) ==
  CASE m.status # "Open" -> "market-not-open"
    [] closed -> "market-frozen"
    [] AcceptanceOf(rooms, amount) = amount -> None
    [] DOMAIN rooms = {} -> "no-counterparty"
    [] OTHER -> "headroom"

\* quoteFrom: a stake the settler would revert escrows nothing; any other is
\* pulled whole and its refused part comes back by withdrawRefund.
QuoteFrom(m, head, at, resolutionTime, o, amount) ==
  LET closed == Frozen(m, at, resolutionTime)
      rooms == OpposingRooms(m, o, head)
      accepted == IF closed THEN 0 ELSE AcceptanceOf(rooms, amount)
  IN  [accepted |-> accepted, refused |-> amount - accepted,
       refusal |-> RefusalFor(m, closed, rooms, amount),
       reverts |-> closed,
       binding |-> IF closed THEN None ELSE BindingBook(rooms, amount),
       maxFullyAccepted |-> IF closed THEN 0 ELSE MaxFullyAccepted(rooms),
       escrowed |-> IF closed THEN 0 ELSE amount,
       refund |-> IF closed THEN 0 ELSE amount - accepted,
       wins |-> PayoutPreview(m, o, accepted), voided |-> accepted,
       demandUnknown |-> DemandUnknown(m)]

\* writes/calldata.ts: what cannot be encoded throws; an encoded call names its
\* method and its arguments.
EnterCalldata(o, amount) ==
  IF amount <= 0 \/ amount > MaxU128 THEN None
  ELSE [call |-> "enter", outcome |-> o, amount |-> amount]

\* tradeFrom: the settler pulls the whole offer, so that is what is approved.
TradeFrom(o, amount, includeApproval) ==
  (IF includeApproval THEN <<[call |-> "approve", amount |-> amount]>> ELSE <<>>)
  \o <<EnterCalldata(o, amount)>>

\* arcTrade: the calls to sign, or none when they could not do what was asked.
ArcTrade(quote, o, amount, requireFullAcceptance, acceptTotalRefusal, includeApproval) ==
  LET refused == \/ quote.reverts
                 \/ quote.accepted = 0 /\ ~acceptTotalRefusal
                 \/ quote.refused > 0 /\ requireFullAcceptance
  IN  IF refused THEN <<>> ELSE TradeFrom(o, amount, includeApproval)

\* claimFor: the one call that collects a position a wallet holds.
ClaimFor(m, p) ==
  IF p.claimed \/ ~p.finalized \/ ClaimableNow(m, p) = 0 THEN None
  ELSE IF m.status # "Open" THEN [call |-> "claim", amount |-> ClaimableNow(m, p)]
  ELSE IF OutstandingRefund(p) = 0 THEN None
  ELSE [call |-> "withdrawRefund", amount |-> OutstandingRefund(p)]
=============================================================================
