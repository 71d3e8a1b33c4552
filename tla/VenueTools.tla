------------------------------- MODULE VenueTools -------------------------------
(***************************************************************************)
(* What packages/mcp answers an agent that asks about a market or about    *)
(* what its wallet can pull, from the answers of packages/client.  Pure    *)
(* arithmetic on those answers, in the order the tool handlers take them:  *)
(* a read is the client's answer or Failed, null is None, an outcome o of  *)
(* the code is o+1, a share in [0, 1] stays in parts per PPM.  Spellings   *)
(* of a field, prose, addresses and the transport are left out.            *)
(***************************************************************************)
EXTENDS Integers, FiniteSetsExt, SequencesExt, TLC

CONSTANTS
  None, Failed,
  UNBOUNDED,            \* format.ts: the unbounded sentinel, above every amount
  SENTINEL,             \* the index's own spelling of it
  PPM,
  maxPositionLookups    \* HUNCH_VPM_MAX_POSITION_LOOKUPS

SumAll(ids, f(_)) == MapThenSumSet(f, ids)
Least(S) == Min(S)

-----------------------------------------------------------------------------
(* venue-reader.ts: the client's answers, or another source's, normalized. *)

\* asAmount: no amount is negative.
AsAmount(value) == IF value < 0 THEN Failed ELSE value

\* asUnboundedOr: null is the client's spelling of unbounded, the sentinel the
\* index's, honoured only beside its flag; another negative is corruption.
AsUnboundedOr(value, flagged) ==
  CASE value = None -> UNBOUNDED
    [] value # None /\ value >= 0 -> value
    [] value # None /\ value < 0 /\ flagged /\ value = SENTINEL -> UNBOUNDED
    [] OTHER -> Failed

DeriveHeadroom(capacity, vested) ==
  CASE capacity = UNBOUNDED -> UNBOUNDED
    [] capacity > vested -> capacity - vested
    [] OTHER -> 0

NormalizeBook(raw) ==
  LET flagged == "capacityIsUnbounded" \in DOMAIN raw /\ raw.capacityIsUnbounded
      capacity == AsUnboundedOr(raw.capacity, flagged)
  IN  [principal |-> AsAmount(raw.principal), vested |-> AsAmount(raw.vested),
       capacity |-> capacity,
       headroom |-> IF "headroom" \in DOMAIN raw
                    THEN AsUnboundedOr(raw.headroom, flagged \/ capacity = UNBOUNDED)
                    ELSE DeriveHeadroom(capacity, raw.vested)]

\* The settler's enumeration, in either spelling.
NormalizeStatus(status) ==
  CASE status = "Open" -> "open"
    [] status = "Resolved" -> "resolved"
    [] status = "Voided" -> "voided"
    [] OTHER -> Failed

NormalizeMarketState(raw) ==
  LET books == [w \in DOMAIN raw.books |-> NormalizeBook(raw.books[w])]
  IN  [status |-> NormalizeStatus(raw.status), winner |-> raw.winner,
       resolutionTime |-> raw.resolutionTime, books |-> books,
       acceptedPool |-> IF raw.acceptedPool # None THEN raw.acceptedPool
                        ELSE SumAll(DOMAIN books, LAMBDA w : books[w].principal)]

\* normalizeOdds: by the client's own name, parts per million.
NormalizeOdds(rows) == [w \in DOMAIN rows |-> AsAmount(rows[w].probabilityPpm)]

\* readHeadroomPick: how much it accepts is what the opposing books have.
ReadHeadroomPick(best) ==
  [index |-> best.outcome, acceptsUpTo |-> AsUnboundedOr(best.bindingHeadroom, FALSE)]

\* normalizeHeadroomPick: "best: null" is an answer too, the one without a pick.
NormalizeHeadroomPick(answer) ==
  IF answer.best = None THEN None ELSE ReadHeadroomPick(answer.best)

\* normalizeVesting: what is not known yet stays unknown.
NormalizeVesting(answer) ==
  [accepted |-> answer.accepted, vested |-> answer.earned,
   previewPayout |-> answer.payoutIfOutcomeWins]

\* kindFromBreakdown: the settlement first, that is what the item is for.
KindFromBreakdown(owed) ==
  CASE owed.settlement > 0 -> "payout"
    [] owed.voidRefund > 0 -> "void_refund"
    [] owed.residue > 0 -> "residue"
    [] owed.refusedRemainder > 0 -> "refund"
    [] OTHER -> None

KindFromCall(call) ==
  CASE call = "withdrawRefund" -> "refund"
    [] call = "claimResidue" -> "residue"
    [] call = "claim" -> "payout"
    [] OTHER -> "unknown"

\* normalizeClaimable: residue is keyed by its market, and names no position.
NormalizeItem(item) ==
  LET kind == KindFromBreakdown(item.breakdown)
  IN  [kind |-> IF kind # None THEN kind ELSE KindFromCall(item.call),
       amount |-> AsAmount(item.amount), call |-> item.call, argument |-> item.argument,
       marketId |-> item.marketId,
       positionId |-> IF item.call = "claimResidue" THEN None ELSE item.argument]

NormalizeClaimable(answer) ==
  LET items == [k \in DOMAIN answer.items |-> NormalizeItem(answer.items[k])]
  IN  [items |-> items,
       total |-> IF answer.total # None THEN answer.total
                 ELSE SumAll(DOMAIN items, LAMBDA k : items[k].amount)]

-----------------------------------------------------------------------------
(* domain.ts: derived from the books alone.                                *)

OddsFromBooks(books) ==
  LET pool == SumAll(DOMAIN books, LAMBDA w : books[w].principal)
  IN  [w \in DOMAIN books |-> IF pool = 0 THEN 0 ELSE (books[w].principal * PPM) \div pool]

\* Mutant of CapacityToAccept: the outcome's own headroom.
CapacityOfOwnBook(books, outcome) ==
  [amount |-> books[outcome].headroom, limitedBy |-> outcome]
\* capacityToAccept: the least headroom among the other books, the first of them.
CapacityToAccept(books, outcome) ==
  LET bounded == {w \in DOMAIN books \ {outcome} : books[w].headroom # UNBOUNDED}
      tightest == {w \in bounded : \A x \in bounded : books[w].headroom <= books[x].headroom}
  IN  IF bounded = {} THEN [amount |-> UNBOUNDED, limitedBy |-> None]
      ELSE [amount |-> books[Least(tightest)].headroom, limitedBy |-> Least(tightest)]

\* bestOutcomeToStake: the first outcome with the greatest capacity.
BestOutcomeToStake(books) ==
  LET room(w) == CapacityToAccept(books, w).amount
      best == {w \in DOMAIN books : \A x \in DOMAIN books : room(x) <= room(w)}
  IN  [index |-> Least(best), acceptsUpTo |-> room(Least(best))]

\* acceptanceOf: alone in its vintage, an entry is rationed to the capacity.
AcceptanceOf(books, outcome, offered) ==
  LET capacity == CapacityToAccept(books, outcome)
      accepted == IF offered < capacity.amount THEN offered ELSE capacity.amount
  IN  [accepted |-> accepted, refused |-> offered - accepted,
       limitedBy |-> IF accepted < offered THEN capacity.limitedBy ELSE None]

-----------------------------------------------------------------------------
(* tools/market-book.ts                                                    *)

\* resolveOdds: the client's, or derived and said to be.
ResolveOdds(answer, books) ==
  IF answer = Failed \/ DOMAIN answer = {}
  THEN [rows |-> OddsFromBooks(books), source |-> "derived"]
  ELSE [rows |-> NormalizeOdds(answer), source |-> "client"]

\* attemptBestHeadroom: a failed read leaves a note, an empty answer does not.
AttemptBestHeadroom(answer) ==
  IF answer = Failed THEN [pick |-> None, notes |-> {"derived from the book"}]
  ELSE [pick |-> NormalizeHeadroomPick(answer), notes |-> {}]

\* buildStakeCheck: what would revert is not said to be accepted in part.
BuildStakeCheck(books, offered, blocked) ==
  [enterable |-> blocked = None,
   perOutcome |-> IF blocked # None THEN <<>>
                  ELSE [w \in DOMAIN books |-> AcceptanceOf(books, w, offered)]]

FrozenReason(market) == IF market.status = "open" THEN "froze" ELSE market.status

\* run: the market is read first, then the odds, then, unless it takes no stake,
\* which outcome has the most room.
MarketBookTool(bookAnswer, oddsAnswer, headroomAnswer, now, offered) ==
  LET market == NormalizeMarketState(bookAnswer)
      frozen == market.status # "open" \/ market.resolutionTime - now <= 0
      odds == ResolveOdds(oddsAnswer, market.books)
      attempt == IF frozen THEN [pick |-> None, notes |-> {}] ELSE AttemptBestHeadroom(headroomAnswer)
      best == CASE frozen -> None
                [] attempt.pick # None -> attempt.pick
                [] OTHER -> BestOutcomeToStake(market.books)
  IN  [frozen |-> frozen, status |-> market.status, winner |-> market.winner,
       acceptedPool |-> market.acceptedPool,
       outcomes |-> [w \in DOMAIN market.books |->
         [book |-> market.books[w], probability |-> odds.rows[w],
          acceptsStakeUpTo |-> CapacityToAccept(market.books, w).amount]],
       bestHeadroom |-> best,
       source |-> IF attempt.pick = None THEN "derived" ELSE "client",
       stakeCheck |-> BuildStakeCheck(market.books, offered,
                                      IF frozen THEN FrozenReason(market) ELSE None),
       notes |-> attempt.notes]

-----------------------------------------------------------------------------
(* tools/claimable.ts                                                      *)

\* CALL_FOR: the function that pays each kind.
CallFor(kind) ==
  CASE kind \in {"payout", "void_refund"} -> "claim"
    [] kind = "refund" -> "withdrawRefund"
    [] kind = "residue" -> "claimResidue"
    [] OTHER -> None

\* buildCall: the call and the argument the source names, verbatim; from a source
\* that names neither, what the kind is paid by and keyed by, and nothing for an
\* unknown kind.
BuildCall(item) ==
  LET named == item.call # None /\ item.argument # None
      keyed == IF CallFor(item.kind) = "claimResidue" THEN item.marketId ELSE item.positionId
      argument == IF item.argument # None THEN item.argument ELSE keyed
  IN  CASE named -> [method |-> item.call, argument |-> item.argument]
        [] ~named /\ CallFor(item.kind) # None /\ argument # None ->
             [method |-> CallFor(item.kind), argument |-> argument]
        [] OTHER -> None

\* readVesting: of the positions named, as many as the cap allows; a read that
\* fails annotates nothing.
ReadVesting(items, vestingOf) ==
  LET named == SelectSeq(items, LAMBDA item : item.positionId # None)
      selected == {named[k].positionId : k \in {j \in DOMAIN named : j <= maxPositionLookups}}
  IN  [id \in {i \in selected : vestingOf[i] # Failed} |-> NormalizeVesting(vestingOf[id])]

\* describeItem
DescribeItem(item, vesting) ==
  LET annotated == item.positionId # None /\ item.positionId \in DOMAIN vesting
                     /\ vesting[item.positionId].vested # None
  IN  [kind |-> item.kind, amount |-> item.amount, call |-> BuildCall(item),
       positionId |-> item.positionId,
       vesting |-> IF ~annotated THEN None
                   ELSE [earned |-> vesting[item.positionId].vested,
                         ofWhichPrincipal |-> vesting[item.positionId].accepted]]

ClaimableTool(answer, vestingOf) ==
  LET summary == NormalizeClaimable(answer)
      vesting == ReadVesting(summary.items, vestingOf)
  IN  [total |-> summary.total,
       items |-> [k \in DOMAIN summary.items |-> DescribeItem(summary.items[k], vesting)]]
=============================================================================
