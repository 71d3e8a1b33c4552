---------------------------- MODULE VestedSurfaces ----------------------------
(***************************************************************************)
(* What the two surfaces over the client tell their user about a vested    *)
(* market, the tools of packages/mcp an agent and the pages of apps/web a  *)
(* person, against what the settler does with the transaction that         *)
(* follows.                                                                *)
(***************************************************************************)
EXTENDS VestedClient, SequencesExt

CONSTANTS
  Failed,               \* a read that did not answer
  MaxPositionLookups    \* HUNCH_VPM_MAX_POSITION_LOOKUPS

Tools == INSTANCE VenueTools
           WITH UNBOUNDED <- 10 * MaxU128, SENTINEL <- KAPPA_UNBOUNDED, PPM <- 1000,
                maxPositionLookups <- MaxPositionLookups

Web == INSTANCE WebMath WITH PPM <- 1000, ClampPasses <- MAX_CLAMP_PASSES

\* The client's answers, from the market as it sees it.
Market(seen) == Client!MarketBook(index, seen, HeadBlock, now, ResolutionTime)
Odds(seen) == Client!ImpliedOdds(seen)
BestOutcome(seen) == Client!BestHeadroom(seen, HeadBlock, now, ResolutionTime)
Best(seen) ==
  LET o == BestOutcome(seen)
  IN  [best |-> IF o = None THEN None ELSE Client!OutcomeHeadroom(seen, o, HeadBlock)]

\* vpm_market_book and vpm_claimable, asked now.
AskBook(market, odds, best, offered) == Tools!MarketBookTool(market, odds, best, now, offered)
AskClaimable(seen, u) ==
  LET items == Client!Claimable(index, seen, seen, index, u, ResidueOwner)
  IN  Tools!ClaimableTool(
        [items |-> items, total |-> MapThenSumSet(LAMBDA k : items[k].amount, DOMAIN items)],
        [i \in DOMAIN IxPositions |-> Client!VestingEarned(seen, IxPositions[i])])

\* The market page, what a wallet holds on it, and what it may pull.
Page(market) == Web!ToMarketDetail(market, "vested")
Held(market, u) ==
  Web!GetPositions([i \in {j \in DOMAIN positions : positions[j].owner = u} |-> IxPositions[i]],
                   market, "vested")
Shown(page, entry) == Web!PositionRow(page, entry.position)
ClaimPage(seen, u) ==
  LET items == Client!Claimable(index, seen, seen, index, u, ResidueOwner)
  IN  Web!ClaimList(Client!ClaimTotals(items), items)

\* The fixtures' replay of this market: its seed, then its vintages in order.
Vintages == {positions[i].vintage : i \in {j \in DOMAIN positions :
                                            j > N /\ positions[j].finalized}}
Batch(v) ==
  LET entered == SetToSortSeq({i \in DOMAIN positions : i > N /\ positions[i].vintage = v}, <)
  IN  [k \in DOMAIN entered |-> [outcome |-> positions[entered[k]].outcome,
                                amount |-> positions[entered[k]].offered]]
Replayed ==
  FoldLeft(LAMBDA sim, v : Web!Vintage(sim, Batch(v)),
           Web!MarketSim([o \in Outcomes |-> positions[o].offered],
                         IF kappa = KAPPA_UNBOUNDED THEN None ELSE kappa),
           SetToSortSeq(Vintages, <))

\* Why the settler pays position i.
KindOf(i) ==
  LET p == positions[i] IN
  CASE status = "Resolved" /\ Settlement(p) > 0 -> "payout"
    [] status = "Voided" /\ p.accepted > 0 -> "void_refund"
    [] OTHER -> "refund"

-----------------------------------------------------------------------------
(* Properties.                                                             *)

\* What vpm_market_book says of a stake: asked of the client, and alone, when the
\* other reads did not answer.
BookTold(seen, offered, asked, alone) ==
  /\ asked.stakeCheck.enterable = (status = "Open" /\ now < ResolutionTime)
  /\ asked.stakeCheck.enterable /\ ~seen.vintageOpen =>
       /\ \A o \in Outcomes :
            asked.stakeCheck.perOutcome[o].accepted = SoleAcceptance(o, offered)
       /\ asked.source = "client" => alone.bestHeadroom = asked.bestHeadroom
  /\ \A o \in Outcomes : alone.outcomes[o].probability = asked.outcomes[o].probability

\* One item vpm_claimable lists for the owner of the positions in mine.
ItemTold(item, mine, residue) ==
  LET i == item.positionId IN
  IF item.call.method = "claimResidue"
  THEN item.kind = "residue" /\ item.amount = residue /\ i = None
  ELSE /\ i \in mine /\ item.call.argument = i /\ item.amount = Owed(i)
       /\ item.kind = KindOf(i)
       /\ item.kind = "payout" /\ item.vesting # None =>
            item.vesting.earned + item.vesting.ofWhichPrincipal
              = item.amount - Remainder(positions[i])

ClaimsTold(answer, mine, residue) ==
  /\ answer.total = MapThenSumSet(Owed, mine) + residue
  /\ \A k \in DOMAIN answer.items : ItemTold(answer.items[k], mine, residue)

ToolsTell(seen, market, odds, best) ==
  /\ \A offered \in Quotes :
       BookTold(seen, offered, AskBook(market, odds, best, offered),
                AskBook(market, Failed, Failed, offered))
  /\ \A u \in Holders :
       ClaimsTold(AskClaimable(seen, u), {i \in DOMAIN positions : positions[i].owner = u},
                  IF u = ResidueOwner THEN ResidueDue ELSE 0)

\* An agent that acts on a tool gets what it was told.  A market it may enter is
\* one the settler takes stake in, and with no vintage open each outcome accepts
\* what is said, the fallback names the client's own outcome and probabilities,
\* and the room it has.  Every claimable item names the call that pays it, why it
\* is owed and how much, together what the wallet is owed, and a payout is split
\* into principal, vesting and the refused remainder (marketBookTool,
\* claimableTool, domain.ts).  With a vintage open the answers are about books
\* that vintage will still change; on a void the annotation names vesting that a
\* void does not pay.
ToolsAgree == Asked => ToolsTell(Seen, Market(Seen), Odds(Seen), Best(Seen))

\* What the stake panel, the book table's room and the comparator say of a stake.
StakeTold(o, offered, panel, room, placed) ==
  /\ panel.signable = (status = "Open" /\ now < ResolutionTime)
  /\ placed.incumbents.to <= placed.incumbents.from
  /\ panel.signable /\ ~vintageOpen =>
       /\ panel.acceptance.accepted = SoleAcceptance(o, offered)
       /\ room = None \/ room >= offered => SoleAcceptance(o, offered) = offered
       /\ placed.note.says = "all" /\ placed.note.upTo # None =>
            SoleAcceptance(o, placed.note.upTo) = placed.note.upTo
       /\ placed.note.says = "capacity reached" =>
            Headroom(books[placed.note.vestsInto]) < offered

\* What the position panel says of position i.
PositionTold(i, row) == row.readyToPull = Owed(i) /\ row.awaiting = (i \in pending)

\* What the comparator says of the positions in mine.
RulesTold(mine, compared) ==
  /\ DOMAIN compared.positions = mine \ pending
  /\ (compared.mode = "position") = (mine \ pending # {})
  /\ \A i \in mine \ pending :
       LET c == compared.positions[i]
           classic == (acceptedPool * positions[i].accepted)
                        \div books[positions[i].outcome].principal
       IN  /\ c.vested = Payout(positions[i])
           /\ c.verdict # None => c.verdict.vestedAhead = (c.vested > classic)

\* What the portfolio and the claim page add up for the owner of mine.
TotalsTold(mine, totals, claims, residue) ==
  LET settled(i) == IF Owed(i) = 0 THEN 0 ELSE Settlement(positions[i])
  IN  /\ totals.offered - totals.accepted - totals.refused
           = MapThenSumSet(LAMBDA i : positions[i].offered, pending \cap mine)
      /\ claims.stats.settlement + claims.stats.voidRefund = MapThenSumSet(settled, mine)
      /\ claims.stats.settlement > 0 => status = "Resolved"
      /\ claims.stats.voidRefund > 0 => status = "Voided"
      /\ claims.total = MapThenSumSet(Owed, mine) + residue

HolderTold(seen, page, u, held) ==
  /\ \A i \in DOMAIN held : PositionTold(i, Shown(page, held[i]))
  /\ RulesTold(DOMAIN held, Web!RuleComparator(page, held))
  /\ TotalsTold(DOMAIN held, Web!PortfolioTotals(held), ClaimPage(seen, u),
                IF u = ResidueOwner THEN ResidueDue ELSE 0)

\* The replay against the settler: its books, its positions, its curve.
ReplayTold(seen, sim, start) ==
  /\ \A w \in Outcomes :
       /\ sim.books[w].principal = books[w].principal /\ sim.books[w].acc = books[w].acc
       /\ sim.books[w].vested = books[w].vested
       /\ sim.books[w].capacity = seen.books[w].capacity
       /\ status = "Open" => sim.books[w].live = books[w].live
       /\ LET bar == Web!CapacityBar(sim.books[w].capacity, sim.books[w].vested) IN
          bar.full = (Headroom(books[w]) = 0) /\ (bar.consumedPpm = 1000 => bar.full)
       /\ LET a == start[w].vpm  b == start[w].classic IN
          a.part * b.of <= b.part * a.of /\ b.part * a.of < (a.part + 1) * b.of
  /\ sim.acceptedPool = acceptedPool
  /\ \A i \in {j \in DOMAIN positions : positions[j].finalized} :
       /\ sim.positions[i].accepted = positions[i].accepted
       /\ sim.positions[i].entryAcc = positions[i].entryAcc
Replay(seen, sim) == ReplayTold(seen, sim, Web!ToCurveSeries(sim.history)[1])

PagesTell(seen, page, table) ==
  /\ \A o \in Outcomes, offered \in Quotes :
       StakeTold(o, offered, Web!StakePanel(page, o, offered), table[o].room,
                 Web!NewEntry(page, o, offered))
  /\ Replay(seen, Replayed)

\* A person who acts on a page gets what it said.  A stake can be signed exactly
\* while the settler takes one, and with no vintage open the estimate is what it
\* accepts, the room in the table and the stake the comparator says would go in
\* full are taken whole, and the book it names had not the room; what a position
\* is told is ready to pull is what withdrawRefund or claim pays, nothing before
\* its vintage closes; the comparator opens on the positions that are ruled on
\* and its vested column is what they would be paid, its verdict the rule that
\* pays more; a wallet's totals lack exactly what still waits, and its claims are
\* split by why they are owed; and the replay the fixtures are built by reaches,
\* batch by batch, the books and positions the settler reaches lazily, with a
\* curve whose two lines start together up to the accumulator's floor (StakePanel,
\* BookTable, RuleComparator, PositionPanel, ClaimList, simulate.ts, toCurveSeries).
SurfaceAgrees ==
  Asked =>
    /\ PagesTell(Seen, Page(Market(Seen)), Web!BookTable(Page(Market(Seen))))
    /\ \A u \in Holders : HolderTold(Seen, Page(Market(Seen)), u, Held(Market(Seen), u))

=============================================================================
