------------------------------ MODULE VenueIndex ------------------------------
(***************************************************************************)
(* The mappings of subgraph/src: what the index holds of one market after  *)
(* each log of a settler, the resolver and the factory.  Logs carry offers *)
(* and never acceptances, so handlers read the settler back; a read        *)
(* answers with the state at the end of the log's block, here chain.       *)
(* Entities of the code are the fields of one record, keyed as the code    *)
(* keys them; the market's own id is left out of the keys.                 *)
(***************************************************************************)
EXTENDS Integers, Sequences, FiniteSetsExt, Sums

CONSTANTS
  KIND,          \* the settler's kind: "VESTED" or "CLASSIC"
  SCALE,         \* fixed-point scale of the accumulator
  UNBOUNDED,     \* UNBOUNDED_SENTINEL
  None           \* null

Get(f, k, default) == IF k \in DOMAIN f THEN f[k] ELSE default
Put(f, k, v) == [x \in DOMAIN f \cup {k} |-> IF x = k THEN v ELSE f[x]]
Drop(f, k) == [x \in DOMAIN f \ {k} |-> f[x]]
SaturatingSub(a, b) == IF a > b THEN a - b ELSE 0

Vested == KIND = "VESTED"

\* A market the index has not met is a record without fields.
NoMarket == <<>>

\* Nothing indexed yet: the protocol entity with its counters at zero.
Empty ==
  [market |-> NoMarket, books |-> <<>>, positions |-> <<>>, vintages |-> <<>>,
   agents |-> <<>>, links |-> <<>>, days |-> <<>>, dayAgents |-> <<>>,
   specLinks |-> {},
   protocol |-> [marketCount |-> 0, positionCount |-> 0, totalAccepted |-> 0,
                 totalClaimed |-> 0, agentCount |-> 0]]

-----------------------------------------------------------------------------
(* Agents, and the links that count a wallet against a market once.        *)

NewAgent == [totalOffered |-> 0, totalAccepted |-> 0, totalClaimed |-> 0,
             realizedPnl |-> 0, marketsEntered |-> 0]

GetOrCreateAgent(ix, a) ==
  IF a \in DOMAIN ix.agents THEN ix
  ELSE [ix EXCEPT !.agents = Put(@, a, NewAgent), !.protocol.agentCount = @ + 1]

AttachAgentToMarket(ix, a) ==
  [ix EXCEPT !.links = Put(@, a, Get(@, a, 0) + 1),
             !.agents[a].marketsEntered = IF a \in DOMAIN ix.links THEN @ ELSE @ + 1]

DetachAgentFromMarket(ix, a) ==
  IF Get(ix.links, a, 0) > 1 THEN [ix EXCEPT !.links[a] = @ - 1]
  ELSE IF a \in DOMAIN ix.links
       THEN [ix EXCEPT !.links = Drop(@, a),
                       !.agents[a].marketsEntered = SaturatingSub(@, 1)]
       ELSE ix

-----------------------------------------------------------------------------
(* Day buckets.                                                            *)

GetOrCreateDayStat(ix, day) ==
  IF day \in DOMAIN ix.days THEN ix
  ELSE [ix EXCEPT !.days = Put(@, day, [offered |-> 0, accepted |-> 0, rationed |-> 0,
                                        entries |-> 0, uniqueAgents |-> 0])]

CountUniqueAgent(ix, day, a) ==
  [ix EXCEPT !.dayAgents = Put(@, <<day, a>>, Get(@, <<day, a>>, 0) + 1),
             !.days[day].uniqueAgents =
                IF <<day, a>> \in DOMAIN ix.dayAgents THEN @ ELSE @ + 1]

UncountUniqueAgent(ix, day, a) ==
  IF Get(ix.dayAgents, <<day, a>>, 0) > 1
  THEN [ix EXCEPT !.dayAgents[<<day, a>>] = @ - 1]
  ELSE IF <<day, a>> \in DOMAIN ix.dayAgents
       THEN [ix EXCEPT !.dayAgents = Drop(@, <<day, a>>),
                       !.days[day].uniqueAgents = SaturatingSub(@, 1)]
       ELSE ix

-----------------------------------------------------------------------------
(* The market and its books, read back from the settler.                   *)

GetOrCreateMarket(ix, e) ==
  IF ix.market # NoMarket THEN ix
  ELSE [ix EXCEPT
          !.market = [n |-> 0, status |-> "Open", winner |-> None, acceptedPool |-> 0,
                      paidOut |-> 0, residue |-> 0, residueClaimed |-> FALSE,
                      openVintage |-> None, opener |-> None, spec |-> None,
                      resolvedPrice |-> None, voidedStaleAge |-> None, createdAt |-> e.day],
          !.protocol.marketCount = @ + 1]

Odds(principal, pool) == IF pool = 0 THEN <<0, 1>> ELSE <<principal, pool>>

ApplyMarketState(m, c) ==
  [m EXCEPT !.n = Len(c.books), !.acceptedPool = c.acceptedPool, !.paidOut = c.paidOut,
            !.status = c.status,
            !.winner = IF c.status = "Resolved" THEN c.winner ELSE @,
            !.residue = IF c.status = "Resolved"
                        THEN SaturatingSub(c.acceptedPool, c.paidOut) ELSE 0]

\* H_w = C_w - V_w, never below zero; without a capacity there is no bound.
ApplyBook(b, read, pool) ==
  [principal |-> read.principal, acc |-> read.acc, vested |-> read.vested,
   capacity |-> read.capacity, positionCount |-> b.positionCount,
   headroom |-> IF read.capacity = UNBOUNDED THEN UNBOUNDED
                ELSE SaturatingSub(read.capacity, read.vested),
   impliedOdds |-> Odds(read.principal, pool)]

NewBook == [principal |-> 0, acc |-> 0, vested |-> 0, capacity |-> 0, headroom |-> 0,
            impliedOdds |-> <<0, 1>>, positionCount |-> 0]

\* syncMarket: every number of the market and its books, and every book's odds.
SyncMarket(ix, c) ==
  [ix EXCEPT !.market = ApplyMarketState(@, c),
             !.books = [w \in DOMAIN c.books |->
                          ApplyBook(Get(ix.books, w, NewBook), c.books[w], c.acceptedPool)]]

\* The first entries of a market come before MarketCreated and open its books.
BumpBookPositionCount(ix, w) ==
  LET b == Get(ix.books, w, NewBook)
  IN  [ix EXCEPT !.books = Put(@, w, [b EXCEPT !.positionCount = @ + 1])]

-----------------------------------------------------------------------------
(* What claim would pay a position if its own outcome won.                 *)

\* Mutant of PreviewPayout: the multiple before the position's own vintage is
\* paid too.
PreviewFromOpening(ix, p) ==
  IF ix.market.status = "Voided" THEN p.accepted
  ELSE IF \/ ix.market.status = "Resolved" /\ p.outcome # ix.market.winner
          \/ p.outcome \notin DOMAIN ix.books
       THEN 0
  ELSE (p.accepted * (SCALE + ix.books[p.outcome].acc)) \div SCALE

PreviewPayout(ix, p) ==
  LET b == ix.books[p.outcome] IN
  IF ix.market.status = "Voided" THEN p.accepted
  ELSE IF \/ ix.market.status = "Resolved" /\ p.outcome # ix.market.winner
          \/ p.outcome \notin DOMAIN ix.books
          \/ p.accepted = 0
       THEN 0
  ELSE IF Vested
       THEN IF b.acc < p.entryAcc THEN p.accepted
            ELSE (p.accepted * (SCALE + b.acc - p.entryAcc)) \div SCALE
  ELSE IF b.principal = 0 THEN 0
       ELSE (ix.market.acceptedPool * p.accepted) \div b.principal

RefreshPreviews(ix) ==
  [ix EXCEPT !.positions = [i \in DOMAIN @ |->
     [@[i] EXCEPT !.previewPayout = PreviewPayout(ix, ix.positions[i])]]]

-----------------------------------------------------------------------------
(* Entries, acceptances, transfers and settlement: shared by both settlers. *)

NewPosition(e) ==
  [owner |-> e.owner, outcome |-> e.outcome, offered |-> e.offered, accepted |-> 0,
   refused |-> 0, finalized |-> FALSE, entryAcc |-> 0, refundWithdrawn |-> FALSE,
   claimed |-> FALSE, payout |-> 0, previewPayout |-> 0, createdAt |-> e.day,
   createdTx |-> e.tx, vintage |-> None]

RecordEntry(ix, e) ==
  LET put == [GetOrCreateAgent(ix, e.owner) EXCEPT
                !.positions = Put(@, e.id, NewPosition(e)),
                !.agents[e.owner].totalOffered = @ + e.offered,
                !.protocol.positionCount = @ + 1]
      bumped == BumpBookPositionCount(AttachAgentToMarket(put, e.owner), e.outcome)
      bucket == [GetOrCreateDayStat(bumped, e.day) EXCEPT
                   !.days[e.day].offered = @ + e.offered, !.days[e.day].entries = @ + 1]
  IN  CountUniqueAgent(bucket, e.day, e.owner)

\* Attributed to the day the stake was offered, and to the owner of now.
RecordAcceptance(ix, i, accepted, entryAcc) ==
  LET p == ix.positions[i]
      refused == SaturatingSub(p.offered, accepted)
  IN  [GetOrCreateDayStat(ix, p.createdAt) EXCEPT
         !.positions[i] = [p EXCEPT !.accepted = accepted, !.entryAcc = entryAcc,
                                    !.refused = refused, !.finalized = TRUE],
         !.agents = IF p.owner \in DOMAIN ix.agents
                    THEN [ix.agents EXCEPT ![p.owner].totalAccepted = @ + accepted]
                    ELSE ix.agents,
         !.days[p.createdAt].accepted = @ + accepted,
         !.days[p.createdAt].rationed = @ + refused,
         !.protocol.totalAccepted = @ + accepted]

\* dropConduitAgent: it staked nothing, claimed nothing and holds nothing.
IsConduit(ix, a) ==
  /\ ix.agents[a] = NewAgent
  /\ \A i \in DOMAIN ix.positions : ix.positions[i].owner # a
DropConduitAgent(ix, a) ==
  IF IsConduit(ix, a)
  THEN [ix EXCEPT !.agents = Drop(@, a), !.protocol.agentCount = SaturatingSub(@, 1)]
  ELSE ix

\* The position and its link go to the receiver; inside the transaction that
\* created it, what the sender is credited with goes too.
MoveOwnership(ix, i, from, to) ==
  LET moved == AttachAgentToMarket([ix EXCEPT !.positions[i].owner = to], to)
  IN  DetachAgentFromMarket(moved, from)

HandOver(ix, p, from, to) ==
  LET credited == [ix EXCEPT !.agents[from].totalOffered = SaturatingSub(@, p.offered),
                             !.agents[from].totalAccepted = SaturatingSub(@, p.accepted),
                             !.agents[to].totalOffered = @ + p.offered,
                             !.agents[to].totalAccepted = @ + p.accepted]
      recounted == CountUniqueAgent(UncountUniqueAgent(credited, p.createdAt, from),
                                    p.createdAt, to)
  IN  DropConduitAgent(recounted, from)

RecordTransfer(ix, i, to, tx) ==
  LET p == ix.positions[i]
      known == GetOrCreateAgent(ix, to)
      moved == MoveOwnership(known, i, p.owner, to)
  IN  IF p.owner = to THEN known
      ELSE IF p.createdTx = tx THEN HandOver(moved, p, p.owner, to) ELSE moved

\* Mutant of RecordSettlement: the principal comes off with every settling log.
RecordSettlementEachLog(ix, i, payout, refund, settled) ==
  LET p == ix.positions[i]
      cost == IF settled THEN p.accepted ELSE 0
  IN  [ix EXCEPT
         !.positions[i] = [p EXCEPT !.refundWithdrawn = @ \/ refund > 0,
                                    !.payout = @ + payout, !.claimed = @ \/ settled],
         !.protocol.totalClaimed = @ + payout,
         !.agents[p.owner].totalClaimed = @ + payout,
         !.agents[p.owner].realizedPnl = @ + payout - cost]
\* The payout is counted log by log; the principal comes off once.
RecordSettlement(ix, i, payout, refund, settled) ==
  LET p == ix.positions[i]
      first == settled /\ ~p.claimed
      cost == IF first THEN p.accepted ELSE 0
  IN  [ix EXCEPT
         !.positions[i] = [p EXCEPT !.refundWithdrawn = @ \/ refund > 0,
                                    !.payout = @ + payout, !.claimed = @ \/ settled],
         !.protocol.totalClaimed = @ + payout,
         !.agents[p.owner].totalClaimed = @ + payout,
         !.agents[p.owner].realizedPnl = @ + payout - cost]

-----------------------------------------------------------------------------
(* Handlers of the vested settler.                                         *)

GetOrCreateVintage(ix, v) ==
  IF v \in DOMAIN ix.vintages THEN ix
  ELSE [ix EXCEPT !.vintages = Put(@, v, [offered |-> 0, accepted |-> 0, rationed |-> 0,
                                          entryCount |-> 0, finalized |-> FALSE,
                                          pending |-> {}])]

CloseVintage(ix, v, accepted) ==
  LET total == ix.vintages[v].accepted + accepted
  IN  [ix EXCEPT !.vintages[v] =
         [@ EXCEPT !.accepted = total, !.finalized = TRUE, !.pending = {},
                   !.rationed = SaturatingSub(ix.vintages[v].offered, total)]]

HandleMarketCreated(ix, e, c) == RefreshPreviews(SyncMarket(GetOrCreateMarket(ix, e), c))

\* A seed leg is booked at once; another entry waits for its vintage.
HandleEnteredVested(ix, e, c) ==
  LET recorded == RecordEntry(GetOrCreateMarket(ix, e), e)
      opened == [GetOrCreateVintage(recorded, e.vintage) EXCEPT
                   !.vintages[e.vintage].offered = @ + e.offered,
                   !.vintages[e.vintage].entryCount = @ + 1,
                   !.positions[e.id].vintage = e.vintage]
      p == c.positions[e.id]
      seeded == [RecordAcceptance(opened, e.id, p.accepted, p.entryAcc) EXCEPT
                   !.positions[e.id].refundWithdrawn = p.refunded]
  IN  IF e.vintage = 0 THEN CloseVintage(seeded, 0, p.accepted)
      ELSE [opened EXCEPT !.vintages[e.vintage].pending = @ \cup {e.id},
                          !.market.openVintage = e.vintage]

\* The entries of a vintage are accepted in the order they came; the settler
\* numbers them so.
AcceptPending(ix, ids, c) ==
  LET booked[n \in 0..Max(ids \cup {0})] ==
        IF n = 0 THEN ix
        ELSE IF n \notin ids THEN booked[n-1]
        ELSE RecordAcceptance(booked[n-1], n, c.positions[n].accepted, c.positions[n].entryAcc)
  IN  booked[Max(ids \cup {0})]
AcceptedOf(ids, c) ==
  Sum([n \in 1..Max(ids \cup {0}) |-> IF n \in ids THEN c.positions[n].accepted ELSE 0],
      Max(ids \cup {0}))

HandleVintageFinalized(ix, e, c) ==
  LET v == e.vintage
      ids == ix.vintages[v].pending
      closed == CloseVintage(AcceptPending(ix, ids, c), v, AcceptedOf(ids, c))
  IN  IF v \notin DOMAIN ix.vintages THEN ix
      ELSE RefreshPreviews(SyncMarket([closed EXCEPT !.market.openVintage = None], c))

\* Mutant of Settling: the flag is not read back, a bare refund never settles.
SettlingByLog(e, c) == e.payout > 0 \/ e.refund = 0
\* Whether a Claimed log settles: by its shape, or else by the settler's flag.
Settling(e, c) == e.payout > 0 \/ e.refund = 0 \/ c.positions[e.id].claimed

HandleClaimedVested(ix, e, c) ==
  SyncMarket(RecordSettlement(ix, e.id, e.payout, e.refund, Settling(e, c)), c)

-----------------------------------------------------------------------------
(* Handlers of the classic settler.                                        *)

HandleEnteredClassic(ix, e, c) ==
  LET recorded == RecordEntry(GetOrCreateMarket(ix, e), e)
  IN  RefreshPreviews(SyncMarket(RecordAcceptance(recorded, e.id, e.offered, 0), c))

\* Mutant of Returned: the log is read raw.
ReturnedRaw(ix, e) == e.payout
\* On a void this settler reports the principal as a refund.
Returned(ix, e) == IF ix.market.status = "Voided" THEN e.refund ELSE e.payout

HandleClaimedClassic(ix, e, c) ==
  SyncMarket(RecordSettlement(ix, e.id, Returned(ix, e), 0, TRUE), c)

-----------------------------------------------------------------------------
(* Handlers both settlers have, and those of the resolver and the factory. *)

HandleResolved(ix, e, c) ==
  RefreshPreviews(SyncMarket(
    [ix EXCEPT !.market.status = "Resolved", !.market.winner = e.winner], c))

HandleVoided(ix, c) ==
  RefreshPreviews(SyncMarket([ix EXCEPT !.market.status = "Voided"], c))

HandleResidueClaimed(ix, e, c) ==
  [SyncMarket(ix, c) EXCEPT !.market.residue = e.amount, !.market.residueClaimed = TRUE]

HandleSpecRegistered(ix, e) ==
  [ix EXCEPT !.market.spec = e.spec, !.specLinks = @ \cup {e.spec}]
HandleFeedResolved(ix, e) == [ix EXCEPT !.market.resolvedPrice = e.price]
HandleVoidedStale(ix, e) == [ix EXCEPT !.market.voidedStaleAge = e.age]
HandleMarketOpened(ix, e) == [ix EXCEPT !.market.opener = e.opener, !.market.spec = e.spec]

\* A log about a market or a position the index does not hold is passed over.
Unknown(ix, e) ==
  \/ e.ev \notin {"MarketCreated", "Entered"} /\ ix.market = NoMarket
  \/ e.ev \in {"Claimed", "PositionTransferred"} /\ e.id \notin DOMAIN ix.positions
  \/ e.ev \in {"FeedResolved", "VoidedStale"} /\ e.spec \notin ix.specLinks

Handle(ix, e, c) ==
  IF Unknown(ix, e) THEN ix
  ELSE
  CASE e.ev = "MarketCreated" -> HandleMarketCreated(ix, e, c)
    [] e.ev = "Entered" -> IF Vested THEN HandleEnteredVested(ix, e, c)
                           ELSE HandleEnteredClassic(ix, e, c)
    [] e.ev = "VintageFinalized" -> HandleVintageFinalized(ix, e, c)
    [] e.ev = "Claimed" -> IF Vested THEN HandleClaimedVested(ix, e, c)
                           ELSE HandleClaimedClassic(ix, e, c)
    [] e.ev = "Resolved" -> HandleResolved(ix, e, c)
    [] e.ev = "Voided" -> HandleVoided(ix, c)
    [] e.ev = "ResidueClaimed" -> HandleResidueClaimed(ix, e, c)
    [] e.ev = "PositionTransferred" -> RecordTransfer(ix, e.id, e.to, e.tx)
    [] e.ev = "SpecRegistered" -> HandleSpecRegistered(ix, e)
    [] e.ev = "FeedResolved" -> HandleFeedResolved(ix, e)
    [] e.ev = "VoidedStale" -> HandleVoidedStale(ix, e)
    [] e.ev = "MarketOpened" -> HandleMarketOpened(ix, e)

\* A block: its logs in order, every read answered by the state at its end.
IndexBlock(ix, log, chain) ==
  LET handled[n \in 0..Len(log)] ==
        IF n = 0 THEN ix ELSE Handle(handled[n-1], log[n], chain)
  IN  handled[Len(log)]
=============================================================================
