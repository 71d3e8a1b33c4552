---------------------------- MODULE VestedIndex ----------------------------
(***************************************************************************)
(* The vested settler and the index that follows it.  Every transaction of *)
(* the settler leaves its logs in the block; when the block is over the    *)
(* index handles them in order, reading the settler as the block left it.  *)
(* The market is opened through the factory: it creates the market,        *)
(* registers the specification and hands the legs to the opener, all in    *)
(* one transaction.                                                        *)
(***************************************************************************)
EXTENDS VestedParimutuel

CONSTANTS
  None,
  Opener,         \* who calls MarketFactory.open
  OpeningSpec,    \* the specification it registers with the resolver
  MaxLogs,        \* bound: logs of one block after the opening transaction
  MaxSales        \* bound: transfers after the opening transaction

ASSUME OpeningAssumption == Opener \in Users \ {Creator}
ASSUME NullAssumption == None \notin Nat

VARIABLES
  log,            \* the logs of the block in progress
  index,          \* what the index holds
  opening,        \* the opening transaction has legs left to hand over
  entrant,        \* what has been seen: who staked each position
  sales           \* how many positions have been sold

indexVars == <<log, index, opening, entrant, sales>>
allVars == <<vars, indexVars>>

Ix == INSTANCE VenueIndex WITH KIND <- "VESTED", UNBOUNDED <- KAPPA_UNBOUNDED

\* What the settler answers to a read: getMarket, getBook, positions.
Chain == [status |-> status, winner |-> winner, acceptedPool |-> acceptedPool,
          paidOut |-> paidOut, books |-> books, positions |-> positions]

Emits(events) ==
  /\ opening \/ opening' \/ Len(log) + Len(events) <= MaxLogs
  /\ log' = log \o events
  /\ UNCHANGED index

Finalized == IF RollDue THEN <<[ev |-> "VintageFinalized", vintage |-> vintageBlock]>>
             ELSE <<>>

-----------------------------------------------------------------------------
\* MarketFactory.open: create, register, then one transfer per leg.
Open(seed, k) ==
  /\ Create(seed, k)
  /\ opening' = TRUE /\ entrant' = [w \in Outcomes |-> Opener] /\ UNCHANGED sales
  /\ Emits([w \in Outcomes |->
              [ev |-> "Entered", id |-> w, owner |-> Creator, outcome |-> w,
               offered |-> seed[w], vintage |-> 0, tx |-> "open", day |-> now]]
           \o <<[ev |-> "MarketCreated", day |-> now],
                [ev |-> "SpecRegistered", spec |-> OpeningSpec]>>)

HandLegOver(i) ==
  /\ opening /\ positions[i].owner = Creator
  /\ TransferPosition(Creator, i, Opener)
  /\ opening' = \E j \in Outcomes \ {i} : positions[j].owner = Creator
  /\ Emits(<<[ev |-> "PositionTransferred", id |-> i, to |-> Opener, tx |-> "open"]>>
           \o (IF opening' THEN <<>>
               ELSE <<[ev |-> "MarketOpened", opener |-> Opener, spec |-> OpeningSpec]>>))
  /\ UNCHANGED <<entrant, sales>>

Entry(u, o, amount) ==
  /\ Enter(u, o, amount)
  /\ Emits(Finalized \o <<[ev |-> "Entered", id |-> Count + 1, owner |-> u, outcome |-> o,
                           offered |-> amount, vintage |-> blockNo, tx |-> Count + 1,
                           day |-> now]>>)
  /\ entrant' = Append(entrant, u) /\ UNCHANGED sales

Finalization ==
  FinalizeVintage /\ RollDue /\ Emits(Finalized) /\ UNCHANGED <<entrant, sales>>

\* FeedResolver.resolve and voidStale log before they call the settler.
Resolution(w) ==
  /\ Resolve(Resolver, w)
  /\ Emits(<<[ev |-> "FeedResolved", spec |-> OpeningSpec, price |-> w]>> \o Finalized
           \o <<[ev |-> "Resolved", winner |-> w]>>)
  /\ UNCHANGED <<entrant, sales>>

Voiding(u) ==
  /\ VoidMarket(u)
  /\ Emits((IF u = Resolver THEN <<[ev |-> "VoidedStale", spec |-> OpeningSpec, age |-> now]>>
            ELSE <<>>) \o Finalized \o <<[ev |-> "Voided"]>>)
  /\ UNCHANGED <<entrant, sales>>

Withdrawal(u, i) ==
  /\ WithdrawRefund(u, i)
  /\ LET p == PositionsAfter(status = "Open" /\ RollDue)[i] IN
     Emits((IF status = "Open" THEN Finalized ELSE <<>>)
           \o <<[ev |-> "Claimed", id |-> i, payout |-> 0, refund |-> p.offered - p.accepted]>>)
  /\ UNCHANGED <<entrant, sales>>

Claiming(u, i) ==
  /\ Claim(u, i)
  /\ Emits(<<[ev |-> "Claimed", id |-> i, payout |-> Settlement(positions[i]),
              refund |-> Remainder(positions[i])]>>)
  /\ UNCHANGED <<entrant, sales>>

ResidueClaiming(u) ==
  /\ ClaimResidue(u)
  /\ Emits(<<[ev |-> "ResidueClaimed", amount |-> acceptedPool - paidOut]>>)
  /\ UNCHANGED <<entrant, sales>>

Transfer(u, i, to) ==
  /\ TransferPosition(u, i, to)
  /\ Emits(<<[ev |-> "PositionTransferred", id |-> i, to |-> to, tx |-> None]>>)
  /\ sales < MaxSales /\ sales' = sales + 1
  /\ UNCHANGED entrant

\* The block is over: its logs are indexed against the state it left behind.
Block ==
  /\ NextBlock
  /\ index' = Ix!IndexBlock(index, log, Chain)
  /\ log' = <<>>
  /\ UNCHANGED <<entrant, sales>>

-----------------------------------------------------------------------------
IndexInit == Init /\ log = <<>> /\ index = Ix!Empty /\ opening = FALSE
             /\ entrant = <<>> /\ sales = 0

Holders == Users \ {Creator}

IndexNext ==
  \/ \E seed \in Seeds, k \in Kappas : Open(seed, k)
  \/ \E i \in Outcomes : HandLegOver(i)
  \/ /\ ~opening /\ UNCHANGED opening
     /\ \/ \E u \in Holders, o \in Outcomes, amount \in Amounts : Entry(u, o, amount)
        \/ Finalization
        \/ \E w \in Outcomes : Resolution(w)
        \/ \E u \in Holders \cup {Resolver} : Voiding(u)
        \/ \E u \in Holders, i \in 1..Count : Withdrawal(u, i) \/ Claiming(u, i)
        \/ \E u \in Holders : ResidueClaiming(u)
        \/ \E u, to \in Holders, i \in 1..Count : u # to /\ Transfer(u, i, to)
        \/ Block

IndexSpec == IndexInit /\ [][IndexNext]_allVars

-----------------------------------------------------------------------------
(* Properties.  They speak of the index when a block has been handled.     *)

Indexed == log = <<>> /\ index.market # Ix!NoMarket
SumOver(f) == MapThenSumSet(LAMBDA k : f[k], DOMAIN f)
IxPositions == index.positions
IxAgents == index.agents

\* The index and the settler agree: who owns what, which entries are final and
\* at what acceptance, which were claimed and refunded, which still wait, what
\* the market's status is and how much room its books have (vested.ts, where
\* the accepted amount is in no log and the claim's log is ambiguous).
FollowsTheSettler ==
  Indexed =>
    /\ DOMAIN IxPositions = DOMAIN positions
    /\ \A i \in DOMAIN positions :
         LET p == positions[i]  q == IxPositions[i] IN
         /\ q.owner = p.owner /\ q.finalized = p.finalized
         /\ p.finalized => q.accepted = p.accepted /\ q.entryAcc = p.entryAcc
         /\ q.claimed = p.claimed
         /\ p.finalized /\ p.offered > p.accepted => q.refundWithdrawn = p.refunded
    /\ UNION {index.vintages[v].pending : v \in DOMAIN index.vintages} = pending
    /\ (index.market.openVintage # None) = vintageOpen
    /\ index.market.status = status
    /\ \A w \in Outcomes : index.books[w].headroom = Headroom(books[w])

\* Nobody is counted who never held a position, and nobody twice: the factory
\* is gone once the legs are handed over, a wallet is linked to the market
\* while it holds something there, and each day counts its stakers once
\* (recordTransfer, dropConduitAgent, countUniqueAgent).
PeopleCountedOnce ==
  Indexed =>
    /\ Creator \notin DOMAIN IxAgents
    /\ index.protocol.agentCount = Cardinality(DOMAIN IxAgents)
    /\ \A u \in Users : Ix!Get(index.links, u, 0)
                          = Cardinality({i \in DOMAIN positions : positions[i].owner = u})
    /\ \A a \in DOMAIN IxAgents :
         IxAgents[a].marketsEntered = IF a \in DOMAIN index.links THEN 1 ELSE 0
    /\ \A day \in DOMAIN index.days :
         index.days[day].uniqueAgents =
           Cardinality({entrant[i] : i \in {j \in DOMAIN IxPositions :
                                              IxPositions[j].createdAt = day}})

\* The totals are the sums of what they total: nothing is counted twice when a
\* refund and a claim, a vintage and a transfer share a block (recordSettlement,
\* recordAcceptance).
MoneyCountedOnce ==
  Indexed =>
    LET final == {i \in DOMAIN positions : positions[i].finalized}
        claimed == {i \in DOMAIN positions : positions[i].claimed}
        accepted == MapThenSumSet(LAMBDA i : positions[i].accepted, final)
        paid == MapThenSumSet(LAMBDA i : Settlement(positions[i]), claimed)
        agentSum(f(_)) == MapThenSumSet(LAMBDA a : f(IxAgents[a]), DOMAIN IxAgents)
        daySum(f(_)) == MapThenSumSet(LAMBDA d : f(index.days[d]), DOMAIN index.days)
    IN  /\ index.protocol.totalAccepted = accepted /\ index.market.acceptedPool = acceptedPool
        /\ agentSum(LAMBDA a : a.totalAccepted) = accepted
        /\ daySum(LAMBDA d : d.accepted) = accepted
        /\ SumOver([v \in DOMAIN index.vintages |-> index.vintages[v].accepted]) = accepted
        /\ index.protocol.totalClaimed = paid
        /\ agentSum(LAMBDA a : a.realizedPnl)
             = paid - MapThenSumSet(LAMBDA i : positions[i].accepted, claimed)

\* Both: who staked, and what, is counted once.
CountedOnce == PeopleCountedOnce /\ MoneyCountedOnce

\* The payout an open position is shown is the one a claim would pay if its
\* outcome won now, and on a settled market the one it does pay (refreshPreviews).
PreviewIsWhatClaimPays ==
  Indexed => \A i \in DOMAIN positions :
    LET p == positions[i] IN
    p.finalized =>
      IxPositions[i].previewPayout = IF status = "Open" THEN Payout(p) ELSE Settlement(p)

=============================================================================
