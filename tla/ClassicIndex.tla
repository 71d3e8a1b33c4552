---------------------------- MODULE ClassicIndex ----------------------------
(***************************************************************************)
(* The classic settler and the index that follows it, for a market its     *)
(* creator opened without the factory.  As in VestedIndex, a block's logs  *)
(* are handled when it is over, against the state it left behind.          *)
(***************************************************************************)
EXTENDS ClassicParimutuel

CONSTANTS
  None,
  MaxLogs         \* bound: entries and transfers join a block of fewer logs

VARIABLES
  log,            \* the logs of the block in progress
  index           \* what the index holds

allVars == <<vars, log, index>>

Ix == INSTANCE VenueIndex WITH KIND <- "CLASSIC", SCALE <- 1, UNBOUNDED <- -1
Web == INSTANCE WebMath WITH SCALE <- 1, PPM <- 1000, ClampPasses <- 1

\* A read of the settler; the mapping writes its books without capacity.
Chain == [status |-> status, winner |-> winner, acceptedPool |-> acceptedPool,
          paidOut |-> paidOut,
          books |-> [w \in Outcomes |-> [principal |-> books[w].principal, acc |-> 0,
                                         capacity |-> -1, vested |-> 0]]]

Emits(events) == log' = log \o events /\ UNCHANGED index
Room == Len(log) < MaxLogs

Entered(i, u, o, amount) ==
  [ev |-> "Entered", id |-> i, owner |-> u, outcome |-> o, offered |-> amount,
   tx |-> i, day |-> now]

Creation(seed) ==
  Create(seed) /\ Emits([o \in Outcomes |-> Entered(o, Creator, o, seed[o])]
                        \o <<[ev |-> "MarketCreated", day |-> now]>>)
Entry(u, o, amount) ==
  Room /\ Enter(u, o, amount) /\ Emits(<<Entered(Count + 1, u, o, amount)>>)
Resolution(w) ==
  Resolve(Resolver, w) /\ Emits(<<[ev |-> status', winner |-> w]>>)
Voiding == (\E u \in Users : VoidMarket(u)) /\ Emits(<<[ev |-> "Voided"]>>)
EarlyVoiding == VoidMarket(Resolver) /\ Emits(<<[ev |-> "Voided"]>>)
Claiming(u, i) ==
  /\ Claim(u, i)
  /\ LET p == positions[i]
         back == IF status = "Voided" THEN p.accepted ELSE 0
         payout == IF status = "Voided" THEN 0 ELSE Payout(p)
     IN  Emits(<<[ev |-> "Claimed", id |-> i, payout |-> payout, refund |-> back]>>)
ResidueClaiming ==
  (\E u \in Users : ClaimResidue(u))
  /\ Emits(<<[ev |-> "ResidueClaimed", amount |-> acceptedPool - paidOut]>>)
Transfer(u, i, to) ==
  /\ Room /\ u # to /\ TransferPosition(u, i, to)
  /\ Emits(<<[ev |-> "PositionTransferred", id |-> i, to |-> to, tx |-> None]>>)

Block ==
  /\ log # <<>>
  /\ index' = Ix!IndexBlock(index, log, Chain) /\ log' = <<>>
  /\ UNCHANGED vars
Time == log = <<>> /\ Tick /\ UNCHANGED <<log, index>>

-----------------------------------------------------------------------------
IndexInit == Init /\ log = <<>> /\ index = Ix!Empty

IndexNext ==
  \/ \E seed \in Seeds : Creation(seed)
  \/ \E u \in Users, o \in Outcomes, amount \in Amounts : Entry(u, o, amount)
  \/ \E w \in Outcomes : Resolution(w)
  \/ Voiding \/ EarlyVoiding
  \/ \E u \in Users, i \in 1..Count : Claiming(u, i)
  \/ ResidueClaiming
  \/ \E u, to \in Users, i \in 1..Count : Transfer(u, i, to)
  \/ Block \/ Time

\* As for the settler alone; every block ends and is indexed, whatever blocks hold
\* time passes, and one of them has room for the void.
IndexFairness ==
  /\ []<>(log = <<>>) /\ SF_allVars(Time) /\ SF_allVars(Voiding)
  /\ WF_allVars(\E u \in Users, i \in 1..Count : Claiming(u, i))
  /\ WF_allVars(ResidueClaiming)

IndexSpec == IndexInit /\ [][IndexNext]_allVars /\ IndexFairness

-----------------------------------------------------------------------------
\* The market page, as the client answers from the index.
Page ==
  Web!ToMarketDetail(
    [status |-> index.market.status, resolutionTime |-> ResolutionTime,
     winner |-> IF index.market.status = "Resolved" THEN index.market.winner ELSE None,
     acceptedPool |-> index.market.acceptedPool, frozen |-> now >= ResolutionTime,
     books |-> [w \in Outcomes |->
       [principal |-> index.books[w].principal, vested |-> 0, acc |-> 0, capacity |-> None,
        live |-> None, probabilityPpm |-> 0]]], "classic")
Shown(i) == Web!PositionRow(Page, Web!ToPositionView(index.positions[i], "classic"))

\* The fixtures' replay of this market.
Replayed ==
  LET sim[i \in N..Len(positions)] ==
        IF i = N THEN Web!ClassicSim([o \in Outcomes |-> positions[o].accepted])
        ELSE Web!ClassicVintage(sim[i-1], [outcome |-> positions[i].outcome,
                                           amount |-> positions[i].accepted])
  IN  sim[Len(positions)]

\* A holder's record is what the settler did for it: what was returned on a void
\* counts as the settlement, so a holder refunded in full is never shown as
\* having lost, and what a position is shown before its claim is what it is paid,
\* by the index and on the market page alike, on the books a replay of the same
\* stakes has (classic.ts, handleClaimed; refreshPreviews; PositionPanel;
\* classicVintage of simulate.ts). And nobody loses to themselves: a market one
\* address made every entry of returns everything, in however many entries and
\* whoever holds them now (resolve, "cannot be settled against anyone").
HoldersMadeWhole ==
  log = <<>> /\ index.market # Ix!NoMarket =>
    LET returned(i) == IF status = "Voided" THEN positions[i].accepted
                       ELSE Payout(positions[i])
        claimed == {i \in DOMAIN positions : positions[i].claimed}
    IN  /\ index.market.status = status
        /\ status = "Resolved" => Cardinality(seen) >= 2
        /\ \A i \in DOMAIN positions :
             LET q == index.positions[i] IN
             /\ q.owner = positions[i].owner /\ q.claimed = positions[i].claimed
             /\ status \in {"Resolved", "Voided"} => q.previewPayout = returned(i)
             /\ q.claimed => q.payout = returned(i)
             /\ Shown(i).readyToPull = IF status = "Open" \/ q.claimed THEN 0 ELSE returned(i)
        /\ Replayed.acceptedPool = acceptedPool
        /\ \A w \in Outcomes : Replayed.books[w].principal = books[w].principal
        /\ \A a \in DOMAIN index.agents :
             index.agents[a].realizedPnl =
               MapThenSumSet(LAMBDA i : IF positions[i].owner = a
                                        THEN returned(i) - positions[i].accepted ELSE 0,
                             claimed)
=============================================================================
