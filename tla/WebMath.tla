-------------------------------- MODULE WebMath --------------------------------
(***************************************************************************)
(* The arithmetic of apps/web: the settlers' rules restated on plain       *)
(* values, the replay that builds the fixture markets, and what the pages  *)
(* make of the client's answers.  Outcome o of the code is o+1, null is    *)
(* None, a function that throws returns None; labels, tones, links and the *)
(* digits an amount is cut to are left out.                                *)
(***************************************************************************)
EXTENDS Integers, FiniteSetsExt, SequencesExt, TLC

CONSTANTS
  None,
  SCALE,            \* ACC_SCALE
  PPM,              \* parts per million
  ClampPasses       \* 64 in seedClamp

Total(f) == MapThenSumSet(LAMBDA k : f[k], DOMAIN f)
Others(books, o) == DOMAIN books \ {o}

-----------------------------------------------------------------------------
(* lib/units.ts and lib/vpm.ts                                             *)

ShareToPpm(part, whole) == IF whole = 0 THEN 0 ELSE (part * PPM) \div whole

\* H_w, floored at 0; null without a ceiling.
BookHeadroom(capacity, vested) ==
  IF capacity = None THEN None ELSE Max({0, capacity - vested})

\* capacityBar: the two shares make up the track; a book without principal is full.
CapacityBar(capacity, vested) ==
  LET raw == IF capacity = 0 THEN PPM ELSE ShareToPpm(vested, capacity)
      consumed == IF capacity = None THEN 0 ELSE Min({raw, PPM})
  IN  [unbounded |-> capacity = None, headroom |-> BookHeadroom(capacity, vested),
       consumedPpm |-> consumed, freePpm |-> PPM - consumed,
       full |-> BookHeadroom(capacity, vested) = 0]

\* Mutant of CapAlone: the entry's own offer is left out of the demand.
CapAloneOfQueue(book, offered) ==
  LET headroom == BookHeadroom(book.capacity, book.vested)
  IN  IF headroom = None \/ book.demand <= headroom THEN offered
      ELSE (offered * headroom) \div book.demand
\* What one opposing book would take, the entry's own offer part of its demand.
CapAlone(book, offered) ==
  LET headroom == BookHeadroom(book.capacity, book.vested)
      demand == book.demand + offered
  IN  IF headroom = None \/ demand <= headroom THEN offered
      ELSE (offered * headroom) \div demand

\* simulateEntry: each opposing book's cap, then the least of them in one pass;
\* the first book to reach it is the one that binds.
SimulateEntry(books, o, offered) ==
  LET cap(w) == CapAlone(books[w], offered)
      opposing == Others(books, o)
      accepted == Min({offered} \cup {cap(w) : w \in opposing})
      binding == {w \in opposing : accepted < offered /\ cap(w) = accepted}
      bounded == {w \in opposing : books[w].capacity # None}
      allowance(w) == Max({0, BookHeadroom(books[w].capacity, books[w].vested) - books[w].demand})
  IN  IF opposing = {}
      THEN [accepted |-> 0, refused |-> offered, bindingOutcome |-> None, maxFullyAccepted |-> 0]
      ELSE [accepted |-> accepted, refused |-> offered - accepted,
            bindingOutcome |-> IF binding = {} THEN None ELSE Min(binding),
            maxFullyAccepted |-> IF bounded = {} THEN None
                                 ELSE Min({allowance(w) : w \in bounded})]

\* A negative delta comes of two states that do not belong together: nothing.
EarnedVesting(accepted, entryAcc, currentAcc) ==
  IF currentAcc <= entryAcc \/ accepted <= 0 THEN 0
  ELSE (accepted * (currentAcc - entryAcc)) \div SCALE

VpmPayout(accepted, entryAcc, currentAcc) ==
  IF accepted <= 0 THEN 0 ELSE accepted + EarnedVesting(accepted, entryAcc, currentAcc)

ClassicPayout(accepted, winningPrincipal, acceptedPool) ==
  IF accepted <= 0 \/ winningPrincipal <= 0 THEN 0
  ELSE (acceptedPool * accepted) \div winningPrincipal

VestingMultiplePpm(entryAcc, currentAcc) ==
  ((SCALE + Max({0, currentAcc - entryAcc})) * PPM) \div SCALE

ClassicMultiplePpm(winningPrincipal, acceptedPool) ==
  IF winningPrincipal <= 0 THEN None ELSE (acceptedPool * PPM) \div winningPrincipal

\* compare: signed division truncates toward zero in the code.
Compare(stake, vpm, classic) ==
  LET ratio(x) == CASE stake <= 0 -> None
                    [] stake > 0 /\ x >= 0 -> (x * PPM) \div stake
                    [] OTHER -> -((-x * PPM) \div stake)
  IN  [stake |-> stake, vpm |-> vpm, classic |-> classic, delta |-> vpm - classic,
       vpmMultiplePpm |-> ratio(vpm), classicMultiplePpm |-> ratio(classic),
       deltaOfStakePpm |-> ratio(vpm - classic)]

TotalPrincipal(books) == Total([w \in DOMAIN books |-> books[w].principal])

\* One position under each rule, on the same accepted principal.
PositionComparison(books, p) ==
  Compare(p.accepted,
          VpmPayout(p.accepted, p.entryAcc, books[p.outcome].acc),
          ClassicPayout(p.accepted, books[p.outcome].principal, TotalPrincipal(books)))

\* One offer under each rule: the vested one takes what fits and returns the
\* rest, the classic one takes it whole.
NewEntryComparison(books, o, offered) ==
  LET acceptance == SimulateEntry(books, o, offered)
      principal == books[o].principal
      pool == TotalPrincipal(books)
  IN  [acceptance |-> acceptance,
       comparison |-> Compare(offered, acceptance.accepted + acceptance.refused,
                              ClassicPayout(offered, principal + offered, pool + offered)),
       incumbentMultipleBeforePpm |-> ClassicMultiplePpm(principal, pool),
       incumbentClassicMultipleAfterPpm |->
         ClassicMultiplePpm(principal + offered, pool + offered)]

-----------------------------------------------------------------------------
(* lib/data/simulate.ts: the replay, one batch of entries at a time.       *)

\* One leg: the offer, cut to kappa times the least of the others.
ClampLeg(offered, accepted, o, kappa) ==
  Min({offered[o]} \cup {kappa * accepted[w] : w \in Others(accepted, o)})

ClampPass(offered, accepted, kappa) ==
  LET upTo[o \in 0..Len(offered)] ==
        IF o = 0 THEN accepted
        ELSE [upTo[o-1] EXCEPT ![o] = ClampLeg(offered, upTo[o-1], o, kappa)]
  IN  upTo[Len(offered)]

\* seedClamp: passes over the legs in place until one of them changes nothing.
SeedClamp(offered, kappa) ==
  LET pass[i \in 0..ClampPasses] ==
        IF i = 0 THEN offered ELSE ClampPass(offered, pass[i-1], kappa)
  IN  CASE kappa = None -> offered
        [] kappa # None /\ pass[ClampPasses] = pass[ClampPasses - 1] -> pass[ClampPasses]
        [] OTHER -> None

SimSeedBook(leg, w, kappa) ==
  LET against == Total(leg) - leg[w]
  IN  [principal |-> leg[w], acc |-> (against * SCALE) \div leg[w],
       capacity |-> IF kappa = None THEN None ELSE kappa * leg[w],
       vested |-> against, live |-> 1]

SimPosition(o, offered, accepted, entryAcc) ==
  [outcome |-> o, offered |-> offered, accepted |-> accepted, entryAcc |-> entryAcc]

\* snapshot: what the curve is drawn from.
Snapshot(books) ==
  [w \in DOMAIN books |-> [principal |-> books[w].principal, acc |-> books[w].acc]]

\* The constructor: a leg clamped to nothing throws, as does a clamp without end.
MarketSim(seed, kappa) ==
  LET leg == SeedClamp(seed, kappa)
      books == [w \in DOMAIN seed |-> SimSeedBook(leg, w, kappa)]
  IN  IF leg = None \/ \E w \in DOMAIN seed : leg[w] <= 0 THEN None
      ELSE [kappa |-> kappa, books |-> books, acceptedPool |-> Total(leg),
            positions |-> [w \in DOMAIN seed |-> SimPosition(w, seed[w], leg[w], 0)],
            history |-> <<Snapshot(books)>>]

\* The rationing of one entry against the headroom as the batch found it.
Take(books, entry, demand) ==
  LET room(w) == BookHeadroom(books[w].capacity, books[w].vested)
      queued == {w \in Others(books, entry.outcome) : room(w) # None /\ demand[w] > room(w)}
  IN  Min({entry.amount} \cup {(entry.amount * room(w)) \div demand[w] : w \in queued})

\* vintage: ration all, vest all, then book all.
Vintage(sim, entries) ==
  LET against(f, w) == Total([k \in {j \in DOMAIN f : entries[j].outcome # w} |-> f[k]])
      demand == [w \in DOMAIN sim.books |->
                   against([k \in DOMAIN entries |-> entries[k].amount], w)]
      take == [k \in DOMAIN entries |-> Take(sim.books, entries[k], demand)]
      onto(w) == {k \in DOMAIN entries : entries[k].outcome = w}
      joined(w) == Total([k \in onto(w) |-> take[k]])
      vest(w) == LET b == sim.books[w]  inflow == against(take, w) IN
                 [b EXCEPT !.acc = @ + (inflow * SCALE) \div b.principal, !.vested = @ + inflow]
      booked == [w \in DOMAIN sim.books |->
                  [vest(w) EXCEPT !.principal = @ + joined(w),
                     !.capacity = IF @ = None THEN None ELSE @ + sim.kappa * joined(w),
                     !.live = @ + Cardinality({k \in onto(w) : take[k] > 0})]]
  IN  [sim EXCEPT
         !.books = booked,
         !.acceptedPool = @ + Total(take),
         !.positions = @ \o [k \in DOMAIN entries |->
                               SimPosition(entries[k].outcome, entries[k].amount, take[k],
                                           vest(entries[k].outcome).acc)],
         !.history = Append(@, Snapshot(booked))]

\* The classic replay: every leg and every offer whole, no ceiling, no vesting.
ClassicSim(seed) ==
  LET books == [w \in DOMAIN seed |-> [principal |-> seed[w], acc |-> 0, capacity |-> None,
                                       vested |-> 0, live |-> 1]]
  IN  IF \E w \in DOMAIN seed : seed[w] <= 0 THEN None
      ELSE [kappa |-> None, books |-> books, acceptedPool |-> Total(seed),
            positions |-> [w \in DOMAIN seed |-> SimPosition(w, seed[w], seed[w], 0)],
            history |-> <<Snapshot(books)>>]

ClassicVintage(sim, entry) ==
  [sim EXCEPT !.books[entry.outcome].principal = @ + entry.amount,
              !.books[entry.outcome].live = @ + 1,
              !.acceptedPool = @ + entry.amount,
              !.positions = Append(@, SimPosition(entry.outcome, entry.amount, entry.amount, 0))]

-----------------------------------------------------------------------------
(* lib/data/live.ts: the client's answers as the pages take them.          *)

\* toOutcome: the queue behind a book is not in the answer, and taken for empty.
ToOutcome(b) ==
  [principal |-> b.principal, vested |-> b.vested, capacity |-> b.capacity, acc |-> b.acc,
   demand |-> 0, live |-> b.live, probabilityPpm |-> b.probabilityPpm]

\* toMarketDetail: nor are an open vintage, the history or anybody's positions.
ToMarketDetail(answer, settlerKind) ==
  [settlerKind |-> settlerKind, status |-> answer.status, winner |-> answer.winner,
   acceptedPool |-> answer.acceptedPool, resolutionTime |-> answer.resolutionTime,
   frozen |-> answer.frozen,
   outcomes |-> [o \in DOMAIN answer.books |-> ToOutcome(answer.books[o])],
   vintageOpen |-> FALSE, history |-> <<>>, positions |-> <<>>]

\* toPositionView: a classic position has no vintage rather than the seed's.
ToPositionView(p, settlerKind) ==
  [outcome |-> p.outcome, offered |-> p.offered, accepted |-> p.accepted,
   refused |-> p.refused, entryAcc |-> p.entryAcc,
   vintage |-> IF settlerKind = "classic" THEN None ELSE p.vintage,
   finalized |-> p.finalized, refundWithdrawn |-> p.refundWithdrawn, claimed |-> p.claimed]

\* position-wire.ts: entered, and not yet ruled on.
AwaitingVintage(p) == p.vintage # None /\ ~p.finalized

\* getPositions: each position held or once held, with its market.
GetPositions(held, answer, settlerKind) ==
  LET market == ToMarketDetail(answer, settlerKind)
  IN  [k \in DOMAIN held |-> [market |-> market,
                              position |-> ToPositionView(held[k], settlerKind)]]

-----------------------------------------------------------------------------
(* components: what the pages show.                                        *)

\* PositionRow: the payout of the rule this market runs, and what is ready.
PositionRow(market, p) ==
  LET book == market.outcomes[p.outcome]
      classic == market.settlerKind = "classic"
      payoutIfWins == IF classic
                      THEN ClassicPayout(p.accepted, book.principal, market.acceptedPool)
                      ELSE VpmPayout(p.accepted, p.entryAcc, book.acc)
      won == market.status = "Resolved" /\ market.winner = p.outcome
      lost == market.status = "Resolved" /\ market.winner # p.outcome
      voided == market.status = "Voided"
      claimable == CASE ~p.claimed /\ won -> payoutIfWins
                     [] ~p.claimed /\ voided -> p.accepted
                     [] OTHER -> 0
      refundable == IF p.refundWithdrawn THEN 0 ELSE p.refused
  IN  [awaiting |-> AwaitingVintage(p), won |-> won, lost |-> lost, voided |-> voided,
       earned |-> IF classic THEN 0 ELSE EarnedVesting(p.accepted, p.entryAcc, book.acc),
       multiple |-> IF classic THEN ClassicMultiplePpm(book.principal, market.acceptedPool)
                    ELSE VestingMultiplePpm(p.entryAcc, book.acc),
       shown |-> IF lost THEN 0 ELSE payoutIfWins,
       readyToPull |-> claimable + refundable]

\* StakePanel: the estimate, and whether it may be signed.
StakePanel(market, o, offered) ==
  LET closed == market.frozen \/ market.status # "Open"
  IN  [closed |-> closed, acceptance |-> SimulateEntry(market.outcomes, o, offered),
       signable |-> offered > 0 /\ ~closed]

\* BookTable: the room for a stake is not the outcome's own headroom.
BookTable(market) ==
  [o \in DOMAIN market.outcomes |->
     [headroom |-> BookHeadroom(market.outcomes[o].capacity, market.outcomes[o].vested),
      room |-> SimulateEntry(market.outcomes, o, 0).maxFullyAccepted]]

\* Portfolio: what was offered, taken and refused across the entries.
PortfolioTotals(entries) ==
  [offered |-> Total([k \in DOMAIN entries |-> entries[k].position.offered]),
   accepted |-> Total([k \in DOMAIN entries |-> entries[k].position.accepted]),
   refused |-> Total([k \in DOMAIN entries |-> entries[k].position.refused])]

\* ClaimList: a stat per reason, their total, and a row per transaction.
ClaimList(totals, items) ==
  [stats |-> totals.reasons, total |-> totals.total,
   rows |-> [k \in DOMAIN items |->
              [call |-> items[k].call, argument |-> items[k].argument,
               parts |-> {r \in DOMAIN items[k].breakdown : items[k].breakdown[r] > 0}]]]

\* RuleComparator's Acceptance: nothing of no offer; all of it, and how much would
\* be; or what is refused, and the book without the room.
AcceptanceNote(a) ==
  CASE a.accepted + a.refused = 0 -> [says |-> "nothing"]
    [] a.accepted > 0 /\ a.refused = 0 -> [says |-> "all", upTo |-> a.maxFullyAccepted]
    [] OTHER -> [says |-> "capacity reached", refunded |-> a.refused,
                 vestsInto |-> a.bindingOutcome]

\* Columns and Verdict: which rule pays more, how much, and of the stake what part.
Verdict(c) ==
  IF c.stake = 0 THEN None
  ELSE [vestedAhead |-> c.delta > 0, classicAhead |-> c.delta < 0,
        by |-> Max({c.delta, -c.delta}), ofStake |-> Max({c.deltaOfStakePpm, -c.deltaOfStakePpm})]

\* NewEntry: a stake placed now, and what the classic rule would make of those
\* already on its outcome.
PlacedNow(offered, result) ==
  LET before == result.incumbentMultipleBeforePpm
      after == result.incumbentClassicMultipleAfterPpm
  IN  [note |-> AcceptanceNote(result.acceptance), verdict |-> Verdict(result.comparison),
       incumbents |-> IF offered <= 0 \/ before = None \/ after = None THEN None
                      ELSE [from |-> before, to |-> after]]
NewEntry(market, o, offered) ==
  PlacedNow(offered, NewEntryComparison(market.outcomes, o, offered))

\* ExistingPosition: the same accepted principal on the same books, both ways.
ExistingPosition(market, p) ==
  LET comparison == PositionComparison(market.outcomes, p)
  IN  [vested |-> comparison.vpm, classic |-> comparison.classic,
       verdict |-> Verdict(comparison)]

\* MarketRuleComparator: it opens on the viewer's positions, those still buffered
\* left out.
RuleComparator(market, entries) ==
  LET mine == {k \in DOMAIN entries : ~AwaitingVintage(entries[k].position)}
  IN  [mode |-> IF mine = {} THEN "new" ELSE "position",
       positions |-> [k \in mine |-> ExistingPosition(market, entries[k].position)]]

\* toCurveSeries: a unit of the opening stake under each rule, as fractions.
CurvePoint(sample, o) ==
  [vpm |-> [part |-> SCALE + sample[o].acc, of |-> SCALE],
   classic |-> IF sample[o].principal = 0 THEN [part |-> 1, of |-> 1]
               ELSE [part |-> TotalPrincipal(sample), of |-> sample[o].principal]]

ToCurveSeries(history) ==
  [k \in DOMAIN history |-> [o \in DOMAIN history[k] |-> CurvePoint(history[k], o)]]
=============================================================================
