----------------------------- MODULE AgentPolicy -----------------------------
(***************************************************************************)
(* How the agent reads a market and what it stakes: the decoders of        *)
(* research/graph-source.ts, the digital model of intel/estimate.ts and    *)
(* the ten numbered steps of policy/decide.ts.  A JavaScript number in     *)
(* [0, 1] is a whole number of UNIT-ths.                                   *)
(***************************************************************************)
EXTENDS Integers, Sequences, FiniteSetsExt, Sums

CONSTANTS
    None,                   \* undefined, null, a field left out
    UNIT,
    SCORE_MAX,              \* top of the registry's feedback scale
    MIN_EDGE, EDGE_SATURATION, FREEZE_BUFFER, MIN_VESTING_OUTLOOK, TRUST_FLOOR,
    MAX_BANKROLL_FRACTION, HEADROOM_UTILISATION, MAX_TICKET, MIN_TICKET

\* policy/config.ts: the fields of PolicyConfig and what parseUsdc and Number
\* can make of them.
ASSUME PolicyConfig ==
    /\ UNIT \in Nat \ {0} /\ SCORE_MAX \in Nat \ {0}
    /\ {MIN_EDGE, EDGE_SATURATION, MIN_VESTING_OUTLOOK, TRUST_FLOOR,
        MAX_BANKROLL_FRACTION, HEADROOM_UTILISATION} \subseteq 0..UNIT
    /\ FREEZE_BUFFER \in Nat /\ MAX_TICKET \in Nat /\ MIN_TICKET \in Nat

KAPPA_UNBOUNDED == -1       \* the sentinel 2^256 - 1

\* Why a priced outcome is not entered, the nearest to an entry first.
Rejections == <<"below-min-ticket", "edge-below-threshold", "no-headroom">>

\* A field that is left out is no number and no status, and the lack of a rejection
\* is none.
ASSUME NoneIsNothing ==
    /\ None \notin Int /\ None \notin {"open", "resolved", "voided"}
    /\ \A i \in DOMAIN Rejections : Rejections[i] # None

----------------------------------------------------------------------------
(* domain/units.ts *)

Clamp(v, low, high) == IF v < low THEN low ELSE IF v > high THEN high ELSE v
Ratio(n, d) == IF d = 0 THEN 0 ELSE (n * UNIT) \div d
ScaleByFraction(v, fraction) == IF fraction <= 0 THEN 0 ELSE (v * fraction) \div UNIT
Product(a, b) == (a * b) \div UNIT

----------------------------------------------------------------------------
(* research/graph-source.ts and decode.ts: what the client answers, decoded *)

Or(field, default) == IF field = None THEN default ELSE field

\* decodeBook: no capacity is the sentinel; no headroom is derived.
DecodeBook(b) ==
    LET capacity == Or(b.capacity, KAPPA_UNBOUNDED) IN
    [principal |-> b.principal, capacity |-> capacity, vested |-> b.vested,
     headroom |->
        CASE b.headroom # None -> b.headroom
          [] b.headroom = None /\ capacity = KAPPA_UNBOUNDED -> KAPPA_UNBOUNDED
          [] OTHER -> IF capacity > b.vested THEN capacity - b.vested ELSE 0]

\* None of the names below is a DecodeError.
DecodeStatus(text) ==
    CASE text = "Open" -> "open" [] text = "Resolved" -> "resolved"
      [] text = "Voided" -> "voided" [] OTHER -> None
DecodeDirection(raw) == CASE raw = "above" -> 0 [] raw = "below" -> 1 [] OTHER -> None

\* decodeTrust: a side's mean score on the registry's scale, discounted by the
\* share of the principal with a record; a side without a score is unknown.
OpposingTrustFromSide(side) ==
    IF side.score = None THEN 0
    ELSE LET score == Clamp((side.score * UNIT) \div SCORE_MAX, 0, UNIT)
         IN  IF side.unrated = None THEN score
             ELSE Product(score, Clamp(UNIT - side.unrated, 0, UNIT))

\* #opposingTrust: an unreadable answer leaves the market without trust.
DecodeTrust(raw, books) ==
    IF raw = None THEN None
    ELSE [o \in DOMAIN books |->
            IF o \in DOMAIN raw THEN OpposingTrustFromSide(raw[o]) ELSE 0]

\* decodeMarket, with what #opposingTrust adds; None is a DecodeError.
DecodeMarket(raw, trust) ==
    LET books == [o \in DOMAIN raw.books |-> DecodeBook(raw.books[o])] IN
    IF \/ raw.spec = None \/ raw.createdAt = None
       \/ DecodeStatus(raw.status) = None \/ DecodeDirection(raw.spec.direction) = None
    THEN None
    ELSE [status |-> DecodeStatus(raw.status), openedAt |-> raw.createdAt,
          resolutionTime |-> raw.resolutionTime, books |-> books,
          feedKey |-> raw.spec.feedKey, strike8 |-> raw.spec.strike,
          direction |-> DecodeDirection(raw.spec.direction),
          maxStaleness |-> raw.spec.maxStaleness,
          opposingTrust |-> DecodeTrust(trust, books)]

\* Mutant: only what claim pays is decoded.
DecodeClaims(items) == {item \in items : item.call = "claim"}
\* decodeClaimable: one transaction per item; claimResidue is skipped.
DecodeClaimable(items) == {item \in items : item.call # "claimResidue"}

----------------------------------------------------------------------------
(* intel/estimate.ts and domain/probability.ts *)

\* normalCdf, known here by the side of one half it lies on.
NormalCdf(d2) == IF d2 < 0 THEN UNIT \div 4 ELSE UNIT - UNIT \div 4

DigitalAbove(spot, strike, vol, remaining) ==
    CASE spot <= 0 \/ strike <= 0 -> UNIT \div 2
      [] spot > 0 /\ strike > 0 /\ vol * remaining = 0 -> IF spot >= strike THEN UNIT ELSE 0
      [] OTHER -> NormalCdf(IF spot > strike THEN 1 ELSE -1)

\* estimateFromFeed: binary markets only, and no reading older than the bound
\* the market itself resolves by.
EstimateFromFeed(market, quote, now) ==
    IF Len(market.books) # 2 \/ now - quote.observedAt > market.maxStaleness THEN None
    ELSE LET remaining == IF market.resolutionTime > now THEN market.resolutionTime - now ELSE 0
             above == DigitalAbove(quote.price8, market.strike8, quote.vol, remaining)
             first == IF market.direction = 0 THEN above ELSE UNIT - above
         IN  <<first, UNIT - first>>

----------------------------------------------------------------------------
(* policy/decide.ts *)

Outcomes(books) == DOMAIN books
Pool(books) == Sum([o \in DOMAIN books |-> books[o].principal], Len(books))
ImpliedOdds(books) == [o \in DOMAIN books |-> Ratio(books[o].principal, Pool(books))]

\* Mutant: the entered outcome's own room.
OwnHeadroom(books, outcome) == books[outcome].headroom
\* The tightest of the books an entry would vest into.
AcceptanceHeadroom(books, outcome) ==
    LET rooms == {books[w].headroom : w \in DOMAIN books \ {outcome}} \ {KAPPA_UNBOUNDED}
    IN  IF rooms = {} THEN KAPPA_UNBOUNDED ELSE Min(rooms)

CounterpartyTrust(market, outcome) ==
    IF market.opposingTrust = None THEN TRUST_FLOOR    \* no per-book record is published
    ELSE Max({TRUST_FLOOR, Clamp(market.opposingTrust[outcome], 0, UNIT)})

\* Step 9: conviction, outlook and room, then the hard caps.
Size(edge, headroom, bankroll, outlook) ==
    LET conviction == IF EDGE_SATURATION > 0 THEN Clamp(Ratio(edge, EDGE_SATURATION), 0, UNIT)
                      ELSE UNIT
        target == ScaleByFraction(bankroll,
                      Product(Product(MAX_BANKROLL_FRACTION, conviction), outlook))
        roomCap == IF headroom = KAPPA_UNBOUNDED THEN target
                   ELSE ScaleByFraction(headroom, HEADROOM_UTILISATION)
    IN  Min({target, roomCap, MAX_TICKET, bankroll})

\* Steps 7 to 9 for one outcome.
Evaluate(market, estimate, outcome, bankroll, outlook) ==
    LET raw == estimate[outcome] - ImpliedOdds(market.books)[outcome]
        edge == (raw * CounterpartyTrust(market, outcome)) \div UNIT
        headroom == AcceptanceHeadroom(market.books, outcome)
        stake == Size(edge, headroom, bankroll, outlook)
    IN  [outcome |-> outcome, edge |-> edge, headroom |-> headroom,
         stake |-> IF headroom = 0 \/ edge < MIN_EDGE THEN 0 ELSE stake,
         rejection |-> CASE headroom = 0 -> "no-headroom"
                         [] headroom # 0 /\ edge < MIN_EDGE -> "edge-below-threshold"
                         [] headroom # 0 /\ edge >= MIN_EDGE /\ stake < MIN_TICKET -> "below-min-ticket"
                         [] OTHER -> None]

\* Step 10: the largest edge, then the most room, then the lower outcome.
Roomier(a, b) == \/ a = KAPPA_UNBOUNDED /\ b # KAPPA_UNBOUNDED
                 \/ b # KAPPA_UNBOUNDED /\ a > b
Better(a, b) ==
    \/ a.edge > b.edge
    \/ a.edge = b.edge /\ Roomier(a.headroom, b.headroom)
    \/ a.edge = b.edge /\ a.headroom = b.headroom /\ a.outcome < b.outcome

\* closestMiss: the rejection nearest to an entry.
ClosestMiss(candidates) ==
    LET met == {i \in DOMAIN Rejections : \E c \in candidates : c.rejection = Rejections[i]}
    IN  IF met = {} THEN "no-headroom" ELSE Rejections[Min(met)]

VestingOutlook(market, now) ==
    Clamp(Ratio(market.resolutionTime - now,
                Max({market.resolutionTime - market.openedAt, 1})), 0, UNIT)

Abstain(reason) == [action |-> "abstain", reason |-> reason]

\* Steps 1 to 6, in order; "ok" when none of them abstains.
Eligible(market, estimate, bankroll, now) ==
    LET left == market.resolutionTime - now IN
    CASE market.status # "open" -> "market-not-open"
      [] left <= 0 -> "frozen"
      [] left < FREEZE_BUFFER -> "inside-freeze-window"
      [] VestingOutlook(market, now) < MIN_VESTING_OUTLOOK -> "vesting-outlook-too-low"
      [] estimate = None -> "no-estimate"
      [] bankroll < MIN_TICKET -> "bankroll-exhausted"
      [] OTHER -> "ok"

Decide(market, estimate, bankroll, now) ==
    IF Eligible(market, estimate, bankroll, now) # "ok"
    THEN Abstain(Eligible(market, estimate, bankroll, now))
    ELSE LET candidates == {Evaluate(market, estimate, o, bankroll, VestingOutlook(market, now)) :
                              o \in Outcomes(market.books)}
             viable == {c \in candidates : c.rejection = None}
             best == CHOOSE c \in viable : \A d \in viable \ {c} : Better(c, d)
         IN  IF viable = {} THEN Abstain(ClosestMiss(candidates))
             ELSE [action |-> "enter", outcome |-> best.outcome, stake |-> best.stake,
                   edge |-> best.edge, headroom |-> best.headroom]
=============================================================================
