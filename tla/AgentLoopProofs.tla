--------------------------- MODULE AgentLoopProofs ---------------------------
(***************************************************************************)
(* What holds of the agent for every set of markets, every policy, every   *)
(* quote and any number of mishaps: one run enters a market at most once,  *)
(* and what it sized is taken whole unless the books moved since it read   *)
(* them or another entry of its block competes for them.                   *)
(***************************************************************************)
EXTENDS AgentLoop, SumTheorems

-----------------------------------------------------------------------------
(* The invariant *)

(* A book's headroom is what its capacity has left. *)
BooksOK(books) ==
  /\ books \in Seq(Books)
  /\ \A o \in DOMAIN books : books[o].headroom = Headroom(books[o].capacity, books[o].vested)

Statuses == {"Open", "Resolved", "Voided"}
Venue == [status: Statuses, winner: Nat \cup {None}, books: Seq(Books)]
VenueOK(v) == v \in [Markets -> Venue] /\ \A m \in Markets : BooksOK(v[m].books)

Position == [outcome: Nat, accepted: Nat, refund: Nat, claimed: BOOLEAN]
Held0 == [Markets -> Seq(Position)]

(* _entryHeadroom: the least room among the books a stake would vest into. *)
Room(books, outcome) ==
  LET others == {books[w].headroom : w \in DOMAIN books \ {outcome}} \ {KAPPA_UNBOUNDED}
  IN  IF others = {} THEN KAPPA_UNBOUNDED ELSE Min(others)

(* The stake fits the least room of the books it was sized on. *)
Fits(books, outcome, stake) ==
  Room(books, outcome) = KAPPA_UNBOUNDED \/ stake <= Room(books, outcome)
EntryOK(w) ==
  /\ w.market \in Markets /\ w.books \in Seq(Books)
  /\ w.decision.stake \in Nat /\ w.decision.outcome \in Nat
  /\ Fits(w.books, w.decision.outcome, w.decision.stake)

(* What waits for the roll: an entry of the agent fits the books it was sized on. *)
Offer == [position: Nat, outcome: Nat, offered: Nat, seen: Seq(Books) \cup {None}]
OffersOK(s) ==
  /\ s \in Seq(Offer)
  /\ \A k \in DOMAIN s : s[k].position # 0 => Fits(s[k].seen, s[k].outcome, s[k].offered)
VintageOK(v) ==
  v \in [Markets -> [offers: Seq(Offer), due: BOOLEAN]] /\ \A m \in Markets : OffersOK(v[m].offers)

IsApprove(c) == c.kind = "approve" /\ c.amount \in Nat
IsEntry(c) ==
  /\ c.kind = "enter" /\ c.market \in Markets /\ c.amount \in Nat /\ c.outcome \in Nat
  /\ c.seen \in Seq(Books) /\ Fits(c.seen, c.outcome, c.amount)
IsClaim(c, held) ==
  /\ c.kind \in {"claim", "withdrawRefund"}
  /\ c.market \in Markets /\ c.position \in 1..Len(held[c.market])
CallOK(c, held) == IsApprove(c) \/ IsEntry(c) \/ IsClaim(c, held)

TxStates == {"QUEUED", "CONFIRMED", "FAILED"}
TxOK(t, held) ==
  /\ t = [call |-> t.call, state |-> t.state, mine |-> t.mine]
  /\ CallOK(t.call, held)
  /\ t.state \in TxStates /\ t.mine \in BOOLEAN

(* A row of the research, and what was estimated of it. *)
RowOK(r) ==
  /\ r.openedAt \in Int /\ r.resolutionTime \in Int
  /\ r.strike8 \in Int /\ r.maxStaleness \in Int
  /\ BooksOK(r.books)
  /\ r.opposingTrust # None => \A o \in DOMAIN r.books : r.opposingTrust[o] \in Int
ReportOK(report) == DOMAIN report \subseteq Markets /\ \A m \in DOMAIN report : RowOK(report[m])
EstimatesOK(estimates, report) ==
  \A m \in DOMAIN report :
    estimates[m] # None => \A o \in DOMAIN report[m].books : estimates[m][o] \in Int

IsList(s) == s \in Seq({s[i] : i \in DOMAIN s})

(* What is still wanted: one entry for a market at most, and for none that is
   held. *)
WantedOK(wanted, held) ==
  /\ IsList(wanted)
  /\ \A i \in 1..Len(wanted) : EntryOK(wanted[i]) /\ wanted[i].market \notin held
  /\ \A i, j \in 1..Len(wanted) : wanted[i].market = wanted[j].market => i = j

Item(x, held) == /\ x.call \in {"claim", "withdrawRefund"}
                 /\ x.market \in Markets /\ x.position \in 1..Len(held[x.market])
ClaimsOK(claims, held) ==
  /\ IsList(claims)
  /\ \A i \in 1..Len(claims) : Item(claims[i], held)

(* The calls of one entry, and the one call of a claim. *)
EntryCalls(calls, m) ==
  \/ calls = <<calls[1]>> /\ IsEntry(calls[1]) /\ calls[1].market = m
  \/ /\ calls = <<calls[1], calls[2]>>
     /\ IsApprove(calls[1]) /\ IsEntry(calls[2]) /\ calls[2].market = m
ClaimCalls(calls, held) == calls = <<calls[1]>> /\ IsClaim(calls[1], held)

ThenOK(t, calls, held) ==
  \/ /\ t.command = "run" /\ t.market \in Markets \ t.held
     /\ WantedOK(t.wanted, t.held \cup {t.market}) /\ EntryCalls(calls, t.market)
  \/ t.command = "claim" /\ ClaimsOK(t.claims, held) /\ ClaimCalls(calls, held)

(* The process, by the place it is at. *)
Listing(j) ==
  /\ j.pc = "list"
  /\ j = [pc |-> "list", command |-> j.command, round |-> j.round, held |-> j.held,
          at |-> j.at, todo |-> j.todo, report |-> j.report]
  /\ j.at \in Int /\ j.todo \in Seq(Markets) /\ ReportOK(j.report)
Deciding(j) ==
  /\ j.pc = "decide" /\ j.at \in Int
  /\ ReportOK(j.report) /\ EstimatesOK(j.estimates, j.report)
Entering(j) ==
  /\ j.pc = "enter"
  /\ j = [pc |-> "enter", command |-> "run", round |-> j.round, held |-> j.held,
          wanted |-> j.wanted]
  /\ WantedOK(j.wanted, j.held)
Sending(j, held) ==
  /\ j.pc \in {"post", "poll"}
  /\ j = [pc |-> j.pc, calls |-> j.calls, key |-> j.key, attempt |-> j.attempt, then |-> j.then]
  /\ j.key \in Nat /\ j.attempt \in Nat /\ ThenOK(j.then, j.calls, held)
Claiming(j, held) == j.pc = "claims" /\ ClaimsOK(j.claims, held)
JobOK(j, held) ==
  \/ j.pc \in {"idle", "claimable", "settle"}
  \/ Listing(j) \/ Deciding(j) \/ Entering(j) \/ Sending(j, held) \/ Claiming(j, held)

(* Of this process's transactions Circle holds at most the call being sent. *)
AtWork == job.pc \in {"post", "poll"}
CircleOK ==
  /\ IsFiniteSet(DOMAIN circle)
  /\ \A k \in DOMAIN circle : TxOK(circle[k], positions)
  /\ \A k \in DOMAIN circle :
       circle[k].mine => AtWork /\ k = job.key /\ circle[k].call = Head(job.calls)
  /\ AtWork /\ job.key \in DOMAIN circle => circle[job.key].mine
  /\ job.pc = "poll" => job.key \in DOMAIN circle

(* Entries have landed in held markets alone, and in the one being entered once
   its last call is confirmed. *)
Confirmed == /\ job.key \in DOMAIN circle /\ circle[job.key].state = "CONFIRMED"
             /\ Head(job.calls).kind = "enter"
LandedOK ==
  /\ landed \in [Markets -> 0..1]
  /\ job.pc \in {"list", "decide", "enter"} => \A m \in Markets \ job.held : landed[m] = 0
  /\ AtWork /\ job.then.command = "run" =>
       /\ \A m \in Markets \ (job.then.held \cup {job.then.market}) : landed[m] = 0
       /\ ~Confirmed => landed[job.then.market] = 0

ChainOK ==
  /\ clock \in Nat
  /\ VenueOK(venue) /\ positions \in Held0 /\ VintageOK(vintage)
  /\ wallet \in [balance: Int, allowance: Int]
IndexOK ==
  /\ VenueOK(index.venue) /\ index.positions \in Held0
  /\ \A m \in Markets : Len(index.positions[m]) <= Len(positions[m])

LoopInv == ChainOK /\ IndexOK /\ JobOK(job, positions) /\ CircleOK /\ LandedOK

-----------------------------------------------------------------------------
(* Extremes and quotients of whole numbers *)

LEMMA LeastOfNats ==
  ASSUME NEW S \in SUBSET Nat, S # {}
  PROVE  Min(S) \in S /\ \A y \in S : Min(S) <= y
<1>1. PICK x \in S : \A y \in S : x <= y
  BY LeastNat
<1> QED BY <1>1 DEF Min

LEMMA LeastOfFour ==
  ASSUME NEW a \in Int, NEW b \in Int, NEW c \in Int, NEW d \in Int
  PROVE  LET m == Min({a, b, c, d})
         IN  m \in {a, b, c, d} /\ m <= a /\ m <= b /\ m <= c /\ m <= d
<1>1. \E x \in {a, b, c, d} : \A y \in {a, b, c, d} : x <= y
  OBVIOUS
<1> QED BY <1>1 DEF Min

LEMMA GreatestOfTwo ==
  ASSUME NEW a \in Int, NEW b \in Int
  PROVE  Max({a, b}) \in {a, b} /\ Max({a, b}) >= a /\ Max({a, b}) >= b
<1>1. \E x \in {a, b} : \A y \in {a, b} : x >= y
  OBVIOUS
<1> QED BY <1>1 DEF Max

LEMMA DivInt ==
  ASSUME NEW a \in Int, NEW b \in Nat, b > 0
  PROVE  a \div b \in Int
OBVIOUS

LEMMA ClampInt ==
  ASSUME NEW v \in Int, NEW low \in Int, NEW high \in Int
  PROVE  Clamp(v, low, high) \in Int
BY DEF Clamp

LEMMA ProductInt ==
  ASSUME NEW a \in Int, NEW b \in Int
  PROVE  Product(a, b) \in Int
BY DivInt, PolicyConfig, a * b \in Int DEF Product

LEMMA RatioInt ==
  ASSUME NEW n \in Int, NEW d \in Nat
  PROVE  Ratio(n, d) \in Int
<1>1. n * UNIT \in Int
  BY PolicyConfig
<1> QED BY <1>1, DivInt DEF Ratio

LEMMA ScaleInt ==
  ASSUME NEW v \in Int, NEW f \in Int
  PROVE  ScaleByFraction(v, f) \in Int
<1>1. v * f \in Int /\ UNIT \in Nat /\ UNIT > 0
  BY PolicyConfig
<1>2. (v * f) \div UNIT \in Int
  BY <1>1, DivInt
<1> QED BY <1>2 DEF ScaleByFraction

(* A fraction of an amount is no more than the amount. *)
LEMMA ScaleBound ==
  ASSUME NEW v \in Nat, NEW f \in 0..UNIT
  PROVE  ScaleByFraction(v, f) <= v
<1>1. UNIT \in Nat /\ UNIT > 0 /\ f \in Nat /\ f <= UNIT
  BY PolicyConfig
<1> CASE f <= 0
  BY DEF ScaleByFraction
<1> CASE ~(f <= 0)
  <2> DEFINE q == (v * f) \div UNIT
  <2>1. v * f \in Nat /\ v * f <= v * UNIT
    BY <1>1
  <2>2. q \in Nat /\ UNIT * q <= v * f
    BY <1>1, <2>1, DivType
  <2>3. UNIT * q <= UNIT * v
    BY <2>1, <2>2, <1>1
  <2>4. q <= v
    <3> HIDE DEF q
    <3> QED BY <2>2, <2>3, <1>1
  <2> QED BY <2>4 DEF ScaleByFraction
<1> QED OBVIOUS

-----------------------------------------------------------------------------
(* The room of a set of books *)

LEMMA BookFields ==
  ASSUME NEW b \in Books
  PROVE  /\ b.principal \in Nat /\ b.capacity \in Capacities /\ b.vested \in Nat
         /\ b.headroom \in Capacities
BY DEF Books

LEMMA BookAt ==
  ASSUME NEW books, books \in Seq(Books)
  PROVE  /\ Len(books) \in Nat /\ DOMAIN books = 1..Len(books)
         /\ books \in [1..Len(books) -> Books]
         /\ \A w \in DOMAIN books : books[w] \in Books
OBVIOUS

LEMMA RoomType ==
  ASSUME NEW books, books \in Seq(Books), NEW o
  PROVE  /\ Room(books, o) \in Capacities
         /\ \A w \in DOMAIN books \ {o} :
              books[w].headroom # KAPPA_UNBOUNDED =>
                Room(books, o) # KAPPA_UNBOUNDED /\ Room(books, o) <= books[w].headroom
<1> DEFINE others == {books[w].headroom : w \in DOMAIN books \ {o}} \ {KAPPA_UNBOUNDED}
<1>1. \A w \in DOMAIN books : books[w].headroom \in Capacities
  BY BookAt, BookFields
<1>2. others \in SUBSET Nat
  BY <1>1 DEF Capacities
<1>3. Room(books, o) = IF others = {} THEN KAPPA_UNBOUNDED ELSE Min(others)
  BY DEF Room
<1>4. \A w \in DOMAIN books \ {o} : books[w].headroom # KAPPA_UNBOUNDED => books[w].headroom \in others
  OBVIOUS
<1> HIDE DEF others
<1>5. CASE others = {}
  BY <1>3, <1>4, <1>5 DEF Capacities, KAPPA_UNBOUNDED
<1>6. CASE others # {}
  <2>1. Min(others) \in others /\ \A y \in others : Min(others) <= y
    BY <1>2, <1>6, LeastOfNats
  <2>2. Room(books, o) = Min(others) /\ Min(others) \in Nat
    BY <1>2, <1>3, <1>6, <2>1
  <2>3. Room(books, o) \in Capacities /\ Room(books, o) # KAPPA_UNBOUNDED
    BY <2>2 DEF Capacities, KAPPA_UNBOUNDED
  <2> QED BY <1>4, <2>1, <2>2, <2>3
<1> QED BY <1>5, <1>6

LEMMA SameRoom == \A books, o : AcceptanceHeadroom(books, o) = Room(books, o)
BY DEF AcceptanceHeadroom, Room

-----------------------------------------------------------------------------
(* What the policy decides *)

LEMMA SizeFits ==
  ASSUME NEW edge \in Int, NEW headroom \in Capacities, NEW bankroll \in Int,
         NEW outlook \in Int
  PROVE  /\ Size(edge, headroom, bankroll, outlook) \in Int
         /\ headroom # KAPPA_UNBOUNDED => Size(edge, headroom, bankroll, outlook) <= headroom
<1> DEFINE conviction == IF EDGE_SATURATION > 0
                           THEN Clamp(Ratio(edge, EDGE_SATURATION), 0, UNIT) ELSE UNIT
           target == ScaleByFraction(bankroll,
                       Product(Product(MAX_BANKROLL_FRACTION, conviction), outlook))
           roomCap == IF headroom = KAPPA_UNBOUNDED THEN target
                      ELSE ScaleByFraction(headroom, HEADROOM_UTILISATION)
<1>1. /\ UNIT \in Int /\ EDGE_SATURATION \in Nat /\ MAX_BANKROLL_FRACTION \in Int
      /\ HEADROOM_UTILISATION \in 0..UNIT /\ HEADROOM_UTILISATION \in Int /\ MAX_TICKET \in Int
  BY PolicyConfig
<1>2. conviction \in Int
  <2>1. Ratio(edge, EDGE_SATURATION) \in Int
    BY <1>1, RatioInt
  <2>2. Clamp(Ratio(edge, EDGE_SATURATION), 0, UNIT) \in Int
    BY <1>1, <2>1, ClampInt
  <2> QED BY <1>1, <2>2
<1>3. target \in Int
  <2> HIDE DEF conviction
  <2>1. Product(MAX_BANKROLL_FRACTION, conviction) \in Int
    BY <1>1, <1>2, ProductInt
  <2>2. Product(Product(MAX_BANKROLL_FRACTION, conviction), outlook) \in Int
    BY <2>1, ProductInt
  <2> QED BY <2>2, ScaleInt
<1>4. roomCap \in Int /\ (headroom # KAPPA_UNBOUNDED => roomCap <= headroom)
  <2> HIDE DEF target
  <2>1. CASE headroom = KAPPA_UNBOUNDED
    BY <2>1, <1>3
  <2>2. CASE headroom # KAPPA_UNBOUNDED
    <3>1. headroom \in Nat
      BY <2>2 DEF Capacities
    <3>2. ScaleByFraction(headroom, HEADROOM_UTILISATION) \in Int
      BY <3>1, <1>1, ScaleInt
    <3>3. ScaleByFraction(headroom, HEADROOM_UTILISATION) <= headroom
      BY <3>1, <1>1, ScaleBound
    <3> QED BY <2>2, <3>2, <3>3
  <2> QED BY <2>1, <2>2
<1>5. Size(edge, headroom, bankroll, outlook) = Min({target, roomCap, MAX_TICKET, bankroll})
  BY DEF Size
<1> HIDE DEF target, roomCap
<1>6. /\ Min({target, roomCap, MAX_TICKET, bankroll}) \in {target, roomCap, MAX_TICKET, bankroll}
      /\ Min({target, roomCap, MAX_TICKET, bankroll}) <= roomCap
  BY <1>1, <1>3, <1>4, LeastOfFour
<1>7. Min({target, roomCap, MAX_TICKET, bankroll}) \in Int
  BY <1>1, <1>3, <1>4, <1>6
<1>8. headroom \in Int
  BY DEF Capacities, KAPPA_UNBOUNDED
<1> QED BY <1>4, <1>5, <1>6, <1>7, <1>8

Candidate(c) == c.outcome \in Nat /\ c.edge \in Int /\ c.headroom \in Capacities

LEMMA BetterTotal ==
  ASSUME NEW a, NEW b, Candidate(a), Candidate(b), a.outcome # b.outcome
  PROVE  Better(a, b) \/ Better(b, a)
BY DEF Candidate, Better, Roomier, Capacities, KAPPA_UNBOUNDED

LEMMA BetterTransitive ==
  ASSUME NEW a, NEW b, NEW c, Candidate(a), Candidate(b), Candidate(c),
         Better(a, b), Better(b, c)
  PROVE  Better(a, c)
BY DEF Candidate, Better, Roomier, Capacities, KAPPA_UNBOUNDED

(* Candidates for the outcomes 1 to n, and the best of a set of them. *)
Candidates(V, e, n) ==
  /\ n \in Nat
  /\ \A o \in 1..n : Candidate(e[o]) /\ e[o].outcome = o
  /\ \A c \in V : \E o \in 1..n : c = e[o]
HasBest(V) == \E c \in V : \A d \in V \ {c} : Better(c, d)

LEMMA BestExists ==
  ASSUME NEW V, V # {}, NEW e, NEW n, Candidates(V, e, n)
  PROVE  HasBest(V)
<1> DEFINE S == {k \in Nat : k <= n =>
                   \A W \in SUBSET {e[o] : o \in 1..k} :
                     W # {} => \E c \in W : \A d \in W \ {c} : Better(c, d)}
<1>0. n \in Nat /\ \A o \in 1..n : Candidate(e[o]) /\ e[o].outcome = o
  BY DEF Candidates
<1>1. 0 \in S
  OBVIOUS
<1>2. ASSUME NEW k \in S PROVE k + 1 \in S
  <2>1. SUFFICES ASSUME k + 1 <= n, NEW W \in SUBSET {e[o] : o \in 1..(k+1)}, W # {}
                 PROVE  \E c \in W : \A d \in W \ {c} : Better(c, d)
    OBVIOUS
  <2> n \in Nat
    BY <1>0
  <2>2. /\ k \in Nat /\ k <= n
        /\ \A X \in SUBSET {e[o] : o \in 1..k} :
             X # {} => \E c \in X : \A d \in X \ {c} : Better(c, d)
    BY <2>1
  <2> DEFINE z == e[k+1]
             X == W \ {z}
  <2>3. Candidate(z) /\ z.outcome = k + 1
    BY <1>0, <2>1, <2>2, k + 1 \in 1..n
  <2>4. X \in SUBSET {e[o] : o \in 1..k}
    BY <2>2
  <2>5. \A c \in X : Candidate(c) /\ c.outcome # z.outcome
    <3>1. ASSUME NEW c \in X PROVE Candidate(c) /\ c.outcome # z.outcome
      <4>1. PICK o \in 1..k : c = e[o]
        BY <2>4
      <4>2. o \in 1..n /\ o # k + 1
        BY <2>2
      <4> HIDE DEF z
      <4> QED BY <1>0, <4>1, <4>2, <2>3
    <3> QED BY <3>1
  <2> HIDE DEF S
  <2>6. CASE X = {}
    BY <2>6, <2>1
  <2>7. CASE X # {}
    <3>1. PICK c \in X : \A d \in X \ {c} : Better(c, d)
      BY <2>2, <2>4, <2>7
    <3> HIDE DEF z
    <3>2. CASE z \notin W
      BY <3>1, <3>2
    <3>3. CASE z \in W /\ Better(c, z)
      BY <3>1, <3>3
    <3>4. CASE z \in W /\ Better(z, c)
      <4>1. ASSUME NEW d \in W \ {z} PROVE Better(z, d)
        BY <3>1, <3>4, <2>3, <2>5, BetterTransitive
      <4> QED BY <4>1, <3>4
    <3> QED BY <3>2, <3>3, <3>4, <2>3, <2>5, <3>1, BetterTotal
  <2> QED BY <2>6, <2>7
<1>3. S = Nat
  <2>1. S \in SUBSET Nat  OBVIOUS
  <2> HIDE DEF S
  <2> QED BY <1>1, <1>2, <2>1, SetInduction
<1>4. n \in S
  BY <1>0, <1>3
<1>5. V \in SUBSET {e[o] : o \in 1..n}
  BY DEF Candidates
<1> QED BY <1>0, <1>4, <1>5 DEF HasBest

LEMMA ImpliedOddsInt ==
  ASSUME NEW books, books \in Seq(Books), NEW o \in DOMAIN books
  PROVE  ImpliedOdds(books)[o] \in Int
<1> DEFINE f == [w \in DOMAIN books |-> books[w].principal]
<1>1. Len(books) \in Nat /\ \A i \in 1..Len(books) : f[i] \in Nat
  BY BookAt, BookFields
<1>2. Sum(f, Len(books)) \in Nat
  <2> HIDE DEF f
  <2> QED BY <1>1, SumNat
<1>3. Pool(books) \in Nat
  BY <1>2 DEF Pool
<1>4. books[o].principal \in Int
  BY BookAt, BookFields
<1> QED BY <1>3, <1>4, RatioInt DEF ImpliedOdds

LEMMA OutlookInt ==
  ASSUME NEW market, RowOK(market), NEW now \in Int
  PROVE  VestingOutlook(market, now) \in Int
<1> DEFINE span == Max({market.resolutionTime - market.openedAt, 1})
<1>1. market.resolutionTime - now \in Int /\ market.resolutionTime - market.openedAt \in Int
  BY DEF RowOK
<1>2. span \in Nat
  <2>1. PICK a \in Int : a = market.resolutionTime - market.openedAt
    BY <1>1
  <2>2. Max({a, 1}) \in {a, 1} /\ Max({a, 1}) >= 1
    BY <2>1, 1 \in Int, GreatestOfTwo
  <2>3. Max({a, 1}) \in Nat
    BY <2>1, <2>2
  <2> QED BY <2>1, <2>3
<1> HIDE DEF span
<1>3. Ratio(market.resolutionTime - now, span) \in Int
  BY <1>1, <1>2, RatioInt
<1>4. UNIT \in Int
  BY PolicyConfig
<1>5. Clamp(Ratio(market.resolutionTime - now, span), 0, UNIT) \in Int
  BY <1>3, <1>4, ClampInt
<1> QED BY <1>5 DEF VestingOutlook, span

LEMMA TrustInt ==
  ASSUME NEW market, RowOK(market), NEW o \in DOMAIN market.books
  PROVE  CounterpartyTrust(market, o) \in Int
<1>1. TRUST_FLOOR \in Int /\ UNIT \in Int
  BY PolicyConfig
<1>2. CASE market.opposingTrust = None
  BY <1>1, <1>2 DEF CounterpartyTrust
<1>3. CASE market.opposingTrust # None
  <2>1. market.opposingTrust[o] \in Int
    BY <1>3 DEF RowOK
  <2>2. Clamp(market.opposingTrust[o], 0, UNIT) \in Int
    BY <1>1, <2>1, 0 \in Int, ClampInt
  <2>3. Max({TRUST_FLOOR, Clamp(market.opposingTrust[o], 0, UNIT)}) \in Int
    BY <1>1, <2>2, GreatestOfTwo
  <2> QED BY <1>3, <2>3 DEF CounterpartyTrust
<1> QED BY <1>2, <1>3

(* An outcome that is not rejected carries a stake its opposing books have room
   for. *)
LEMMA EvaluateFits ==
  ASSUME NEW market, RowOK(market), NEW estimate, NEW o \in DOMAIN market.books,
         estimate[o] \in Int, NEW bankroll \in Int, NEW outlook \in Int
  PROVE  LET e == Evaluate(market, estimate, o, bankroll, outlook) IN
         /\ Candidate(e) /\ e.outcome = o
         /\ e.rejection = None => e.stake \in Nat /\ Fits(market.books, o, e.stake)
<1> DEFINE odds == ImpliedOdds(market.books)[o]
           raw == estimate[o] - odds
           trust == CounterpartyTrust(market, o)
           edge == (raw * trust) \div UNIT
           headroom == AcceptanceHeadroom(market.books, o)
           stake == Size(edge, headroom, bankroll, outlook)
           taken == IF headroom = 0 \/ edge < MIN_EDGE THEN 0 ELSE stake
           rejection == CASE headroom = 0 -> "no-headroom"
                          [] headroom # 0 /\ edge < MIN_EDGE -> "edge-below-threshold"
                          [] headroom # 0 /\ edge >= MIN_EDGE /\ stake < MIN_TICKET ->
                               "below-min-ticket"
                          [] OTHER -> None
<1>1. market.books \in Seq(Books) /\ o \in Nat
  BY BookAt DEF RowOK, BooksOK
<1>2. odds \in Int /\ trust \in Int
  BY <1>1, ImpliedOddsInt, TrustInt
<1>3. edge \in Int
  <2> HIDE DEF odds, trust
  <2>1. raw * trust \in Int /\ UNIT \in Nat /\ UNIT > 0
    BY <1>2, PolicyConfig
  <2> HIDE DEF raw
  <2> QED BY <2>1, DivInt
<1>4. headroom = Room(market.books, o) /\ headroom \in Capacities
  BY <1>1, SameRoom, RoomType
<1> HIDE DEF edge
<1>5. stake \in Int /\ (headroom # KAPPA_UNBOUNDED => stake <= headroom)
  <2> HIDE DEF headroom
  <2> QED BY <1>3, <1>4, SizeFits
<1>6. Evaluate(market, estimate, o, bankroll, outlook) =
        [outcome |-> o, edge |-> edge, headroom |-> headroom, stake |-> taken,
         rejection |-> rejection]
  BY DEF Evaluate, edge
<1> HIDE DEF headroom, stake
<1>7. ASSUME rejection = None
      PROVE  taken \in Nat /\ (headroom = KAPPA_UNBOUNDED \/ taken <= headroom)
  <2>1. /\ "no-headroom" # None /\ "edge-below-threshold" # None
        /\ "below-min-ticket" # None
    <3>1. /\ 1 \in DOMAIN Rejections /\ 2 \in DOMAIN Rejections /\ 3 \in DOMAIN Rejections
          /\ Rejections[1] = "below-min-ticket" /\ Rejections[2] = "edge-below-threshold"
          /\ Rejections[3] = "no-headroom"
      BY DEF Rejections
    <3> QED BY <3>1, NoneIsNothing
  <2>2. MIN_TICKET \in Nat /\ MIN_EDGE \in Int
    BY PolicyConfig
  <2>3. headroom # 0 /\ ~(edge < MIN_EDGE) /\ ~(stake < MIN_TICKET)
    BY <1>3, <1>5, <1>7, <2>1, <2>2
  <2> QED BY <1>5, <2>2, <2>3
<1> HIDE DEF taken, rejection
<1>8. Candidate(Evaluate(market, estimate, o, bankroll, outlook))
  BY <1>1, <1>3, <1>4, <1>6 DEF Candidate
<1> QED BY <1>4, <1>6, <1>7, <1>8 DEF Fits

(* An entry decided on is for an outcome of the market, and fits the room of
   its books. *)
LEMMA DecideFits ==
  ASSUME NEW market, RowOK(market), NEW estimate,
         estimate # None => \A o \in DOMAIN market.books : estimate[o] \in Int,
         NEW bankroll \in Int, NEW now \in Int,
         Decide(market, estimate, bankroll, now).action = "enter"
  PROVE  LET d == Decide(market, estimate, bankroll, now) IN
         d.stake \in Nat /\ d.outcome \in Nat /\ Fits(market.books, d.outcome, d.stake)
<1> DEFINE outlook == VestingOutlook(market, now)
           e == [o \in DOMAIN market.books |-> Evaluate(market, estimate, o, bankroll, outlook)]
           candidates == {Evaluate(market, estimate, o, bankroll, outlook) :
                            o \in Outcomes(market.books)}
           viable == {c \in candidates : c.rejection = None}
           best == CHOOSE c \in viable : \A d \in viable \ {c} : Better(c, d)
           d == Decide(market, estimate, bankroll, now)
<1>1. \A reason : Abstain(reason).action # "enter"
  BY DEF Abstain
<1>2. Eligible(market, estimate, bankroll, now) = "ok"
  BY <1>1 DEF Decide
<1>3. /\ d = [action |-> "enter", outcome |-> best.outcome, stake |-> best.stake,
              edge |-> best.edge, headroom |-> best.headroom]
      /\ viable # {}
  BY <1>1, <1>2 DEF Decide
<1>4. estimate # None
  BY <1>2 DEF Eligible
<1>5. outlook \in Int
  BY OutlookInt
<1>6. market.books \in Seq(Books) /\ Len(market.books) \in Nat
      /\ DOMAIN market.books = 1..Len(market.books)
  BY BookAt DEF RowOK, BooksOK
<1> HIDE DEF outlook
<1>7. \A o \in 1..Len(market.books) :
        /\ Candidate(e[o]) /\ e[o].outcome = o
        /\ e[o].rejection = None => e[o].stake \in Nat /\ Fits(market.books, o, e[o].stake)
  BY <1>4, <1>5, <1>6, EvaluateFits
<1>8. viable \in SUBSET {e[o] : o \in 1..Len(market.books)}
  BY <1>6 DEF Outcomes
<1>9. \A c \in viable : c.rejection = None
  OBVIOUS
<1> HIDE DEF e, candidates, viable
<1>10. HasBest(viable)
  <2>1. Candidates(viable, e, Len(market.books))
    BY <1>6, <1>7, <1>8 DEF Candidates
  <2> QED BY <1>3, <2>1, BestExists
<1>11. best \in viable
  BY <1>10 DEF HasBest
<1>12. PICK o \in 1..Len(market.books) : best = e[o]
  BY <1>8, <1>11
<1> HIDE DEF best, d
<1>13. d.stake = best.stake /\ d.outcome = best.outcome
  BY <1>3
<1>14. e[o].rejection = None
  BY <1>9, <1>11, <1>12
<1>15. d.stake \in Nat /\ d.outcome = o /\ Fits(market.books, o, d.stake)
  BY <1>7, <1>12, <1>13, <1>14
<1> QED BY <1>6, <1>15 DEF d

-----------------------------------------------------------------------------
(* Lists, and the orders of a finite set *)

LEMMA SeqIsList ==
  ASSUME NEW E, NEW s \in Seq(E)
  PROVE  IsList(s) /\ \A i \in 1..Len(s) : s[i] \in E
<1>1. Len(s) \in Nat /\ DOMAIN s = 1..Len(s) /\ s \in [1..Len(s) -> E]
  OBVIOUS
<1>2. s \in [1..Len(s) -> {s[i] : i \in DOMAIN s}]
  BY <1>1
<1> QED BY <1>1, <1>2 DEF IsList

LEMMA ListFacts ==
  ASSUME NEW s, IsList(s)
  PROVE  /\ Len(s) \in Nat /\ DOMAIN s = 1..Len(s)
         /\ s # <<>> => Len(s) >= 1 /\ Head(s) = s[1]
<1>1. PICK E : s \in Seq(E)
  BY DEF IsList
<1> QED BY <1>1

LEMMA ListTail ==
  ASSUME NEW s, IsList(s), s # <<>>
  PROVE  /\ IsList(Tail(s)) /\ Len(Tail(s)) = Len(s) - 1
         /\ \A i \in 1..(Len(s) - 1) : Tail(s)[i] = s[i + 1] /\ i + 1 \in 1..Len(s)
<1>1. PICK E : s \in Seq(E)
  BY DEF IsList
<1>2. Tail(s) \in Seq(E) /\ Len(Tail(s)) = Len(s) - 1 /\ Len(s) \in Nat
  BY <1>1
<1>3. ASSUME NEW i \in 1..(Len(s) - 1) PROVE Tail(s)[i] = s[i + 1] /\ i + 1 \in 1..Len(s)
  BY <1>1, <1>2
<1> QED BY <1>2, <1>3, SeqIsList

LEMMA OrdersAreLists ==
  ASSUME NEW S, IsFiniteSet(S), NEW s \in Orders(S)
  PROVE  /\ s \in Seq(S) /\ IsList(s)
         /\ \A i, j \in 1..Len(s) : s[i] = s[j] => i = j
<1>1. Cardinality(S) \in Nat
  BY FS_CardinalityType
<1>2. s \in [1..Cardinality(S) -> S] /\ IsInjective(s)
  BY DEF Orders
<1>3. s \in Seq(S) /\ Len(s) = Cardinality(S)
  BY <1>1, <1>2
<1> QED BY <1>1, <1>2, <1>3, SeqIsList DEF IsInjective

LEMMA OrdersExist ==
  ASSUME NEW S, IsFiniteSet(S)
  PROVE  Orders(S) # {}
<1>1. PICK f : f \in Bijection(1..Cardinality(S), S)
  BY FS_CardinalityType DEF ExistsBijection
<1>2. f \in Orders(S)
  BY <1>1 DEF Bijection, Injection, Orders
<1> QED BY <1>2

LEMMA MarketOrderSeq == MarketOrder \in Seq(Markets)
<1>1. IsFiniteSet(Markets)
  BY TermsAssumption
<1>2. MarketOrder \in Orders(Markets)
  BY <1>1, OrdersExist DEF MarketOrder
<1> QED BY <1>1, <1>2, OrdersAreLists

LEMMA FiniteImage ==
  ASSUME NEW S, IsFiniteSet(S), NEW f, DOMAIN f = S, f = [x \in S |-> f[x]]
  PROVE  IsFiniteSet({f[x] : x \in S})
<1>1. f \in Surjection(S, {f[x] : x \in S})
  BY DEF Surjection
<1> QED BY <1>1, FS_Surjection

-----------------------------------------------------------------------------
(* What the agent reads *)

LEMMA BooksDecoded ==
  ASSUME NEW b \in Books, b.headroom = Headroom(b.capacity, b.vested)
  PROVE  DecodeBook([principal |-> b.principal, vested |-> b.vested,
                     capacity |-> IF b.capacity = KAPPA_UNBOUNDED THEN None ELSE b.capacity,
                     headroom |-> IF b.headroom = KAPPA_UNBOUNDED THEN None ELSE b.headroom]) = b
<1>1. b = [principal |-> b.principal, capacity |-> b.capacity, vested |-> b.vested,
           headroom |-> b.headroom]
  BY DEF Books
<1>2. /\ b.capacity \in Nat \cup {-1} /\ b.vested \in Nat /\ None \notin Int
      /\ b.headroom \in Nat \cup {-1}
  BY BookFields, NoneIsNothing DEF Capacities, KAPPA_UNBOUNDED
<1>3. CASE b.capacity = KAPPA_UNBOUNDED
  BY <1>1, <1>2, <1>3 DEF DecodeBook, Or, KAPPA_UNBOUNDED, Headroom
<1>4. CASE b.capacity # KAPPA_UNBOUNDED
  <2>1. b.headroom # KAPPA_UNBOUNDED /\ b.capacity # None /\ b.headroom # None
    BY <1>2, <1>4 DEF KAPPA_UNBOUNDED, Headroom
  <2> QED BY <1>1, <1>4, <2>1 DEF DecodeBook, Or
<1> QED BY <1>3, <1>4

LEMMA SideInt ==
  ASSUME NEW side, side.score \in Int \cup {None}, side.unrated \in Int \cup {None}
  PROVE  OpposingTrustFromSide(side) \in Int
<1>1. UNIT \in Int /\ SCORE_MAX \in Nat /\ SCORE_MAX > 0
  BY PolicyConfig
<1>2. CASE side.score = None
  BY <1>2 DEF OpposingTrustFromSide
<1>3. CASE side.score # None
  <2> DEFINE mean == (side.score * UNIT) \div SCORE_MAX
             score == Clamp(mean, 0, UNIT)
             rated == Clamp(UNIT - side.unrated, 0, UNIT)
  <2>1. side.score * UNIT \in Int
    BY <1>1, <1>3
  <2>2. mean \in Int
    BY <1>1, <2>1, DivInt
  <2>3. score \in Int
    <3> HIDE DEF mean
    <3> QED BY <1>1, <2>2, ClampInt
  <2>4. side.unrated # None => Product(score, rated) \in Int
    <3>1. SUFFICES ASSUME side.unrated # None PROVE Product(score, rated) \in Int
      OBVIOUS
    <3>2. UNIT - side.unrated \in Int
      BY <1>1, <3>1
    <3>3. rated \in Int
      <4>1. PICK x \in Int : x = UNIT - side.unrated
        BY <3>2
      <4>2. Clamp(x, 0, UNIT) \in Int
        BY <1>1, 0 \in Int, ClampInt
      <4> QED BY <4>1, <4>2
    <3> HIDE DEF score, rated
    <3> QED BY <2>3, <3>3, ProductInt
  <2> QED BY <1>3, <2>3, <2>4 DEF OpposingTrustFromSide
<1> QED BY <1>2, <1>3

(* A row of the report holds the books the index had. *)
LEMMA RowDecoded ==
  ASSUME IndexOK, NEW m \in Markets, NEW trust \in TrustReadings
  PROVE  RowOK(DecodeMarket(MarketBook(m), trust))
<1> DEFINE b == index.venue[m].books
           raw == MarketBook(m)
           books == [o \in DOMAIN raw.books |-> DecodeBook(raw.books[o])]
           row == DecodeMarket(raw, trust)
<1>1. BooksOK(b)
  BY DEF IndexOK, VenueOK
<1>2. b \in Seq(Books) /\ Len(b) \in Nat /\ DOMAIN b = 1..Len(b)
      /\ b = [o \in 1..Len(b) |-> b[o]] /\ \A o \in DOMAIN b : b[o] \in Books
  BY <1>1, BookAt DEF BooksOK
<1>3. \A o \in DOMAIN b : DecodeBook(raw.books[o]) = b[o]
  <2>1. ASSUME NEW o \in DOMAIN b PROVE DecodeBook(raw.books[o]) = b[o]
    <3>1. PICK c : c = b[o]
      OBVIOUS
    <3>2. c \in Books /\ c.headroom = Headroom(c.capacity, c.vested)
      BY <1>1, <1>2, <3>1 DEF BooksOK
    <3>3. raw.books[o] = [principal |-> c.principal, vested |-> c.vested,
             capacity |-> IF c.capacity = KAPPA_UNBOUNDED THEN None ELSE c.capacity,
             headroom |-> IF c.headroom = KAPPA_UNBOUNDED THEN None ELSE c.headroom]
      BY <3>1 DEF MarketBook
    <3>4. DecodeBook(raw.books[o]) = c
      BY <3>2, <3>3, BooksDecoded
    <3> QED BY <3>1, <3>4
  <2> QED BY <2>1
<1>4. DOMAIN raw.books = DOMAIN b
  BY DEF MarketBook
<1>5. books = b
  <2> HIDE DEF raw, b
  <2> QED BY <1>2, <1>3, <1>4
<1>6. raw.spec = Terms[m].spec /\ raw.createdAt = 0 /\ raw.resolutionTime = Terms[m].resolutionTime
  BY DEF MarketBook
<1>7. /\ raw.spec # None /\ raw.createdAt # None /\ DecodeStatus(raw.status) # None
      /\ DecodeDirection(raw.spec.direction) # None
  <2>1. raw.status \in Statuses
    BY DEF MarketBook, IndexOK, VenueOK, Venue
  <2>2. DecodeStatus(raw.status) # None
    <3> HIDE DEF raw
    <3> QED BY <2>1, NoneIsNothing DEF DecodeStatus, Statuses
  <2>3. Terms[m].spec # None /\ Terms[m].spec.direction \in {"above", "below"}
    BY TermsAssumption
  <2> HIDE DEF raw
  <2>4. DecodeDirection(raw.spec.direction) # None
    BY <1>6, <2>3, NoneIsNothing DEF DecodeDirection
  <2> QED BY <1>6, <2>2, <2>3, <2>4, NoneIsNothing
<1>8. row = [status |-> DecodeStatus(raw.status), openedAt |-> raw.createdAt,
          resolutionTime |-> raw.resolutionTime, books |-> b,
          feedKey |-> raw.spec.feedKey, strike8 |-> raw.spec.strike,
          direction |-> DecodeDirection(raw.spec.direction),
          maxStaleness |-> raw.spec.maxStaleness,
          opposingTrust |-> DecodeTrust(trust, b)]
  <2> HIDE DEF raw, b
  <2> QED BY <1>5, <1>7 DEF DecodeMarket
<1>9. DecodeTrust(trust, b) # None => \A o \in DOMAIN b : DecodeTrust(trust, b)[o] \in Int
  <2>1. SUFFICES ASSUME trust # None, NEW o \in DOMAIN b
                 PROVE  DecodeTrust(trust, b)[o] \in Int
    BY DEF DecodeTrust
  <2>2. o \in DOMAIN trust => OpposingTrustFromSide(trust[o]) \in Int
    BY <2>1, AnswersAssumption, SideInt
  <2> QED BY <2>1, <2>2 DEF DecodeTrust
<1>10. /\ Terms[m].resolutionTime \in Int /\ Terms[m].spec.strike \in Int
       /\ Terms[m].spec.maxStaleness \in Int
  BY TermsAssumption
<1> HIDE DEF raw, b, row
<1>11. /\ row.openedAt = 0 /\ row.resolutionTime = Terms[m].resolutionTime
       /\ row.books = b /\ row.strike8 = Terms[m].spec.strike
       /\ row.maxStaleness = Terms[m].spec.maxStaleness
       /\ row.opposingTrust = DecodeTrust(trust, b)
  BY <1>6, <1>8
<1>12. RowOK(row)
  BY <1>1, <1>9, <1>10, <1>11 DEF RowOK
<1> QED BY <1>12 DEF row, raw

LEMMA EstimateInt ==
  ASSUME NEW market, RowOK(market), NEW quote \in Quotes, NEW now \in Int
  PROVE  EstimateFromFeed(market, quote, now) # None =>
           \A o \in DOMAIN market.books : EstimateFromFeed(market, quote, now)[o] \in Int
<1> DEFINE remaining == IF market.resolutionTime > now THEN market.resolutionTime - now ELSE 0
           above == DigitalAbove(quote.price8, market.strike8, quote.vol, remaining)
           first == IF market.direction = 0 THEN above ELSE UNIT - above
<1>1. UNIT \in Int /\ UNIT \div 2 \in Int /\ UNIT \div 4 \in Int
  BY PolicyConfig, DivInt
<1>2. \A x : NormalCdf(x) \in Int
  BY <1>1 DEF NormalCdf
<1>3. \A a, b, c, d : a \in Int /\ b \in Int => DigitalAbove(a, b, c, d) \in Int
  BY <1>1, <1>2 DEF DigitalAbove
<1>4. above \in Int
  BY <1>3, AnswersAssumption DEF RowOK
<1>5. first \in Int /\ UNIT - first \in Int
  <2> HIDE DEF above
  <2> QED BY <1>1, <1>4
<1>6. market.books \in Seq(Books) /\ DOMAIN market.books = 1..Len(market.books)
  BY BookAt DEF RowOK, BooksOK
<1>7. SUFFICES ASSUME EstimateFromFeed(market, quote, now) # None, NEW o \in DOMAIN market.books
               PROVE  EstimateFromFeed(market, quote, now)[o] \in Int
  OBVIOUS
<1>8. Len(market.books) = 2 /\ EstimateFromFeed(market, quote, now) = <<first, UNIT - first>>
  BY <1>7 DEF EstimateFromFeed
<1> HIDE DEF first
<1> QED BY <1>5, <1>6, <1>8

-----------------------------------------------------------------------------
(* The venue moves *)

LEMMA OffersAt ==
  ASSUME VintageOK(vintage), NEW m \in Markets
  PROVE  /\ vintage[m] \in [offers: Seq(Offer), due: BOOLEAN] /\ vintage[m].due \in BOOLEAN
         /\ Offers(m) \in Seq(Offer) /\ Len(Offers(m)) \in Nat
         /\ DOMAIN Offers(m) = 1..Len(Offers(m)) /\ OffersOK(Offers(m))
         /\ \A k \in 1..Len(Offers(m)) : Offers(m)[k] \in Offer
<1>1. vintage[m] \in [offers: Seq(Offer), due: BOOLEAN] /\ OffersOK(vintage[m].offers)
  BY DEF VintageOK
<1>2. PICK s \in Seq(Offer) : s = vintage[m].offers
  BY <1>1
<1>3. Len(s) \in Nat /\ DOMAIN s = 1..Len(s) /\ \A k \in 1..Len(s) : s[k] \in Offer
  OBVIOUS
<1> QED BY <1>1, <1>2, <1>3 DEF Offers

LEMMA OfferFields ==
  ASSUME NEW x \in Offer
  PROVE  /\ x.position \in Nat /\ x.outcome \in Nat /\ x.offered \in Nat
         /\ x.seen \in Seq(Books) \cup {None}
BY DEF Offer

LEMMA DemandNat ==
  ASSUME VintageOK(vintage), NEW m \in Markets, NEW w
  PROVE  Demand(m, w) \in Nat
<1> DEFINE f == [k \in DOMAIN Offers(m) |->
                   IF Offers(m)[k].outcome # w THEN Offers(m)[k].offered ELSE 0]
<1>1. \A k \in 1..Len(Offers(m)) : f[k] \in Nat
  BY OffersAt, OfferFields
<1>2. Demand(m, w) = Sum(f, Len(Offers(m)))
  BY DEF Demand, Total
<1> HIDE DEF f
<1> QED BY <1>1, <1>2, OffersAt, SumNat

LEMMA HeadroomAt ==
  ASSUME VenueOK(venue), NEW m \in Markets
  PROVE  /\ BooksOK(venue[m].books) /\ DOMAIN venue[m].books = 1..Len(venue[m].books)
         /\ Len(venue[m].books) \in Nat
         /\ \A w \in DOMAIN venue[m].books :
              /\ venue[m].books[w] \in Books
              /\ venue[m].books[w].headroom # KAPPA_UNBOUNDED => venue[m].books[w].headroom \in Nat
<1>1. BooksOK(venue[m].books) /\ venue[m].books \in Seq(Books)
  BY DEF VenueOK, BooksOK
<1>2. \A b \in Books : b.headroom # KAPPA_UNBOUNDED => b.headroom \in Nat
  BY BookFields DEF Capacities
<1> QED BY <1>1, <1>2, BookAt

(* What a roll accepts is a part of what was offered. *)
LEMMA AcceptedBound ==
  ASSUME VenueOK(venue), VintageOK(vintage), NEW m \in Markets, NEW x \in Offer
  PROVE  AcceptedOf(m, x) \in Nat /\ AcceptedOf(m, x) <= x.offered
<1> DEFINE share(w) == (x.offered * venue[m].books[w].headroom) \div Demand(m, w)
           S == {x.offered} \cup {share(w) : w \in Rationing(m, x.outcome)}
<1>1. ASSUME NEW w \in Rationing(m, x.outcome) PROVE share(w) \in Nat
  <2>1. /\ w \in DOMAIN venue[m].books /\ venue[m].books[w].headroom # KAPPA_UNBOUNDED
        /\ Demand(m, w) > venue[m].books[w].headroom
    BY DEF Rationing
  <2>2. PICK h \in Nat : h = venue[m].books[w].headroom
    BY <2>1, HeadroomAt
  <2>3. PICK d \in Nat : d = Demand(m, w) /\ d > 0
    BY <2>1, <2>2, DemandNat
  <2>4. x.offered * h \in Nat
    BY <2>2, OfferFields
  <2>5. (x.offered * h) \div d \in Nat
    BY <2>3, <2>4, DivType
  <2> QED BY <2>2, <2>3, <2>5
<1>2. S \in SUBSET Nat /\ x.offered \in S
  BY <1>1, OfferFields
<1>3. AcceptedOf(m, x) = Min(S)
  BY DEF AcceptedOf
<1> HIDE DEF S
<1>4. Min(S) \in S /\ \A y \in S : Min(S) <= y
  BY <1>2, LeastOfNats
<1> QED BY <1>2, <1>3, <1>4

(* An entry sized on the books as they are, and with nobody to share them with,
   is accepted whole: it is all the demand there is on each book it leans on. *)
LEMMA TakenWhole ==
  ASSUME VenueOK(venue), VintageOK(vintage), NEW m \in Markets, NEW k \in DOMAIN Offers(m),
         Offers(m)[k].position # 0, venue[m].books = Offers(m)[k].seen, ~Competes(m, k)
  PROVE  AcceptedOf(m, Offers(m)[k]) = Offers(m)[k].offered
<1> DEFINE x == Offers(m)[k]
<1>1. x \in Offer /\ k \in 1..Len(Offers(m)) /\ Fits(venue[m].books, x.outcome, x.offered)
  BY OffersAt DEF OffersOK
<1>2. ASSUME NEW w \in Rationing(m, x.outcome) PROVE FALSE
  <2>1. /\ w \in DOMAIN venue[m].books \ {x.outcome}
        /\ venue[m].books[w].headroom # KAPPA_UNBOUNDED
        /\ Demand(m, w) > venue[m].books[w].headroom
    BY <1>2 DEF Rationing
  <2> DEFINE f == [j \in DOMAIN Offers(m) |->
                     IF Offers(m)[j].outcome # w THEN Offers(m)[j].offered ELSE 0]
  <2>2. \A j \in 1..Len(Offers(m)) : f[j] = IF j = k THEN x.offered ELSE 0
    <3>1. \A j \in DOMAIN Offers(m) \ {k} : w \in {x.outcome, Offers(m)[j].outcome}
      BY <2>1 DEF Competes
    <3> QED BY <2>1, <3>1, OffersAt
  <2>3. Demand(m, w) = Sum(f, Len(Offers(m)))
    BY DEF Demand, Total
  <2> HIDE DEF f, x
  <2>4. Demand(m, w) = x.offered
    <3>1. PICK n \in Nat, z \in Nat : n = Len(Offers(m)) /\ z = x.offered
      BY <1>1, OffersAt, OfferFields
    <3>2. k \in 1..n /\ \A j \in 1..n : f[j] = IF j = k THEN z ELSE 0
      BY <1>1, <2>2, <3>1
    <3>3. Sum(f, n) = z
      BY <3>2, SumSingle
    <3> QED BY <2>3, <3>1, <3>3
  <2>5. /\ Room(venue[m].books, x.outcome) # KAPPA_UNBOUNDED
        /\ Room(venue[m].books, x.outcome) <= venue[m].books[w].headroom
        /\ Room(venue[m].books, x.outcome) \in Capacities
    BY <2>1, HeadroomAt, RoomType DEF BooksOK
  <2>6. x.offered <= Room(venue[m].books, x.outcome)
    BY <1>1, <2>5 DEF Fits
  <2>7. venue[m].books[w].headroom \in Nat /\ x.offered \in Nat
        /\ Room(venue[m].books, x.outcome) \in Nat
    BY <1>1, <2>1, <2>5, HeadroomAt, OfferFields DEF Capacities
  <2> QED BY <2>1, <2>4, <2>5, <2>6, <2>7
<1>3. AcceptedOf(m, x) = Min({x.offered})
  <2>1. Rationing(m, x.outcome) = {}
    BY <1>2
  <2>2. {x.offered} \cup {(x.offered * venue[m].books[w].headroom) \div Demand(m, w) :
                           w \in Rationing(m, x.outcome)} = {x.offered}
    BY <2>1
  <2> QED BY <2>2 DEF AcceptedOf
<1> HIDE DEF x
<1>4. {x.offered} \in SUBSET Nat /\ {x.offered} # {}
  BY <1>1, OfferFields
<1>5. Min({x.offered}) \in {x.offered}
  BY <1>4, LeastOfNats
<1> QED BY <1>3, <1>5 DEF x

LEMMA StakesNat ==
  ASSUME VenueOK(venue), VintageOK(vintage), NEW m \in Markets, NEW o
  PROVE  Stake(m, o) \in Nat /\ Inflow(m, o) \in Nat
<1> DEFINE on == [k \in DOMAIN Offers(m) |->
                    IF Offers(m)[k].outcome = o THEN AcceptedOf(m, Offers(m)[k]) ELSE 0]
           against == [k \in DOMAIN Offers(m) |->
                    IF Offers(m)[k].outcome # o THEN AcceptedOf(m, Offers(m)[k]) ELSE 0]
<1>1. \A k \in 1..Len(Offers(m)) : AcceptedOf(m, Offers(m)[k]) \in Nat
  BY OffersAt, AcceptedBound
<1>2. \A k \in 1..Len(Offers(m)) : on[k] \in Nat /\ against[k] \in Nat
  BY <1>1, OffersAt
<1>3. Stake(m, o) = Sum(on, Len(Offers(m))) /\ Inflow(m, o) = Sum(against, Len(Offers(m)))
  BY DEF Stake, Inflow, Total
<1> HIDE DEF on, against
<1> QED BY <1>2, <1>3, OffersAt, SumNat

LEMMA BookRolledOK ==
  ASSUME NEW b \in Books, NEW stake \in Nat, NEW inflow \in Nat
  PROVE  /\ BookRolled(b, stake, inflow) \in Books
         /\ BookRolled(b, stake, inflow).headroom
              = Headroom(BookRolled(b, stake, inflow).capacity, BookRolled(b, stake, inflow).vested)
<1> DEFINE c == IF b.capacity = KAPPA_UNBOUNDED THEN b.capacity ELSE b.capacity + KAPPA * stake
           v == b.vested + inflow
           p == b.principal + stake
           new == BookRolled(b, stake, inflow)
<1>1. new = [principal |-> p, capacity |-> c, vested |-> v, headroom |-> Headroom(c, v)]
  BY DEF BookRolled
<1>2. /\ b.principal \in Nat /\ b.capacity \in Nat \cup {-1} /\ b.vested \in Nat
      /\ KAPPA * stake \in Nat
  BY BookFields, TermsAssumption DEF Capacities, KAPPA_UNBOUNDED
<1>3. p \in Nat /\ v \in Nat /\ c \in Nat \cup {-1}
  BY <1>2 DEF KAPPA_UNBOUNDED
<1> HIDE DEF c, v, p, new
<1>4. Headroom(c, v) \in Nat \cup {-1}
  BY <1>3 DEF Headroom, KAPPA_UNBOUNDED
<1>5. new \in Books
  BY <1>1, <1>3, <1>4 DEF Books, Capacities, KAPPA_UNBOUNDED
<1>6. new.headroom = Headroom(new.capacity, new.vested)
  BY <1>1
<1> QED BY <1>5, <1>6 DEF new

LEMMA BooksRolled ==
  ASSUME VenueOK(venue), VintageOK(vintage), NEW m \in Markets
  PROVE  BooksOK(BooksNow(m))
<1> DEFINE books == venue[m].books
           new == [o \in DOMAIN books |-> BookRolled(books[o], Stake(m, o), Inflow(m, o))]
<1>1. BooksOK(books) /\ DOMAIN books = 1..Len(books) /\ Len(books) \in Nat
  BY HeadroomAt
<1>2. \A o \in 1..Len(books) : /\ new[o] \in Books
                               /\ new[o].headroom = Headroom(new[o].capacity, new[o].vested)
  <2>1. ASSUME NEW o \in 1..Len(books)
        PROVE  new[o] \in Books /\ new[o].headroom = Headroom(new[o].capacity, new[o].vested)
    <3>1. PICK b \in Books, s \in Nat, f \in Nat : b = books[o] /\ s = Stake(m, o) /\ f = Inflow(m, o)
      BY <1>1, HeadroomAt, StakesNat
    <3>2. new[o] = BookRolled(b, s, f)
      BY <1>1, <3>1
    <3> HIDE DEF new
    <3> QED BY <3>2, BookRolledOK
  <2> QED BY <2>1
<1>3. DOMAIN new = 1..Len(books) /\ new = [o \in 1..Len(books) |-> new[o]]
  BY <1>1
<1>4. BooksNow(m) = books \/ BooksNow(m) = new
  BY DEF BooksNow
<1> HIDE DEF new, books
<1>5. new \in [1..Len(books) -> Books]
  BY <1>2, <1>3
<1>6. new \in Seq(Books)
  BY <1>1, <1>5
<1>7. BooksOK(new)
  BY <1>2, <1>3, <1>6 DEF BooksOK
<1> QED BY <1>1, <1>4, <1>7

(* Positions are never taken from the agent. *)
Grown(p, q) == \A m \in Markets : Len(p[m]) <= Len(q[m])

LEMMA PositionsAt ==
  ASSUME NEW p \in Held0, NEW m \in Markets
  PROVE  /\ p[m] \in Seq(Position) /\ Len(p[m]) \in Nat /\ DOMAIN p[m] = 1..Len(p[m])
         /\ p[m] \in [1..Len(p[m]) -> Position]
         /\ \A i \in 1..Len(p[m]) : p[m][i] \in Position
<1>1. p[m] \in Seq(Position)
  BY DEF Held0
<1> QED BY <1>1

LEMMA PositionFields ==
  ASSUME NEW p \in Position
  PROVE  p.outcome \in Nat /\ p.accepted \in Nat /\ p.refund \in Nat /\ p.claimed \in BOOLEAN
BY DEF Position

(* What a roll makes of a position: itself, or what was accepted of its offer. *)
LEMMA PositionRolledOK ==
  ASSUME ChainOK, NEW m \in Markets, NEW i \in 1..Len(positions[m])
  PROVE  /\ PositionRolled(m, i) \in Position
         /\ \/ PositionRolled(m, i) = positions[m][i]
            \/ \E k \in OfferOf(m, i) :
                 PositionRolled(m, i).refund = Offers(m)[k].offered - AcceptedOf(m, Offers(m)[k])
<1>1. positions[m][i] \in Position
  BY PositionsAt DEF ChainOK
<1>2. CASE OfferOf(m, i) = {}
  BY <1>1, <1>2 DEF PositionRolled
<1>3. CASE OfferOf(m, i) # {}
  <2> DEFINE k == CHOOSE j \in OfferOf(m, i) : TRUE
             x == Offers(m)[k]
             a == AcceptedOf(m, x)
  <2>1. k \in OfferOf(m, i)
    BY <1>3
  <2>2. x \in Offer
    BY <2>1, OffersAt DEF OfferOf, ChainOK
  <2>3. x.offered \in Nat /\ a \in Nat /\ a <= x.offered
    BY <2>2, AcceptedBound, OfferFields DEF ChainOK
  <2>4. PositionRolled(m, i) = [positions[m][i] EXCEPT !.accepted = a, !.refund = x.offered - a]
    BY <1>3 DEF PositionRolled
  <2> HIDE DEF k, x, a
  <2>6. x.offered - a \in Nat
    BY <2>3
  <2>7. PositionRolled(m, i) \in Position /\ PositionRolled(m, i).refund = x.offered - a
    <3>1. PICK p \in Position, c \in Nat, d \in Nat : p = positions[m][i] /\ c = a /\ d = x.offered - a
      BY <1>1, <2>3, <2>6
    <3>2. PositionRolled(m, i) = [p EXCEPT !.accepted = c, !.refund = d]
      BY ONLY <2>4, <3>1
    <3>3. PICK z : z = [p EXCEPT !.accepted = c, !.refund = d]
      OBVIOUS
    <3>4. z \in Position /\ z.refund = d
      BY ONLY <3>3, p \in Position, c \in Nat, d \in Nat DEF Position
    <3>5. PositionRolled(m, i) = z
      BY ONLY <3>2, <3>3
    <3> QED BY <3>1, <3>4, <3>5
  <2> QED BY <2>1, <2>7 DEF x, a
<1> QED BY <1>2, <1>3

LEMMA PositionsRolled ==
  ASSUME ChainOK, NEW m \in Markets
  PROVE  /\ PositionsNow(m) \in Seq(Position) /\ Len(PositionsNow(m)) = Len(positions[m])
         /\ DOMAIN PositionsNow(m) = DOMAIN positions[m]
         /\ \A i \in 1..Len(positions[m]) :
              PositionsNow(m)[i] \in {positions[m][i], PositionRolled(m, i)}
<1> DEFINE new == [i \in DOMAIN positions[m] |-> PositionRolled(m, i)]
<1>1. /\ positions[m] \in Seq(Position) /\ Len(positions[m]) \in Nat
      /\ DOMAIN positions[m] = 1..Len(positions[m])
  BY PositionsAt DEF ChainOK
<1>2. \A i \in 1..Len(positions[m]) : new[i] = PositionRolled(m, i) /\ new[i] \in Position
  BY <1>1, PositionRolledOK
<1>3. DOMAIN new = 1..Len(positions[m]) /\ new = [i \in 1..Len(positions[m]) |-> new[i]]
  BY <1>1
<1>4. PositionsNow(m) = positions[m] \/ PositionsNow(m) = new
  BY DEF PositionsNow
<1> HIDE DEF new
<1>5. new \in [1..Len(positions[m]) -> Position]
  BY <1>2, <1>3
<1>6. new \in Seq(Position) /\ Len(new) = Len(positions[m])
  BY <1>1, <1>5
<1> QED BY <1>1, <1>2, <1>3, <1>4, <1>6

(* What is owed of a position grows by a roll alone, and then by what the roll did
   not accept of an offer of the agent's. *)
LEMMA RemainderFromOffer ==
  ASSUME ChainOK, NEW m \in Markets, NEW i \in 1..Len(positions[m]),
         PositionsNow(m)[i].refund > positions[m][i].refund
  PROVE  \E k \in OfferOf(m, i) : \/ venue[m].books # Offers(m)[k].seen
                                 \/ Competes(m, k)
<1>1. positions[m][i].refund \in Nat
  BY PositionsAt, PositionFields DEF ChainOK
<1>2. PositionsNow(m)[i] # positions[m][i]
  <2>1. PICK r \in Nat : r = positions[m][i].refund
    BY <1>1
  <2>2. ~(r > r)
    OBVIOUS
  <2> QED BY <2>1, <2>2
<1>3. PositionsNow(m)[i] = PositionRolled(m, i)
  BY <1>2, PositionsRolled
<1>4. PICK k \in OfferOf(m, i) :
        PositionRolled(m, i).refund = Offers(m)[k].offered - AcceptedOf(m, Offers(m)[k])
  BY <1>2, <1>3, PositionRolledOK
<1>5. k \in DOMAIN Offers(m) /\ Offers(m)[k] \in Offer /\ Offers(m)[k].position = i /\ i # 0
  BY OffersAt DEF OfferOf, ChainOK
<1>6. AcceptedOf(m, Offers(m)[k]) # Offers(m)[k].offered
  <2>1. PICK x \in Nat : x = Offers(m)[k].offered
    BY <1>5, OfferFields
  <2>2. x - x = 0
    OBVIOUS
  <2> QED BY <1>1, <1>3, <1>4, <2>1, <2>2
<1> QED BY <1>4, <1>5, <1>6, TakenWhole DEF ChainOK

LEMMA OffersRolled ==
  ASSUME VintageOK(vintage), NEW m \in Markets
  PROVE  OffersOK(OffersNow(m))
<1>1. OffersOK(Offers(m))
  BY OffersAt
<1>2. OffersOK(<<>>)
  BY DEF OffersOK
<1> QED BY <1>1, <1>2 DEF OffersNow

LEMMA OfferJoins ==
  ASSUME NEW s, OffersOK(s), NEW x \in Offer,
         x.position # 0 => Fits(x.seen, x.outcome, x.offered)
  PROVE  OffersOK(Append(s, x))
<1> DEFINE t == Append(s, x)
<1>1. s \in Seq(Offer) /\ Len(s) \in Nat /\ DOMAIN s = 1..Len(s)
  BY DEF OffersOK
<1>2. /\ t \in Seq(Offer) /\ Len(t) = Len(s) + 1
      /\ \A k \in 1..Len(s) : t[k] = s[k]
      /\ t[Len(s) + 1] = x
  BY <1>1, AppendIsFun
<1> HIDE DEF t
<1>3. DOMAIN t = 1..(Len(s) + 1)
  BY <1>2
<1>4. \A k \in DOMAIN t : t[k] = x \/ (k \in DOMAIN s /\ t[k] = s[k])
  <2>1. ASSUME NEW k \in 1..(Len(s) + 1) PROVE k = Len(s) + 1 \/ k \in 1..Len(s)
    BY <1>1
  <2> QED BY <1>1, <1>2, <1>3, <2>1
<1>5. OffersOK(t)
  BY <1>2, <1>4 DEF OffersOK
<1> QED BY <1>5 DEF t

LEMMA VenueBooks ==
  ASSUME VenueOK(venue), NEW m \in Markets, NEW books, BooksOK(books)
  PROVE  \E v \in Venue : /\ v.books = books
                          /\ [venue EXCEPT ![m].books = books] = [venue EXCEPT ![m] = v]
<1>1. venue \in [Markets -> Venue] /\ books \in Seq(Books)
  BY DEF VenueOK, BooksOK
<1>2. \A v \in Venue : [v EXCEPT !.books = books] \in Venue
                        /\ [v EXCEPT !.books = books].books = books
  BY <1>1 DEF Venue
<1>3. [venue EXCEPT ![m].books = books]
        = [venue EXCEPT ![m] = [venue[m] EXCEPT !.books = books]]
  OBVIOUS
<1> QED BY <1>1, <1>2, <1>3

(* What a step leaves of a refund is what it was, what a roll makes of it, or
   nothing. *)
KeptRefund(m, i, p) == p.refund \in {positions[m][i].refund, PositionsNow(m)[i].refund, 0}
HeldOK(m, held) ==
  /\ held \in Seq(Position) /\ Len(positions[m]) <= Len(held)
  /\ \A i \in 1..Len(positions[m]) : KeptRefund(m, i, held[i])
Refunds == \A n \in Markets : \A i \in 1..Len(positions[n]) : KeptRefund(n, i, positions'[n][i])
Moved ==
  /\ VenueOK(venue') /\ VintageOK(vintage')
  /\ positions' \in Held0 /\ Grown(positions, positions') /\ Refunds

LEMMA NothingMoves ==
  ASSUME ChainOK, UNCHANGED <<venue, vintage, positions>>
  PROVE  Moved
<1>1. Grown(positions, positions')
  BY PositionsAt DEF Grown, ChainOK
<1>2. Refunds
  BY DEF Refunds, KeptRefund
<1> QED BY <1>1, <1>2 DEF Moved, ChainOK

LEMMA HeldMoves ==
  ASSUME ChainOK, NEW m \in Markets, NEW held, HeldOK(m, held),
         positions' = [positions EXCEPT ![m] = held]
  PROVE  positions' \in Held0 /\ Grown(positions, positions') /\ Refunds
<1>1. positions \in [Markets -> Seq(Position)] /\ held \in Seq(Position)
  BY DEF ChainOK, Held0, HeldOK
<1>2. /\ positions' \in [Markets -> Seq(Position)]
      /\ positions'[m] = held /\ \A n \in Markets \ {m} : positions'[n] = positions[n]
  BY ONLY <1>1, m \in Markets, positions' = [positions EXCEPT ![m] = held]
<1>3. Grown(positions, positions')
  <2>1. ASSUME NEW n \in Markets PROVE Len(positions[n]) <= Len(positions'[n])
    <3>1. Len(positions[n]) \in Nat
      BY PositionsAt DEF ChainOK
    <3>2. CASE n = m
      BY <1>2, <3>2 DEF HeldOK
    <3>3. CASE n # m
      BY <1>2, <3>1, <3>3
    <3> QED BY <3>2, <3>3
  <2> QED BY <2>1 DEF Grown
<1>4. Refunds
  <2>1. ASSUME NEW n \in Markets, NEW i \in 1..Len(positions[n])
        PROVE  KeptRefund(n, i, positions'[n][i])
    <3>1. CASE n = m
      BY <1>2, <3>1 DEF HeldOK
    <3>2. CASE n # m
      BY <1>2, <3>2 DEF KeptRefund
    <3> QED BY <3>1, <3>2
  <2> QED BY <2>1 DEF Refunds
<1> QED BY <1>2, <1>3, <1>4 DEF Held0

(* The positions of a market as they are, and after a roll. *)
LEMMA HeldNowOK ==
  ASSUME ChainOK, NEW m \in Markets
  PROVE  HeldOK(m, PositionsNow(m)) /\ HeldOK(m, positions[m])
<1>1. positions[m] \in Seq(Position) /\ Len(positions[m]) \in Nat
  BY PositionsAt DEF ChainOK
<1> QED BY <1>1, PositionsRolled DEF HeldOK, KeptRefund

(* One more position, and one position paid. *)
LEMMA HeldJoins ==
  ASSUME ChainOK, NEW m \in Markets, NEW p \in Position
  PROVE  HeldOK(m, Append(PositionsNow(m), p))
<1> DEFINE held == Append(PositionsNow(m), p)
<1>1. PositionsNow(m) \in Seq(Position) /\ Len(PositionsNow(m)) = Len(positions[m])
      /\ Len(positions[m]) \in Nat
  BY PositionsRolled, PositionsAt DEF ChainOK
<1>2. /\ held \in Seq(Position) /\ Len(held) = Len(positions[m]) + 1
      /\ \A i \in 1..Len(positions[m]) : held[i] = PositionsNow(m)[i]
  BY <1>1, AppendIsFun
<1> HIDE DEF held
<1>3. HeldOK(m, held)
  BY <1>1, <1>2 DEF HeldOK, KeptRefund
<1> QED BY <1>3 DEF held

LEMMA HeldPaid ==
  ASSUME ChainOK, NEW m \in Markets, NEW held, HeldOK(m, held), Len(held) = Len(positions[m]),
         NEW i \in 1..Len(positions[m]), NEW p \in Position, p.refund = 0
  PROVE  HeldOK(m, [held EXCEPT ![i] = p])
<1>1. PICK n \in Nat : n = Len(held)
  BY DEF HeldOK
<1>2. held \in [1..n -> Position] /\ i \in 1..n
  BY <1>1 DEF HeldOK
<1>3. PICK t : t = [held EXCEPT ![i] = p]
  OBVIOUS
<1>4. t \in [1..n -> Position] /\ t[i] = p /\ \A j \in 1..n : j # i => t[j] = held[j]
  BY <1>2, <1>3
<1>5. t \in Seq(Position) /\ Len(t) = n
  BY <1>4
<1>6. \A j \in 1..Len(positions[m]) : KeptRefund(m, j, t[j])
  <2>1. ASSUME NEW j \in 1..n PROVE KeptRefund(m, j, t[j])
    <3>1. CASE j = i
      BY <1>4, <3>1 DEF KeptRefund
    <3>2. CASE j # i
      BY <1>1, <1>4, <3>2 DEF HeldOK
    <3> QED BY <3>1, <3>2
  <2> QED BY <1>1, <2>1
<1>7. HeldOK(m, t)
  BY <1>1, <1>5, <1>6 DEF HeldOK
<1> QED BY <1>3, <1>7

(* One market moves: its venue, the agent's positions there and its open vintage. *)
LEMMA MarketMoves ==
  ASSUME ChainOK, NEW m \in Markets,
         NEW v \in Venue, BooksOK(v.books), NEW held, HeldOK(m, held), NEW s, OffersOK(s),
         venue' = [venue EXCEPT ![m] = v],
         positions' = [positions EXCEPT ![m] = held],
         vintage' = [vintage EXCEPT ![m] = [offers |-> s, due |-> FALSE]]
  PROVE  Moved
<1>1. venue \in [Markets -> Venue] /\ vintage \in [Markets -> [offers: Seq(Offer), due: BOOLEAN]]
  BY DEF ChainOK, VenueOK, VintageOK
<1>2. venue' \in [Markets -> Venue] /\ venue'[m] = v /\ \A n \in Markets \ {m} : venue'[n] = venue[n]
  BY <1>1
<1>3. VenueOK(venue')
  BY <1>2 DEF ChainOK, VenueOK
<1>4. PICK d : d = [offers |-> s, due |-> FALSE]
  OBVIOUS
<1>5. d \in [offers: Seq(Offer), due: BOOLEAN] /\ d.offers = s
  BY <1>4 DEF OffersOK
<1>6. vintage' = [vintage EXCEPT ![m] = d]
  BY <1>4
<1>7. /\ vintage' \in [Markets -> [offers: Seq(Offer), due: BOOLEAN]]
      /\ vintage'[m] = d /\ \A n \in Markets \ {m} : vintage'[n] = vintage[n]
  BY ONLY <1>1, <1>5, <1>6, m \in Markets
<1>8. VintageOK(vintage')
  BY <1>5, <1>7 DEF ChainOK, VintageOK
<1> QED BY <1>3, <1>8, HeldMoves DEF Moved

LEMMA RollMoves ==
  ASSUME ChainOK, NEW m \in Markets, Rolls(m), NEW held, HeldOK(m, held),
         positions' = [positions EXCEPT ![m] = held]
  PROVE  Moved
<1>1. PICK v \in Venue : v.books = BooksNow(m) /\ venue' = [venue EXCEPT ![m] = v]
  <2>1. BooksOK(BooksNow(m)) /\ VenueOK(venue)
    BY BooksRolled DEF ChainOK
  <2>2. venue' = [venue EXCEPT ![m].books = BooksNow(m)]
    BY DEF Rolls
  <2>3. PICK b : b = BooksNow(m)
    OBVIOUS
  <2>b. BooksOK(b)
    BY ONLY <2>1, <2>3
  <2>4. PICK v \in Venue : v.books = b /\ [venue EXCEPT ![m].books = b] = [venue EXCEPT ![m] = v]
    BY ONLY <2>1, <2>b, m \in Markets, VenueBooks
  <2>5. venue' = [venue EXCEPT ![m].books = b]
    BY ONLY <2>2, <2>3
  <2> QED BY <2>3, <2>4, <2>5
<1>2. BooksOK(v.books) /\ OffersOK(OffersNow(m))
  BY <1>1, BooksRolled, OffersRolled DEF ChainOK
<1>3. vintage' = [vintage EXCEPT ![m] = [offers |-> OffersNow(m), due |-> FALSE]]
  BY DEF Rolls
<1> QED BY <1>1, <1>2, <1>3, MarketMoves

LEMMA BufferMoves ==
  ASSUME ChainOK, NEW m \in Markets, NEW x \in Offer, Buffers(m, x),
         x.position # 0 => Fits(x.seen, x.outcome, x.offered),
         NEW held, HeldOK(m, held), positions' = [positions EXCEPT ![m] = held]
  PROVE  Moved
<1>1. PICK v \in Venue : v.books = BooksNow(m) /\ venue' = [venue EXCEPT ![m] = v]
  <2>1. BooksOK(BooksNow(m)) /\ VenueOK(venue)
    BY BooksRolled DEF ChainOK
  <2>2. venue' = [venue EXCEPT ![m].books = BooksNow(m)]
    BY DEF Buffers
  <2>3. PICK b : b = BooksNow(m)
    OBVIOUS
  <2>b. BooksOK(b)
    BY ONLY <2>1, <2>3
  <2>4. PICK v \in Venue : v.books = b /\ [venue EXCEPT ![m].books = b] = [venue EXCEPT ![m] = v]
    BY ONLY <2>1, <2>b, m \in Markets, VenueBooks
  <2>5. venue' = [venue EXCEPT ![m].books = b]
    BY ONLY <2>2, <2>3
  <2> QED BY <2>3, <2>4, <2>5
<1>2. BooksOK(v.books) /\ OffersOK(Append(OffersNow(m), x))
  BY <1>1, BooksRolled, OffersRolled, OfferJoins DEF ChainOK
<1>3. vintage' = [vintage EXCEPT ![m] = [offers |-> Append(OffersNow(m), x), due |-> FALSE]]
  BY DEF Buffers
<1> QED BY <1>1, <1>2, <1>3, MarketMoves

LEMMA EntryMoves ==
  ASSUME ChainOK, NEW call, IsEntry(call), EnterLands(call)
  PROVE  Moved /\ wallet' \in [balance: Int, allowance: Int]
<1> DEFINE m == call.market
           p == [outcome |-> call.outcome, accepted |-> 0, refund |-> 0, claimed |-> FALSE]
           x == [position |-> Len(positions[m]) + 1, outcome |-> call.outcome,
                 offered |-> call.amount, seen |-> call.seen]
           held == Append(PositionsNow(m), p)
<1>1. /\ m \in Markets /\ call.amount \in Nat /\ call.outcome \in Nat
      /\ call.seen \in Seq(Books) /\ Fits(call.seen, call.outcome, call.amount)
  BY DEF IsEntry
<1>2. Len(positions[m]) \in Nat
  BY <1>1, PositionsAt DEF ChainOK
<1>3. /\ x \in Offer /\ x.seen = call.seen /\ x.outcome = call.outcome /\ x.offered = call.amount
  BY <1>1, <1>2 DEF Offer
<1>4. p \in Position
  BY <1>1 DEF Position
<1>5. Buffers(m, x) /\ positions' = [positions EXCEPT ![m] = held]
  BY DEF EnterLands
<1>6. wallet' \in [balance: Int, allowance: Int]
  BY <1>1 DEF EnterLands, ChainOK
<1> HIDE DEF p, x, m
<1>7. HeldOK(m, held)
  BY <1>1, <1>4, HeldJoins
<1> HIDE DEF held
<1>8. Moved
  BY <1>1, <1>3, <1>5, <1>7, BufferMoves
<1> QED BY <1>6, <1>8

LEMMA SettlementNat ==
  ASSUME NEW v, NEW p \in Position
  PROVE  Settlement(v, p) \in Nat /\ Owed(v, p) \in Nat
<1>1. Settlement(v, p) \in Nat
  BY PositionFields DEF Settlement
<1> QED BY <1>1, PositionFields DEF Owed

LEMMA ClaimMoves ==
  ASSUME ChainOK, NEW m \in Markets, NEW i \in 1..Len(positions[m]), ClaimPays(m, i)
  PROVE  Moved /\ wallet' \in [balance: Int, allowance: Int]
<1> DEFINE p == positions[m][i]
           q == [p EXCEPT !.refund = 0, !.claimed = TRUE]
<1>1. p \in Position
  BY PositionsAt DEF ChainOK
<1>2. q \in Position /\ q.refund = 0
  <2> HIDE DEF p
  <2> QED BY <1>1 DEF Position
<1>3. positions' = [positions EXCEPT ![m] = [positions[m] EXCEPT ![i] = q]]
  BY DEF ClaimPays
<1>4. wallet' = [wallet EXCEPT !.balance = wallet.balance + Owed(venue[m], p)]
      /\ UNCHANGED <<venue, vintage>>
  BY DEF ClaimPays
<1> HIDE DEF p, q
<1>5. wallet' \in [balance: Int, allowance: Int]
  <2>1. wallet \in [balance: Int, allowance: Int] /\ Owed(venue[m], p) \in Nat
    BY <1>1, SettlementNat DEF ChainOK
  <2>2. PICK w \in Nat : w = Owed(venue[m], p)
    BY <2>1
  <2> QED BY <1>4, <2>1, <2>2
<1>6. HeldOK(m, [positions[m] EXCEPT ![i] = q])
  BY <1>2, HeldNowOK, HeldPaid
<1>7. positions' \in Held0 /\ Grown(positions, positions') /\ Refunds
  BY <1>3, <1>6, HeldMoves
<1> QED BY <1>4, <1>5, <1>7 DEF Moved, ChainOK

LEMMA RefundMoves ==
  ASSUME ChainOK, NEW m \in Markets, NEW i \in 1..Len(positions[m]), RefundPays(m, i)
  PROVE  Moved /\ wallet' \in [balance: Int, allowance: Int]
<1> DEFINE p == HeldNow(m)[i]
           q == [p EXCEPT !.refund = 0]
           held == [HeldNow(m) EXCEPT ![i] = q]
<1>1. HeldOK(m, HeldNow(m)) /\ Len(HeldNow(m)) = Len(positions[m])
  BY HeldNowOK, PositionsRolled DEF HeldNow
<1>2. p \in Position
  <2>1. PICK h \in Seq(Position) : h = HeldNow(m)
    BY <1>1 DEF HeldOK
  <2>2. h[i] \in Position
    BY <1>1, <2>1
  <2> QED BY <2>1, <2>2
<1>3. /\ positions' = [positions EXCEPT ![m] = held]
      /\ wallet' = [wallet EXCEPT !.balance = wallet.balance + p.refund]
      /\ Rolls(m) \/ UNCHANGED <<venue, vintage>>
  BY DEF RefundPays
<1>4. q \in Position /\ q.refund = 0
  <2> HIDE DEF p
  <2> QED BY <1>2 DEF Position
<1>5. p.refund \in Nat
  BY <1>2, PositionFields
<1> HIDE DEF p, q
<1>6. wallet' \in [balance: Int, allowance: Int]
  <2>1. wallet \in [balance: Int, allowance: Int]
    BY DEF ChainOK
  <2> QED BY <1>3, <1>5, <2>1
<1>7. HeldOK(m, held)
  BY <1>1, <1>4, HeldPaid
<1> HIDE DEF held
<1>8. CASE Rolls(m)
  BY <1>3, <1>6, <1>7, <1>8, RollMoves
<1>9. CASE UNCHANGED <<venue, vintage>>
  BY <1>3, <1>6, <1>7, <1>9, HeldMoves DEF Moved, ChainOK
<1> QED BY <1>3, <1>8, <1>9

-----------------------------------------------------------------------------
(* What was well named stays so while positions are only added *)

LEMMA StillHeld ==
  ASSUME NEW p \in Held0, NEW q \in Held0, Grown(p, q)
  PROVE  /\ \A t : TxOK(t, p) => TxOK(t, q)
         /\ \A j : JobOK(j, p) => JobOK(j, q)
<1>1. ASSUME NEW m \in Markets, NEW i \in 1..Len(p[m]) PROVE i \in 1..Len(q[m])
  <2>1. Len(p[m]) \in Nat /\ Len(q[m]) \in Nat /\ Len(p[m]) <= Len(q[m])
    BY PositionsAt DEF Grown
  <2> QED BY <2>1
<1>2. ASSUME NEW c, IsClaim(c, p) PROVE IsClaim(c, q)
  BY <1>1, <1>2 DEF IsClaim
<1>3. ASSUME NEW t, TxOK(t, p) PROVE TxOK(t, q)
  BY <1>2, <1>3 DEF TxOK, CallOK
<1>4. ASSUME NEW x, Item(x, p) PROVE Item(x, q)
  BY <1>1, <1>4 DEF Item
<1>5. ASSUME NEW c, ClaimsOK(c, p) PROVE ClaimsOK(c, q)
  BY <1>4, <1>5 DEF ClaimsOK
<1>6. ASSUME NEW t, NEW c, ThenOK(t, c, p) PROVE ThenOK(t, c, q)
  BY <1>2, <1>5, <1>6 DEF ThenOK, ClaimCalls
<1>7. ASSUME NEW j, JobOK(j, p) PROVE JobOK(j, q)
  BY <1>5, <1>6, <1>7 DEF JobOK, Sending, Claiming
<1> QED BY <1>3, <1>7

-----------------------------------------------------------------------------
(* The keys of the process *)

LEMMA KeyIsFresh ==
  ASSUME IsFiniteSet(DOMAIN circle)
  PROVE  FreshKey \in Nat /\ FreshKey \notin DOMAIN circle
<1> DEFINE n == Cardinality(DOMAIN circle)
<1>1. n \in Nat
  BY FS_CardinalityType
<1>2. \E k \in 1..(n + 1) : k \notin DOMAIN circle
  <2>1. SUFFICES ASSUME 1..(n + 1) \subseteq DOMAIN circle PROVE FALSE
    OBVIOUS
  <2>2. Cardinality(1..(n + 1)) <= n
    BY <2>1, FS_Subset
  <2>3. Cardinality(1..(n + 1)) = n + 1
    <3> HIDE DEF n
    <3>1. PICK k \in Int : k = n + 1
      BY <1>1
    <3>2. Cardinality(1..k) = IF 1 > k THEN 0 ELSE k - 1 + 1
      BY 1 \in Int, FS_Interval
    <3> QED BY <1>1, <3>1, <3>2
  <2> HIDE DEF n
  <2> QED BY <1>1, <2>2, <2>3
<1>3. FreshKey \in 1..(n + 1) /\ FreshKey \notin DOMAIN circle
  BY <1>2 DEF FreshKey
<1> HIDE DEF n
<1> QED BY <1>1, <1>3

(* Nothing of the process is left at Circle: the next call has a key of its own. *)
LEMMA NothingLeft ==
  ASSUME CircleOK, positions' = positions,
         \A k \in DOMAIN circle' : k \in DOMAIN circle /\ circle'[k] = circle[k] /\ ~circle[k].mine,
         \/ ~(job'.pc \in {"post", "poll"})
         \/ job'.pc = "post" /\ job'.key \notin DOMAIN circle
  PROVE  CircleOK'
<1>1. IsFiniteSet(DOMAIN circle')
  <2>1. DOMAIN circle' \in SUBSET DOMAIN circle
    OBVIOUS
  <2> QED BY <2>1, FS_Subset DEF CircleOK
<1>2. \A k \in DOMAIN circle' : TxOK(circle'[k], positions') /\ ~circle'[k].mine
  BY DEF CircleOK
<1>3. ~(AtWork /\ job.key \in DOMAIN circle)' /\ job'.pc # "poll"
  BY DEF AtWork
<1> QED BY <1>1, <1>2, <1>3 DEF CircleOK

LEMMA NotAtWork ==
  ASSUME CircleOK, ~AtWork
  PROVE  \A k \in DOMAIN circle : ~circle[k].mine
<1>1. \A k \in DOMAIN circle : circle[k].mine \in BOOLEAN
  BY DEF CircleOK, TxOK
<1> QED BY <1>1 DEF CircleOK

LEMMA Orphan ==
  \A c, st, mn, f : [[call |-> c, state |-> st, mine |-> mn] EXCEPT !.mine = f]
                     = [call |-> c, state |-> st, mine |-> f]
OBVIOUS

LEMMA Finished ==
  \A c, st, mn, f : [[call |-> c, state |-> st, mine |-> mn] EXCEPT !.state = f]
                     = [call |-> c, state |-> f, mine |-> mn]
OBVIOUS

(* The process ends: what Circle has yet to execute is nobody's. *)
LEMMA EndsOK ==
  ASSUME LoopInv, NEW txs, IsFiniteSet(DOMAIN txs),
         \A k \in DOMAIN txs : TxOK(txs[k], positions), Ends(txs), UNCHANGED <<Chain, Env>>
  PROVE  LoopInv'
<1>1. UNCHANGED <<venue, vintage, positions, wallet, landed, clock, index>>
  BY DEF Chain, Env
<1>2. ChainOK' /\ IndexOK'
  BY <1>1 DEF LoopInv, ChainOK, IndexOK
<1>3. job' = Idle /\ job'.pc = "idle"
  BY DEF Ends, Idle
<1>4. JobOK(job, positions)'
  BY <1>3 DEF JobOK
<1>5. LandedOK'
  BY <1>1, <1>3 DEF LoopInv, LandedOK, AtWork
<1>6. circle' = [k \in {x \in DOMAIN txs : txs[x].state = "QUEUED"} |-> [txs[k] EXCEPT !.mine = FALSE]]
  BY DEF Ends, Abandoned
<1>7. ASSUME NEW k \in DOMAIN circle'
      PROVE  k \in DOMAIN txs /\ TxOK(circle'[k], positions) /\ circle'[k].mine = FALSE
  <2>1. k \in DOMAIN txs /\ circle'[k] = [txs[k] EXCEPT !.mine = FALSE]
    BY <1>6
  <2>2. PICK c, st, mn : txs[k] = [call |-> c, state |-> st, mine |-> mn]
    BY <2>1 DEF TxOK
  <2>3. circle'[k] = [call |-> c, state |-> st, mine |-> FALSE]
    <3>1. [[call |-> c, state |-> st, mine |-> mn] EXCEPT !.mine = FALSE]
            = [call |-> c, state |-> st, mine |-> FALSE]
      BY Orphan
    <3>2. circle'[k] = [[call |-> c, state |-> st, mine |-> mn] EXCEPT !.mine = FALSE]
      BY ONLY <2>1, <2>2
    <3> QED BY <3>1, <3>2
  <2>4. CallOK(c, positions) /\ st \in TxStates
    BY <2>1, <2>2 DEF TxOK
  <2>5. /\ circle'[k].call = c /\ circle'[k].state = st /\ circle'[k].mine = FALSE
    BY <2>3
  <2> QED BY <2>1, <2>3, <2>4, <2>5 DEF TxOK
<1>8. IsFiniteSet(DOMAIN circle')
  <2>1. DOMAIN circle' \in SUBSET DOMAIN txs
    BY <1>6
  <2> QED BY <2>1, FS_Subset
<1>9. CircleOK'
  BY <1>1, <1>3, <1>7, <1>8 DEF CircleOK, AtWork
<1> QED BY <1>2, <1>4, <1>5, <1>9 DEF LoopInv

-----------------------------------------------------------------------------
(* Every step preserves the invariant *)

(* The world moves, the process and Circle do not. *)
LEMMA WorldStep ==
  ASSUME LoopInv, ChainOK', IndexOK', Grown(positions, positions'),
         UNCHANGED <<job, circle, landed>>
  PROVE  LoopInv'
<1>1. /\ \A t : TxOK(t, positions) => TxOK(t, positions')
      /\ \A j : JobOK(j, positions) => JobOK(j, positions')
  BY StillHeld DEF LoopInv, ChainOK
<1>2. JobOK(job, positions)' /\ CircleOK'
  BY <1>1 DEF LoopInv, CircleOK, AtWork
<1>3. LandedOK'
  BY DEF LoopInv, LandedOK, AtWork, Confirmed
<1> QED BY <1>2, <1>3 DEF LoopInv

(* Of a chain that moved the index still knows no position too many. *)
LEMMA ChainMoved ==
  ASSUME LoopInv, Moved, wallet' \in [balance: Int, allowance: Int], UNCHANGED <<clock, index>>
  PROVE  ChainOK' /\ IndexOK' /\ Grown(positions, positions')
<1>1. ChainOK'
  BY DEF LoopInv, ChainOK, Moved
<1>2. IndexOK'
  <2>1. ASSUME NEW m \in Markets PROVE Len(index.positions[m]) <= Len(positions'[m])
    <3>1. /\ Len(index.positions[m]) \in Nat /\ Len(positions[m]) \in Nat
          /\ Len(positions'[m]) \in Nat
          /\ Len(index.positions[m]) <= Len(positions[m]) /\ Len(positions[m]) <= Len(positions'[m])
      BY PositionsAt DEF LoopInv, ChainOK, IndexOK, Grown, Moved
    <3> QED BY <3>1
  <2> QED BY <2>1 DEF LoopInv, IndexOK
<1> QED BY <1>1, <1>2 DEF Moved

LEMMA MarketStep ==
  ASSUME LoopInv, Moved, UNCHANGED <<wallet, clock, index, job, circle, landed>>
  PROVE  LoopInv'
<1>1. wallet' \in [balance: Int, allowance: Int]
  BY DEF LoopInv, ChainOK
<1> QED BY <1>1, ChainMoved, WorldStep

(* The vintages of the block that ends are due. *)
LEMMA BlockMoves ==
  ASSUME LoopInv, BlockEnds, clock' \in Nat,
         UNCHANGED <<venue, positions, wallet, landed, index, circle, job>>
  PROVE  LoopInv'
<1>1. ASSUME NEW m \in Markets
      PROVE  /\ vintage'[m] \in [offers: Seq(Offer), due: BOOLEAN]
             /\ OffersOK(vintage'[m].offers)
  <2>1. PICK d : d = (vintage[m].due \/ Offers(m) # <<>>)
    OBVIOUS
  <2>2. d \in BOOLEAN
    BY <2>1, OffersAt DEF LoopInv, ChainOK
  <2>3. vintage'[m] = [offers |-> Offers(m), due |-> d]
    BY <2>1 DEF BlockEnds
  <2> QED BY <2>2, <2>3, OffersAt DEF LoopInv, ChainOK
<1>2. vintage' = [m \in Markets |-> vintage'[m]]
  BY DEF BlockEnds
<1>3. VintageOK(vintage')
  BY <1>1, <1>2 DEF VintageOK
<1>4. ChainOK' /\ IndexOK'
  BY <1>3 DEF LoopInv, ChainOK, IndexOK
<1>5. Grown(positions, positions')
  BY PositionsAt DEF Grown, LoopInv, ChainOK
<1> QED BY <1>4, <1>5, WorldStep

LEMMA TickInv == ASSUME LoopInv, Tick PROVE LoopInv'
<1>1. /\ clock \in Nat /\ clock' = clock + 1 /\ BlockEnds
      /\ UNCHANGED <<venue, positions, wallet, landed, index, circle, job>>
  BY DEF Tick, LoopInv, ChainOK
<1> QED BY <1>1, BlockMoves

LEMMA NextBlockInv == ASSUME LoopInv, NextBlock PROVE LoopInv'
<1>1. /\ clock' \in Nat /\ BlockEnds
      /\ UNCHANGED <<venue, positions, wallet, landed, index, circle, job>>
  BY DEF NextBlock, Env, LoopInv, ChainOK
<1> QED BY <1>1, BlockMoves

LEMMA IndexCatchesUpInv == ASSUME LoopInv, IndexCatchesUp PROVE LoopInv'
<1>1. UNCHANGED <<venue, vintage, positions, wallet, landed, clock, circle, job>>
  BY DEF IndexCatchesUp, Chain
<1>2. ChainOK'
  BY <1>1 DEF LoopInv, ChainOK
<1>3. index'.venue = venue /\ index'.positions = positions
  BY DEF IndexCatchesUp
<1>4. IndexOK' /\ Grown(positions, positions')
  BY <1>1, <1>3, PositionsAt DEF LoopInv, ChainOK, IndexOK, Grown
<1> QED BY <1>1, <1>2, <1>4, WorldStep

LEMMA OthersMove ==
  ASSUME ChainOK, NEW m \in Markets, NEW o \in DOMAIN Terms[m].books, NEW s \in OtherStakes,
         OthersEnter(m, o, s)
  PROVE  Moved
<1> DEFINE x == [position |-> 0, outcome |-> o, offered |-> s, seen |-> None]
<1>1. o \in Nat /\ s \in Nat
  BY TermsAssumption, LiveWiring
<1>2. x \in Offer /\ x.position = 0
  BY <1>1 DEF Offer
<1>3. Buffers(m, x) /\ positions' = [positions EXCEPT ![m] = PositionsNow(m)]
  BY DEF OthersEnter
<1> HIDE DEF x
<1> QED BY <1>2, <1>3, HeldNowOK, BufferMoves

LEMMA FinalizeMoves ==
  ASSUME ChainOK, NEW m \in Markets, FinalizeVintage(m)
  PROVE  Moved
<1>1. Rolls(m) /\ positions' = [positions EXCEPT ![m] = PositionsNow(m)]
  BY DEF FinalizeVintage
<1> QED BY <1>1, HeldNowOK, RollMoves

LEMMA SettlesMove ==
  ASSUME ChainOK, NEW m \in Markets, SettlesSomehow(m)
  PROVE  Moved
<1>1. PICK status, winner : /\ status \in Statuses /\ winner \in Nat \cup {None}
                            /\ Settles(m, status, winner)
  <2>1. \A o \in DOMAIN Terms[m].books : o \in Nat
    BY TermsAssumption
  <2> QED BY <2>1 DEF SettlesSomehow, Statuses
<1>2. PICK v : v = [status |-> status, winner |-> winner, books |-> BooksNow(m)]
  OBVIOUS
<1>3. BooksOK(BooksNow(m)) /\ OffersOK(OffersNow(m))
  BY BooksRolled, OffersRolled DEF ChainOK
<1>4. v \in Venue /\ BooksOK(v.books)
  BY <1>1, <1>2, <1>3 DEF Venue, BooksOK
<1>5. /\ venue' = [venue EXCEPT ![m] = v]
      /\ positions' = [positions EXCEPT ![m] = PositionsNow(m)]
      /\ vintage' = [vintage EXCEPT ![m] = [offers |-> OffersNow(m), due |-> FALSE]]
  BY <1>1, <1>2 DEF Settles
<1> QED BY <1>3, <1>4, <1>5, HeldNowOK, MarketMoves

LEMMA OthersEnterInv ==
  ASSUME LoopInv, NEW m \in Markets, NEW o \in DOMAIN Terms[m].books, NEW s \in OtherStakes,
         OthersEnter(m, o, s)
  PROVE  LoopInv'
<1>1. UNCHANGED <<wallet, clock, index, job, circle, landed>>
  BY DEF OthersEnter
<1> QED BY <1>1, OthersMove, MarketStep DEF LoopInv

LEMMA FinalizeVintageInv ==
  ASSUME LoopInv, NEW m \in Markets, FinalizeVintage(m)
  PROVE  LoopInv'
<1>1. UNCHANGED <<wallet, clock, index, job, circle, landed>>
  BY DEF FinalizeVintage, Env
<1> QED BY <1>1, FinalizeMoves, MarketStep DEF LoopInv

LEMMA SettlesInv ==
  ASSUME LoopInv, NEW m \in Markets, SettlesSomehow(m)
  PROVE  LoopInv'
<1>1. UNCHANGED <<wallet, clock, index, job, circle, landed>>
  BY DEF SettlesSomehow, Settles, Env
<1> QED BY <1>1, SettlesMove, MarketStep DEF LoopInv

(* What the process does between two calls: nothing of it is at Circle before or
   after, unless it sends the next call. *)
LEMMA QuietStep ==
  ASSUME LoopInv, ~AtWork, UNCHANGED <<Chain, clock, index, circle>>, JobOK(job', positions),
         \/ ~(job'.pc \in {"post", "poll"})
         \/ job'.pc = "post" /\ job'.key = FreshKey,
         LandedOK'
  PROVE  LoopInv'
<1>1. UNCHANGED <<venue, vintage, positions, wallet, landed>>
  BY DEF Chain
<1>2. ChainOK' /\ IndexOK'
  BY <1>1 DEF LoopInv, ChainOK, IndexOK
<1>3. FreshKey \notin DOMAIN circle
  BY KeyIsFresh DEF LoopInv, CircleOK
<1>4. \A k \in DOMAIN circle : ~circle[k].mine
  BY NotAtWork DEF LoopInv
<1>5. CircleOK'
  BY <1>1, <1>3, <1>4, NothingLeft DEF LoopInv
<1> QED BY <1>1, <1>2, <1>5 DEF LoopInv

(* The shape of the process at each of its places. *)
LEMMA JobAt ==
  ASSUME LoopInv
  PROVE  /\ job.pc = "list" => Listing(job)
         /\ job.pc = "decide" => Deciding(job)
         /\ job.pc = "enter" => Entering(job)
         /\ AtWork => Sending(job, positions)
         /\ job.pc = "claims" => Claiming(job, positions)
BY DEF LoopInv, JobOK, Listing, Deciding, Entering, Sending, Claiming, AtWork

LEMMA StartInv ==
  ASSUME LoopInv, NEW command \in {"run", "claim", "decide"}, Start(command)
  PROVE  LoopInv'
<1>1. job.pc = "idle" /\ ~AtWork
  BY DEF Start, AtWork
<1>2. UNCHANGED <<venue, vintage, positions, wallet, clock, index, circle>>
  BY DEF Start
<1>3. landed' = [m \in Markets |-> 0]
  BY DEF Start
<1>4. \/ job' = [pc |-> "claimable"]
      \/ job' = [pc |-> "list", command |-> command, round |-> 1, held |-> {},
                 at |-> clock, todo |-> MarketOrder, report |-> <<>>]
  BY DEF Start
<1>5. ~(job'.pc \in {"post", "poll"})
  BY <1>4
<1>6. JobOK(job', positions)
  <2>1. CASE job' = [pc |-> "claimable"]
    BY <2>1 DEF JobOK
  <2>2. CASE job' = [pc |-> "list", command |-> command, round |-> 1, held |-> {},
                     at |-> clock, todo |-> MarketOrder, report |-> <<>>]
    <3>1. ReportOK(<<>>) /\ clock \in Int
      BY DEF ReportOK, LoopInv, ChainOK
    <3>2. Listing(job')
      BY <2>2, <3>1, MarketOrderSeq DEF Listing
    <3> QED BY <3>2 DEF JobOK
  <2> QED BY <1>4, <2>1, <2>2
<1>7. LandedOK'
  BY <1>3, <1>5 DEF LandedOK, AtWork
<1>8. ChainOK' /\ IndexOK'
  BY <1>2 DEF LoopInv, ChainOK, IndexOK
<1>9. CircleOK'
  BY <1>1, <1>2, <1>5, NotAtWork, NothingLeft DEF LoopInv
<1> QED BY <1>2, <1>6, <1>7, <1>8, <1>9 DEF LoopInv

LEMMA RejectsInv == ASSUME LoopInv, Rejects PROVE LoopInv'
<1>1. Ends(circle) /\ UNCHANGED <<Chain, Env>>
  BY DEF Rejects
<1>2. IsFiniteSet(DOMAIN circle) /\ \A k \in DOMAIN circle : TxOK(circle[k], positions)
  BY DEF LoopInv, CircleOK
<1> QED BY <1>1, <1>2, EndsOK

LEMMA ReadMarketInv ==
  ASSUME LoopInv, NEW trust \in TrustReadings, ReadMarket(trust)
  PROVE  LoopInv'
<1> DEFINE m == Head(job.todo)
           row == DecodeMarket(MarketBook(m), trust)
           report == With(job.report, m, row)
<1>1. job.pc = "list" /\ job.todo # <<>> /\ ~AtWork
  BY DEF ReadMarket, AtWork
<1>2. /\ job = [pc |-> "list", command |-> job.command, round |-> job.round, held |-> job.held,
                at |-> job.at, todo |-> job.todo, report |-> job.report]
      /\ job.at \in Int /\ job.todo \in Seq(Markets) /\ ReportOK(job.report)
  BY <1>1, JobAt DEF Listing
<1>3. m \in Markets /\ Tail(job.todo) \in Seq(Markets)
  BY <1>1, <1>2
<1>4. RowOK(row)
  BY <1>3, RowDecoded DEF LoopInv
<1>5. ReportOK(report)
  <2>1. /\ DOMAIN report = {m} \cup DOMAIN job.report
        /\ \A n \in DOMAIN report : report[n] = IF n = m THEN row ELSE job.report[n]
    <3> HIDE DEF m, row
    <3> QED BY DEF With
  <2> HIDE DEF m, row, report
  <2> QED BY <1>2, <1>3, <1>4, <2>1 DEF ReportOK
<1>6. job' = [job EXCEPT !.todo = Tail(job.todo), !.report = report]
  BY DEF ReadMarket
<1> HIDE DEF m, row, report
<1>7. job' = [pc |-> "list", command |-> job.command, round |-> job.round, held |-> job.held,
              at |-> job.at, todo |-> Tail(job.todo), report |-> report]
  <2>1. PICK c, r, h, a, t, p : /\ c = job.command /\ r = job.round /\ h = job.held
                               /\ a = job.at /\ t = job.todo /\ p = job.report
    OBVIOUS
  <2>2. job = [pc |-> "list", command |-> c, round |-> r, held |-> h, at |-> a, todo |-> t, report |-> p]
    BY <1>2, <2>1
  <2>3. job' = [[pc |-> "list", command |-> c, round |-> r, held |-> h, at |-> a, todo |-> t, report |-> p]
                 EXCEPT !.todo = Tail(t), !.report = report]
    BY ONLY <1>6, <2>1, <2>2
  <2> QED BY <2>1, <2>3
<1>8. Listing(job') /\ job'.held = job.held /\ job'.pc = "list"
  BY <1>2, <1>3, <1>5, <1>7 DEF Listing
<1>9. JobOK(job', positions)
  BY <1>8 DEF JobOK
<1>10. UNCHANGED <<Chain, clock, index, circle>>
  BY DEF ReadMarket, Env
<1>11. LandedOK'
  BY <1>1, <1>8, <1>10 DEF LoopInv, LandedOK, Chain, AtWork
<1> QED BY <1>1, <1>8, <1>9, <1>10, <1>11, QuietStep

LEMMA BuyQuotesInv == ASSUME LoopInv, BuyQuotes PROVE LoopInv'
<1>1. job.pc = "list" /\ ~AtWork
  BY DEF BuyQuotes, AtWork
<1>2. job.at \in Int /\ ReportOK(job.report)
  BY <1>1, JobAt DEF Listing
<1>3. PICK quote \in Quotes, failed \in SUBSET Feeds :
        job' = [pc |-> "decide", command |-> job.command, round |-> job.round,
                held |-> job.held, at |-> job.at, report |-> job.report,
                estimates |-> [m \in DOMAIN job.report |->
                    IF m \notin OpenRows \/ job.report[m].feedKey \in failed THEN None
                    ELSE EstimateFromFeed(job.report[m], quote, job.at)]]
  BY DEF BuyQuotes
<1> DEFINE estimates == [m \in DOMAIN job.report |->
                    IF m \notin OpenRows \/ job.report[m].feedKey \in failed THEN None
                    ELSE EstimateFromFeed(job.report[m], quote, job.at)]
<1>4. EstimatesOK(estimates, job.report)
  <2>1. ASSUME NEW m \in DOMAIN job.report, estimates[m] # None
        PROVE  \A o \in DOMAIN job.report[m].books : estimates[m][o] \in Int
    <3>1. estimates[m] = EstimateFromFeed(job.report[m], quote, job.at)
      BY <2>1
    <3>2. RowOK(job.report[m])
      BY <1>2 DEF ReportOK
    <3> HIDE DEF estimates
    <3> QED BY <1>2, <2>1, <3>1, <3>2, EstimateInt
  <2> HIDE DEF estimates
  <2> QED BY <2>1 DEF EstimatesOK
<1>5. job' = [pc |-> "decide", command |-> job.command, round |-> job.round, held |-> job.held,
              at |-> job.at, report |-> job.report, estimates |-> estimates]
  BY <1>3
<1> HIDE DEF estimates
<1>6. Deciding(job') /\ job'.pc = "decide" /\ job'.held = job.held
  BY <1>2, <1>4, <1>5 DEF Deciding
<1>7. JobOK(job', positions)
  BY <1>6 DEF JobOK
<1>8. UNCHANGED <<Chain, clock, index, circle>>
  BY DEF BuyQuotes, Env
<1>9. LandedOK'
  BY <1>1, <1>6, <1>8 DEF LoopInv, LandedOK, Chain, AtWork
<1> QED BY <1>1, <1>6, <1>7, <1>8, <1>9, QuietStep

(* The list wanted holds a market once, and no market that is held. *)
LEMMA WantedSound ==
  ASSUME LoopInv, job.pc = "decide", NEW wanted \in Wanted(Decisions)
  PROVE  WantedOK(wanted, job.held)
<1> DEFINE decisions == Decisions
           entered == {m \in DOMAIN decisions : decisions[m].action = "enter"}
           entry == [m \in entered |-> [market |-> m, decision |-> decisions[m],
                                        books |-> job.report[m].books]]
           entries == {[market |-> m, decision |-> decisions[m],
                        books |-> job.report[m].books] : m \in entered}
<1>1. /\ job.at \in Int /\ ReportOK(job.report) /\ EstimatesOK(job.estimates, job.report)
      /\ wallet.balance \in Int
  BY JobAt DEF Deciding, LoopInv, ChainOK
<1>2. /\ DOMAIN decisions = DOMAIN job.report \ job.held
      /\ \A m \in DOMAIN decisions :
           decisions[m] = Decide(job.report[m], job.estimates[m], wallet.balance, job.at)
  BY DEF Decisions
<1> HIDE DEF decisions
<1>3. ASSUME NEW m \in entered PROVE EntryOK(entry[m]) /\ entry[m].market = m /\ m \notin job.held
  <2>1. /\ m \in DOMAIN job.report /\ m \notin job.held /\ m \in Markets
        /\ RowOK(job.report[m]) /\ decisions[m].action = "enter"
    BY <1>1, <1>2 DEF ReportOK
  <2>2. job.estimates[m] # None =>
          \A o \in DOMAIN job.report[m].books : job.estimates[m][o] \in Int
    BY <1>1, <2>1 DEF EstimatesOK
  <2>3. PICK d : d = decisions[m]
    OBVIOUS
  <2>4. /\ d = Decide(job.report[m], job.estimates[m], wallet.balance, job.at)
        /\ d.action = "enter"
    BY <1>2, <2>1, <2>3
  <2>5. d.stake \in Nat /\ d.outcome \in Nat /\ Fits(job.report[m].books, d.outcome, d.stake)
    BY <1>1, <2>1, <2>2, <2>4, DecideFits
  <2>6. entry[m] = [market |-> m, decision |-> d, books |-> job.report[m].books]
    BY <2>3
  <2>7. entry[m].market = m /\ entry[m].decision = d /\ entry[m].books = job.report[m].books
        /\ job.report[m].books \in Seq(Books)
    BY <2>1, <2>6 DEF RowOK, BooksOK
  <2> HIDE DEF entry
  <2> QED BY <2>1, <2>5, <2>7 DEF EntryOK
<1>4. wanted \in Orders(entries)
  BY DEF Wanted, decisions
<1>5. entries = {entry[m] : m \in entered} /\ DOMAIN entry = entered
      /\ entry = [m \in entered |-> entry[m]]
  OBVIOUS
<1>6. IsFiniteSet(entered)
  <2>1. entered \in SUBSET Markets
    BY <1>1, <1>2 DEF ReportOK
  <2> HIDE DEF entered
  <2> QED BY <2>1, FS_Subset, TermsAssumption
<1> HIDE DEF entered, entry, entries
<1>7. IsFiniteSet(entries)
  BY <1>5, <1>6, FiniteImage
<1>8. /\ wanted \in Seq(entries) /\ IsList(wanted)
      /\ \A i, j \in 1..Len(wanted) : wanted[i] = wanted[j] => i = j
  BY <1>4, <1>7, OrdersAreLists
<1>9. \A i \in 1..Len(wanted) : \E m \in entered : wanted[i] = entry[m]
  <2>1. \A i \in 1..Len(wanted) : wanted[i] \in entries
    BY <1>8, SeqIsList
  <2> QED BY <1>5, <2>1
<1>10. \A i \in 1..Len(wanted) : /\ EntryOK(wanted[i]) /\ wanted[i].market \notin job.held
                                 /\ wanted[i] = entry[wanted[i].market]
  BY <1>3, <1>9
<1>11. \A i, j \in 1..Len(wanted) : wanted[i].market = wanted[j].market => i = j
  BY <1>8, <1>10
<1> QED BY <1>8, <1>10, <1>11 DEF WantedOK

LEMMA DecideAllInv == ASSUME LoopInv, DecideAll PROVE LoopInv'
<1>1. job.pc = "decide" /\ ~AtWork /\ UNCHANGED <<Chain, clock, index, circle>>
  BY DEF DecideAll, AtWork, Env
<1>2. CASE job' = [pc |-> "settle", command |-> "decide"]
  <2>1. job'.pc = "settle"
    BY <1>2
  <2>2. JobOK(job', positions) /\ LandedOK'
    BY <1>1, <2>1 DEF JobOK, LoopInv, LandedOK, Chain, AtWork
  <2> QED BY <1>1, <2>1, <2>2, QuietStep
<1>3. CASE \E wanted \in Wanted(Decisions) :
             job' = [pc |-> "enter", command |-> "run", round |-> job.round,
                     held |-> job.held, wanted |-> wanted]
  <2>1. PICK wanted \in Wanted(Decisions) :
             job' = [pc |-> "enter", command |-> "run", round |-> job.round,
                     held |-> job.held, wanted |-> wanted]
    BY <1>3
  <2>2. WantedOK(wanted, job.held)
    BY <1>1, WantedSound
  <2>3. job'.pc = "enter" /\ job'.held = job.held /\ Entering(job')
    BY <2>1, <2>2 DEF Entering
  <2>4. JobOK(job', positions) /\ LandedOK'
    BY <1>1, <2>3 DEF JobOK, LoopInv, LandedOK, Chain, AtWork
  <2> QED BY <1>1, <2>3, <2>4, QuietStep
<1> QED BY <1>2, <1>3 DEF DecideAll

LEMMA WantedTail ==
  ASSUME NEW wanted, NEW held, WantedOK(wanted, held), wanted # <<>>
  PROVE  /\ EntryOK(Head(wanted)) /\ Head(wanted).market \in Markets \ held
         /\ WantedOK(Tail(wanted), held)
         /\ WantedOK(Tail(wanted), held \cup {Head(wanted).market})
<1> DEFINE rest == Tail(wanted)
<1>1. /\ IsList(wanted) /\ Len(wanted) \in Nat /\ Len(wanted) >= 1 /\ Head(wanted) = wanted[1]
      /\ IsList(rest) /\ Len(rest) = Len(wanted) - 1
      /\ \A i \in 1..(Len(wanted) - 1) : rest[i] = wanted[i + 1] /\ i + 1 \in 1..Len(wanted)
  BY ListFacts, ListTail DEF WantedOK
<1>2. 1 \in 1..Len(wanted)
  BY <1>1
<1>3. EntryOK(Head(wanted)) /\ Head(wanted).market \in Markets \ held
  BY <1>1, <1>2 DEF WantedOK, EntryOK
<1> HIDE DEF rest
<1>4. ASSUME NEW i \in 1..Len(rest)
      PROVE  EntryOK(rest[i]) /\ rest[i].market \notin held \cup {Head(wanted).market}
  <2>1. rest[i] = wanted[i + 1] /\ i + 1 \in 1..Len(wanted) /\ i + 1 # 1
    BY <1>1
  <2> QED BY <1>1, <1>2, <2>1 DEF WantedOK
<1>5. ASSUME NEW i \in 1..Len(rest), NEW j \in 1..Len(rest), rest[i].market = rest[j].market
      PROVE  i = j
  <2>1. /\ rest[i] = wanted[i + 1] /\ i + 1 \in 1..Len(wanted)
        /\ rest[j] = wanted[j + 1] /\ j + 1 \in 1..Len(wanted)
    BY <1>1
  <2>2. i + 1 = j + 1
    BY <1>5, <2>1 DEF WantedOK
  <2> QED BY <2>2
<1>6. WantedOK(rest, held) /\ WantedOK(rest, held \cup {Head(wanted).market})
  BY <1>1, <1>4, <1>5 DEF WantedOK
<1> QED BY <1>3, <1>6 DEF rest

LEMMA NextEntryInv == ASSUME LoopInv, NextEntry PROVE LoopInv'
<1> DEFINE w == Head(job.wanted)
           rest == Tail(job.wanted)
           then == [command |-> "run", round |-> job.round, held |-> job.held,
                    wanted |-> rest, market |-> w.market]
           calls == <<ApproveCall(w.decision), EntryCall(w.market, w.decision, w.books)>>
<1>1. /\ job.pc = "enter" /\ job.wanted # <<>> /\ ~AtWork
      /\ UNCHANGED <<Chain, clock, index, circle>>
  BY DEF NextEntry, AtWork, Env
<1>2. /\ job = [pc |-> "enter", command |-> "run", round |-> job.round, held |-> job.held,
                wanted |-> job.wanted]
      /\ WantedOK(job.wanted, job.held)
  BY <1>1, JobAt DEF Entering
<1>3. /\ EntryOK(w) /\ w.market \in Markets \ job.held /\ WantedOK(rest, job.held)
      /\ WantedOK(rest, job.held \cup {w.market})
  BY <1>1, <1>2, WantedTail
<1>4. CASE job' = [job EXCEPT !.wanted = rest]
  <2> HIDE DEF rest
  <2>1. job' = [pc |-> "enter", command |-> "run", round |-> job.round, held |-> job.held,
                wanted |-> rest]
    <3>1. PICK r, h, t : r = job.round /\ h = job.held /\ t = job.wanted
      OBVIOUS
    <3>2. job = [pc |-> "enter", command |-> "run", round |-> r, held |-> h, wanted |-> t]
      BY <1>2, <3>1
    <3>3. job' = [[pc |-> "enter", command |-> "run", round |-> r, held |-> h, wanted |-> t]
                   EXCEPT !.wanted = rest]
      BY ONLY <1>4, <3>2
    <3> QED BY <3>1, <3>3
  <2>2. job'.pc = "enter" /\ job'.held = job.held /\ Entering(job')
    BY <1>3, <2>1 DEF Entering
  <2>3. JobOK(job', positions) /\ LandedOK'
    BY <1>1, <2>2 DEF JobOK, LoopInv, LandedOK, Chain, AtWork
  <2> QED BY <1>1, <2>2, <2>3, QuietStep
<1>5. CASE SendNext(then, calls)
  <2>1. job' = [pc |-> "post", calls |-> calls, key |-> FreshKey, attempt |-> 1, then |-> then]
    BY <1>5 DEF SendNext
  <2>2. /\ then.command = "run" /\ then.held = job.held /\ then.wanted = rest
        /\ then.market = w.market
    OBVIOUS
  <2>3. EntryCalls(calls, w.market)
    <3>1. calls[1] = ApproveCall(w.decision) /\ calls = <<calls[1], calls[2]>>
          /\ calls[2] = EntryCall(w.market, w.decision, w.books)
      OBVIOUS
    <3>2. IsApprove(ApproveCall(w.decision))
      BY <1>3 DEF IsApprove, ApproveCall, EntryOK
    <3>3. /\ IsEntry(EntryCall(w.market, w.decision, w.books))
          /\ EntryCall(w.market, w.decision, w.books).market = w.market
      BY <1>3 DEF IsEntry, EntryCall, EntryOK
    <3> HIDE DEF calls, w
    <3> QED BY <3>1, <3>2, <3>3 DEF EntryCalls
  <2> HIDE DEF calls, then, rest, w
  <2>4. ThenOK(then, calls, positions)
    BY <1>3, <2>2, <2>3 DEF ThenOK
  <2>5. /\ job'.pc = "post" /\ job'.key = FreshKey /\ job'.attempt = 1 /\ job'.calls = calls
        /\ job'.then = then
    BY <2>1
  <2>6. FreshKey \in Nat /\ FreshKey \notin DOMAIN circle
    BY KeyIsFresh DEF LoopInv, CircleOK
  <2>7. Sending(job', positions)
    BY <2>1, <2>4, <2>5, <2>6 DEF Sending
  <2>8. JobOK(job', positions)
    BY <2>7 DEF JobOK
  <2>9. LandedOK'
    <3>1. landed' = landed /\ landed \in [Markets -> 0..1]
          /\ \A m \in Markets \ job.held : landed[m] = 0
      BY <1>1 DEF Chain, LoopInv, LandedOK
    <3> QED BY <1>3, <2>2, <2>5, <3>1 DEF LandedOK, AtWork
  <2> QED BY <1>1, <2>5, <2>8, <2>9, QuietStep
<1> QED BY <1>4, <1>5 DEF NextEntry

LEMMA NextRoundInv == ASSUME LoopInv, NextRound PROVE LoopInv'
<1>1. job.pc = "enter" /\ ~AtWork /\ UNCHANGED <<Chain, clock, index, circle>>
  BY DEF NextRound, AtWork, Env
<1>2. CASE job' = [pc |-> "list", command |-> "run", round |-> job.round + 1,
                   held |-> job.held, at |-> clock, todo |-> MarketOrder, report |-> <<>>]
  <2>1. ReportOK(<<>>) /\ clock \in Int
    BY DEF ReportOK, LoopInv, ChainOK
  <2>2. job'.pc = "list" /\ job'.held = job.held /\ Listing(job')
    BY <1>2, <2>1, MarketOrderSeq DEF Listing
  <2>3. JobOK(job', positions) /\ LandedOK'
    BY <1>1, <2>2 DEF JobOK, LoopInv, LandedOK, Chain, AtWork
  <2> QED BY <1>1, <2>2, <2>3, QuietStep
<1>3. CASE job' = [pc |-> "settle", command |-> "run"]
  <2>1. job'.pc = "settle"
    BY <1>3
  <2>2. JobOK(job', positions) /\ LandedOK'
    BY <1>1, <2>1 DEF JobOK, LoopInv, LandedOK, Chain, AtWork
  <2> QED BY <1>1, <2>1, <2>2, QuietStep
<1> QED BY <1>2, <1>3 DEF NextRound

LEMMA SettleInv == ASSUME LoopInv, Settle PROVE LoopInv'
<1>1. job.pc = "settle" /\ ~AtWork /\ UNCHANGED <<Chain, clock, index, circle>>
  BY DEF Settle, AtWork, Env
<1>2. job'.pc \in {"claimable", "idle"}
  BY DEF Settle, Idle
<1>3. JobOK(job', positions) /\ LandedOK'
  BY <1>1, <1>2 DEF JobOK, LoopInv, LandedOK, Chain, AtWork
<1> QED BY <1>1, <1>2, <1>3, QuietStep

(* What is listed to be claimed names positions the agent has. *)
LEMMA ClaimablesAt ==
  ASSUME LoopInv
  PROVE  /\ IsFiniteSet(DecodeClaimable(ClaimableItems))
         /\ \A x \in DecodeClaimable(ClaimableItems) : Item(x, positions)
<1> DEFINE of == [m \in Markets |->
                   {[market |-> m, position |-> i] : i \in DOMAIN index.positions[m]}]
           all == UNION {of[m] : m \in Markets}
           call(x) == IF Settlement(index.venue[x.market],
                                    index.positions[x.market][x.position]) > 0
                      THEN "claim" ELSE "withdrawRefund"
           owed == {y \in all : Owed(index.venue[y.market],
                                    index.positions[y.market][y.position]) > 0}
           item == [x \in owed |->
                     [market |-> x.market, position |-> x.position, call |-> call(x)]]
<1>1. ASSUME NEW m \in Markets PROVE IsFiniteSet(of[m])
  <2> DEFINE n == Len(index.positions[m])
             at == [i \in 1..n |-> [market |-> m, position |-> i]]
  <2>1. n \in Nat /\ DOMAIN index.positions[m] = 1..n
    BY PositionsAt DEF LoopInv, IndexOK
  <2>2. of[m] = {at[i] : i \in 1..n}
    BY <2>1
  <2>3. IsFiniteSet(1..n)
    <3> HIDE DEF n
    <3> QED BY <2>1, FS_Interval
  <2>4. DOMAIN at = 1..n /\ at = [i \in 1..n |-> at[i]]
    OBVIOUS
  <2> HIDE DEF of, at, n
  <2>5. IsFiniteSet({at[i] : i \in 1..n})
    BY <2>3, <2>4, FiniteImage
  <2> QED BY <2>2, <2>5
<1>2. IsFiniteSet(all)
  <2>1. DOMAIN of = Markets /\ of = [m \in Markets |-> of[m]]
    OBVIOUS
  <2> HIDE DEF of
  <2>2. IsFiniteSet({of[m] : m \in Markets})
    BY <2>1, FiniteImage, TermsAssumption
  <2> QED BY <1>1, <2>2, FS_UNION
<1>3. IsFiniteSet(owed)
  <2>1. owed \in SUBSET all
    OBVIOUS
  <2> HIDE DEF owed, all
  <2> QED BY <1>2, <2>1, FS_Subset
<1>4. DOMAIN item = owed /\ item = [x \in owed |-> item[x]]
  OBVIOUS
<1>5. ClaimableItems = {item[x] : x \in owed}
  <2>0. all = UNION {{[market |-> m, position |-> i] : i \in DOMAIN index.positions[m]} :
                      m \in Markets}
    OBVIOUS
  <2>1. ClaimableItems = {[market |-> x.market, position |-> x.position, call |-> call(x)] : x \in owed}
    <3> HIDE DEF all, of
    <3> QED BY <2>0 DEF ClaimableItems
  <2>2. \A x \in owed : item[x] = [market |-> x.market, position |-> x.position, call |-> call(x)]
    OBVIOUS
  <2> HIDE DEF owed, item, call
  <2> QED BY <2>1, <2>2
<1>6. ASSUME NEW x \in owed PROVE Item(item[x], positions)
  <2>0. PICK m \in Markets : \E i \in DOMAIN index.positions[m] : x = [market |-> m, position |-> i]
    OBVIOUS
  <2>1. PICK i \in DOMAIN index.positions[m] : x = [market |-> m, position |-> i]
    BY <2>0
  <2>2. x.market = m /\ x.position = i
    BY <2>1
  <2>3. i \in 1..Len(positions[m])
    <3>1. /\ Len(index.positions[m]) \in Nat /\ Len(positions[m]) \in Nat
          /\ i \in 1..Len(index.positions[m]) /\ Len(index.positions[m]) <= Len(positions[m])
      BY PositionsAt DEF LoopInv, ChainOK, IndexOK
    <3> QED BY <3>1
  <2>4. call(x) \in {"claim", "withdrawRefund"}
    OBVIOUS
  <2>5. item[x] = [market |-> x.market, position |-> x.position, call |-> call(x)]
    OBVIOUS
  <2> HIDE DEF call, item, owed, all, of
  <2>6. item[x].market = m /\ item[x].position = i /\ item[x].call = call(x)
    BY <2>2, <2>5
  <2> QED BY <2>3, <2>4, <2>6 DEF Item
<1> HIDE DEF item, owed, all, of
<1>7. IsFiniteSet(ClaimableItems)
  BY <1>3, <1>4, <1>5, FiniteImage
<1>8. DecodeClaimable(ClaimableItems) \in SUBSET ClaimableItems
  BY DEF DecodeClaimable
<1>9. IsFiniteSet(DecodeClaimable(ClaimableItems))
  BY <1>7, <1>8, FS_Subset
<1> QED BY <1>5, <1>6, <1>8, <1>9

LEMMA ClaimableInv == ASSUME LoopInv, Claimable PROVE LoopInv'
<1>1. job.pc = "claimable" /\ ~AtWork /\ UNCHANGED <<Chain, clock, index, circle>>
  BY DEF Claimable, AtWork, Env
<1>2. PICK claims \in Orders(DecodeClaimable(ClaimableItems)) :
        job' = [pc |-> "claims", claims |-> claims]
  BY DEF Claimable
<1>3. claims \in Seq(DecodeClaimable(ClaimableItems)) /\ IsList(claims)
  BY ClaimablesAt, OrdersAreLists
<1>4. ClaimsOK(claims, positions)
  <2>1. \A i \in 1..Len(claims) : claims[i] \in DecodeClaimable(ClaimableItems)
    BY <1>3, SeqIsList
  <2> QED BY <1>3, <2>1, ClaimablesAt DEF ClaimsOK
<1>5. job'.pc = "claims" /\ Claiming(job', positions)
  BY <1>2, <1>4 DEF Claiming
<1>6. JobOK(job', positions) /\ LandedOK'
  BY <1>1, <1>5 DEF JobOK, LoopInv, LandedOK, Chain, AtWork
<1> QED BY <1>1, <1>5, <1>6, QuietStep

LEMMA NextClaimInv == ASSUME LoopInv, NextClaim PROVE LoopInv'
<1> DEFINE item == Head(job.claims)
           then == [command |-> "claim", claims |-> Tail(job.claims)]
           call == [kind |-> item.call, market |-> item.market, position |-> item.position]
           calls == <<call>>
<1>1. job.pc = "claims" /\ ~AtWork /\ UNCHANGED <<Chain, clock, index, circle>>
  BY DEF NextClaim, AtWork, Env
<1>2. ClaimsOK(job.claims, positions)
  BY <1>1, JobAt DEF Claiming
<1>3. CASE job.claims = <<>>
  <2>1. job'.pc = "idle"
    BY <1>3 DEF NextClaim, Idle
  <2>2. JobOK(job', positions) /\ LandedOK'
    BY <1>1, <2>1 DEF JobOK, LoopInv, LandedOK, Chain, AtWork
  <2> QED BY <1>1, <2>1, <2>2, QuietStep
<1>4. CASE job.claims # <<>>
  <2>1. job' = [pc |-> "post", calls |-> calls, key |-> FreshKey, attempt |-> 1, then |-> then]
    BY <1>4 DEF NextClaim, SendNext
  <2>2. /\ IsList(job.claims) /\ 1 \in 1..Len(job.claims) /\ item = job.claims[1]
        /\ IsList(Tail(job.claims)) /\ Len(Tail(job.claims)) = Len(job.claims) - 1
        /\ \A i \in 1..(Len(job.claims) - 1) : Tail(job.claims)[i] = job.claims[i + 1]
                                             /\ i + 1 \in 1..Len(job.claims)
    BY <1>2, <1>4, ListFacts, ListTail DEF ClaimsOK
  <2>3. Item(item, positions) /\ ClaimsOK(Tail(job.claims), positions)
    <3> HIDE DEF item
    <3> QED BY <1>2, <2>2 DEF ClaimsOK
  <2>4. IsClaim(call, positions)
    <3>1. call.kind = item.call /\ call.market = item.market /\ call.position = item.position
      OBVIOUS
    <3> HIDE DEF call, item
    <3> QED BY <2>3, <3>1 DEF Item, IsClaim
  <2>5. then.command = "claim" /\ then.claims = Tail(job.claims)
        /\ calls = <<calls[1]>> /\ calls[1] = call
    OBVIOUS
  <2> HIDE DEF then, calls, call, item
  <2>6. ThenOK(then, calls, positions)
    BY <2>3, <2>4, <2>5 DEF ThenOK, ClaimCalls
  <2>7. /\ job'.pc = "post" /\ job'.key = FreshKey /\ job'.attempt = 1 /\ job'.calls = calls
        /\ job'.then = then
    BY <2>1
  <2>8. FreshKey \in Nat
    BY KeyIsFresh DEF LoopInv, CircleOK
  <2>9. JobOK(job', positions)
    BY <2>1, <2>6, <2>7, <2>8 DEF Sending, JobOK
  <2>10. LandedOK'
    BY <1>1, <2>5, <2>7 DEF LoopInv, LandedOK, Chain, AtWork
  <2> QED BY <1>1, <2>7, <2>9, <2>10, QuietStep
<1> QED BY <1>3, <1>4

(* The call being sent is a call, and what Circle holds after taking it too. *)
LEMMA HeadCall ==
  ASSUME LoopInv, AtWork
  PROVE  /\ CallOK(Head(job.calls), positions)
         /\ Head(job.calls).kind = "enter" => /\ job.then.command = "run"
                                             /\ Head(job.calls).market = job.then.market
                                             /\ IsEntry(Head(job.calls))
<1>1. ThenOK(job.then, job.calls, positions)
  BY JobAt DEF Sending
<1>2. ASSUME NEW m, EntryCalls(job.calls, m)
      PROVE  \/ IsApprove(Head(job.calls))
             \/ IsEntry(Head(job.calls)) /\ Head(job.calls).market = m
  <2>1. Head(job.calls) = job.calls[1]
    BY <1>2 DEF EntryCalls
  <2> QED BY <1>2, <2>1 DEF EntryCalls
<1>3. ASSUME ClaimCalls(job.calls, positions) PROVE IsClaim(Head(job.calls), positions)
  <2>1. Head(job.calls) = job.calls[1]
    BY <1>3 DEF ClaimCalls
  <2> QED BY <1>3, <2>1 DEF ClaimCalls
<1>4. CASE job.then.command = "run" /\ EntryCalls(job.calls, job.then.market)
  BY <1>2, <1>4 DEF CallOK, IsApprove
<1>5. CASE ClaimCalls(job.calls, positions)
  BY <1>3, <1>5 DEF CallOK, IsClaim
<1> QED BY <1>1, <1>4, <1>5 DEF ThenOK

LEMMA TakenOK ==
  ASSUME LoopInv, AtWork, NEW txs, txs \in {circle, Submitted(job.key, Head(job.calls))}
  PROVE  /\ IsFiniteSet(DOMAIN txs) /\ DOMAIN circle \subseteq DOMAIN txs
         /\ \A k \in DOMAIN txs : TxOK(txs[k], positions)
         /\ \A k \in DOMAIN circle : txs[k] = circle[k]
         /\ \A k \in DOMAIN txs : txs[k].mine => k = job.key /\ txs[k].call = Head(job.calls)
         /\ job.key \in DOMAIN txs => txs[job.key].mine
         /\ job.key \in DOMAIN txs /\ job.key \notin DOMAIN circle => txs[job.key].state = "QUEUED"
<1> DEFINE tx == [call |-> Head(job.calls), state |-> "QUEUED", mine |-> TRUE]
<1>1. CASE txs = circle
  BY <1>1 DEF LoopInv, CircleOK
<1>2. CASE txs # circle
  <2>1. job.key \notin DOMAIN circle /\ txs = With(circle, job.key, tx)
    BY <1>2 DEF Submitted
  <2>2. tx.call = Head(job.calls) /\ tx.state = "QUEUED" /\ tx.mine = TRUE
        /\ tx = [call |-> tx.call, state |-> tx.state, mine |-> tx.mine]
    OBVIOUS
  <2> HIDE DEF tx
  <2>3. TxOK(tx, positions) /\ tx.mine
    BY <2>2, HeadCall DEF TxOK, TxStates
  <2>4. /\ DOMAIN txs = DOMAIN circle \cup {job.key} /\ txs[job.key] = tx
        /\ \A k \in DOMAIN circle : txs[k] = circle[k]
    BY <2>1 DEF With
  <2>5. IsFiniteSet(DOMAIN txs)
    BY <2>4, FS_AddElement DEF LoopInv, CircleOK
  <2>6. \A k \in DOMAIN txs : TxOK(txs[k], positions)
    BY <2>3, <2>4 DEF LoopInv, CircleOK
  <2>7. \A k \in DOMAIN txs : txs[k].mine => k = job.key /\ txs[k].call = Head(job.calls)
    BY <2>2, <2>4 DEF LoopInv, CircleOK
  <2> QED BY <2>1, <2>2, <2>3, <2>4, <2>5, <2>6, <2>7
<1> QED BY <1>1, <1>2

LEMMA PostInv ==
  ASSUME LoopInv, NEW taken \in BOOLEAN, NEW answer \in {"ok", "retryable", "refused"},
         Post(taken, answer)
  PROVE  LoopInv'
<1>1. job.pc = "post" /\ AtWork /\ UNCHANGED <<Chain, Env>>
  BY DEF Post, AtWork
<1>2. PICK txs \in {circle, Submitted(job.key, Head(job.calls))} :
        \/ /\ job' = [job EXCEPT !.pc = "poll"] /\ circle' = txs
           /\ txs = Submitted(job.key, Head(job.calls))
        \/ job' = [job EXCEPT !.attempt = @ + 1] /\ circle' = txs
        \/ Ends(txs)
  <2>1. answer = "ok" => taken
    BY DEF Post
  <2> DEFINE txs == IF taken THEN Submitted(job.key, Head(job.calls)) ELSE circle
  <2>2. \/ answer = "ok" /\ job' = [job EXCEPT !.pc = "poll"] /\ circle' = txs
        \/ job' = [job EXCEPT !.attempt = @ + 1] /\ circle' = txs
        \/ Ends(txs)
    BY DEF Post
  <2> QED BY <2>1, <2>2
<1>3. Sending(job, positions)
  BY <1>1, JobAt
<1>t. /\ IsFiniteSet(DOMAIN txs) /\ DOMAIN circle \subseteq DOMAIN txs
      /\ \A k \in DOMAIN txs : TxOK(txs[k], positions)
      /\ \A k \in DOMAIN circle : txs[k] = circle[k]
      /\ \A k \in DOMAIN txs : txs[k].mine => k = job.key /\ txs[k].call = Head(job.calls)
      /\ job.key \in DOMAIN txs => txs[job.key].mine
  BY <1>1, TakenOK
<1>4. CASE Ends(txs)
  BY <1>1, <1>t, <1>4, EndsOK
<1>5. ASSUME circle' = txs,
             \/ job' = [job EXCEPT !.attempt = @ + 1]
             \/ job' = [job EXCEPT !.pc = "poll"] /\ txs = Submitted(job.key, Head(job.calls))
      PROVE  LoopInv'
  <2>0. circle' = txs
    BY <1>5
  <2>1. PICK c, k, a, t : c = job.calls /\ k = job.key /\ a = job.attempt /\ t = job.then
    OBVIOUS
  <2>2. job = [pc |-> "post", calls |-> c, key |-> k, attempt |-> a, then |-> t] /\ a \in Nat
    BY <1>1, <1>3, <2>1 DEF Sending
  <2>3. PICK pc \in {"post", "poll"}, b \in Nat :
          /\ job' = [pc |-> pc, calls |-> c, key |-> k, attempt |-> b, then |-> t]
          /\ pc = "poll" => txs = Submitted(job.key, Head(job.calls))
    <3>1. CASE job' = [job EXCEPT !.attempt = @ + 1]
      <4>1. job' = [job EXCEPT !.attempt = a + 1] /\ a + 1 \in Nat
        BY <2>1, <2>2, <3>1
      <4>2. job' = [[pc |-> "post", calls |-> c, key |-> k, attempt |-> a, then |-> t]
                     EXCEPT !.attempt = a + 1]
        BY ONLY <2>2, <4>1
      <4>3. job' = [pc |-> "post", calls |-> c, key |-> k, attempt |-> a + 1, then |-> t]
        BY <4>2
      <4> QED BY <4>1, <4>3
    <3>2. CASE job' = [job EXCEPT !.pc = "poll"] /\ txs = Submitted(job.key, Head(job.calls))
      <4>1. job' = [[pc |-> "post", calls |-> c, key |-> k, attempt |-> a, then |-> t]
                     EXCEPT !.pc = "poll"]
        BY ONLY <2>2, <3>2
      <4>2. job' = [pc |-> "poll", calls |-> c, key |-> k, attempt |-> a, then |-> t]
        BY <4>1
      <4> QED BY <2>2, <3>2, <4>2
    <3> QED BY <1>5, <3>1, <3>2
  <2>4. /\ job'.pc = pc /\ job'.calls = job.calls /\ job'.key = job.key /\ job'.attempt = b
        /\ job'.then = job.then
    BY <2>1, <2>3
  <2>5. Sending(job', positions)
    BY <1>3, <2>1, <2>3, <2>4 DEF Sending
  <2>6. UNCHANGED <<venue, vintage, positions, wallet, landed, clock, index>>
    BY <1>1 DEF Chain, Env
  <2>7. ChainOK' /\ IndexOK'
    BY <2>6 DEF LoopInv, ChainOK, IndexOK
  <2>8. JobOK(job, positions)'
    BY <2>5, <2>6 DEF JobOK
  <2>9. pc = "poll" => job.key \in DOMAIN txs
    BY <2>3 DEF Submitted, With
  <2>10. CircleOK'
    <3>1. /\ circle' = txs /\ positions' = positions /\ AtWork' /\ job'.key = job.key
          /\ job'.calls = job.calls /\ job'.pc = pc
      BY <2>0, <2>4, <2>6 DEF AtWork
    <3>2. /\ IsFiniteSet(DOMAIN circle')
          /\ \A x \in DOMAIN circle' : TxOK(circle'[x], positions')
          /\ \A x \in DOMAIN circle' :
               circle'[x].mine => AtWork' /\ x = job'.key /\ circle'[x].call = Head(job'.calls)
          /\ job'.key \in DOMAIN circle' => circle'[job'.key].mine
          /\ job'.pc = "poll" => job'.key \in DOMAIN circle'
      BY ONLY <1>t, <2>9, <3>1
    <3> QED BY ONLY <3>2 DEF CircleOK
  <2>11. LandedOK'
    <3>1. /\ landed' = landed /\ landed \in [Markets -> 0..1] /\ AtWork'
      BY <2>4, <2>6 DEF LoopInv, LandedOK, AtWork
    <3>2. Confirmed => Confirmed'
      <4>1. circle' = txs /\ job'.key = job.key /\ job'.calls = job.calls
        BY <2>0, <2>4
      <4> QED BY ONLY <1>t, <4>1 DEF Confirmed
    <3>3. job'.pc \notin {"list", "decide", "enter"}
      BY <2>4
    <3> QED BY <1>1, <2>4, <3>1, <3>2, <3>3 DEF LoopInv, LandedOK
  <2> QED BY <2>7, <2>8, <2>10, <2>11 DEF LoopInv
<1> QED BY <1>2, <1>4, <1>5

LEMMA PollInv == ASSUME LoopInv, Poll PROVE LoopInv'
<1>1. job.pc = "poll" /\ AtWork /\ UNCHANGED <<Chain, Env>>
  BY DEF Poll, AtWork
<1>2. UNCHANGED <<venue, vintage, positions, wallet, landed, clock, index>>
  BY <1>1 DEF Chain, Env
<1>3. ThenOK(job.then, job.calls, positions)
  BY <1>1, JobAt DEF Sending
<1>4. CASE Ends(circle)
  BY <1>1, <1>4, EndsOK DEF LoopInv, CircleOK
<1>5. ASSUME NEW failed, AfterCall(failed), circle' = Forget(job.key)
      PROVE  LoopInv'
  <2>1. \A k \in DOMAIN circle' : k \in DOMAIN circle /\ circle'[k] = circle[k] /\ ~circle[k].mine
    <3>1. \A k \in DOMAIN circle : circle[k].mine \in BOOLEAN /\ (circle[k].mine => k = job.key)
      BY DEF LoopInv, CircleOK, TxOK
    <3> QED BY <1>5, <3>1 DEF Forget
  <2>2. ChainOK' /\ IndexOK'
    BY <1>2 DEF LoopInv, ChainOK, IndexOK
  <2>3. FreshKey \in Nat /\ FreshKey \notin DOMAIN circle
    BY KeyIsFresh DEF LoopInv, CircleOK
  <2>4. /\ landed \in [Markets -> 0..1]
        /\ job.then.command = "run" =>
             /\ \A m \in Markets \ (job.then.held \cup {job.then.market}) : landed[m] = 0
             /\ ~Confirmed => landed[job.then.market] = 0
    BY <1>1 DEF LoopInv, LandedOK
  <2>5. CASE SendNext(job.then, Tail(job.calls)) /\ Len(job.calls) > 1
    <3>1. /\ job.then.command = "run" /\ job.then.market \in Markets \ job.then.held
          /\ WantedOK(job.then.wanted, job.then.held \cup {job.then.market})
          /\ job.calls = <<job.calls[1], job.calls[2]>>
          /\ IsApprove(job.calls[1]) /\ IsEntry(job.calls[2])
          /\ job.calls[2].market = job.then.market
      <4>1. \A x : Len(<<x>>) = 1
        OBVIOUS
      <4> QED BY <1>3, <2>5, <4>1 DEF ThenOK, EntryCalls, ClaimCalls
    <3>2. Tail(job.calls) = <<job.calls[2]>> /\ Head(job.calls) = job.calls[1]
      <4>1. \A x, y : Tail(<<x, y>>) = <<y>> /\ Head(<<x, y>>) = x
        OBVIOUS
      <4> QED BY <3>1, <4>1
    <3>3. EntryCalls(Tail(job.calls), job.then.market)
      <4>1. \A x : <<x>>[1] = x
        OBVIOUS
      <4> QED BY <3>1, <3>2, <4>1 DEF EntryCalls
    <3>4. job' = [pc |-> "post", calls |-> Tail(job.calls), key |-> FreshKey, attempt |-> 1,
                  then |-> job.then]
      BY <2>5 DEF SendNext
    <3>5. /\ job'.pc = "post" /\ job'.key = FreshKey /\ job'.attempt = 1
          /\ job'.calls = Tail(job.calls) /\ job'.then = job.then
      BY <3>4
    <3>6. JobOK(job, positions)'
      <4>1. ThenOK(job'.then, job'.calls, positions')
        BY <1>2, <3>1, <3>3, <3>5 DEF ThenOK
      <4>2. Sending(job', positions')
        BY <2>3, <3>4, <3>5, <4>1 DEF Sending
      <4> QED BY <4>2 DEF JobOK
    <3>7. CircleOK'
      BY <1>2, <2>1, <2>3, <3>5, NothingLeft DEF LoopInv
    <3>8. ~Confirmed
      BY <3>1, <3>2 DEF Confirmed, IsApprove
    <3>9. LandedOK'
      BY <1>2, <2>4, <3>1, <3>5, <3>8 DEF LandedOK, AtWork
    <3> QED BY <2>2, <3>6, <3>7, <3>9 DEF LoopInv
  <2>6. CASE /\ job.then.command = "run"
             /\ job' = [pc |-> "enter", command |-> "run", round |-> job.then.round,
                        held |-> Held(job.then.held, job.then.market),
                        wanted |-> job.then.wanted]
    <3>1. WantedOK(job.then.wanted, Held(job.then.held, job.then.market))
      BY <1>3, <2>6 DEF ThenOK, Held
    <3>2. /\ job'.pc = "enter" /\ job'.held = job.then.held \cup {job.then.market}
          /\ Entering(job')
      BY <2>6, <3>1 DEF Entering, Held
    <3>3. JobOK(job, positions)'
      BY <3>2 DEF JobOK
    <3>4. CircleOK'
      BY <1>2, <2>1, <3>2, NothingLeft DEF LoopInv
    <3>5. LandedOK'
      BY <1>2, <2>4, <2>6, <3>2 DEF LandedOK, AtWork
    <3> QED BY <2>2, <3>3, <3>4, <3>5 DEF LoopInv
  <2>7. CASE job.then.command # "run" /\ job' = [pc |-> "claims", claims |-> job.then.claims]
    <3>1. ClaimsOK(job.then.claims, positions)
      BY <1>3, <2>7 DEF ThenOK
    <3>2. job'.pc = "claims" /\ Claiming(job', positions')
      BY <1>2, <2>7, <3>1 DEF Claiming
    <3>3. JobOK(job, positions)'
      BY <3>2 DEF JobOK
    <3>4. CircleOK'
      BY <1>2, <2>1, <3>2, NothingLeft DEF LoopInv
    <3>5. LandedOK'
      BY <1>2, <2>4, <3>2 DEF LandedOK, AtWork
    <3> QED BY <2>2, <3>3, <3>4, <3>5 DEF LoopInv
  <2> QED BY <1>5, <2>5, <2>6, <2>7 DEF AfterCall
<1> QED BY <1>4, <1>5 DEF Poll

(* What a transaction does to the venue and to the wallet when it is executed. *)
LEMMA LandMoves ==
  ASSUME LoopInv, NEW key \in DOMAIN circle, Land(key)
  PROVE  Moved /\ wallet' \in [balance: Int, allowance: Int]
<1> DEFINE call == circle[key].call
<1>1. ChainOK /\ CallOK(call, positions)
  BY DEF LoopInv, CircleOK, TxOK
<1>2. \/ UNCHANGED <<venue, vintage, positions, wallet>>
      \/ /\ call.kind = "approve" /\ wallet' = [wallet EXCEPT !.allowance = call.amount]
         /\ UNCHANGED <<venue, vintage, positions>>
      \/ call.kind = "enter" /\ EnterLands(call)
      \/ call.kind = "claim" /\ ClaimPays(call.market, call.position)
      \/ /\ call.kind \notin {"approve", "enter", "claim"}
         /\ RefundPays(call.market, call.position)
  BY DEF Land
<1>3. CASE UNCHANGED <<venue, vintage, positions, wallet>>
  BY <1>1, <1>3, NothingMoves DEF ChainOK
<1>4. CASE /\ call.kind = "approve" /\ wallet' = [wallet EXCEPT !.allowance = call.amount]
           /\ UNCHANGED <<venue, vintage, positions>>
  <2>1. call.amount \in Nat /\ wallet \in [balance: Int, allowance: Int]
    BY <1>1, <1>4 DEF CallOK, IsApprove, IsEntry, IsClaim, ChainOK
  <2> HIDE DEF call
  <2>2. wallet' \in [balance: Int, allowance: Int]
    BY <1>4, <2>1
  <2> QED BY <1>1, <1>4, <2>2, NothingMoves
<1>5. CASE call.kind = "enter" /\ EnterLands(call)
  <2>1. IsEntry(call)
    BY <1>1, <1>5 DEF CallOK, IsApprove, IsClaim
  <2> HIDE DEF call
  <2> QED BY <1>1, <1>5, <2>1, EntryMoves
<1>6. CASE call.kind = "claim" /\ ClaimPays(call.market, call.position)
  <2>1. IsClaim(call, positions)
    BY <1>1, <1>6 DEF CallOK, IsApprove, IsEntry
  <2> HIDE DEF call
  <2> QED BY <1>1, <1>6, <2>1, ClaimMoves DEF IsClaim
<1>7. CASE /\ call.kind \notin {"approve", "enter", "claim"}
           /\ RefundPays(call.market, call.position)
  <2>1. IsClaim(call, positions)
    BY <1>1, <1>7 DEF CallOK, IsApprove, IsEntry
  <2> HIDE DEF call
  <2> QED BY <1>1, <1>7, <2>1, RefundMoves DEF IsClaim
<1> QED BY <1>2, <1>3, <1>4, <1>5, <1>6, <1>7

(* Circle after a transaction became final: it is known as such, or gone. *)
LEMMA FinalCircle ==
  ASSUME LoopInv, NEW key \in DOMAIN circle, NEW state \in {"CONFIRMED", "FAILED"},
         Final(key, state)
  PROVE  /\ \A k \in DOMAIN circle \ {key} : k \in DOMAIN circle' /\ circle'[k] = circle[k]
         /\ DOMAIN circle' \subseteq DOMAIN circle
         /\ key \in DOMAIN circle' =>
              /\ circle[key].mine
              /\ circle'[key] = [call |-> circle[key].call, state |-> state,
                                 mine |-> circle[key].mine]
         /\ circle[key].mine => key \in DOMAIN circle'
<1>1. circle' = IF circle[key].mine THEN [circle EXCEPT ![key].state = state]
                ELSE [k \in DOMAIN circle \ {key} |-> circle[k]]
  BY DEF Final
<1>3. CASE ~circle[key].mine
  BY <1>1, <1>3
<1>4. CASE circle[key].mine
  <2>1. circle' = [circle EXCEPT ![key] = [circle[key] EXCEPT !.state = state]]
    BY <1>1, <1>4
  <2>2. PICK c, st, mn : circle[key] = [call |-> c, state |-> st, mine |-> mn]
                         /\ c = circle[key].call /\ mn = circle[key].mine
    BY DEF LoopInv, CircleOK, TxOK
  <2>3. [[call |-> c, state |-> st, mine |-> mn] EXCEPT !.state = state]
          = [call |-> c, state |-> state, mine |-> mn]
    BY Finished
  <2>4. [circle[key] EXCEPT !.state = state] = [call |-> c, state |-> state, mine |-> mn]
    BY ONLY <2>2, <2>3
  <2>5. circle' = [circle EXCEPT ![key] = [call |-> c, state |-> state, mine |-> mn]]
    BY ONLY <2>1, <2>4
  <2>6. DOMAIN circle' = DOMAIN circle /\ circle'[key] = [call |-> c, state |-> state, mine |-> mn]
        /\ \A k \in DOMAIN circle \ {key} : circle'[k] = circle[k]
    BY <2>5
  <2> QED BY <1>1, <1>4, <2>2, <2>6
<1> QED BY <1>3, <1>4

(* A transaction becomes final: executed, reverted, denied or cancelled. *)
LEMMA FinalInv ==
  ASSUME LoopInv, NEW key \in DOMAIN circle, NEW state \in {"CONFIRMED", "FAILED"},
         circle[key].state = "QUEUED", Final(key, state),
         Moved, wallet' \in [balance: Int, allowance: Int], UNCHANGED <<clock, index, job>>,
         landed' = IF circle[key].mine /\ circle[key].call.kind = "enter" /\ state = "CONFIRMED"
                   THEN [landed EXCEPT ![circle[key].call.market] = @ + 1] ELSE landed
  PROVE  LoopInv'
<1> DEFINE call == circle[key].call
<1>2. job' = job
  OBVIOUS
<1>3. ChainOK' /\ IndexOK' /\ Grown(positions, positions')
  BY ChainMoved
<1>5. /\ \A t : TxOK(t, positions) => TxOK(t, positions')
      /\ \A j : JobOK(j, positions) => JobOK(j, positions')
  BY <1>3, StillHeld DEF LoopInv, ChainOK
<1>6. JobOK(job, positions)'
  BY <1>2, <1>5 DEF LoopInv
<1>7. /\ circle[key].state = "QUEUED"
      /\ \A k \in DOMAIN circle \ {key} : k \in DOMAIN circle' /\ circle'[k] = circle[k]
      /\ DOMAIN circle' \subseteq DOMAIN circle
      /\ circle[key].mine => key \in DOMAIN circle'
  BY FinalCircle
<1>8. key \in DOMAIN circle' =>
          /\ circle'[key] = [call |-> call, state |-> state, mine |-> circle[key].mine]
          /\ circle'[key].call = call /\ circle'[key].mine /\ circle[key].mine
          /\ circle'[key].state = state
  <2>1. SUFFICES ASSUME key \in DOMAIN circle'
                 PROVE  /\ circle'[key] = [call |-> call, state |-> state, mine |-> circle[key].mine]
                        /\ circle'[key].call = call /\ circle'[key].mine /\ circle[key].mine
                        /\ circle'[key].state = state
    OBVIOUS
  <2>2. /\ circle'[key] = [call |-> call, state |-> state, mine |-> circle[key].mine]
        /\ circle[key].mine
    BY <2>1, FinalCircle
  <2> HIDE DEF call
  <2>4. circle'[key].call = call /\ circle'[key].mine = circle[key].mine /\ circle'[key].state = state
    BY <2>2
  <2> QED BY <2>2, <2>4
<1>9. \A k \in DOMAIN circle :
        /\ TxOK(circle[k], positions)
        /\ circle[k].mine => AtWork /\ k = job.key /\ circle[k].call = Head(job.calls)
  BY DEF LoopInv, CircleOK
<1>l. landed' = IF circle[key].mine /\ call.kind = "enter" /\ state = "CONFIRMED"
                THEN [landed EXCEPT ![call.market] = landed[call.market] + 1] ELSE landed
  OBVIOUS
<1> HIDE DEF call
<1>10. CircleOK'
  <2>1. IsFiniteSet(DOMAIN circle')
    BY <1>7, FS_Subset DEF LoopInv, CircleOK
  <2>2. key \in DOMAIN circle' => TxOK(circle'[key], positions')
    <3>1. SUFFICES ASSUME key \in DOMAIN circle' PROVE TxOK(circle'[key], positions')
      OBVIOUS
    <3>3. TxOK(circle[key], positions')
      BY <1>5, <1>9
    <3>4. PICK t : t = circle'[key]
      OBVIOUS
    <3>5. /\ t = [call |-> call, state |-> state, mine |-> circle[key].mine]
          /\ t.call = call /\ t.state = state /\ t.mine = circle[key].mine
      BY <1>8, <3>1, <3>4
    <3>6. CallOK(call, positions') /\ circle[key].mine \in BOOLEAN /\ state \in TxStates
      BY <3>3 DEF TxOK, call, TxStates
    <3>7. TxOK(t, positions')
      BY ONLY <3>5, <3>6 DEF TxOK
    <3> QED BY <3>4, <3>7
  <2>3. \A k \in DOMAIN circle' : TxOK(circle'[k], positions')
    BY <1>5, <1>7, <1>9, <2>2
  <2>4. \A k \in DOMAIN circle' :
          circle'[k].mine => AtWork /\ k = job.key /\ circle'[k].call = Head(job.calls)
    BY <1>7, <1>8, <1>9 DEF call
  <2>5. AtWork /\ job.key \in DOMAIN circle' => circle'[job.key].mine
    BY <1>7, <1>8 DEF LoopInv, CircleOK
  <2>6. job.pc = "poll" => job.key \in DOMAIN circle'
    BY <1>7 DEF LoopInv, CircleOK, AtWork
  <2>7. AtWork' <=> AtWork
    BY <1>2 DEF AtWork
  <2> QED BY <1>2, <2>1, <2>3, <2>4, <2>5, <2>6, <2>7 DEF CircleOK
<1>11. LandedOK'
  <2>1. landed \in [Markets -> 0..1]
    BY DEF LoopInv, LandedOK
  <2>2. CASE circle[key].mine /\ call.kind = "enter" /\ state = "CONFIRMED"
    <3>1. /\ landed' = [landed EXCEPT ![call.market] = landed[call.market] + 1]
      BY <1>l, <2>2
    <3>2. AtWork /\ key = job.key /\ call = Head(job.calls)
      BY <1>9, <2>2 DEF call
    <3>3. job.then.command = "run" /\ call.market = job.then.market /\ call.market \in Markets
      BY <2>2, <3>2, HeadCall DEF IsEntry
    <3>4. ~Confirmed
      BY <1>7, <3>2 DEF Confirmed
    <3>5. /\ \A m \in Markets \ (job.then.held \cup {job.then.market}) : landed[m] = 0
          /\ landed[job.then.market] = 0
      BY <3>2, <3>3, <3>4 DEF LoopInv, LandedOK
    <3>6. PICK m : m = call.market
      OBVIOUS
    <3>7. landed' = [landed EXCEPT ![m] = 1]
      <4>1. landed[m] = 0 /\ 0 + 1 = 1
        BY <3>3, <3>5, <3>6
      <4>2. landed' = [landed EXCEPT ![m] = landed[m] + 1]
        BY ONLY <3>1, <3>6
      <4> QED BY ONLY <4>1, <4>2
    <3>8. /\ landed' \in [Markets -> 0..1]
          /\ \A n \in Markets : n # m => landed'[n] = landed[n]
      <4>1. PICK B : B = 0..1
        OBVIOUS
      <4>2. 1 \in B /\ landed \in [Markets -> B]
        BY <2>1, <4>1
      <4>3. landed' \in [Markets -> B] /\ \A n \in Markets : n # m => landed'[n] = landed[n]
        BY ONLY <3>7, <4>2
      <4> QED BY <4>1, <4>3
    <3>9. Confirmed'
      <4>1. key \in DOMAIN circle' /\ circle'[key].state = "CONFIRMED"
        BY <1>7, <1>8, <2>2
      <4> QED BY <1>2, <2>2, <3>2, <4>1 DEF Confirmed
    <3>10. job.pc \notin {"list", "decide", "enter"}
      BY <3>2 DEF AtWork
    <3> QED BY <1>2, <3>3, <3>5, <3>6, <3>8, <3>9, <3>10 DEF LandedOK, AtWork
  <2>3. CASE ~(circle[key].mine /\ call.kind = "enter" /\ state = "CONFIRMED")
    <3>1. landed' = landed
      BY <1>l, <2>3
    <3>2. Confirmed => Confirmed'
      <4>1. Confirmed => job.key # key
        BY <1>7 DEF Confirmed
      <4> QED BY <1>2, <1>7, <4>1 DEF Confirmed
    <3> QED BY <1>2, <3>1, <3>2 DEF LoopInv, LandedOK, AtWork
  <2> QED BY <2>2, <2>3
<1> QED BY <1>3, <1>6, <1>10, <1>11 DEF LoopInv

LEMMA LandInv == ASSUME LoopInv, NEW key \in DOMAIN circle, Land(key) PROVE LoopInv'
<1>1. PICK state \in {"CONFIRMED", "FAILED"} :
        /\ Final(key, state)
        /\ state = "CONFIRMED" <=> Succeeds(circle[key].call)
  BY DEF Land
<1>2. /\ circle[key].state = "QUEUED" /\ UNCHANGED <<clock, index, job>>
      /\ landed' = IF circle[key].mine /\ circle[key].call.kind = "enter"
                        /\ Succeeds(circle[key].call)
                   THEN [landed EXCEPT ![circle[key].call.market] = @ + 1] ELSE landed
  BY DEF Land, Env
<1>3. landed' = IF circle[key].mine /\ circle[key].call.kind = "enter" /\ state = "CONFIRMED"
                THEN [landed EXCEPT ![circle[key].call.market] = @ + 1] ELSE landed
  BY <1>1, <1>2
<1> QED BY <1>1, <1>2, <1>3, LandMoves, FinalInv

LEMMA DeniedInv == ASSUME LoopInv, NEW key \in DOMAIN circle, Denied(key) PROVE LoopInv'
<1>1. /\ circle[key].state = "QUEUED" /\ Final(key, "FAILED")
      /\ UNCHANGED <<venue, vintage, positions, wallet, landed, clock, index, job>>
  BY DEF Denied, Chain, Env
<1>2. Moved /\ wallet' \in [balance: Int, allowance: Int]
  BY <1>1, NothingMoves DEF LoopInv, ChainOK
<1>3. PICK state \in {"CONFIRMED", "FAILED"} : state = "FAILED"
  OBVIOUS
<1>4. landed' = IF circle[key].mine /\ circle[key].call.kind = "enter" /\ state = "CONFIRMED"
                THEN [landed EXCEPT ![circle[key].call.market] = @ + 1] ELSE landed
  BY <1>1, <1>3
<1> QED BY <1>1, <1>2, <1>3, <1>4, FinalInv

LEMMA LoopInit == Init => LoopInv
<1>1. SUFFICES ASSUME Init PROVE LoopInv
  OBVIOUS
<1>2. /\ clock = 0 /\ positions = [m \in Markets |-> <<>>]
      /\ venue = [m \in Markets |-> [status |-> "Open", winner |-> None, books |-> Terms[m].books]]
      /\ wallet = [balance |-> BANKROLL, allowance |-> 0]
      /\ index = [venue |-> venue, positions |-> positions]
      /\ circle = <<>> /\ job = Idle /\ landed = [m \in Markets |-> 0]
      /\ vintage = [m \in Markets |-> [offers |-> <<>>, due |-> FALSE]]
  BY <1>1 DEF Init
<1>3. VenueOK(venue)
  <2>1. \A m \in Markets : BooksOK(Terms[m].books)
    BY TermsAssumption DEF BooksOK
  <2>2. ASSUME NEW m \in Markets
        PROVE  venue[m] \in Venue /\ venue[m].books = Terms[m].books
    <3>1. venue[m] = [status |-> "Open", winner |-> None, books |-> Terms[m].books]
      BY <1>2
    <3>2. Terms[m].books \in Seq(Books) /\ "Open" \in Statuses
      BY <2>1 DEF BooksOK, Statuses
    <3> QED BY <3>1, <3>2 DEF Venue
  <2>3. venue = [m \in Markets |-> venue[m]]
    BY <1>2
  <2> QED BY <2>1, <2>2, <2>3 DEF VenueOK
<1>4. positions \in Held0 /\ \A m \in Markets : Len(positions[m]) \in Nat
  <2>1. positions \in Held0
    BY <1>2 DEF Held0
  <2> QED BY <2>1, PositionsAt
<1>5. wallet \in [balance: Int, allowance: Int]
  BY <1>2, TermsAssumption
<1>v. VintageOK(vintage)
  <2>1. OffersOK(<<>>)
    BY DEF OffersOK
  <2> QED BY <1>2, <2>1 DEF VintageOK, OffersOK
<1>6. ChainOK
  BY <1>2, <1>3, <1>4, <1>5, <1>v DEF ChainOK
<1>7. IndexOK
  <2>1. index.venue = venue /\ index.positions = positions
    BY <1>2
  <2> QED BY <1>3, <1>4, <2>1 DEF IndexOK
<1>8. job.pc = "idle"
  BY <1>2 DEF Idle
<1>9. JobOK(job, positions) /\ LandedOK
  BY <1>2, <1>8 DEF JobOK, LandedOK, AtWork
<1>10. CircleOK
  <2>1. DOMAIN circle = {}
    BY <1>2
  <2> QED BY <1>8, <2>1, FS_EmptySet DEF CircleOK, AtWork
<1> QED BY <1>6, <1>7, <1>9, <1>10 DEF LoopInv

LEMMA LoopStep == LoopInv /\ [Next]_vars => LoopInv'
<1>1. SUFFICES ASSUME LoopInv, [Next]_vars PROVE LoopInv'
  OBVIOUS
<1>2. CASE UNCHANGED vars
  BY <1>1, <1>2 DEF vars, LoopInv, ChainOK, IndexOK, CircleOK, LandedOK, AtWork, Confirmed
<1>3. CASE Next
  <2>1. CASE Tick
    BY <1>1, <2>1, TickInv
  <2>2. CASE IndexCatchesUp
    BY <1>1, <2>2, IndexCatchesUpInv
  <2>3. ASSUME NEW trust \in TrustReadings, ReadMarket(trust) PROVE LoopInv'
    BY <1>1, <2>3, ReadMarketInv
  <2>4. CASE DecideAll
    BY <1>1, <2>4, DecideAllInv
  <2>5. CASE BuyQuotes
    BY <1>1, <2>5, BuyQuotesInv
  <2>6. CASE NextEntry
    BY <1>1, <2>6, NextEntryInv
  <2>7. ASSUME NEW taken \in BOOLEAN, NEW answer \in {"ok", "retryable", "refused"},
               Post(taken, answer)
        PROVE  LoopInv'
    BY <1>1, <2>7, PostInv
  <2>8. CASE Poll
    BY <1>1, <2>8, PollInv
  <2>9. CASE NextRound
    BY <1>1, <2>9, NextRoundInv
  <2>10. CASE Settle
    BY <1>1, <2>10, SettleInv
  <2>11. CASE Claimable
    BY <1>1, <2>11, ClaimableInv
  <2>12. CASE NextClaim
    BY <1>1, <2>12, NextClaimInv
  <2>13. CASE Rejects
    BY <1>1, <2>13, RejectsInv
  <2>14. ASSUME NEW command \in {"run", "claim", "decide"}, Start(command) PROVE LoopInv'
    BY <1>1, <2>14, StartInv
  <2>15. ASSUME NEW key \in DOMAIN circle, Land(key) PROVE LoopInv'
    BY <1>1, <2>15, LandInv
  <2>16. ASSUME NEW m \in Markets, NEW o \in DOMAIN Terms[m].books, NEW s \in OtherStakes,
                OthersEnter(m, o, s)
         PROVE  LoopInv'
    BY <1>1, <2>16, OthersEnterInv
  <2>17. ASSUME NEW m \in Markets, SettlesSomehow(m) PROVE LoopInv'
    BY <1>1, <2>17, SettlesInv
  <2>18. CASE NextBlock
    BY <1>1, <2>18, NextBlockInv
  <2>19. ASSUME NEW key \in DOMAIN circle, Denied(key) PROVE LoopInv'
    BY <1>1, <2>19, DeniedInv
  <2>20. ASSUME NEW m \in Markets, FinalizeVintage(m) PROVE LoopInv'
    BY <1>1, <2>20, FinalizeVintageInv
  <2> QED BY <1>3, <2>1, <2>2, <2>3, <2>4, <2>5, <2>6, <2>7, <2>8, <2>9, <2>10, <2>11, <2>12,
             <2>13, <2>14, <2>15, <2>16, <2>17, <2>18, <2>19, <2>20 DEF Next, Reads, Acts
<1> QED BY <1>1, <1>2, <1>3

LEMMA LoopInvariance == Spec => []LoopInv
BY LoopInit, LoopStep, PTL DEF Spec

(* One run of the agent enters a market once at most, whatever is retried, lost
   or refused on the way and whatever executes late (loop.ts, held; live.ts, one
   idempotency key for a send). *)
THEOREM OneEntryARun == Spec => []EnteredOncePerRun
<1>1. LoopInv => EnteredOncePerRun
  BY DEF LoopInv, LandedOK, EnteredOncePerRun
<1> QED BY <1>1, LoopInvariance, PTL

(* No step gives the agent a refund but a roll. *)
LEMMA RefundsKept == ASSUME LoopInv, [Next]_vars PROVE Refunds
<1>1. CASE UNCHANGED <<venue, vintage, positions>>
  BY <1>1, NothingMoves DEF LoopInv, Moved
<1>2. CASE positions' = positions
  BY <1>2 DEF Refunds, KeptRefund
<1>3. ASSUME NEW key \in DOMAIN circle, Land(key) PROVE Refunds
  BY <1>3, LandMoves DEF Moved
<1>4. ASSUME NEW m \in Markets, NEW o \in DOMAIN Terms[m].books, NEW s \in OtherStakes,
             OthersEnter(m, o, s)
      PROVE  Refunds
  BY <1>4, OthersMove DEF LoopInv, Moved
<1>5. ASSUME NEW m \in Markets, FinalizeVintage(m) PROVE Refunds
  BY <1>5, FinalizeMoves DEF LoopInv, Moved
<1>6. ASSUME NEW m \in Markets, SettlesSomehow(m) PROVE Refunds
  BY <1>6, SettlesMove DEF LoopInv, Moved
<1>7. CASE UNCHANGED vars
  BY <1>2, <1>7 DEF vars
<1>8. CASE Tick \/ NextBlock
  BY <1>2, <1>8 DEF Tick, NextBlock
<1>9. CASE IndexCatchesUp \/ Rejects \/ DecideAll \/ BuyQuotes \/ NextEntry \/ Poll
  BY <1>2, <1>9 DEF IndexCatchesUp, Rejects, DecideAll, BuyQuotes, NextEntry, Poll, Chain
<1>10. CASE NextRound \/ Settle \/ Claimable \/ NextClaim
  BY <1>2, <1>10 DEF NextRound, Settle, Claimable, NextClaim, Chain
<1>11. ASSUME NEW trust \in TrustReadings, ReadMarket(trust) PROVE Refunds
  BY <1>2, <1>11 DEF ReadMarket, Chain
<1>12. ASSUME NEW taken \in BOOLEAN, NEW answer \in {"ok", "retryable", "refused"},
              Post(taken, answer)
       PROVE  Refunds
  BY <1>2, <1>12 DEF Post, Chain
<1>13. ASSUME NEW command \in {"run", "claim", "decide"}, Start(command) PROVE Refunds
  BY <1>2, <1>13 DEF Start
<1>14. ASSUME NEW key \in DOMAIN circle, Denied(key) PROVE Refunds
  BY <1>2, <1>14 DEF Denied, Chain
<1> QED BY <1>3, <1>4, <1>5, <1>6, <1>7, <1>8, <1>9, <1>10, <1>11, <1>12, <1>13, <1>14
        DEF Next, Reads, Acts

(* An entry is taken whole by the books it was sized on: the stake decide.ts sizes
   to the tightest opposing book is cut by a roll alone, and only where the books had
   moved between the agent's read and its block, or where another entry of that block
   leaned on a book it leaned on. *)
THEOREM SizedToTheRoom == Spec => RationedOnlyByMovement
<1>1. ASSUME LoopInv, [Next]_vars, NEW m \in Markets, NEW i \in DOMAIN positions[m],
             positions'[m][i].refund > positions[m][i].refund
      PROVE  \E k \in OfferOf(m, i) : venue[m].books # Offers(m)[k].seen \/ Competes(m, k)
  <2>1. i \in 1..Len(positions[m]) /\ positions[m][i].refund \in Nat
    BY <1>1, PositionsAt, PositionFields DEF LoopInv, ChainOK
  <2>2. positions'[m][i].refund \in {positions[m][i].refund, PositionsNow(m)[i].refund, 0}
    BY <1>1, <2>1, RefundsKept DEF Refunds, KeptRefund
  <2>3. PICK r \in Nat : r = positions[m][i].refund
    BY <2>1
  <2>4. ~(r > r) /\ ~(0 > r)
    OBVIOUS
  <2>5. PositionsNow(m)[i].refund > positions[m][i].refund
    BY <1>1, <2>2, <2>3, <2>4
  <2> QED BY <1>1, <2>1, <2>5, RemainderFromOffer DEF LoopInv
<1>2. LoopInv /\ [Next]_vars =>
        [\A m \in Markets : \A i \in DOMAIN positions[m] :
           positions'[m][i].refund > positions[m][i].refund
           => \E k \in OfferOf(m, i) : \/ venue[m].books # Offers(m)[k].seen
                                      \/ Competes(m, k)]_vars
  BY <1>1
<1> QED BY <1>2, LoopInvariance, PTL DEF Spec, RationedOnlyByMovement
=============================================================================
