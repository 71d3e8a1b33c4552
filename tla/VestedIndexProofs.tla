------------------------- MODULE VestedIndexProofs -------------------------
(***************************************************************************)
(* What holds of VestedIndex for every market, every history of its        *)
(* settler and every division of its logs into blocks: the index holds and *)
(* shows what the settler does.  The invariant says two things in the      *)
(* middle of a block: each log still to be handled is right about the      *)
(* settler as the block leaves it, but for what a later log says, and the  *)
(* index holds what the settler holds, but for what those logs say.  The   *)
(* handlers are shown to bring the index one log nearer, and the functions *)
(* of the settler to say in their logs all that they change.               *)
(***************************************************************************)
EXTENDS VestedIndex, VestedParimutuelProofs

(* What the logs of the block after the first k still say. *)
EnteredAfter(k, i) == \E j \in (k+1)..Len(log) : log[j].ev = "Entered" /\ log[j].id = i
MovedAfter(k, i) == \E j \in (k+1)..Len(log) : log[j].ev = "PositionTransferred" /\ log[j].id = i
ClaimedAfter(k, i) == \E j \in (k+1)..Len(log) : log[j].ev = "Claimed" /\ log[j].id = i
RefundAfter(k, i) ==
  \E j \in (k+1)..Len(log) : log[j].ev = "Claimed" /\ log[j].id = i /\ log[j].refund > 0
FinalAfter(k, v) == \E j \in (k+1)..Len(log) : log[j].ev = "VintageFinalized" /\ log[j].vintage = v
CreatedAfter(k) == \E j \in (k+1)..Len(log) : log[j].ev = "MarketCreated"
RefreshAfter(k) ==
  \E j \in (k+1)..Len(log) : log[j].ev \in {"MarketCreated", "VintageFinalized", "Resolved", "Voided"}
ToggleAfter(k) ==
  \E j \in (k+1)..Len(log) : \/ log[j].ev = "VintageFinalized"
                             \/ log[j].ev = "Entered" /\ log[j].vintage # 0

(* What is held, field by field, so that an edit of one leaves the others. *)
IsStore(ix) ==
  ix = [market |-> ix.market, books |-> ix.books, positions |-> ix.positions,
        vintages |-> ix.vintages, agents |-> ix.agents, links |-> ix.links, days |-> ix.days,
        dayAgents |-> ix.dayAgents, specLinks |-> ix.specLinks, protocol |-> ix.protocol]
IsMarket(m) ==
  m = [n |-> m.n, status |-> m.status, winner |-> m.winner, acceptedPool |-> m.acceptedPool,
       paidOut |-> m.paidOut, residue |-> m.residue, residueClaimed |-> m.residueClaimed,
       openVintage |-> m.openVintage, opener |-> m.opener, spec |-> m.spec,
       resolvedPrice |-> m.resolvedPrice, voidedStaleAge |-> m.voidedStaleAge,
       createdAt |-> m.createdAt]
IsBook(b) ==
  b = [principal |-> b.principal, acc |-> b.acc, vested |-> b.vested, capacity |-> b.capacity,
       headroom |-> b.headroom, impliedOdds |-> b.impliedOdds, positionCount |-> b.positionCount]
IsVintage(v) ==
  v = [offered |-> v.offered, accepted |-> v.accepted, rationed |-> v.rationed,
       entryCount |-> v.entryCount, finalized |-> v.finalized, pending |-> v.pending]
IsHolding(q) ==
  /\ q = [owner |-> q.owner, outcome |-> q.outcome, offered |-> q.offered,
          accepted |-> q.accepted, refused |-> q.refused, finalized |-> q.finalized,
          entryAcc |-> q.entryAcc, refundWithdrawn |-> q.refundWithdrawn,
          claimed |-> q.claimed, payout |-> q.payout, previewPayout |-> q.previewPayout,
          createdAt |-> q.createdAt, createdTx |-> q.createdTx, vintage |-> q.vintage]
  /\ q.finalized \in BOOLEAN /\ q.refundWithdrawn \in BOOLEAN /\ q.claimed \in BOOLEAN

(* The payout an index should show for a stake. *)
Shown(p) == IF status = "Open" THEN Payout(p) ELSE Settlement(p)

(* What the index holds of position i, but for what is still to be handled. *)
HoldingAt(q, i, k) ==
  LET p == positions[i] IN
  /\ q.outcome = p.outcome /\ q.vintage = p.vintage
  /\ ~MovedAfter(k, i) => q.owner = p.owner
  /\ q.finalized => p.finalized /\ q.accepted = p.accepted /\ q.entryAcc = p.entryAcc
  /\ p.finalized /\ ~FinalAfter(k, p.vintage) => q.finalized
  /\ q.claimed => p.claimed
  /\ p.claimed /\ ~ClaimedAfter(k, i) => q.claimed
  /\ q.refundWithdrawn => p.refunded
  /\ p.refunded /\ p.offered > p.accepted /\ ~RefundAfter(k, i) => q.refundWithdrawn

HoldingsAt(qs, k) ==
  /\ DOMAIN qs = {i \in 1..Count : ~EnteredAfter(k, i)}
  /\ \A i \in DOMAIN qs : IsHolding(qs[i]) /\ HoldingAt(qs[i], i, k)

(* Where no log is left that moves the books, every preview is right. *)
PreviewsAt(qs, k) ==
  ~RefreshAfter(k) =>
    \A i \in DOMAIN qs : qs[i].finalized => qs[i].previewPayout = Shown(positions[i])

(* The entries that wait for vintage v, and the vintages the index keeps. *)
Waiting(qs, v) == {i \in DOMAIN qs : qs[i].vintage = v /\ ~qs[i].finalized}
VintagesAt(qs, vs) ==
  /\ \A i \in DOMAIN qs : qs[i].vintage \in DOMAIN vs
  /\ \A v \in DOMAIN vs : IsVintage(vs[v]) /\ vs[v].pending = Waiting(qs, v)

(* The market and its books, but for what is still to be handled. *)
MarketAt(m, k) ==
  m # Ix!NoMarket => /\ IsMarket(m)
                     /\ ~ToggleAfter(k) => (m.openVintage # None <=> vintageOpen)
                     /\ ~RefreshAfter(k) => /\ m.status = status
                                            /\ status = "Resolved" => m.winner = winner
BooksAt(m, bs, k) ==
  /\ \A w \in DOMAIN bs : IsBook(bs[w])
  /\ m # Ix!NoMarket /\ ~RefreshAfter(k) =>
       /\ DOMAIN bs = Outcomes
       /\ \A w \in Outcomes : /\ bs[w].headroom = Headroom(books[w])
                              /\ bs[w].acc = books[w].acc

(* The index agrees with the settler once the first k logs are handled. *)
Agree(m, bs, qs, vs, k) ==
  /\ k > 0 => m # Ix!NoMarket
  /\ HoldingsAt(qs, k) /\ PreviewsAt(qs, k) /\ VintagesAt(qs, vs)
  /\ MarketAt(m, k) /\ BooksAt(m, bs, k)

RelAt(ix, k) == IsStore(ix) /\ Agree(ix.market, ix.books, ix.positions, ix.vintages, k)

Known(ix) == ix.market # Ix!NoMarket

(* Each log of the block is right about the settler as the block leaves it,
   but for what a later log of the block says. *)
EnteredOK(j) ==
  LET e == log[j]  p == positions[e.id] IN
  /\ e.id \in 1..Count /\ e.outcome = p.outcome /\ e.vintage = p.vintage
  /\ ~EnteredAfter(j, e.id)
  /\ ~MovedAfter(j, e.id) => e.owner = p.owner
  /\ status = "Open" /\ now < ResolutionTime
  /\ IF e.vintage = 0 THEN p.finalized /\ CreatedAfter(j)
     ELSE ~p.finalized /\ vintageOpen /\ e.vintage = blockNo /\ vintageBlock = blockNo
MovedOK(j) ==
  LET e == log[j]  p == positions[e.id] IN
  /\ e.id \in 1..Count /\ ~EnteredAfter(j, e.id)
  /\ ~MovedAfter(j, e.id) => e.to = p.owner
ClaimedOK(j) ==
  LET e == log[j]  p == positions[e.id] IN
  /\ e.id \in 1..Count /\ ~EnteredAfter(j, e.id)
  /\ e.payout > 0 \/ e.refund = 0 => p.claimed
  /\ e.refund > 0 => p.refunded
FinalOK(j) ==
  LET v == log[j].vintage IN
  /\ v \in Nat /\ 1 <= v /\ v < blockNo
  /\ \E i \in 1..Count : positions[i].vintage = v
  /\ \A i \in 1..Count : positions[i].vintage = v => positions[i].finalized
  /\ ~ToggleAfter(j) => ~vintageOpen

Kinds == {"MarketCreated", "Entered", "VintageFinalized", "Claimed", "Resolved", "Voided",
          "ResidueClaimed", "PositionTransferred", "SpecRegistered", "FeedResolved",
          "VoidedStale", "MarketOpened"}

EventOK(j) ==
  /\ log[j].ev \in Kinds
  /\ log[j].ev = "Entered" => EnteredOK(j)
  /\ log[j].ev = "PositionTransferred" => MovedOK(j)
  /\ log[j].ev = "Claimed" => ClaimedOK(j)
  /\ log[j].ev = "VintageFinalized" => FinalOK(j)

IsLog(l) == Len(l) \in Nat /\ l = [j \in 1..Len(l) |-> l[j]]

(* The logs of the block in progress.  Before the index knows a market, the
   first log is the one of a seed leg. *)
LogInv ==
  /\ IsLog(log)
  /\ \A j \in 1..Len(log) : EventOK(j)
  /\ ~Known(index) => /\ ~ToggleAfter(0) => ~vintageOpen
                      /\ log = <<>> => status = "None"
                      /\ log # <<>> => log[1].ev = "Entered" /\ log[1].vintage = 0
  /\ status = "None" => log = <<>> /\ ~Known(index)
  /\ opening => N <= Count
  /\ vintageOpen => vintageBlock >= 1 /\ \E i \in 1..Count : ~positions[i].finalized

(* Nothing is handled yet of the block in progress. *)
IndexRel == RelAt(index, 0)

(* y is a store with this market, these books, positions and vintages. *)
Holds(y, m, b, p, v) ==
  IsStore(y) /\ y.market = m /\ y.books = b /\ y.positions = p /\ y.vintages = v

LEMMA SetMarket ==
  ASSUME NEW y, NEW m, NEW b, NEW p, NEW v, Holds(y, m, b, p, v), NEW z
  PROVE  Holds([y EXCEPT !.market = z], z, b, p, v)
BY DEF Holds, IsStore
LEMMA SetBooks ==
  ASSUME NEW y, NEW m, NEW b, NEW p, NEW v, Holds(y, m, b, p, v), NEW z
  PROVE  Holds([y EXCEPT !.books = z], m, z, p, v)
BY DEF Holds, IsStore
LEMMA SetPositions ==
  ASSUME NEW y, NEW m, NEW b, NEW p, NEW v, Holds(y, m, b, p, v), NEW z
  PROVE  Holds([y EXCEPT !.positions = z], m, b, z, v)
BY DEF Holds, IsStore
LEMMA SetVintages ==
  ASSUME NEW y, NEW m, NEW b, NEW p, NEW v, Holds(y, m, b, p, v), NEW z
  PROVE  Holds([y EXCEPT !.vintages = z], m, b, p, z)
BY DEF Holds, IsStore
LEMMA SetAgents ==
  ASSUME NEW y, NEW m, NEW b, NEW p, NEW v, Holds(y, m, b, p, v), NEW z
  PROVE  Holds([y EXCEPT !.agents = z], m, b, p, v)
BY DEF Holds, IsStore
LEMMA SetLinks ==
  ASSUME NEW y, NEW m, NEW b, NEW p, NEW v, Holds(y, m, b, p, v), NEW z
  PROVE  Holds([y EXCEPT !.links = z], m, b, p, v)
BY DEF Holds, IsStore
LEMMA SetDays ==
  ASSUME NEW y, NEW m, NEW b, NEW p, NEW v, Holds(y, m, b, p, v), NEW z
  PROVE  Holds([y EXCEPT !.days = z], m, b, p, v)
BY DEF Holds, IsStore
LEMMA SetDayAgents ==
  ASSUME NEW y, NEW m, NEW b, NEW p, NEW v, Holds(y, m, b, p, v), NEW z
  PROVE  Holds([y EXCEPT !.dayAgents = z], m, b, p, v)
BY DEF Holds, IsStore
LEMMA SetSpecLinks ==
  ASSUME NEW y, NEW m, NEW b, NEW p, NEW v, Holds(y, m, b, p, v), NEW z
  PROVE  Holds([y EXCEPT !.specLinks = z], m, b, p, v)
BY DEF Holds, IsStore
LEMMA SetProtocol ==
  ASSUME NEW y, NEW m, NEW b, NEW p, NEW v, Holds(y, m, b, p, v), NEW z
  PROVE  Holds([y EXCEPT !.protocol = z], m, b, p, v)
BY DEF Holds, IsStore

(* The totals, agents, links and days: they touch neither the market nor its
   books, positions and vintages. *)
LEMMA AgentHolds ==
  ASSUME NEW y, NEW m, NEW b, NEW p, NEW v, Holds(y, m, b, p, v), NEW a
  PROVE  Holds(Ix!GetOrCreateAgent(y, a), m, b, p, v)
BY SetAgents, SetProtocol DEF Ix!GetOrCreateAgent
LEMMA AttachHolds ==
  ASSUME NEW y, NEW m, NEW b, NEW p, NEW v, Holds(y, m, b, p, v), NEW a
  PROVE  Holds(Ix!AttachAgentToMarket(y, a), m, b, p, v)
BY SetLinks, SetAgents DEF Ix!AttachAgentToMarket
LEMMA DetachHolds ==
  ASSUME NEW y, NEW m, NEW b, NEW p, NEW v, Holds(y, m, b, p, v), NEW a
  PROVE  Holds(Ix!DetachAgentFromMarket(y, a), m, b, p, v)
BY SetLinks, SetAgents DEF Ix!DetachAgentFromMarket
LEMMA DayHolds ==
  ASSUME NEW y, NEW m, NEW b, NEW p, NEW v, Holds(y, m, b, p, v), NEW d
  PROVE  Holds(Ix!GetOrCreateDayStat(y, d), m, b, p, v)
BY SetDays DEF Ix!GetOrCreateDayStat
LEMMA CountHolds ==
  ASSUME NEW y, NEW m, NEW b, NEW p, NEW v, Holds(y, m, b, p, v), NEW d, NEW a
  PROVE  Holds(Ix!CountUniqueAgent(y, d, a), m, b, p, v)
BY SetDays, SetDayAgents DEF Ix!CountUniqueAgent
LEMMA UncountHolds ==
  ASSUME NEW y, NEW m, NEW b, NEW p, NEW v, Holds(y, m, b, p, v), NEW d, NEW a
  PROVE  Holds(Ix!UncountUniqueAgent(y, d, a), m, b, p, v)
BY SetDays, SetDayAgents DEF Ix!UncountUniqueAgent
LEMMA ConduitHolds ==
  ASSUME NEW y, NEW m, NEW b, NEW p, NEW v, Holds(y, m, b, p, v), NEW a
  PROVE  Holds(Ix!DropConduitAgent(y, a), m, b, p, v)
BY SetAgents, SetProtocol DEF Ix!DropConduitAgent
LEMMA HandOverHolds ==
  ASSUME NEW y, NEW m, NEW b, NEW p, NEW v, Holds(y, m, b, p, v), NEW q, NEW a, NEW c
  PROVE  Holds(Ix!HandOver(y, q, a, c), m, b, p, v)
BY SetAgents, CountHolds, UncountHolds, ConduitHolds DEF Ix!HandOver

(* The edits of the market, its books, its positions and its vintages. *)
LEMMA MarketHolds ==
  ASSUME NEW y, NEW m, NEW b, NEW p, NEW v, Holds(y, m, b, p, v), NEW e
  PROVE  IF m # Ix!NoMarket THEN Ix!GetOrCreateMarket(y, e) = y
         ELSE \E m2 : /\ Holds(Ix!GetOrCreateMarket(y, e), m2, b, p, v)
                      /\ IsMarket(m2) /\ m2.openVintage = None /\ m2 # Ix!NoMarket
<1>1. CASE m # Ix!NoMarket
  BY <1>1 DEF Ix!GetOrCreateMarket, Holds
<1> DEFINE new == [n |-> 0, status |-> "Open", winner |-> None, acceptedPool |-> 0,
                      paidOut |-> 0, residue |-> 0, residueClaimed |-> FALSE,
                      openVintage |-> None, opener |-> None, spec |-> None,
                      resolvedPrice |-> None, voidedStaleAge |-> None, createdAt |-> e.day]
<1>2. CASE m = Ix!NoMarket
  <2> DEFINE s == [y EXCEPT !.market = new]
  <2>1. Holds(s, new, b, p, v)
    BY SetMarket
  <2>3. \E z : Ix!GetOrCreateMarket(y, e) = [s EXCEPT !.protocol = z]
    BY <1>2, Zenon DEF Ix!GetOrCreateMarket, Holds
  <2>4. Holds(Ix!GetOrCreateMarket(y, e), new, b, p, v)
    <3> HIDE DEF new, s
    <3> QED BY <2>1, <2>3, SetProtocol
  <2>5. IsMarket(new) /\ new.openVintage = None
    BY DEF IsMarket
  <2>6. new # Ix!NoMarket
    <3>1. "n" \in DOMAIN new
      OBVIOUS
    <3>2. DOMAIN Ix!NoMarket = {}
      BY DEF Ix!NoMarket
    <3> QED BY <3>1, <3>2
  <2> HIDE DEF new
  <2> QED BY <1>2, <2>4, <2>5, <2>6
<1> QED BY <1>1, <1>2

SyncedBooks(b, c) ==
  [w \in DOMAIN c.books |-> Ix!ApplyBook(Ix!Get(b, w, Ix!NewBook), c.books[w], c.acceptedPool)]
LEMMA SyncHolds ==
  ASSUME NEW y, NEW m, NEW b, NEW p, NEW v, Holds(y, m, b, p, v), NEW c
  PROVE  Holds(Ix!SyncMarket(y, c), Ix!ApplyMarketState(m, c), SyncedBooks(b, c), p, v)
<1>1. y.books = b /\ y.market = m
  BY DEF Holds
<1> QED BY <1>1, SetMarket, SetBooks DEF Ix!SyncMarket, SyncedBooks

Bumped(b, w) == Ix!Put(b, w, [Ix!Get(b, w, Ix!NewBook) EXCEPT !.positionCount = @ + 1])
LEMMA BumpHolds ==
  ASSUME NEW y, NEW m, NEW b, NEW p, NEW v, Holds(y, m, b, p, v), NEW w
  PROVE  Holds(Ix!BumpBookPositionCount(y, w), m, Bumped(b, w), p, v)
<1>1. y.books = b
  BY DEF Holds
<1> QED BY <1>1, SetBooks DEF Ix!BumpBookPositionCount, Bumped

Refreshed(y, p) ==
  [i \in DOMAIN p |-> [p[i] EXCEPT !.previewPayout = Ix!PreviewPayout(y, p[i])]]
LEMMA RefreshHolds ==
  ASSUME NEW y, NEW m, NEW b, NEW p, NEW v, Holds(y, m, b, p, v)
  PROVE  Holds(Ix!RefreshPreviews(y), m, b, Refreshed(y, p), v)
<1>1. y.positions = p
  BY SMTT(30) DEF Holds
<1> QED BY <1>1, SetPositions DEF Ix!RefreshPreviews, Refreshed

LEMMA EntryHolds ==
  ASSUME NEW y, NEW m, NEW b, NEW p, NEW v, Holds(y, m, b, p, v), NEW e
  PROVE  Holds(Ix!RecordEntry(y, e), m, Bumped(b, e.outcome), Ix!Put(p, e.id, Ix!NewPosition(e)), v)
<1> DEFINE a == Ix!GetOrCreateAgent(y, e.owner)
           s == [a EXCEPT !.positions = Ix!Put(@, e.id, Ix!NewPosition(e)),
                !.agents[e.owner].totalOffered = @ + e.offered,
                !.protocol.positionCount = @ + 1]
           t == Ix!BumpBookPositionCount(Ix!AttachAgentToMarket(s, e.owner), e.outcome)
           q == Ix!Put(p, e.id, Ix!NewPosition(e))
<1>1. Holds(a, m, b, p, v) /\ a.positions = p
  BY AgentHolds DEF Holds
<1>2. Holds(s, m, b, q, v)
  <2> HIDE DEF a
  <2> QED BY <1>1, SetPositions, SetAgents, SetProtocol
<1> HIDE DEF s
<1>3. Holds(t, m, Bumped(b, e.outcome), q, v)
  BY <1>2, AttachHolds, BumpHolds
<1> HIDE DEF t
<1>4. Holds(Ix!CountUniqueAgent([Ix!GetOrCreateDayStat(t, e.day) EXCEPT
                   !.days[e.day].offered = @ + e.offered, !.days[e.day].entries = @ + 1],
                  e.day, e.owner), m, Bumped(b, e.outcome), q, v)
  BY <1>3, DayHolds, SetDays, CountHolds
<1> QED BY <1>4, Zenon DEF Ix!RecordEntry, t, s

Booked(p, i, accepted, entryAcc) ==
  [p EXCEPT ![i] = [p[i] EXCEPT !.accepted = accepted, !.entryAcc = entryAcc,
             !.refused = Ix!SaturatingSub(p[i].offered, accepted), !.finalized = TRUE]]
LEMMA AcceptanceHolds ==
  ASSUME NEW y, NEW m, NEW b, NEW p, NEW v, Holds(y, m, b, p, v), NEW i, NEW a, NEW e
  PROVE  Holds(Ix!RecordAcceptance(y, i, a, e), m, b, Booked(p, i, a, e), v)
<1>1. y.positions = p
  BY DEF Holds
<1> DEFINE t == Ix!GetOrCreateDayStat(y, p[i].createdAt)
<1>2. Holds(t, m, b, p, v) /\ t.positions = p
  BY DayHolds DEF Holds
<1> HIDE DEF t
<1> DEFINE s == [t EXCEPT !.positions = Booked(p, i, a, e)]
<1>3. Holds(s, m, b, Booked(p, i, a, e), v)
  BY <1>2, SetPositions
<1>4. PICK z1, z2, z3, z4 : Ix!RecordAcceptance(y, i, a, e)
         = [[[[s EXCEPT !.agents = z1] EXCEPT !.days = z2] EXCEPT !.days = z3] EXCEPT !.protocol = z4]
  BY <1>1, <1>2, Zenon DEF Ix!RecordAcceptance, Booked, t
<1> HIDE DEF s
<1>5. Holds([[s EXCEPT !.agents = z1] EXCEPT !.days = z2], m, b, Booked(p, i, a, e), v)
  BY <1>3, SetAgents, SetDays
<1>6. Holds([[[[s EXCEPT !.agents = z1] EXCEPT !.days = z2] EXCEPT !.days = z3] EXCEPT !.protocol = z4],
            m, b, Booked(p, i, a, e), v)
  BY <1>5, SetDays, SetProtocol
<1> QED BY <1>4, <1>6

LEMMA OwnershipHolds ==
  ASSUME NEW y, NEW m, NEW b, NEW p, NEW v, Holds(y, m, b, p, v), NEW i, NEW from, NEW to
  PROVE  Holds(Ix!MoveOwnership(y, i, from, to), m, b, [p EXCEPT ![i].owner = to], v)
<1>1. y.positions = p
  BY DEF Holds
<1> QED BY <1>1, SetPositions, AttachHolds, DetachHolds DEF Ix!MoveOwnership

Moved(p, i, to) == IF p[i].owner = to THEN p ELSE [p EXCEPT ![i].owner = to]
LEMMA TransferHolds ==
  ASSUME NEW y, NEW m, NEW b, NEW p, NEW v, Holds(y, m, b, p, v), NEW i, NEW to, NEW tx
  PROVE  Holds(Ix!RecordTransfer(y, i, to, tx), m, b, Moved(p, i, to), v)
<1>1. y.positions = p
  BY DEF Holds
<1>2. Holds(Ix!GetOrCreateAgent(y, to), m, b, p, v)
  BY AgentHolds
<1> QED BY <1>1, <1>2, OwnershipHolds, HandOverHolds DEF Ix!RecordTransfer, Moved

SettledBy(p, i, payout, refund, settled) ==
  [p EXCEPT ![i] = [p[i] EXCEPT !.refundWithdrawn = @ \/ refund > 0,
                                !.payout = @ + payout, !.claimed = @ \/ settled]]
LEMMA SettlementHolds ==
  ASSUME NEW y, NEW m, NEW b, NEW p, NEW v, Holds(y, m, b, p, v),
         NEW i, NEW payout, NEW refund, NEW settled
  PROVE  Holds(Ix!RecordSettlement(y, i, payout, refund, settled), m, b,
               SettledBy(p, i, payout, refund, settled), v)
<1>1. y.positions = p
  BY DEF Holds
<1> DEFINE s == [y EXCEPT !.positions = SettledBy(p, i, payout, refund, settled)]
<1>2. Holds(s, m, b, SettledBy(p, i, payout, refund, settled), v)
  BY SetPositions
<1>3. PICK z1, z2, z3 : Ix!RecordSettlement(y, i, payout, refund, settled)
         = [[[s EXCEPT !.protocol = z1] EXCEPT !.agents = z2] EXCEPT !.agents = z3]
  BY <1>1, Zenon DEF Ix!RecordSettlement, SettledBy
<1> HIDE DEF s
<1>4. Holds([s EXCEPT !.protocol = z1], m, b, SettledBy(p, i, payout, refund, settled), v)
  BY <1>2, SetProtocol
<1>5. Holds([[[s EXCEPT !.protocol = z1] EXCEPT !.agents = z2] EXCEPT !.agents = z3],
            m, b, SettledBy(p, i, payout, refund, settled), v)
  BY <1>4, SetAgents
<1> QED BY <1>3, <1>5

(* What is proved of the settler alone. *)
ChainInv == IInv /\ BatchInv /\ MoneyInv /\ EntryInv

(* What the settler promises of a stake. *)
StakeOK(p) ==
  /\ p.finalized \in BOOLEAN /\ p.refunded \in BOOLEAN /\ p.claimed \in BOOLEAN
  /\ p.outcome \in Outcomes /\ p.vintage \in Nat /\ p.offered \in Nat
  /\ p.accepted \in Nat /\ p.entryAcc \in Nat /\ p.entryAcc <= books[p.outcome].acc
  /\ ~p.finalized => ~p.refunded
  /\ status = "Open" => ~p.claimed

(* What a stake of an open or settled market looks like. *)
LEMMA ChainStakes ==
  ASSUME ChainInv, status # "None"
  PROVE  /\ Count \in Nat /\ Count = Len(positions)
         /\ \A i \in 1..Count : StakeOK(positions[i])
         /\ \A w \in Outcomes : books[w].acc \in Nat
         /\ DOMAIN books = Outcomes
         /\ status \in {"Open", "Resolved", "Voided"}
<1>1. LedgerType /\ LedgerOK(books, positions, acceptedPool, pending)
  BY LedgerTyped DEF ChainInv
<1>2. Count \in Nat /\ Count = Len(positions)
  BY <1>1, CountNat DEF Count
<1>3. ASSUME NEW i \in 1..Count PROVE StakeOK(positions[i])
  <2>1. positions[i] \in Position
    BY <1>1, PositionAt
  <2>2. positions[i].entryAcc <= books[positions[i].outcome].acc
    BY <1>1, <1>2 DEF LedgerOK, PendingOK
  <2>3. ~positions[i].finalized => ~positions[i].refunded
    BY <1>2 DEF ChainInv, MoneyInv, RefundOK
  <2>4. status = "Open" => ~positions[i].claimed
    BY <1>2 DEF ChainInv, MoneyInv, OpenMoney
  <2> QED BY <2>1, <2>2, <2>3, <2>4 DEF StakeOK, Position
<1>4. \A w \in Outcomes : books[w].acc \in Nat
  BY <1>1, BookAt
<1>5. DOMAIN books = Outcomes
  BY <1>1 DEF LedgerType
<1>6. status \in {"Open", "Resolved", "Voided"}
  BY DEF ChainInv, IInv, TypeOK
<1> QED BY <1>2, <1>3, <1>4, <1>5, <1>6

(* One log handled: what the others still have to say. *)
LEMMA AfterNext ==
  ASSUME NEW k \in Nat, k < Len(log), Len(log) \in Nat
  PROVE  /\ \A i : EnteredAfter(k, i) <=>
              (log[k+1].ev = "Entered" /\ log[k+1].id = i) \/ EnteredAfter(k+1, i)
         /\ \A i : MovedAfter(k, i) <=>
              (log[k+1].ev = "PositionTransferred" /\ log[k+1].id = i) \/ MovedAfter(k+1, i)
         /\ \A i : ClaimedAfter(k, i) <=>
              (log[k+1].ev = "Claimed" /\ log[k+1].id = i) \/ ClaimedAfter(k+1, i)
         /\ \A i : RefundAfter(k, i) <=>
              (log[k+1].ev = "Claimed" /\ log[k+1].id = i /\ log[k+1].refund > 0) \/ RefundAfter(k+1, i)
         /\ \A v : FinalAfter(k, v) <=>
              (log[k+1].ev = "VintageFinalized" /\ log[k+1].vintage = v) \/ FinalAfter(k+1, v)
         /\ RefreshAfter(k) <=>
              (log[k+1].ev \in {"MarketCreated", "VintageFinalized", "Resolved", "Voided"}) \/ RefreshAfter(k+1)
         /\ ToggleAfter(k) <=>
              (log[k+1].ev = "VintageFinalized" \/ (log[k+1].ev = "Entered" /\ log[k+1].vintage # 0)) \/ ToggleAfter(k+1)
<1>1. \A j : j \in (k+1)..Len(log) <=> j = k + 1 \/ j \in (k+1+1)..Len(log)
  OBVIOUS
<1>2. \A i : EnteredAfter(k, i) <=>
        (log[k+1].ev = "Entered" /\ log[k+1].id = i) \/ EnteredAfter(k+1, i)
  BY <1>1 DEF EnteredAfter
<1>3. \A i : MovedAfter(k, i) <=>
        (log[k+1].ev = "PositionTransferred" /\ log[k+1].id = i) \/ MovedAfter(k+1, i)
  BY <1>1 DEF MovedAfter
<1>4. \A i : ClaimedAfter(k, i) <=>
        (log[k+1].ev = "Claimed" /\ log[k+1].id = i) \/ ClaimedAfter(k+1, i)
  BY <1>1 DEF ClaimedAfter
<1>5. \A i : RefundAfter(k, i) <=>
        (log[k+1].ev = "Claimed" /\ log[k+1].id = i /\ log[k+1].refund > 0) \/ RefundAfter(k+1, i)
  BY <1>1 DEF RefundAfter
<1>6. \A v : FinalAfter(k, v) <=>
        (log[k+1].ev = "VintageFinalized" /\ log[k+1].vintage = v) \/ FinalAfter(k+1, v)
  BY <1>1 DEF FinalAfter
<1>7. RefreshAfter(k) <=>
        (log[k+1].ev \in {"MarketCreated", "VintageFinalized", "Resolved", "Voided"}) \/ RefreshAfter(k+1)
  BY <1>1 DEF RefreshAfter
<1>8. ToggleAfter(k) <=>
        (log[k+1].ev = "VintageFinalized" \/ (log[k+1].ev = "Entered" /\ log[k+1].vintage # 0)) \/ ToggleAfter(k+1)
  BY <1>1 DEF ToggleAfter
<1> QED BY <1>2, <1>3, <1>4, <1>5, <1>6, <1>7, <1>8

ToggleOK(m, k) == ~ToggleAfter(k) => (m.openVintage # None <=> vintageOpen)
AllBooks(b) == \A w \in DOMAIN b : IsBook(b[w])

(* The market and the books, read back. *)
LEMMA Applied ==
  ASSUME NEW m, IsMarket(m)
  PROVE  LET m2 == Ix!ApplyMarketState(m, Chain) IN
         /\ IsMarket(m2) /\ m2 # Ix!NoMarket
         /\ m2.openVintage = m.openVintage /\ m2.status = status
         /\ status = "Resolved" => m2.winner = winner
<1> DEFINE m2 == Ix!ApplyMarketState(m, Chain)
<1>1. /\ IsMarket(m2) /\ m2.openVintage = m.openVintage /\ m2.status = status
      /\ status = "Resolved" => m2.winner = winner
  <2>1. PICK a1, a2, a3, a4, a5, a6, a7, a8, a9, b1, b2, b3, b4 :
          m = [n |-> a1, status |-> a2, winner |-> a3, acceptedPool |-> a4, paidOut |-> a5,
               residue |-> a6, residueClaimed |-> a7, openVintage |-> a8, opener |-> a9,
               spec |-> b1, resolvedPrice |-> b2, voidedStaleAge |-> b3, createdAt |-> b4]
    BY DEF IsMarket
  <2>2. Chain.status = status /\ Chain.winner = winner
    BY DEF Chain
  <2> DEFINE w == IF status = "Resolved" THEN winner ELSE m.winner
  <2>3. \E z1, z2, z3, z4 :
          m2 = [m EXCEPT !.n = z1, !.acceptedPool = z2, !.paidOut = z3, !.status = status,
                         !.winner = w, !.residue = z4]
    BY <2>2, Zenon DEF Ix!ApplyMarketState
  <2> HIDE DEF m2, w
  <2>4. PICK z1, z2, z3, z4 :
          m2 = [m EXCEPT !.n = z1, !.acceptedPool = z2, !.paidOut = z3, !.status = status,
                         !.winner = w, !.residue = z4]
    BY <2>3, Zenon
  <2>5. m2 = [n |-> z1, status |-> status, winner |-> w, acceptedPool |-> z2, paidOut |-> z3,
               residue |-> z4, residueClaimed |-> a7, openVintage |-> a8, opener |-> a9,
               spec |-> b1, resolvedPrice |-> b2, voidedStaleAge |-> b3, createdAt |-> b4]
    BY <2>1, <2>4
  <2> QED BY <2>1, <2>5 DEF IsMarket, w
<1>2. m2 # Ix!NoMarket
  <2>1. "n" \in DOMAIN m2
    BY <1>1 DEF IsMarket
  <2>2. DOMAIN Ix!NoMarket = {}
    BY DEF Ix!NoMarket
  <2> QED BY <2>1, <2>2
<1> QED BY <1>1, <1>2

LEMMA Synced ==
  ASSUME ChainInv, status # "None", NEW b
  PROVE  LET b2 == SyncedBooks(b, Chain) IN
         /\ DOMAIN b2 = Outcomes
         /\ \A w \in Outcomes : /\ IsBook(b2[w])
                                /\ b2[w].headroom = Headroom(books[w])
                                /\ b2[w].acc = books[w].acc
<1> DEFINE b2 == SyncedBooks(b, Chain)
<1>1. Chain.books = books
  BY DEF Chain
<1>2. DOMAIN b2 = Outcomes
  BY <1>1, ChainStakes DEF SyncedBooks
<1>3. ASSUME NEW w \in Outcomes
      PROVE  IsBook(b2[w]) /\ b2[w].headroom = Headroom(books[w]) /\ b2[w].acc = books[w].acc
  <2>1. PICK z : b2[w] = Ix!ApplyBook(z, books[w], Chain.acceptedPool)
    BY <1>1, <1>2 DEF SyncedBooks
  <2> HIDE DEF b2
  <2> QED BY <2>1 DEF Ix!ApplyBook, IsBook, Headroom, Ix!SaturatingSub
<1> QED BY <1>2, <1>3

(* The preview of a final stake, from a market and books read back. *)
LEMMA PreviewRight ==
  ASSUME ChainInv, status # "None", NEW y, NEW q, NEW i \in 1..Count, positions[i].finalized,
         y.market.status = status, status = "Resolved" => y.market.winner = winner,
         DOMAIN y.books = Outcomes, \A w \in Outcomes : y.books[w].acc = books[w].acc,
         q.outcome = positions[i].outcome, q.accepted = positions[i].accepted,
         q.entryAcc = positions[i].entryAcc
  PROVE  Ix!PreviewPayout(y, q) = Shown(positions[i])
<1> DEFINE p == positions[i]
<1>1. /\ p.outcome \in Outcomes /\ p.accepted \in Nat /\ p.entryAcc \in Nat
      /\ p.entryAcc <= books[p.outcome].acc /\ books[p.outcome].acc \in Nat
      /\ status \in {"Open", "Resolved", "Voided"}
  BY ChainStakes DEF StakeOK
<1>2. SCALE \in Nat /\ SCALE > 0
  BY ScaleAssumption
<1>3. PICK s, a, e, t : s = p.accepted /\ a = books[p.outcome].acc /\ e = p.entryAcc /\ t = s * (SCALE + a - e)
  OBVIOUS
<1>4. s = 0 => (s * (SCALE + a - e)) \div SCALE = 0
  <2>1. SCALE + a - e \in Int
    BY <1>1, <1>2, <1>3
  <2>2. s = 0 => s * (SCALE + a - e) = 0
    BY <2>1
  <2>3. 0 \div SCALE = 0
    BY <1>2
  <2> QED BY <2>2, <2>3
<1>5. /\ q.outcome = p.outcome /\ q.accepted = s /\ q.entryAcc = e
      /\ y.books[q.outcome].acc = a /\ q.outcome \in DOMAIN y.books /\ ~(a < e)
  BY <1>1, <1>3
<1>6. Ix!Vested
  BY DEF Ix!Vested
<1>7. /\ Payout(p) = (s * (SCALE + a - e)) \div SCALE
      /\ Settlement(p) = IF status = "Voided" THEN s
                         ELSE IF status = "Resolved" /\ p.outcome = winner /\ s > 0 THEN Payout(p) ELSE 0
  BY <1>3 DEF Payout, Weight, Settlement, Wins
<1>8. CASE status = "Voided"
  <2>1. Ix!PreviewPayout(y, q) = s
    BY <1>5, <1>6, <1>8 DEF Ix!PreviewPayout
  <2> QED BY <1>7, <1>8, <2>1 DEF Shown
<1>9. CASE status = "Resolved" /\ p.outcome # winner
  <2>1. Ix!PreviewPayout(y, q) = 0
    BY <1>5, <1>6, <1>9 DEF Ix!PreviewPayout
  <2> QED BY <1>7, <1>9, <2>1 DEF Shown
<1>10. CASE s = 0 /\ (status = "Open" \/ (status = "Resolved" /\ p.outcome = winner))
  <2>1. Ix!PreviewPayout(y, q) = 0
    BY <1>5, <1>6, <1>10 DEF Ix!PreviewPayout
  <2> QED BY <1>4, <1>7, <1>10, <2>1 DEF Shown
<1>11. CASE s # 0 /\ (status = "Open" \/ (status = "Resolved" /\ p.outcome = winner))
  <2>1. s > 0
    BY <1>1, <1>3, <1>11
  <2>2. Ix!PreviewPayout(y, q) = (s * (SCALE + a - e)) \div SCALE
    BY <1>5, <1>6, <1>11 DEF Ix!PreviewPayout
  <2> QED BY <1>7, <1>11, <2>1, <2>2 DEF Shown
<1> QED BY <1>1, <1>8, <1>9, <1>10, <1>11

(* A holding shown anew is otherwise what it was. *)
LEMMA PreviewOnly ==
  ASSUME NEW q, IsHolding(q), NEW z
  PROVE  LET q2 == [q EXCEPT !.previewPayout = z] IN
         /\ IsHolding(q2) /\ q2.owner = q.owner /\ q2.outcome = q.outcome
         /\ q2.accepted = q.accepted /\ q2.entryAcc = q.entryAcc /\ q2.vintage = q.vintage
         /\ q2.finalized = q.finalized /\ q2.claimed = q.claimed
         /\ q2.refundWithdrawn = q.refundWithdrawn /\ q2.previewPayout = z
<1>1. PICK a, b, c, d, e, f, g, h, i, j, k, l, m, n :
        /\ q = [owner |-> a, outcome |-> b, offered |-> c, accepted |-> d, refused |-> e,
                finalized |-> f, entryAcc |-> g, refundWithdrawn |-> h, claimed |-> i,
                payout |-> j, previewPayout |-> k, createdAt |-> l, createdTx |-> m, vintage |-> n]
        /\ f \in BOOLEAN /\ h \in BOOLEAN /\ i \in BOOLEAN
  BY DEF IsHolding
<1> QED BY ONLY <1>1 DEF IsHolding

(* Two lists of holdings that differ in nothing but what is shown. *)
SameHoldings(qs2, qs) ==
  /\ DOMAIN qs2 = DOMAIN qs
  /\ \A i \in DOMAIN qs :
       /\ IsHolding(qs2[i]) /\ qs2[i].owner = qs[i].owner /\ qs2[i].outcome = qs[i].outcome
       /\ qs2[i].accepted = qs[i].accepted /\ qs2[i].entryAcc = qs[i].entryAcc
       /\ qs2[i].vintage = qs[i].vintage /\ qs2[i].finalized = qs[i].finalized
       /\ qs2[i].claimed = qs[i].claimed /\ qs2[i].refundWithdrawn = qs[i].refundWithdrawn

(* Holdings that differ only in the previews. *)
LEMMA SameHoldingsKeep ==
  ASSUME NEW qs, NEW qs2, SameHoldings(qs2, qs), NEW vs, NEW k,
         HoldingsAt(qs, k), VintagesAt(qs, vs)
  PROVE  HoldingsAt(qs2, k) /\ VintagesAt(qs2, vs)
<1>1. HoldingsAt(qs2, k)
  BY DEF HoldingsAt, HoldingAt, SameHoldings
<1>2. ASSUME NEW v PROVE Waiting(qs2, v) = Waiting(qs, v)
  BY DEF Waiting, SameHoldings
<1>3. VintagesAt(qs2, vs)
  BY <1>2 DEF VintagesAt, SameHoldings
<1> QED BY <1>1, <1>3

LEMMA RefreshedSame ==
  ASSUME NEW y, NEW qs, \A i \in DOMAIN qs : IsHolding(qs[i])
  PROVE  /\ SameHoldings(Refreshed(y, qs), qs)
         /\ \A i \in DOMAIN qs : Refreshed(y, qs)[i].previewPayout = Ix!PreviewPayout(y, qs[i])
<1>1. DOMAIN Refreshed(y, qs) = DOMAIN qs
  BY DEF Refreshed
<1>2. ASSUME NEW i \in DOMAIN qs
      PROVE  Refreshed(y, qs)[i] = [qs[i] EXCEPT !.previewPayout = Ix!PreviewPayout(y, qs[i])]
  BY DEF Refreshed
<1> DEFINE qs2 == Refreshed(y, qs)
<1> HIDE DEF qs2
<1>3. ASSUME NEW i \in DOMAIN qs
      PROVE  /\ IsHolding(qs2[i]) /\ qs2[i].owner = qs[i].owner /\ qs2[i].outcome = qs[i].outcome
             /\ qs2[i].accepted = qs[i].accepted /\ qs2[i].entryAcc = qs[i].entryAcc
             /\ qs2[i].vintage = qs[i].vintage /\ qs2[i].finalized = qs[i].finalized
             /\ qs2[i].claimed = qs[i].claimed /\ qs2[i].refundWithdrawn = qs[i].refundWithdrawn
             /\ qs2[i].previewPayout = Ix!PreviewPayout(y, qs[i])
  <2>1. qs2[i] = [qs[i] EXCEPT !.previewPayout = Ix!PreviewPayout(y, qs[i])]
    BY <1>2 DEF qs2
  <2> QED BY <2>1, PreviewOnly
<1>4. DOMAIN qs2 = DOMAIN qs
  BY <1>1 DEF qs2
<1>5. SameHoldings(qs2, qs) /\ \A i \in DOMAIN qs : qs2[i].previewPayout = Ix!PreviewPayout(y, qs[i])
  BY <1>3, <1>4 DEF SameHoldings
<1> QED BY <1>5 DEF qs2

(* A market read back, whether the previews follow or not. *)
LEMMA SyncStep ==
  ASSUME ChainInv, status # "None", NEW y, NEW m, NEW b, NEW qs, NEW vs,
         Holds(y, m, b, qs, vs), IsMarket(m), NEW k, ToggleOK(m, k)
  PROVE  \E m2, b2 : /\ Holds(Ix!SyncMarket(y, Chain), m2, b2, qs, vs)
                     /\ IsMarket(m2) /\ m2 # Ix!NoMarket
                     /\ MarketAt(m2, k) /\ BooksAt(m2, b2, k)
                     /\ m2.status = status /\ (status = "Resolved" => m2.winner = winner)
                     /\ DOMAIN b2 = Outcomes /\ \A w \in Outcomes : b2[w].acc = books[w].acc
                     /\ m2.openVintage = m.openVintage
<1> DEFINE m2 == Ix!ApplyMarketState(m, Chain)
           b2 == SyncedBooks(b, Chain)
<1>1. Holds(Ix!SyncMarket(y, Chain), m2, b2, qs, vs)
  BY SyncHolds
<1>2. /\ IsMarket(m2) /\ m2 # Ix!NoMarket
      /\ m2.openVintage = m.openVintage /\ m2.status = status
      /\ status = "Resolved" => m2.winner = winner
  BY Applied
<1>3. /\ DOMAIN b2 = Outcomes
      /\ \A w \in Outcomes : /\ IsBook(b2[w]) /\ b2[w].headroom = Headroom(books[w])
                             /\ b2[w].acc = books[w].acc
  BY Synced
<1> HIDE DEF m2, b2
<1>4. MarketAt(m2, k) /\ BooksAt(m2, b2, k)
  BY <1>2, <1>3 DEF MarketAt, BooksAt, ToggleOK
<1> QED BY <1>1, <1>2, <1>3, <1>4

LEMMA RefreshStep ==
  ASSUME ChainInv, status # "None", NEW y, NEW m, NEW b, NEW qs, NEW vs,
         Holds(y, m, b, qs, vs), IsMarket(m), NEW k, ToggleOK(m, k),
         HoldingsAt(qs, k), VintagesAt(qs, vs)
  PROVE  RelAt(Ix!RefreshPreviews(Ix!SyncMarket(y, Chain)), k)
<1> DEFINE s == Ix!SyncMarket(y, Chain)
<1>1. PICK m2, b2 : /\ Holds(s, m2, b2, qs, vs)
                    /\ IsMarket(m2) /\ m2 # Ix!NoMarket
                    /\ MarketAt(m2, k) /\ BooksAt(m2, b2, k)
                    /\ m2.status = status /\ (status = "Resolved" => m2.winner = winner)
                    /\ DOMAIN b2 = Outcomes /\ \A w \in Outcomes : b2[w].acc = books[w].acc
  BY SyncStep
<1> HIDE DEF s
<1> DEFINE qs2 == Refreshed(s, qs)
<1>2. Holds(Ix!RefreshPreviews(s), m2, b2, qs2, vs)
  BY <1>1, RefreshHolds
<1>3. /\ SameHoldings(qs2, qs)
      /\ \A i \in DOMAIN qs : qs2[i].previewPayout = Ix!PreviewPayout(s, qs[i])
  BY RefreshedSame DEF HoldingsAt
<1>4. HoldingsAt(qs2, k) /\ VintagesAt(qs2, vs)
  BY <1>3, SameHoldingsKeep
<1>5. ASSUME NEW i \in DOMAIN qs2, qs2[i].finalized
      PROVE  qs2[i].previewPayout = Shown(positions[i])
  <2>1. i \in DOMAIN qs /\ qs[i].finalized /\ i \in 1..Count
    BY <1>3, <1>5 DEF SameHoldings, HoldingsAt
  <2>2. /\ positions[i].finalized /\ qs[i].outcome = positions[i].outcome
        /\ qs[i].accepted = positions[i].accepted /\ qs[i].entryAcc = positions[i].entryAcc
    BY <2>1 DEF HoldingsAt, HoldingAt
  <2>3. s.market = m2 /\ s.books = b2
    BY <1>1 DEF Holds
  <2>4. Ix!PreviewPayout(s, qs[i]) = Shown(positions[i])
    BY <1>1, <2>1, <2>2, <2>3, PreviewRight
  <2> QED BY <1>3, <2>1, <2>4
<1> HIDE DEF qs2
<1>6. PreviewsAt(qs2, k)
  BY <1>5 DEF PreviewsAt
<1>7. RelAt(Ix!RefreshPreviews(s), k)
  BY <1>1, <1>2, <1>4, <1>6 DEF RelAt, Agree, Holds
<1> QED BY <1>7 DEF s

(* x is the index after k logs of the block. *)
At(x, k) ==
  /\ ChainInv /\ LogInv
  /\ k \in 0..(Len(log) - 1)
  /\ k = 0 => x = index
  /\ RelAt(x, k)

(* What can be used of the settler and the index in the middle of a block. *)
LEMMA AtFacts ==
  ASSUME NEW x, NEW k, At(x, k)
  PROVE  /\ ChainInv /\ status # "None"
         /\ k \in Nat /\ k < Len(log) /\ Len(log) \in Nat /\ k + 1 \in 1..Len(log) /\ k + 1 > 0
         /\ EventOK(k + 1)
         /\ Holds(x, x.market, x.books, x.positions, x.vintages)
         /\ Agree(x.market, x.books, x.positions, x.vintages, k)
         /\ log[k+1].ev # "Entered" => Known(x)
         /\ ~Known(x) => /\ log[k+1].ev = "Entered" /\ log[k+1].vintage = 0
                         /\ ~ToggleAfter(0) => ~vintageOpen
                         /\ k = 0
<1>1. k \in Nat /\ k < Len(log) /\ Len(log) \in Nat /\ k + 1 \in 1..Len(log)
  BY DEF At, LogInv, IsLog
<1>2. log # <<>>
  BY <1>1
<1>3. status # "None" /\ EventOK(k + 1)
  BY <1>1, <1>2 DEF At, LogInv
<1>4. ASSUME ~Known(x) PROVE x = index /\ k = 0
  BY <1>1, <1>4 DEF At, RelAt, Agree, Known
<1>5. ~Known(x) => /\ log[k+1].ev = "Entered" /\ log[k+1].vintage = 0
                   /\ ~ToggleAfter(0) => ~vintageOpen
                   /\ k = 0
  BY <1>2, <1>4 DEF At, LogInv
<1> QED BY <1>1, <1>3, <1>5 DEF At, RelAt, Holds

LEMMA NotNothing ==
  ASSUME NEW m, IsMarket(m)
  PROVE  m # Ix!NoMarket
<1>1. "n" \in DOMAIN m
  BY DEF IsMarket
<1>2. DOMAIN Ix!NoMarket = {}
  BY DEF Ix!NoMarket
<1> QED BY <1>1, <1>2

(* Edits of a market that leave its status, its winner and its vintage alone. *)
SameMarket(m2, m) ==
  /\ IsMarket(m2) /\ m2.status = m.status /\ m2.winner = m.winner
  /\ m2.openVintage = m.openVintage

(* Edits of the market that leave its status, winner and open vintage alone. *)
LEMMA MarketEdits ==
  ASSUME NEW m0, NEW m, SameMarket(m, m0), NEW z
  PROVE  /\ SameMarket([m EXCEPT !.spec = z], m0)
         /\ SameMarket([m EXCEPT !.opener = z], m0)
         /\ SameMarket([m EXCEPT !.resolvedPrice = z], m0)
         /\ SameMarket([m EXCEPT !.voidedStaleAge = z], m0)
         /\ SameMarket([m EXCEPT !.residue = z], m0)
         /\ SameMarket([m EXCEPT !.residueClaimed = z], m0)
<1>1. PICK a1, a2, a3, a4, a5, a6, a7, a8, a9, b1, b2, b3, b4 :
          m = [n |-> a1, status |-> a2, winner |-> a3, acceptedPool |-> a4, paidOut |-> a5,
               residue |-> a6, residueClaimed |-> a7, openVintage |-> a8, opener |-> a9,
               spec |-> b1, resolvedPrice |-> b2, voidedStaleAge |-> b3, createdAt |-> b4]
  BY DEF SameMarket, IsMarket
<1>2. m0.status = a2 /\ m0.winner = a3 /\ m0.openVintage = a8
  BY <1>1 DEF SameMarket
<1> QED BY ONLY <1>1, <1>2 DEF SameMarket, IsMarket

LEMMA SettleEdits ==
  ASSUME NEW m, IsMarket(m), NEW z
  PROVE  /\ IsMarket([m EXCEPT !.status = z]) /\ [m EXCEPT !.status = z].openVintage = m.openVintage
         /\ IsMarket([m EXCEPT !.winner = z]) /\ [m EXCEPT !.winner = z].openVintage = m.openVintage
         /\ IsMarket([m EXCEPT !.openVintage = z]) /\ [m EXCEPT !.openVintage = z].openVintage = z
<1>1. PICK a1, a2, a3, a4, a5, a6, a7, a8, a9, b1, b2, b3, b4 :
          m = [n |-> a1, status |-> a2, winner |-> a3, acceptedPool |-> a4, paidOut |-> a5,
               residue |-> a6, residueClaimed |-> a7, openVintage |-> a8, opener |-> a9,
               spec |-> b1, resolvedPrice |-> b2, voidedStaleAge |-> b3, createdAt |-> b4]
  BY DEF IsMarket
<1> QED BY ONLY <1>1 DEF IsMarket

-----------------------------------------------------------------------------
(* Logs that say nothing of positions, books or status.                      *)

Quiet == {"SpecRegistered", "FeedResolved", "VoidedStale", "MarketOpened", "ResidueClaimed"}

(* Logs that leave the holdings, the vintages and the books alone. *)
LEMMA QuietAfter ==
  ASSUME NEW x, NEW k, At(x, k), log[k+1].ev \in Quiet
  PROVE  /\ \A i : EnteredAfter(k, i) <=> EnteredAfter(k+1, i)
         /\ \A i : MovedAfter(k, i) <=> MovedAfter(k+1, i)
         /\ \A i : ClaimedAfter(k, i) <=> ClaimedAfter(k+1, i)
         /\ \A i : RefundAfter(k, i) <=> RefundAfter(k+1, i)
         /\ \A v : FinalAfter(k, v) <=> FinalAfter(k+1, v)
         /\ RefreshAfter(k) <=> RefreshAfter(k+1)
         /\ ToggleAfter(k) <=> ToggleAfter(k+1)
<1>1. k \in Nat /\ k < Len(log) /\ Len(log) \in Nat
  BY AtFacts
<1>2. /\ log[k+1].ev # "Entered" /\ log[k+1].ev # "PositionTransferred"
      /\ log[k+1].ev # "Claimed" /\ log[k+1].ev # "VintageFinalized"
      /\ log[k+1].ev \notin {"MarketCreated", "VintageFinalized", "Resolved", "Voided"}
  BY DEF Quiet
<1> QED BY <1>1, <1>2, AfterNext

LEMMA QuietHoldings ==
  ASSUME NEW x, NEW k, At(x, k), log[k+1].ev \in Quiet
  PROVE  HoldingsAt(x.positions, k+1) /\ PreviewsAt(x.positions, k+1)
<1>1. HoldingsAt(x.positions, k) /\ PreviewsAt(x.positions, k)
  BY AtFacts DEF Agree
<1>2. HoldingsAt(x.positions, k+1)
  BY <1>1, QuietAfter DEF HoldingsAt, HoldingAt
<1>3. PreviewsAt(x.positions, k+1)
  BY <1>1, QuietAfter DEF PreviewsAt
<1> QED BY <1>2, <1>3

LEMMA QuietKeeps ==
  ASSUME NEW x, NEW k, At(x, k), log[k+1].ev \in Quiet, NEW y, NEW m,
         Holds(y, m, x.books, x.positions, x.vintages), SameMarket(m, x.market)
  PROVE  RelAt(y, k+1)
<1>1. Agree(x.market, x.books, x.positions, x.vintages, k) /\ Known(x)
  BY AtFacts DEF Quiet
<1>2. HoldingsAt(x.positions, k+1) /\ PreviewsAt(x.positions, k+1) /\ VintagesAt(x.positions, x.vintages)
  BY <1>1, QuietHoldings DEF Agree
<1>3. m # Ix!NoMarket
  BY NotNothing DEF SameMarket
<1>4. MarketAt(m, k+1) /\ BooksAt(m, x.books, k+1)
  BY <1>1, QuietAfter DEF Agree, MarketAt, BooksAt, SameMarket, Known
<1> QED BY <1>2, <1>3, <1>4 DEF RelAt, Agree, Holds

LEMMA QuietStep ==
  ASSUME NEW x, NEW k, At(x, k), log[k+1].ev \in Quiet \ {"ResidueClaimed"}
  PROVE  RelAt(Ix!Handle(x, log[k+1], Chain), k+1)
<1> DEFINE e == log[k+1]
<1>1. /\ Holds(x, x.market, x.books, x.positions, x.vintages)
      /\ SameMarket(x.market, x.market) /\ e.ev \in Quiet
  BY AtFacts DEF Agree, MarketAt, SameMarket, Known, Quiet
<1>2. CASE Ix!Unknown(x, e)
  BY <1>1, <1>2, QuietKeeps DEF Ix!Handle
<1>3. CASE ~Ix!Unknown(x, e) /\ e.ev = "SpecRegistered"
  <2> DEFINE s == [x EXCEPT !.market.spec = e.spec]
             t == [s EXCEPT !.specLinks = @ \cup {e.spec}]
             m == [x.market EXCEPT !.spec = e.spec]
  <2>1. SameMarket(m, x.market)
    BY <1>1, MarketEdits
  <2>2. Holds(s, m, x.books, x.positions, x.vintages)
    BY <1>1, SetMarket
  <2>3. Holds(t, m, x.books, x.positions, x.vintages)
    <3> HIDE DEF s, m
    <3> QED BY <2>2, SetSpecLinks
  <2>4. Ix!Handle(x, e, Chain) = t
    BY <1>3 DEF Ix!Handle, Ix!HandleSpecRegistered
  <2> QED BY <1>1, <2>1, <2>3, <2>4, QuietKeeps
<1>4. CASE ~Ix!Unknown(x, e) /\ e.ev = "FeedResolved"
  <2>1. SameMarket([x.market EXCEPT !.resolvedPrice = e.price], x.market)
    BY <1>1, MarketEdits
  <2>2. Ix!Handle(x, e, Chain) = [x EXCEPT !.market.resolvedPrice = e.price]
    BY <1>4 DEF Ix!Handle, Ix!HandleFeedResolved
  <2>3. Holds([x EXCEPT !.market.resolvedPrice = e.price], [x.market EXCEPT !.resolvedPrice = e.price],
              x.books, x.positions, x.vintages)
    BY <1>1, SetMarket
  <2> QED BY <1>1, <2>1, <2>2, <2>3, QuietKeeps
<1>5. CASE ~Ix!Unknown(x, e) /\ e.ev = "VoidedStale"
  <2>1. SameMarket([x.market EXCEPT !.voidedStaleAge = e.age], x.market)
    BY <1>1, MarketEdits
  <2>2. Ix!Handle(x, e, Chain) = [x EXCEPT !.market.voidedStaleAge = e.age]
    BY <1>5 DEF Ix!Handle, Ix!HandleVoidedStale
  <2>3. Holds([x EXCEPT !.market.voidedStaleAge = e.age], [x.market EXCEPT !.voidedStaleAge = e.age],
              x.books, x.positions, x.vintages)
    BY <1>1, SetMarket
  <2> QED BY <1>1, <2>1, <2>2, <2>3, QuietKeeps
<1>6. CASE ~Ix!Unknown(x, e) /\ e.ev = "MarketOpened"
  <2> DEFINE m == [x.market EXCEPT !.opener = e.opener]
             m2 == [m EXCEPT !.spec = e.spec]
             s == [x EXCEPT !.market = m]
             t == [s EXCEPT !.market = m2]
  <2>1. SameMarket(m2, x.market)
    BY <1>1, MarketEdits
  <2>2. Holds(s, m, x.books, x.positions, x.vintages)
    BY <1>1, SetMarket
  <2>3. Ix!Handle(x, e, Chain) = [s EXCEPT !.market.spec = e.spec]
    BY <1>6 DEF Ix!Handle, Ix!HandleMarketOpened
  <2>4. s.market = m
    BY <2>2 DEF Holds
  <2>5. Ix!Handle(x, e, Chain) = t
    <3> HIDE DEF s, m
    <3> QED BY <2>3, <2>4
  <2>6. Holds(t, m2, x.books, x.positions, x.vintages)
    <3> HIDE DEF s, m, m2
    <3> QED BY <2>2, SetMarket
  <2> HIDE DEF t, m2
  <2> QED BY <1>1, <2>1, <2>5, <2>6, QuietKeeps
<1> QED BY <1>2, <1>3, <1>4, <1>5, <1>6 DEF Quiet

(* ResidueClaimed. *)
LEMMA ResidueStep ==
  ASSUME NEW x, NEW k, At(x, k), log[k+1].ev = "ResidueClaimed"
  PROVE  RelAt(Ix!Handle(x, log[k+1], Chain), k+1)
<1> DEFINE e == log[k+1]
           s == Ix!SyncMarket(x, Chain)
<1>1. /\ ChainInv /\ status # "None" /\ Known(x) /\ e.ev \in Quiet /\ k + 1 > 0
      /\ Holds(x, x.market, x.books, x.positions, x.vintages)
      /\ Agree(x.market, x.books, x.positions, x.vintages, k)
  BY AtFacts DEF Quiet
<1>2. IsMarket(x.market) /\ ToggleOK(x.market, k+1)
  BY <1>1, QuietAfter DEF Agree, MarketAt, Known, ToggleOK
<1>3. HoldingsAt(x.positions, k+1) /\ PreviewsAt(x.positions, k+1) /\ VintagesAt(x.positions, x.vintages)
  BY <1>1, QuietHoldings DEF Agree
<1>4. PICK m2, b2 : /\ Holds(s, m2, b2, x.positions, x.vintages)
                    /\ IsMarket(m2) /\ m2 # Ix!NoMarket
                    /\ MarketAt(m2, k+1) /\ BooksAt(m2, b2, k+1)
  BY <1>1, <1>2, SyncStep
<1>5. Ix!Handle(x, e, Chain) = [s EXCEPT !.market.residue = e.amount, !.market.residueClaimed = TRUE]
  BY <1>1 DEF Ix!Handle, Ix!HandleResidueClaimed, Ix!Unknown, Known
<1> HIDE DEF s
<1> DEFINE m3 == [m2 EXCEPT !.residue = e.amount]
           m4 == [m3 EXCEPT !.residueClaimed = TRUE]
           t == [s EXCEPT !.market = m3]
           u == [t EXCEPT !.market = m4]
<1>6. SameMarket(m4, m2)
  <2>1. SameMarket(m2, m2)
    BY <1>4 DEF SameMarket
  <2>2. SameMarket(m3, m2)
    BY <2>1, MarketEdits
  <2> HIDE DEF m3
  <2> QED BY <2>2, MarketEdits
<1>7. Holds(t, m3, b2, x.positions, x.vintages) /\ t.market = m3
  <2>1. Holds(t, m3, b2, x.positions, x.vintages)
    BY <1>4, SetMarket
  <2> HIDE DEF t
  <2> QED BY <2>1 DEF Holds
<1>8. s.market = m2
  BY <1>4 DEF Holds
<1>9. Ix!Handle(x, e, Chain) = [t EXCEPT !.market.residueClaimed = TRUE]
  BY <1>5, <1>8
<1>10. Ix!Handle(x, e, Chain) = u
  <2> HIDE DEF t, m3
  <2> QED BY <1>7, <1>9
<1>11. Holds(u, m4, b2, x.positions, x.vintages)
  <2> HIDE DEF t, m4
  <2> QED BY <1>7, SetMarket
<1> HIDE DEF u, m4
<1>12. MarketAt(m4, k+1) /\ BooksAt(m4, b2, k+1) /\ m4 # Ix!NoMarket
  <2>1. m4 # Ix!NoMarket
    BY <1>6, NotNothing DEF SameMarket
  <2> QED BY <1>4, <1>6, <2>1 DEF MarketAt, BooksAt, SameMarket
<1>13. RelAt(u, k+1)
  BY <1>3, <1>11, <1>12 DEF RelAt, Agree, Holds
<1> QED BY <1>10, <1>13

-----------------------------------------------------------------------------
(* A claim or a refund.                                                      *)

LEMMA SettledRecord ==
  ASSUME NEW q, NEW r, NEW z, NEW s,
         NEW a, NEW b, NEW c, NEW d, NEW e, NEW f, NEW g, NEW h, NEW i, NEW j, NEW k, NEW l,
         NEW m, NEW n,
         q = [owner |-> a, outcome |-> b, offered |-> c, accepted |-> d, refused |-> e,
              finalized |-> f, entryAcc |-> g, refundWithdrawn |-> h, claimed |-> i,
              payout |-> j, previewPayout |-> k, createdAt |-> l, createdTx |-> m, vintage |-> n],
         NEW q2, q2 = [q EXCEPT !.refundWithdrawn = r, !.payout = z, !.claimed = s]
  PROVE  q2 = [owner |-> a, outcome |-> b, offered |-> c, accepted |-> d, refused |-> e,
              finalized |-> f, entryAcc |-> g, refundWithdrawn |-> r, claimed |-> s,
              payout |-> z, previewPayout |-> k, createdAt |-> l, createdTx |-> m, vintage |-> n]
OBVIOUS

(* A holding after a settlement log. *)
SettledFrom(q2, q, settled, refund) ==
  /\ IsHolding(q2) /\ q2.owner = q.owner /\ q2.outcome = q.outcome
  /\ q2.accepted = q.accepted /\ q2.entryAcc = q.entryAcc /\ q2.vintage = q.vintage
  /\ q2.finalized = q.finalized /\ q2.previewPayout = q.previewPayout
  /\ q2.claimed = (q.claimed \/ settled)
  /\ q2.refundWithdrawn = (q.refundWithdrawn \/ refund > 0)

Paid(q, r, z, s) == [q EXCEPT !.refundWithdrawn = r, !.payout = z, !.claimed = s]

LEMMA SettledOnly ==
  ASSUME NEW q, IsHolding(q), NEW z, NEW r, r \in BOOLEAN, NEW s, s \in BOOLEAN
  PROVE  /\ IsHolding(Paid(q, r, z, s)) /\ Paid(q, r, z, s).owner = q.owner
         /\ Paid(q, r, z, s).outcome = q.outcome /\ Paid(q, r, z, s).accepted = q.accepted
         /\ Paid(q, r, z, s).entryAcc = q.entryAcc /\ Paid(q, r, z, s).vintage = q.vintage
         /\ Paid(q, r, z, s).finalized = q.finalized
         /\ Paid(q, r, z, s).previewPayout = q.previewPayout
         /\ Paid(q, r, z, s).claimed = s /\ Paid(q, r, z, s).refundWithdrawn = r
<1> DEFINE q2 == Paid(q, r, z, s)
<1>1. PICK a, b, c, d, e, f, g, h, i, j, k, l, m, n :
        /\ q = [owner |-> a, outcome |-> b, offered |-> c, accepted |-> d, refused |-> e,
                finalized |-> f, entryAcc |-> g, refundWithdrawn |-> h, claimed |-> i,
                payout |-> j, previewPayout |-> k, createdAt |-> l, createdTx |-> m, vintage |-> n]
        /\ f \in BOOLEAN /\ h \in BOOLEAN /\ i \in BOOLEAN
  BY DEF IsHolding
<1>2. r \in BOOLEAN /\ s \in BOOLEAN
  OBVIOUS
<1>3. q2 = [q EXCEPT !.refundWithdrawn = r, !.payout = z, !.claimed = s]
  BY DEF Paid
<1> HIDE DEF q2
<1>5. q2 = [owner |-> a, outcome |-> b, offered |-> c, accepted |-> d, refused |-> e,
                finalized |-> f, entryAcc |-> g, refundWithdrawn |-> r, claimed |-> s,
                payout |-> z, previewPayout |-> k, createdAt |-> l, createdTx |-> m, vintage |-> n]
  BY <1>1, <1>3, SettledRecord, Zenon
<1>6. /\ IsHolding(q2) /\ q2.owner = q.owner /\ q2.outcome = q.outcome
         /\ q2.accepted = q.accepted /\ q2.entryAcc = q.entryAcc /\ q2.vintage = q.vintage
         /\ q2.finalized = q.finalized /\ q2.previewPayout = q.previewPayout
         /\ q2.claimed = s /\ q2.refundWithdrawn = r
  BY ONLY <1>1, <1>2, <1>5 DEF IsHolding
<1> QED BY <1>6 DEF q2

LEMMA SettledList ==
  ASSUME NEW qs, NEW i, i \in DOMAIN qs, NEW payout, NEW refund, NEW settled,
         IsHolding(qs[i])
  PROVE  LET qs2 == SettledBy(qs, i, payout, refund, settled) IN
         /\ DOMAIN qs2 = DOMAIN qs
         /\ SettledFrom(qs2[i], qs[i], settled, refund)
         /\ \A j \in DOMAIN qs : j # i => qs2[j] = qs[j]
<1> DEFINE q == qs[i]
           r == q.refundWithdrawn \/ refund > 0
           s == q.claimed \/ settled
           z == q.payout + payout
           q2 == Paid(q, r, z, s)
           qs2 == SettledBy(qs, i, payout, refund, settled)
<1>1. qs2 = [qs EXCEPT ![i] = q2]
  BY DEF SettledBy, Paid
<1>2. r \in BOOLEAN /\ s \in BOOLEAN
  OBVIOUS
<1>3. r = (q.refundWithdrawn \/ refund > 0) /\ s = (q.claimed \/ settled)
  OBVIOUS
<1>4. IsHolding(q)
  OBVIOUS
<1> HIDE DEF r, s, z, qs2, q
<1>5. /\ IsHolding(q2) /\ q2.owner = q.owner /\ q2.outcome = q.outcome
      /\ q2.accepted = q.accepted /\ q2.entryAcc = q.entryAcc /\ q2.vintage = q.vintage
      /\ q2.finalized = q.finalized /\ q2.previewPayout = q.previewPayout
      /\ q2.claimed = s /\ q2.refundWithdrawn = r
  BY <1>2, <1>4, SettledOnly
<1> HIDE DEF q2
<1>6. SettledFrom(q2, q, settled, refund)
  BY <1>3, <1>5, Zenon DEF SettledFrom
<1>7. DOMAIN qs2 = DOMAIN qs /\ qs2[i] = q2 /\ \A j \in DOMAIN qs : j # i => qs2[j] = qs[j]
  BY <1>1, Zenon
<1>8. SettledFrom(qs2[i], q, settled, refund)
  BY <1>6, <1>7, Zenon
<1> QED BY <1>7, <1>8, Zenon DEF qs2, q

LEMMA ClaimedStep ==
  ASSUME NEW x, NEW k, At(x, k), log[k+1].ev = "Claimed"
  PROVE  RelAt(Ix!Handle(x, log[k+1], Chain), k+1)
<1> DEFINE e == log[k+1]
           i == e.id
           qs == x.positions
           settled == Ix!Settling(e, Chain)
           qs2 == SettledBy(qs, i, e.payout, e.refund, settled)
           y == Ix!RecordSettlement(x, i, e.payout, e.refund, settled)
<1>1. /\ ChainInv /\ status # "None" /\ Known(x) /\ k + 1 > 0
      /\ k \in Nat /\ k < Len(log) /\ Len(log) \in Nat
      /\ Holds(x, x.market, x.books, x.positions, x.vintages)
      /\ Agree(x.market, x.books, x.positions, x.vintages, k)
      /\ ClaimedOK(k+1)
  BY AtFacts DEF EventOK
<1>2. /\ \A j : EnteredAfter(k, j) <=> EnteredAfter(k+1, j)
      /\ \A j : MovedAfter(k, j) <=> MovedAfter(k+1, j)
      /\ \A j : ClaimedAfter(k, j) <=> i = j \/ ClaimedAfter(k+1, j)
      /\ \A j : RefundAfter(k, j) <=> (i = j /\ e.refund > 0) \/ RefundAfter(k+1, j)
      /\ \A v : FinalAfter(k, v) <=> FinalAfter(k+1, v)
      /\ RefreshAfter(k) <=> RefreshAfter(k+1)
      /\ ToggleAfter(k) <=> ToggleAfter(k+1)
  BY <1>1, AfterNext
<1>3. i \in DOMAIN qs /\ i \in 1..Count
  BY <1>1, <1>2 DEF ClaimedOK, Agree, HoldingsAt
<1>4. \A j \in 1..Count : positions[j].claimed \in BOOLEAN
  BY <1>1, ChainStakes DEF StakeOK
<1>5. /\ settled \in BOOLEAN
      /\ settled <=> e.payout > 0 \/ e.refund = 0 \/ positions[i].claimed
  BY <1>3, <1>4 DEF Ix!Settling, Chain
<1>6. HoldingsAt(qs, k) /\ PreviewsAt(qs, k) /\ VintagesAt(qs, x.vintages)
  BY <1>1 DEF Agree
<1> HIDE DEF settled, qs2
<1>7. /\ DOMAIN qs2 = DOMAIN qs
      /\ \A j \in DOMAIN qs :
              /\ IsHolding(qs2[j]) /\ qs2[j].owner = qs[j].owner /\ qs2[j].outcome = qs[j].outcome
              /\ qs2[j].accepted = qs[j].accepted /\ qs2[j].entryAcc = qs[j].entryAcc
              /\ qs2[j].vintage = qs[j].vintage /\ qs2[j].finalized = qs[j].finalized
              /\ qs2[j].previewPayout = qs[j].previewPayout
              /\ qs[j].claimed => qs2[j].claimed
              /\ qs2[j].claimed => qs[j].claimed \/ (j = i /\ settled)
              /\ j = i /\ settled => qs2[j].claimed
              /\ qs[j].refundWithdrawn => qs2[j].refundWithdrawn
              /\ qs2[j].refundWithdrawn => qs[j].refundWithdrawn \/ (j = i /\ e.refund > 0)
              /\ j = i /\ e.refund > 0 => qs2[j].refundWithdrawn
  <2>1. \A j \in DOMAIN qs : IsHolding(qs[j])
    BY <1>6 DEF HoldingsAt
  <2>2. /\ DOMAIN qs2 = DOMAIN qs
        /\ SettledFrom(qs2[i], qs[i], settled, e.refund)
        /\ \A j \in DOMAIN qs : j # i => qs2[j] = qs[j]
    <3>1. IsHolding(qs[i])
      BY <1>3, <2>1
    <3>2. i \in DOMAIN qs
      BY <1>3
    <3> HIDE DEF e, i, qs
    <3>3. qs2 = SettledBy(qs, i, e.payout, e.refund, settled)
      BY DEF qs2
    <3> QED BY ONLY <3>1, <3>2, <3>3, SettledList
  <2>3. ASSUME NEW j \in DOMAIN qs, j # i
        PROVE  qs2[j] = qs[j] /\ IsHolding(qs2[j])
    BY <2>1, <2>2, <2>3, SMTT(30)
  <2> QED BY <2>2, <2>3, Zenon DEF SettledFrom
<1>8. (settled => positions[i].claimed) /\ (positions[i].claimed => settled)
      /\ (e.refund > 0 => positions[i].refunded)
  BY <1>1, <1>5 DEF ClaimedOK
<1>9. HoldingsAt(qs2, k+1)
  <2>1. DOMAIN qs2 = {j \in 1..Count : ~EnteredAfter(k+1, j)}
    BY <1>2, <1>6, <1>7 DEF HoldingsAt
  <2>2. ASSUME NEW j \in DOMAIN qs2 PROVE IsHolding(qs2[j]) /\ HoldingAt(qs2[j], j, k+1)
    <3>1. IsHolding(qs2[j]) /\ HoldingAt(qs[j], j, k)
      BY <1>6, <1>7, <2>2, SMTT(30) DEF HoldingsAt
    <3>2. CASE j = i
      BY <1>2, <1>7, <1>8, <2>2, <3>1, <3>2 DEF HoldingAt
    <3>3. CASE j # i
      BY <1>2, <1>7, <2>2, <3>1, <3>3 DEF HoldingAt
    <3> QED BY <3>1, <3>2, <3>3
  <2> QED BY <2>1, <2>2 DEF HoldingsAt
<1>10. PreviewsAt(qs2, k+1)
  BY <1>2, <1>6, <1>7 DEF PreviewsAt
<1>11. VintagesAt(qs2, x.vintages)
  <2>1. \A v : Waiting(qs2, v) = Waiting(qs, v)
    BY <1>7 DEF Waiting
  <2> QED BY <1>6, <1>7, <2>1 DEF VintagesAt
<1>12. Holds(y, x.market, x.books, qs2, x.vintages)
  BY <1>1, SettlementHolds DEF qs2
<1>13. IsMarket(x.market) /\ ToggleOK(x.market, k+1)
  BY <1>1, <1>2 DEF Agree, MarketAt, Known, ToggleOK
<1>14. Ix!Handle(x, e, Chain) = Ix!SyncMarket(y, Chain)
  BY <1>1, <1>3 DEF Ix!Handle, Ix!HandleClaimedVested, Ix!Unknown, Known, Ix!Vested, settled
<1> HIDE DEF y
<1>15. PICK m2, b2 : /\ Holds(Ix!SyncMarket(y, Chain), m2, b2, qs2, x.vintages)
                     /\ IsMarket(m2) /\ m2 # Ix!NoMarket
                     /\ MarketAt(m2, k+1) /\ BooksAt(m2, b2, k+1)
  BY <1>1, <1>12, <1>13, SyncStep
<1>16. RelAt(Ix!SyncMarket(y, Chain), k+1)
  BY <1>9, <1>10, <1>11, <1>15 DEF RelAt, Agree, Holds
<1> QED BY <1>14, <1>16

-----------------------------------------------------------------------------
(* A transfer.                                                               *)

LEMMA OwnerOnly ==
  ASSUME NEW q, IsHolding(q), NEW z
  PROVE  LET q2 == [q EXCEPT !.owner = z] IN
         /\ IsHolding(q2) /\ q2.owner = z /\ q2.outcome = q.outcome
         /\ q2.accepted = q.accepted /\ q2.entryAcc = q.entryAcc /\ q2.vintage = q.vintage
         /\ q2.finalized = q.finalized /\ q2.claimed = q.claimed
         /\ q2.refundWithdrawn = q.refundWithdrawn /\ q2.previewPayout = q.previewPayout
<1>1. PICK a, b, c, d, e, f, g, h, i, j, k, l, m, n :
        /\ q = [owner |-> a, outcome |-> b, offered |-> c, accepted |-> d, refused |-> e,
                finalized |-> f, entryAcc |-> g, refundWithdrawn |-> h, claimed |-> i,
                payout |-> j, previewPayout |-> k, createdAt |-> l, createdTx |-> m, vintage |-> n]
        /\ f \in BOOLEAN /\ h \in BOOLEAN /\ i \in BOOLEAN
  BY DEF IsHolding
<1> QED BY ONLY <1>1 DEF IsHolding

LEMMA MovedStep ==
  ASSUME NEW x, NEW k, At(x, k), log[k+1].ev = "PositionTransferred"
  PROVE  RelAt(Ix!Handle(x, log[k+1], Chain), k+1)
<1> DEFINE e == log[k+1]
           i == e.id
           qs == x.positions
           qs2 == Moved(qs, i, e.to)
           y == Ix!RecordTransfer(x, i, e.to, e.tx)
<1>1. /\ ChainInv /\ status # "None" /\ Known(x) /\ k + 1 > 0
      /\ k \in Nat /\ k < Len(log) /\ Len(log) \in Nat
      /\ Holds(x, x.market, x.books, x.positions, x.vintages)
      /\ Agree(x.market, x.books, x.positions, x.vintages, k)
      /\ MovedOK(k+1)
  BY AtFacts DEF EventOK
<1>2. /\ \A j : EnteredAfter(k, j) <=> EnteredAfter(k+1, j)
      /\ \A j : MovedAfter(k, j) <=> i = j \/ MovedAfter(k+1, j)
      /\ \A j : ClaimedAfter(k, j) <=> ClaimedAfter(k+1, j)
      /\ \A j : RefundAfter(k, j) <=> RefundAfter(k+1, j)
      /\ \A v : FinalAfter(k, v) <=> FinalAfter(k+1, v)
      /\ RefreshAfter(k) <=> RefreshAfter(k+1)
      /\ ToggleAfter(k) <=> ToggleAfter(k+1)
  BY <1>1, AfterNext
<1>3. i \in DOMAIN qs /\ i \in 1..Count
  BY <1>1, <1>2 DEF MovedOK, Agree, HoldingsAt
<1>4. HoldingsAt(qs, k) /\ PreviewsAt(qs, k) /\ VintagesAt(qs, x.vintages)
  BY <1>1, SMTT(30) DEF Agree
<1>5. /\ DOMAIN qs2 = DOMAIN qs
      /\ \A j \in DOMAIN qs :
              /\ IsHolding(qs2[j]) /\ qs2[j].outcome = qs[j].outcome
              /\ qs2[j].owner = (IF j = i THEN e.to ELSE qs[j].owner)
              /\ qs2[j].accepted = qs[j].accepted /\ qs2[j].entryAcc = qs[j].entryAcc
              /\ qs2[j].vintage = qs[j].vintage /\ qs2[j].finalized = qs[j].finalized
              /\ qs2[j].previewPayout = qs[j].previewPayout
              /\ qs2[j].claimed = qs[j].claimed /\ qs2[j].refundWithdrawn = qs[j].refundWithdrawn
  <2>1. \A j \in DOMAIN qs : IsHolding(qs[j])
    BY <1>4 DEF HoldingsAt
  <2>2. CASE qs[i].owner = e.to
    BY <2>1, <2>2, SMTT(30) DEF Moved
  <2>3. CASE qs[i].owner # e.to
    <3> DEFINE q2 == [qs[i] EXCEPT !.owner = e.to]
    <3>1. qs2 = [qs EXCEPT ![i] = q2]
      BY <2>3 DEF Moved
    <3>2. /\ IsHolding(q2) /\ q2.owner = e.to /\ q2.outcome = qs[i].outcome
          /\ q2.accepted = qs[i].accepted /\ q2.entryAcc = qs[i].entryAcc /\ q2.vintage = qs[i].vintage
          /\ q2.finalized = qs[i].finalized /\ q2.claimed = qs[i].claimed
          /\ q2.refundWithdrawn = qs[i].refundWithdrawn /\ q2.previewPayout = qs[i].previewPayout
      BY <1>3, <2>1, OwnerOnly
    <3> HIDE DEF q2, qs2
    <3>3. DOMAIN qs2 = DOMAIN qs /\ qs2[i] = q2 /\ \A j \in DOMAIN qs : j # i => qs2[j] = qs[j]
      BY <1>3, <3>1
    <3> QED BY <2>1, <3>2, <3>3
  <2> QED BY <2>2, <2>3
<1> HIDE DEF qs2
<1>6. HoldingsAt(qs2, k+1)
  <2>1. DOMAIN qs2 = {j \in 1..Count : ~EnteredAfter(k+1, j)}
    BY <1>2, <1>4, <1>5 DEF HoldingsAt
  <2>2. ASSUME NEW j \in DOMAIN qs2 PROVE IsHolding(qs2[j]) /\ HoldingAt(qs2[j], j, k+1)
    <3>1. IsHolding(qs2[j]) /\ HoldingAt(qs[j], j, k)
      BY <1>4, <1>5, <2>2 DEF HoldingsAt
    <3>2. ~MovedAfter(k+1, i) => e.to = positions[i].owner
      BY <1>1 DEF MovedOK
    <3> QED BY <1>2, <1>5, <2>2, <3>1, <3>2 DEF HoldingAt
  <2> QED BY <2>1, <2>2 DEF HoldingsAt
<1>7. PreviewsAt(qs2, k+1)
  BY <1>2, <1>4, <1>5 DEF PreviewsAt
<1>8. VintagesAt(qs2, x.vintages)
  <2>1. \A v : Waiting(qs2, v) = Waiting(qs, v)
    BY <1>5 DEF Waiting
  <2> QED BY <1>4, <1>5, <2>1 DEF VintagesAt
<1>9. Holds(y, x.market, x.books, qs2, x.vintages)
  BY <1>1, TransferHolds DEF qs2
<1>10. MarketAt(x.market, k+1) /\ BooksAt(x.market, x.books, k+1)
  BY <1>1, <1>2 DEF Agree, MarketAt, BooksAt
<1>11. Ix!Handle(x, e, Chain) = y
  BY <1>1, <1>3 DEF Ix!Handle, Ix!Unknown, Known
<1> HIDE DEF y
<1>12. RelAt(y, k+1)
  BY <1>1, <1>6, <1>7, <1>8, <1>9, <1>10 DEF RelAt, Agree, Holds, Known
<1> QED BY <1>11, <1>12

-----------------------------------------------------------------------------
(* Logs after which the previews are shown anew, and nothing else changes.   *)

Settlers == {"MarketCreated", "Resolved", "Voided"}

LEMMA SettlerHoldings ==
  ASSUME NEW x, NEW k, At(x, k), log[k+1].ev \in Settlers
  PROVE  /\ HoldingsAt(x.positions, k+1) /\ VintagesAt(x.positions, x.vintages)
         /\ Known(x) /\ IsMarket(x.market) /\ ToggleOK(x.market, k+1)
<1>1. /\ k \in Nat /\ k < Len(log) /\ Len(log) \in Nat /\ Known(x)
      /\ Agree(x.market, x.books, x.positions, x.vintages, k)
  BY AtFacts DEF Settlers
<1>2. /\ log[k+1].ev # "Entered" /\ log[k+1].ev # "PositionTransferred"
      /\ log[k+1].ev # "Claimed" /\ log[k+1].ev # "VintageFinalized"
  BY DEF Settlers
<1>3. /\ \A i : EnteredAfter(k, i) <=> EnteredAfter(k+1, i)
      /\ \A i : MovedAfter(k, i) <=> MovedAfter(k+1, i)
      /\ \A i : ClaimedAfter(k, i) <=> ClaimedAfter(k+1, i)
      /\ \A i : RefundAfter(k, i) <=> RefundAfter(k+1, i)
      /\ \A v : FinalAfter(k, v) <=> FinalAfter(k+1, v)
      /\ ToggleAfter(k) <=> ToggleAfter(k+1)
  BY <1>1, <1>2, AfterNext
<1>4. HoldingsAt(x.positions, k+1)
  BY <1>1, <1>3 DEF Agree, HoldingsAt, HoldingAt
<1> QED BY <1>1, <1>3, <1>4 DEF Agree, MarketAt, Known, ToggleOK

LEMMA SettlerStep ==
  ASSUME NEW x, NEW k, At(x, k), log[k+1].ev \in Settlers
  PROVE  RelAt(Ix!Handle(x, log[k+1], Chain), k+1)
<1> DEFINE e == log[k+1]
           m == x.market
<1>1. /\ ChainInv /\ status # "None"
      /\ Holds(x, m, x.books, x.positions, x.vintages)
  BY AtFacts
<1>2. /\ HoldingsAt(x.positions, k+1) /\ VintagesAt(x.positions, x.vintages)
      /\ Known(x) /\ IsMarket(m) /\ ToggleOK(m, k+1)
  BY SettlerHoldings
<1>3. ~Ix!Unknown(x, e)
  BY <1>2 DEF Ix!Unknown, Known, Settlers
<1>4. CASE e.ev = "MarketCreated"
  <2>1. Ix!GetOrCreateMarket(x, e) = x
    BY <1>2 DEF Ix!GetOrCreateMarket, Known
  <2>2. Ix!Handle(x, e, Chain) = Ix!RefreshPreviews(Ix!SyncMarket(x, Chain))
    BY <1>3, <1>4, <2>1 DEF Ix!Handle, Ix!HandleMarketCreated
  <2> QED BY <1>1, <1>2, <2>2, RefreshStep
<1>5. CASE e.ev = "Resolved"
  <2> DEFINE m1 == [m EXCEPT !.status = "Resolved"]
             m2 == [m1 EXCEPT !.winner = e.winner]
             s == [x EXCEPT !.market = m1]
             t == [s EXCEPT !.market = m2]
  <2>1. IsMarket(m1) /\ m1.openVintage = m.openVintage
    BY <1>2, SettleEdits
  <2>2. IsMarket(m2) /\ m2.openVintage = m.openVintage
    <3> HIDE DEF m1
    <3> QED BY <2>1, SettleEdits
  <2>3. Holds(s, m1, x.books, x.positions, x.vintages)
    BY <1>1, SetMarket
  <2>4. s.market = m1
    BY <2>3 DEF Holds
  <2>5. Ix!Handle(x, e, Chain) = Ix!RefreshPreviews(Ix!SyncMarket([s EXCEPT !.market.winner = e.winner], Chain))
    BY <1>3, <1>5 DEF Ix!Handle, Ix!HandleResolved
  <2>6. [s EXCEPT !.market.winner = e.winner] = t
    <3> HIDE DEF s, m1
    <3> QED BY <2>4
  <2>7. Holds(t, m2, x.books, x.positions, x.vintages)
    <3> HIDE DEF s, m1, m2
    <3> QED BY <2>3, SetMarket
  <2>8. ToggleOK(m2, k+1)
    BY <1>2, <2>2 DEF ToggleOK
  <2> HIDE DEF t, m2, s
  <2> QED BY <1>1, <1>2, <2>2, <2>5, <2>6, <2>7, <2>8, RefreshStep
<1>6. CASE e.ev = "Voided"
  <2> DEFINE m1 == [m EXCEPT !.status = "Voided"]
             s == [x EXCEPT !.market = m1]
  <2>1. IsMarket(m1) /\ m1.openVintage = m.openVintage
    BY <1>2, SettleEdits
  <2>2. Holds(s, m1, x.books, x.positions, x.vintages)
    BY <1>1, SetMarket
  <2>3. Ix!Handle(x, e, Chain) = Ix!RefreshPreviews(Ix!SyncMarket(s, Chain))
    BY <1>3, <1>6 DEF Ix!Handle, Ix!HandleVoided
  <2>4. ToggleOK(m1, k+1)
    BY <1>2, <2>1 DEF ToggleOK
  <2> HIDE DEF s, m1
  <2> QED BY <1>1, <1>2, <2>1, <2>2, <2>3, <2>4, RefreshStep
<1> QED BY <1>4, <1>5, <1>6 DEF Settlers

(* The highest accumulator a batch entered at, and the booking of the entries of
   a vintage one after the other. *)
LEMMA GreatestNat ==
  ASSUME NEW n \in Nat, NEW S, S \subseteq 0..n, S # {}
  PROVE  /\ Ix!Max(S) \in S
         /\ \A x \in S : x <= Ix!Max(S)
<1> DEFINE T == {n - x : x \in S}
<1>0. \A x \in S : x \in Nat /\ n - x \in Nat
  OBVIOUS
<1>1. T \in SUBSET Nat /\ T # {}
  <2>1. T \subseteq Nat
    BY <1>0
  <2>2. PICK x : x \in S
    OBVIOUS
  <2>3. n - x \in T
    BY <2>2
  <2> QED BY <2>1, <2>3
<1>2. PICK t \in T : \A y \in T : t <= y
  BY <1>1, LeastNat
<1>3. PICK x \in S : t = n - x
  BY <1>2
<1>4. \A y \in S : y <= x
  <2> TAKE y \in S
  <2>1. n - y \in T
    OBVIOUS
  <2>2. x \in Nat /\ y \in Nat
    OBVIOUS
  <2> HIDE DEF T
  <2> QED BY <1>2, <1>3, <2>1, <2>2
<1>5. \A y \in S : x >= y
  <2> TAKE y \in S
  <2>1. x \in Nat /\ y \in Nat /\ y <= x
    BY <1>4
  <2> QED BY <2>1
<1>6. Ix!Max(S) \in S /\ \A y \in S : Ix!Max(S) >= y
  BY <1>5, Zenon DEF Ix!Max
<1>7. \A y \in S : y <= Ix!Max(S)
  <2> TAKE y \in S
  <2>1. Ix!Max(S) >= y /\ Ix!Max(S) \in Nat /\ y \in Nat
    BY <1>0, <1>6
  <2> QED BY <2>1
<1> QED BY <1>6, <1>7

(* The vintage's entries, accepted one after the other. *)
IsBooking(h, x, ids, n) ==
  h = [j \in 0..n |-> IF j = 0 THEN x
                      ELSE IF j \notin ids THEN h[j-1]
                      ELSE Ix!RecordAcceptance(h[j-1], j, Chain.positions[j].accepted,
                                               Chain.positions[j].entryAcc)]
LEMMA BookingExists ==
  ASSUME NEW x, NEW ids, NEW k \in Nat
  PROVE  \E h : IsBooking(h, x, ids, k)
<1> DEFINE S == {m \in Nat : \E h : IsBooking(h, x, ids, m)}
<1>1. 0 \in S
  <2>1. IsBooking([j \in 0..0 |-> x], x, ids, 0)  BY DEF IsBooking
  <2> QED BY <2>1
<1>2. ASSUME NEW n \in S PROVE n + 1 \in S
  <2>1. PICK h : IsBooking(h, x, ids, n)  BY <1>2
  <2>0. n \in Nat
    OBVIOUS
  <2> DEFINE next == IF n + 1 \notin ids THEN h[n]
                     ELSE Ix!RecordAcceptance(h[n], n + 1, Chain.positions[n + 1].accepted,
                                               Chain.positions[n + 1].entryAcc)
             t == [j \in 0..(n+1) |-> IF j = n + 1 THEN next ELSE h[j]]
  <2>2. ASSUME NEW j \in 0..(n+1)
        PROVE  t[j] = IF j = 0 THEN x
                      ELSE IF j \notin ids THEN t[j-1]
                      ELSE Ix!RecordAcceptance(t[j-1], j, Chain.positions[j].accepted,
                                               Chain.positions[j].entryAcc)
    <3> HIDE DEF next
    <3>1. CASE j = n + 1
      <4>1. t[j] = next /\ t[j-1] = h[n] /\ j # 0
        BY <2>0, <3>1
      <4> QED BY <3>1, <4>1 DEF next
    <3>2. CASE j # n + 1
      <4>1. j \in 0..n /\ t[j] = h[j] /\ (j # 0 => t[j-1] = h[j-1])
        BY <2>0, <3>2
      <4> HIDE DEF t
      <4>2. h[j] = IF j = 0 THEN x
                      ELSE IF j \notin ids THEN h[j-1]
                      ELSE Ix!RecordAcceptance(h[j-1], j, Chain.positions[j].accepted,
                                               Chain.positions[j].entryAcc)
        BY <2>1, <4>1 DEF IsBooking
      <4> QED BY <4>1, <4>2
    <3> QED BY <3>1, <3>2
  <2>3. t = [j \in 0..(n+1) |-> t[j]]
    OBVIOUS
  <2> HIDE DEF t
  <2>4. IsBooking(t, x, ids, n + 1)
    BY <2>2, <2>3 DEF IsBooking
  <2> QED BY <2>0, <2>4
<1>3. S = Nat
  <2>1. S \in SUBSET Nat  OBVIOUS
  <2> HIDE DEF S
  <2> QED BY <1>1, <1>2, <2>1, SetInduction
<1> QED BY <1>3

(* A holding as its vintage is booked. *)
LEMMA BookRecord ==
  ASSUME NEW q, NEW x, NEW y, NEW z,
         NEW a, NEW b, NEW c, NEW d, NEW e, NEW f, NEW g, NEW h, NEW i, NEW j, NEW k, NEW l,
         NEW m, NEW n,
         q = [owner |-> a, outcome |-> b, offered |-> c, accepted |-> d, refused |-> e,
              finalized |-> f, entryAcc |-> g, refundWithdrawn |-> h, claimed |-> i,
              payout |-> j, previewPayout |-> k, createdAt |-> l, createdTx |-> m, vintage |-> n],
         NEW q2, q2 = [q EXCEPT !.accepted = x, !.entryAcc = y, !.refused = z, !.finalized = TRUE]
  PROVE  q2 = [owner |-> a, outcome |-> b, offered |-> c, accepted |-> x, refused |-> z,
              finalized |-> TRUE, entryAcc |-> y, refundWithdrawn |-> h, claimed |-> i,
              payout |-> j, previewPayout |-> k, createdAt |-> l, createdTx |-> m, vintage |-> n]
OBVIOUS

(* A holding booked at an acceptance. *)
BookedAs(q2, q, accepted, entryAcc) ==
  /\ IsHolding(q2) /\ q2.owner = q.owner /\ q2.outcome = q.outcome /\ q2.vintage = q.vintage
  /\ q2.accepted = accepted /\ q2.entryAcc = entryAcc /\ q2.finalized = TRUE
  /\ q2.claimed = q.claimed /\ q2.refundWithdrawn = q.refundWithdrawn

Accept4(q, x, y, z) == [q EXCEPT !.accepted = x, !.entryAcc = y, !.refused = z, !.finalized = TRUE]

LEMMA BookedOnly ==
  ASSUME NEW q, IsHolding(q), NEW x, NEW y, NEW z
  PROVE  BookedAs(Accept4(q, x, y, z), q, x, y)
<1> DEFINE q2 == Accept4(q, x, y, z)
<1>1. PICK a, b, c, d, e, f, g, h, i, j, k, l, m, n :
        /\ q = [owner |-> a, outcome |-> b, offered |-> c, accepted |-> d, refused |-> e,
                finalized |-> f, entryAcc |-> g, refundWithdrawn |-> h, claimed |-> i,
                payout |-> j, previewPayout |-> k, createdAt |-> l, createdTx |-> m, vintage |-> n]
        /\ f \in BOOLEAN /\ h \in BOOLEAN /\ i \in BOOLEAN
  BY DEF IsHolding
<1>2. q2 = [q EXCEPT !.accepted = x, !.entryAcc = y, !.refused = z, !.finalized = TRUE]
  BY DEF Accept4
<1> HIDE DEF q2
<1>3. q2 = [owner |-> a, outcome |-> b, offered |-> c, accepted |-> x, refused |-> z,
              finalized |-> TRUE, entryAcc |-> y, refundWithdrawn |-> h, claimed |-> i,
              payout |-> j, previewPayout |-> k, createdAt |-> l, createdTx |-> m, vintage |-> n]
  BY <1>1, <1>2, BookRecord, Zenon
<1>4. BookedAs(q2, q, x, y)
  BY ONLY <1>1, <1>3 DEF IsHolding, BookedAs
<1> QED BY <1>4 DEF q2

LEMMA BookedList ==
  ASSUME NEW p, NEW i, i \in DOMAIN p, IsHolding(p[i]), NEW a, NEW e
  PROVE  /\ DOMAIN Booked(p, i, a, e) = DOMAIN p
         /\ BookedAs(Booked(p, i, a, e)[i], p[i], a, e)
         /\ \A j \in DOMAIN p : j # i => Booked(p, i, a, e)[j] = p[j]
<1> DEFINE z == Ix!SaturatingSub(p[i].offered, a)
           q2 == Accept4(p[i], a, e, z)
           p2 == Booked(p, i, a, e)
<1>1. p2 = [p EXCEPT ![i] = q2]
  BY DEF Booked, Accept4
<1> HIDE DEF z
<1>2. BookedAs(q2, p[i], a, e)
  BY BookedOnly
<1> HIDE DEF q2, p2
<1>3. DOMAIN p2 = DOMAIN p /\ p2[i] = q2 /\ \A j \in DOMAIN p : j # i => p2[j] = p[j]
  BY <1>1, Zenon
<1> QED BY <1>2, <1>3 DEF p2

(* The holdings once the waiting entries up to n are booked. *)
BookedTo(q2, qs, ids, n) ==
  /\ DOMAIN q2 = DOMAIN qs
  /\ \A j \in DOMAIN qs :
       IF j \in ids /\ j <= n
       THEN BookedAs(q2[j], qs[j], Chain.positions[j].accepted, Chain.positions[j].entryAcc)
       ELSE q2[j] = qs[j]

(* The positions of ids booked with what the settler accepted, the others left. *)
BookedFor(q2, qs, ids) ==
  /\ DOMAIN q2 = DOMAIN qs
  /\ \A j \in DOMAIN qs :
       IF j \in ids
       THEN BookedAs(q2[j], qs[j], Chain.positions[j].accepted, Chain.positions[j].entryAcc)
       ELSE q2[j] = qs[j]

LEMMA AcceptHolds ==
  ASSUME NEW y, NEW m, NEW b, NEW qs, NEW v, Holds(y, m, b, qs, v),
         NEW ids, NEW k \in Nat, ids \subseteq 1..k, ids \subseteq DOMAIN qs,
         DOMAIN qs \subseteq Nat, \A j \in DOMAIN qs : IsHolding(qs[j])
  PROVE  \E q2 : Holds(Ix!AcceptPending(y, ids, Chain), m, b, q2, v) /\ BookedFor(q2, qs, ids)
<1> DEFINE n == Ix!Max(ids \cup {0})
           h == CHOOSE f : IsBooking(f, y, ids, n)
<1>1. n \in Nat /\ \A j \in ids : j <= n
  <2>1. ids \cup {0} \subseteq 0..k /\ ids \cup {0} # {}
    OBVIOUS
  <2>2. Ix!Max(ids \cup {0}) \in ids \cup {0} /\ \A x \in ids \cup {0} : x <= Ix!Max(ids \cup {0})
    BY <2>1, GreatestNat, Zenon
  <2>3. n \in 0..k
    BY <2>1, <2>2, Zenon
  <2>4. \A j \in ids : j <= n
    BY <2>2, Zenon
  <2> HIDE DEF n
  <2> QED BY <2>3, <2>4
<1> HIDE DEF n
<1>2. IsBooking(h, y, ids, n)
  BY <1>1, BookingExists
<1>3. Ix!AcceptPending(y, ids, Chain) = h[n]
  BY DEF Ix!AcceptPending, IsBooking, n
<1> HIDE DEF h
<1> DEFINE S == {j \in Nat : j <= n => \E q2 : Holds(h[j], m, b, q2, v) /\ BookedTo(q2, qs, ids, j)}
<1>4. 0 \in S
  <2>1. h[0] = y
    BY <1>1, <1>2 DEF IsBooking
  <2>2. BookedTo(qs, qs, ids, 0)
    <3>1. \A j \in DOMAIN qs : ~(j \in ids /\ j <= 0)
      OBVIOUS
    <3> QED BY <3>1 DEF BookedTo
  <2> QED BY <2>1, <2>2
<1>5. ASSUME NEW j \in S PROVE j + 1 \in S
  <2>0. j \in Nat
    OBVIOUS
  <2>1. SUFFICES ASSUME j + 1 <= n
                 PROVE  \E q2 : Holds(h[j+1], m, b, q2, v) /\ BookedTo(q2, qs, ids, j+1)
    BY <2>0
  <2>2. PICK q : Holds(h[j], m, b, q, v) /\ BookedTo(q, qs, ids, j)
    BY <1>1, <2>0, <2>1
  <2>3. h[j+1] = IF j + 1 \notin ids THEN h[j]
                 ELSE Ix!RecordAcceptance(h[j], j+1, Chain.positions[j+1].accepted,
                                               Chain.positions[j+1].entryAcc)
    <3>1. j + 1 \in 0..n /\ j + 1 # 0 /\ (j + 1) - 1 = j
      BY <1>1, <2>0, <2>1
    <3> QED BY <1>2, <3>1 DEF IsBooking
  <2>4. CASE j + 1 \notin ids
    <3>1. \A l \in DOMAIN qs : (l \in ids /\ l <= j + 1) <=> (l \in ids /\ l <= j)
      BY <2>0, <2>4
    <3>2. BookedTo(q, qs, ids, j + 1)
      BY <2>2, <3>1 DEF BookedTo
    <3> QED BY <2>2, <2>3, <2>4, <3>2
  <2>5. CASE j + 1 \in ids
    <3> DEFINE a == Chain.positions[j+1].accepted
               e == Chain.positions[j+1].entryAcc
               q2 == Booked(q, j + 1, a, e)
    <3>1. Holds(h[j+1], m, b, q2, v)
      <4> HIDE DEF a, e
      <4>1. Holds(Ix!RecordAcceptance(h[j], j+1, a, e), m, b, q2, v)
        BY <2>2, AcceptanceHolds
      <4> QED BY <2>3, <2>5, <4>1 DEF a, e
    <3>2. j + 1 \in DOMAIN qs /\ ~(j + 1 <= j) /\ DOMAIN q = DOMAIN qs
      BY <2>0, <2>2, <2>5 DEF BookedTo
    <3>3. q[j+1] = qs[j+1] /\ IsHolding(q[j+1])
      BY <2>2, <3>2 DEF BookedTo
    <3>4. /\ DOMAIN q2 = DOMAIN q
          /\ BookedAs(q2[j+1], q[j+1], a, e)
          /\ \A l \in DOMAIN q : l # j+1 => q2[l] = q[l]
      <4> HIDE DEF a, e
      <4> QED BY <3>2, <3>3, BookedList
    <3> HIDE DEF q2
    <3>5. BookedTo(q2, qs, ids, j + 1)
      <4>1. ASSUME NEW l \in DOMAIN qs
            PROVE  IF l \in ids /\ l <= j + 1
                   THEN BookedAs(q2[l], qs[l], Chain.positions[l].accepted, Chain.positions[l].entryAcc)
                   ELSE q2[l] = qs[l]
        <5>1. CASE l = j + 1
          BY <2>0, <2>5, <3>2, <3>3, <3>4, <5>1
        <5>2. CASE l # j + 1
          <6>1. (l \in ids /\ l <= j + 1) <=> (l \in ids /\ l <= j)
            BY <2>0, <5>2
          <6> QED BY <2>2, <3>2, <3>4, <5>2, <6>1 DEF BookedTo
        <5> QED BY <5>1, <5>2
      <4> QED BY <3>2, <3>4, <4>1 DEF BookedTo
    <3> QED BY <3>1, <3>5
  <2> QED BY <2>4, <2>5
<1>6. S = Nat
  <2>1. S \in SUBSET Nat  OBVIOUS
  <2> HIDE DEF S
  <2> QED BY <1>4, <1>5, <2>1, SetInduction
<1>7. PICK q2 : Holds(h[n], m, b, q2, v) /\ BookedTo(q2, qs, ids, n)
  BY <1>1, <1>6
<1>8. \A j \in DOMAIN qs :
                      IF j \in ids
                      THEN BookedAs(q2[j], qs[j], Chain.positions[j].accepted, Chain.positions[j].entryAcc)
                      ELSE q2[j] = qs[j]
  BY <1>1, <1>7 DEF BookedTo
<1>9. DOMAIN q2 = DOMAIN qs
  BY <1>7 DEF BookedTo
<1>10. BookedFor(q2, qs, ids)
  BY <1>8, <1>9 DEF BookedFor
<1> QED BY <1>3, <1>7, <1>10

Closed(vs, v, accepted) ==
  LET total == vs[v].accepted + accepted
  IN  [vs EXCEPT ![v] =
         [@ EXCEPT !.accepted = total, !.finalized = TRUE, !.pending = {},
                   !.rationed = Ix!SaturatingSub(vs[v].offered, total)]]

(* The vintage closed. *)
LEMMA CloseHolds ==
  ASSUME NEW y, NEW m, NEW b, NEW p, NEW vs, Holds(y, m, b, p, vs), NEW v, NEW a
  PROVE  Holds(Ix!CloseVintage(y, v, a), m, b, p, Closed(vs, v, a))
<1>1. y.vintages = vs
  BY DEF Holds
<1>2. Ix!CloseVintage(y, v, a) = [y EXCEPT !.vintages = Closed(vs, v, a)]
  BY <1>1 DEF Ix!CloseVintage, Closed
<1> QED BY <1>2, SetVintages

ClosedOne(w, x, y) == [w EXCEPT !.accepted = x, !.finalized = TRUE, !.pending = {}, !.rationed = y]
LEMMA ClosedOnly ==
  ASSUME NEW w, IsVintage(w), NEW x, NEW y
  PROVE  IsVintage(ClosedOne(w, x, y)) /\ ClosedOne(w, x, y).pending = {}
<1> DEFINE w2 == ClosedOne(w, x, y)
<1>1. PICK a, b, c, d, e, f :
        w = [offered |-> a, accepted |-> b, rationed |-> c, entryCount |-> d, finalized |-> e, pending |-> f]
  BY DEF IsVintage
<1>2. w2 = [w EXCEPT !.accepted = x, !.finalized = TRUE, !.pending = {}, !.rationed = y]
  BY DEF ClosedOne
<1> HIDE DEF w2
<1>3. w2 = [offered |-> a, accepted |-> x, rationed |-> y, entryCount |-> d, finalized |-> TRUE, pending |-> {}]
  BY <1>1, <1>2
<1>4. IsVintage(w2) /\ w2.pending = {}
  BY ONLY <1>3 DEF IsVintage
<1> QED BY <1>4 DEF w2

LEMMA ClosedList ==
  ASSUME NEW vs, NEW v, v \in DOMAIN vs, IsVintage(vs[v]), NEW a
  PROVE  /\ DOMAIN Closed(vs, v, a) = DOMAIN vs
         /\ IsVintage(Closed(vs, v, a)[v]) /\ Closed(vs, v, a)[v].pending = {}
         /\ \A w \in DOMAIN vs : w # v => Closed(vs, v, a)[w] = vs[w]
<1> DEFINE x == vs[v].accepted + a
           y == Ix!SaturatingSub(vs[v].offered, x)
           w2 == ClosedOne(vs[v], x, y)
           vs2 == Closed(vs, v, a)
<1>1. vs2 = [vs EXCEPT ![v] = w2]
  BY DEF Closed, ClosedOne
<1> HIDE DEF x, y
<1>2. IsVintage(w2) /\ w2.pending = {}
  BY ClosedOnly
<1> HIDE DEF w2, vs2
<1>3. DOMAIN vs2 = DOMAIN vs /\ vs2[v] = w2 /\ \A w \in DOMAIN vs : w # v => vs2[w] = vs[w]
  BY <1>1, Zenon
<1> QED BY <1>2, <1>3 DEF vs2

-----------------------------------------------------------------------------
(* The vintage a log says is final is one the index keeps.                   *)
LEMMA FinalKnown ==
  ASSUME NEW x, NEW k, At(x, k), log[k+1].ev = "VintageFinalized"
  PROVE  log[k+1].vintage \in DOMAIN x.vintages
<1> DEFINE v == log[k+1].vintage
<1>1. /\ ChainInv /\ k \in Nat /\ k < Len(log) /\ Len(log) \in Nat
      /\ Agree(x.market, x.books, x.positions, x.vintages, k) /\ FinalOK(k+1)
  BY AtFacts DEF EventOK
<1>2. v \in Nat /\ 1 <= v /\ v < blockNo
  BY <1>1 DEF FinalOK
<1>3. PICK i \in 1..Count : positions[i].vintage = v
  BY <1>1 DEF FinalOK
<1>4. blockNo \in Nat
  BY <1>1 DEF ChainInv, IInv, TypeOK
<1>5. ~EnteredAfter(k, i)
  <2> SUFFICES ASSUME EnteredAfter(k, i) PROVE FALSE
    OBVIOUS
  <2>1. PICK j \in (k+1)..Len(log) : log[j].ev = "Entered" /\ log[j].id = i
    BY DEF EnteredAfter
  <2>2. j \in 1..Len(log)
    BY <1>1
  <2>3. EnteredOK(j)
    BY <2>1, <2>2 DEF At, LogInv, EventOK
  <2>4. log[j].vintage = v /\ (log[j].vintage # 0 => log[j].vintage = blockNo)
    BY <1>3, <2>1, <2>3 DEF EnteredOK
  <2> QED BY <1>2, <1>4, <2>4
<1>6. i \in DOMAIN x.positions /\ x.positions[i].vintage = v
  BY <1>1, <1>3, <1>5 DEF Agree, HoldingsAt, HoldingAt
<1> QED BY <1>1, <1>6 DEF Agree, VintagesAt

LEMMA FinalStep ==
  ASSUME NEW x, NEW k, At(x, k), log[k+1].ev = "VintageFinalized"
  PROVE  RelAt(Ix!Handle(x, log[k+1], Chain), k+1)
<1> DEFINE e == log[k+1]
           v == e.vintage
           qs == x.positions
           vs == x.vintages
           m == x.market
           ids == vs[v].pending
           acc == Ix!AcceptedOf(ids, Chain)
           vs2 == Closed(vs, v, acc)
<1>1. /\ ChainInv /\ status # "None" /\ Known(x)
      /\ k \in Nat /\ k < Len(log) /\ Len(log) \in Nat
      /\ Holds(x, m, x.books, qs, vs)
      /\ Agree(m, x.books, qs, vs, k)
      /\ FinalOK(k+1)
  BY AtFacts DEF EventOK
<1>2. /\ \A j : EnteredAfter(k, j) <=> EnteredAfter(k+1, j)
      /\ \A j : MovedAfter(k, j) <=> MovedAfter(k+1, j)
      /\ \A j : ClaimedAfter(k, j) <=> ClaimedAfter(k+1, j)
      /\ \A j : RefundAfter(k, j) <=> RefundAfter(k+1, j)
      /\ \A w : FinalAfter(k, w) <=> w = v \/ FinalAfter(k+1, w)
  BY <1>1, AfterNext
<1>3. v \in DOMAIN vs
  BY FinalKnown
<1>4. HoldingsAt(qs, k) /\ VintagesAt(qs, vs)
  BY <1>1 DEF Agree
<1>5. IsVintage(vs[v]) /\ ids = Waiting(qs, v)
  BY <1>3, <1>4 DEF VintagesAt
<1>6. Count \in Nat /\ DOMAIN qs \subseteq 1..Count /\ ids \subseteq DOMAIN qs /\ ids \subseteq 1..Count
      /\ DOMAIN qs \subseteq Nat
  <2>1. Count \in Nat /\ DOMAIN qs \subseteq 1..Count
    BY <1>1, <1>4, ChainStakes DEF HoldingsAt
  <2>2. ids \subseteq DOMAIN qs
    BY <1>5 DEF Waiting
  <2> HIDE DEF ids
  <2> QED BY <2>1, <2>2
<1>7. \A j \in DOMAIN qs : IsHolding(qs[j])
  BY <1>4 DEF HoldingsAt
<1>8. Chain.positions = positions
  BY DEF Chain
<1> HIDE DEF ids, acc
<1>9. PICK q2 : /\ Holds(Ix!AcceptPending(x, ids, Chain), m, x.books, q2, vs)
                /\ DOMAIN q2 = DOMAIN qs
                /\ \A j \in DOMAIN qs :
                      IF j \in ids
                      THEN BookedAs(q2[j], qs[j], Chain.positions[j].accepted, Chain.positions[j].entryAcc)
                      ELSE q2[j] = qs[j]
  <2>1. Holds(x, m, x.books, qs, vs)
    BY <1>1
  <2> HIDE DEF qs, vs, m, v, vs2
  <2>2. \E q2 : Holds(Ix!AcceptPending(x, ids, Chain), m, x.books, q2, vs) /\ BookedFor(q2, qs, ids)
    BY ONLY <2>1, <1>6, <1>7, AcceptHolds
  <2> QED BY ONLY <2>2 DEF BookedFor
<1> DEFINE c == Ix!CloseVintage(Ix!AcceptPending(x, ids, Chain), v, acc)
           m2 == [m EXCEPT !.openVintage = None]
           y == [c EXCEPT !.market = m2]
<1>10. Holds(c, m, x.books, q2, vs2)
  <2> HIDE DEF v
  <2> QED BY <1>9, CloseHolds
<1>11. Ix!Handle(x, e, Chain) = Ix!RefreshPreviews(Ix!SyncMarket(y, Chain))
  <2>1. Ix!Handle(x, e, Chain) = Ix!HandleVintageFinalized(x, e, Chain)
    BY <1>1 DEF Ix!Handle, Ix!Unknown, Known
  <2>2. Ix!HandleVintageFinalized(x, e, Chain)
          = Ix!RefreshPreviews(Ix!SyncMarket([c EXCEPT !.market.openVintage = None], Chain))
    BY <1>3 DEF Ix!HandleVintageFinalized, ids, acc
  <2>3. [c EXCEPT !.market.openVintage = None] = y
    <3>1. c.market = m
      BY <1>10 DEF Holds
    <3> HIDE DEF c
    <3> QED BY <3>1
  <2> QED BY <2>1, <2>2, <2>3
<1> HIDE DEF c
<1>12. Holds(y, m2, x.books, q2, vs2)
  <2> HIDE DEF m2
  <2> QED BY <1>10, SetMarket
<1>13. IsMarket(m2) /\ m2.openVintage = None
  <2>1. IsMarket(m)
    BY <1>1 DEF Agree, MarketAt, Known
  <2> QED BY <2>1, SettleEdits
<1> HIDE DEF m2
<1>14. ToggleOK(m2, k+1)
  BY <1>1, <1>13 DEF ToggleOK, FinalOK
<1>15. /\ DOMAIN vs2 = DOMAIN vs
       /\ IsVintage(vs2[v]) /\ vs2[v].pending = {}
       /\ \A w \in DOMAIN vs : w # v => vs2[w] = vs[w]
  <2> HIDE DEF v
  <2> QED BY <1>3, <1>5, ClosedList
<1> HIDE DEF vs2
<1>16. ASSUME NEW j \in DOMAIN qs
       PROVE  /\ IsHolding(q2[j]) /\ q2[j].owner = qs[j].owner /\ q2[j].outcome = qs[j].outcome
              /\ q2[j].vintage = qs[j].vintage /\ q2[j].claimed = qs[j].claimed
              /\ q2[j].refundWithdrawn = qs[j].refundWithdrawn
              /\ qs[j].finalized => q2[j].finalized
              /\ qs[j].vintage = v => q2[j].finalized
              /\ qs[j].vintage # v => q2[j].finalized = qs[j].finalized
              /\ q2[j].finalized /\ ~qs[j].finalized =>
                    /\ qs[j].vintage = v
                    /\ q2[j].accepted = positions[j].accepted /\ q2[j].entryAcc = positions[j].entryAcc
              /\ qs[j].finalized => q2[j].accepted = qs[j].accepted /\ q2[j].entryAcc = qs[j].entryAcc
  <2>1. j \in ids <=> qs[j].vintage = v /\ ~qs[j].finalized
    BY <1>5 DEF Waiting
  <2>2. IsHolding(qs[j]) /\ qs[j].finalized \in BOOLEAN
    BY <1>7 DEF IsHolding
  <2>3. CASE j \in ids
    <3>1. BookedAs(q2[j], qs[j], positions[j].accepted, positions[j].entryAcc)
      BY <1>8, <1>9, <2>3
    <3> QED BY <2>1, <2>2, <2>3, <3>1 DEF BookedAs
  <2>4. CASE j \notin ids
    <3>1. q2[j] = qs[j]
      BY <1>9, <2>4
    <3> QED BY <2>1, <2>2, <2>4, <3>1
  <2> QED BY <2>3, <2>4
<1>17. HoldingsAt(q2, k+1)
  <2>1. DOMAIN q2 = {j \in 1..Count : ~EnteredAfter(k+1, j)}
    BY <1>2, <1>4, <1>9 DEF HoldingsAt
  <2>2. ASSUME NEW j \in DOMAIN q2 PROVE IsHolding(q2[j]) /\ HoldingAt(q2[j], j, k+1)
    <3>1. j \in DOMAIN qs /\ j \in 1..Count /\ HoldingAt(qs[j], j, k)
      BY <1>4, <1>6, <1>9, <2>2 DEF HoldingsAt
    <3>2. qs[j].vintage = v => positions[j].finalized
      BY <1>1, <3>1 DEF FinalOK, HoldingAt
    <3> QED BY <1>2, <1>16, <3>1, <3>2 DEF HoldingAt
  <2> QED BY <2>1, <2>2 DEF HoldingsAt
<1>18. VintagesAt(q2, vs2)
  <2>1. \A j \in DOMAIN q2 : q2[j].vintage \in DOMAIN vs2
    BY <1>4, <1>9, <1>15, <1>16 DEF VintagesAt
  <2>2. Waiting(q2, v) = {}
    BY <1>9, <1>16 DEF Waiting
  <2>3. ASSUME NEW w \in DOMAIN vs2, w # v PROVE IsVintage(vs2[w]) /\ vs2[w].pending = Waiting(q2, w)
    <3>1. Waiting(q2, w) = Waiting(qs, w)
      BY <1>9, <1>16, <2>3 DEF Waiting
    <3>2. vs2[w] = vs[w] /\ w \in DOMAIN vs
      BY <1>15, <2>3
    <3> QED BY <1>4, <3>1, <3>2 DEF VintagesAt
  <2> QED BY <1>15, <2>1, <2>2, <2>3 DEF VintagesAt
<1> HIDE DEF y
<1>19. RelAt(Ix!RefreshPreviews(Ix!SyncMarket(y, Chain)), k+1)
  BY <1>1, <1>12, <1>13, <1>14, <1>17, <1>18, RefreshStep
<1> QED BY <1>11, <1>19

-----------------------------------------------------------------------------
(* An entry.                                                                 *)

SameWaiting(vs2, vs) ==
  /\ DOMAIN vs2 = DOMAIN vs
  /\ \A w \in DOMAIN vs : IsVintage(vs2[w]) /\ vs2[w].pending = vs[w].pending

(* A vintage opened by an entry, and the entry itself. *)
LEMMA VintageEdits ==
  ASSUME NEW vs, NEW vs2, SameWaiting(vs2, vs), NEW v, v \in DOMAIN vs, NEW z
  PROVE  /\ SameWaiting([vs2 EXCEPT ![v].offered = z], vs)
         /\ SameWaiting([vs2 EXCEPT ![v].entryCount = z], vs)
<1> DEFINE w1 == [vs2[v] EXCEPT !.offered = z]
           w2 == [vs2[v] EXCEPT !.entryCount = z]
<1>1. /\ IsVintage(w1) /\ w1.pending = vs2[v].pending
      /\ IsVintage(w2) /\ w2.pending = vs2[v].pending
  <2>1. IsVintage(vs2[v])
    BY DEF SameWaiting
  <2>2. PICK a, b, c, d, e, f :
          vs2[v] = [offered |-> a, accepted |-> b, rationed |-> c, entryCount |-> d, finalized |-> e, pending |-> f]
    BY <2>1 DEF IsVintage
  <2> QED BY ONLY <2>2 DEF IsVintage
<1>2. [vs2 EXCEPT ![v].offered = z] = [vs2 EXCEPT ![v] = w1]
  OBVIOUS
<1>3. [vs2 EXCEPT ![v].entryCount = z] = [vs2 EXCEPT ![v] = w2]
  OBVIOUS
<1> HIDE DEF w1, w2
<1>4. SameWaiting([vs2 EXCEPT ![v] = w1], vs)
  BY <1>1 DEF SameWaiting
<1>5. SameWaiting([vs2 EXCEPT ![v] = w2], vs)
  BY <1>1 DEF SameWaiting
<1> QED BY <1>2, <1>3, <1>4, <1>5

NewVintage == [offered |-> 0, accepted |-> 0, rationed |-> 0, entryCount |-> 0,
               finalized |-> FALSE, pending |-> {}]

(* The vintages with v among them. *)
WithVintage(vs, v) == IF v \in DOMAIN vs THEN vs ELSE Ix!Put(vs, v, NewVintage)

LEMMA VintageHolds ==
  ASSUME NEW y, NEW m, NEW b, NEW p, NEW vs, Holds(y, m, b, p, vs), NEW v
  PROVE  Holds(Ix!GetOrCreateVintage(y, v), m, b, p, WithVintage(vs, v))
<1>1. y.vintages = vs
  BY DEF Holds
<1>2. CASE v \in DOMAIN vs
  BY <1>1, <1>2 DEF Ix!GetOrCreateVintage, WithVintage
<1>3. CASE v \notin DOMAIN vs
  <2>1. Ix!GetOrCreateVintage(y, v) = [y EXCEPT !.vintages = WithVintage(vs, v)]
    BY <1>1, <1>3 DEF Ix!GetOrCreateVintage, WithVintage, NewVintage
  <2> QED BY <2>1, SetVintages
<1> QED BY <1>2, <1>3

LEMMA WithVintageFacts ==
  ASSUME NEW vs, NEW v, \A w \in DOMAIN vs : IsVintage(vs[w])
  PROVE  /\ DOMAIN WithVintage(vs, v) = DOMAIN vs \cup {v}
         /\ \A w \in DOMAIN vs : WithVintage(vs, v)[w] = vs[w]
         /\ v \notin DOMAIN vs => WithVintage(vs, v)[v].pending = {}
         /\ \A w \in DOMAIN vs \cup {v} : IsVintage(WithVintage(vs, v)[w])
<1>1. IsVintage(NewVintage) /\ NewVintage.pending = {}
  BY DEF IsVintage, NewVintage
<1>2. CASE v \in DOMAIN vs
  BY <1>2 DEF WithVintage
<1>3. CASE v \notin DOMAIN vs
  <2>1. WithVintage(vs, v) = [w \in DOMAIN vs \cup {v} |-> IF w = v THEN NewVintage ELSE vs[w]]
    BY <1>3 DEF WithVintage, Ix!Put
  <2> QED BY <1>1, <1>3, <2>1
<1> QED BY <1>2, <1>3

(* The holding an entry's log makes. *)
NewHolding(e) ==
  [owner |-> e.owner, outcome |-> e.outcome, offered |-> e.offered, accepted |-> 0,
   refused |-> 0, finalized |-> FALSE, entryAcc |-> 0, refundWithdrawn |-> FALSE,
   claimed |-> FALSE, payout |-> 0, previewPayout |-> 0, createdAt |-> e.day,
   createdTx |-> e.tx, vintage |-> e.vintage]

LEMMA NewHoldingFacts ==
  ASSUME NEW e
  PROVE  /\ IsHolding(NewHolding(e)) /\ NewHolding(e).owner = e.owner
         /\ NewHolding(e).outcome = e.outcome /\ NewHolding(e).vintage = e.vintage
         /\ NewHolding(e).finalized = FALSE /\ NewHolding(e).claimed = FALSE
         /\ NewHolding(e).refundWithdrawn = FALSE
BY DEF NewHolding, IsHolding

LEMMA EntryList ==
  ASSUME NEW qs, NEW e
  PROVE  [Ix!Put(qs, e.id, Ix!NewPosition(e)) EXCEPT ![e.id].vintage = e.vintage]
           = Ix!Put(qs, e.id, NewHolding(e))
<1> DEFINE i == e.id
           p == Ix!Put(qs, i, Ix!NewPosition(e))
<1>1. p = [j \in DOMAIN qs \cup {i} |-> IF j = i THEN Ix!NewPosition(e) ELSE qs[j]]
  BY DEF Ix!Put
<1>2. [Ix!NewPosition(e) EXCEPT !.vintage = e.vintage] = NewHolding(e)
  <2>1. PICK q : q = Ix!NewPosition(e)
    OBVIOUS
  <2>2. PICK a, b, c, d, f, z, o, n : /\ a = e.owner /\ b = e.outcome /\ c = e.offered /\ d = e.day
                                      /\ f = e.tx /\ z = e.vintage /\ o = 0 /\ n = FALSE
    OBVIOUS
  <2>3. q = [owner |-> a, outcome |-> b, offered |-> c, accepted |-> o,
             refused |-> o, finalized |-> n, entryAcc |-> o, refundWithdrawn |-> n,
             claimed |-> n, payout |-> o, previewPayout |-> o, createdAt |-> d,
             createdTx |-> f, vintage |-> None]
    BY <2>1, <2>2 DEF Ix!NewPosition
  <2>4. [q EXCEPT !.vintage = z]
          = [owner |-> a, outcome |-> b, offered |-> c, accepted |-> o,
             refused |-> o, finalized |-> n, entryAcc |-> o, refundWithdrawn |-> n,
             claimed |-> n, payout |-> o, previewPayout |-> o, createdAt |-> d,
             createdTx |-> f, vintage |-> z]
    BY ONLY <2>3
  <2> QED BY <2>1, <2>2, <2>4 DEF NewHolding
<1>3. p[i] = Ix!NewPosition(e) /\ DOMAIN p = DOMAIN qs \cup {i}
  BY <1>1
<1>4. [p EXCEPT ![i].vintage = e.vintage] = [p EXCEPT ![i] = NewHolding(e)]
  <2>1. [p EXCEPT ![i].vintage = e.vintage] = [p EXCEPT ![i] = [p[i] EXCEPT !.vintage = e.vintage]]
    OBVIOUS
  <2> HIDE DEF p
  <2> QED BY <1>2, <1>3, <2>1
<1>5. [p EXCEPT ![i] = NewHolding(e)] = [j \in DOMAIN qs \cup {i} |-> IF j = i THEN NewHolding(e) ELSE qs[j]]
  <2> HIDE DEF i
  <2> QED BY <1>1
<1> QED BY <1>4, <1>5 DEF Ix!Put

(* The entry recorded and its vintage opened. *)
Opened(x, e) ==
  [Ix!GetOrCreateVintage(Ix!RecordEntry(Ix!GetOrCreateMarket(x, e), e), e.vintage) EXCEPT
                   !.vintages[e.vintage].offered = @ + e.offered,
                   !.vintages[e.vintage].entryCount = @ + 1,
                   !.positions[e.id].vintage = e.vintage]

LEMMA OpenedHolds ==
  ASSUME NEW x, NEW e, NEW m, NEW b, NEW qs, NEW vs,
         Holds(Ix!GetOrCreateMarket(x, e), m, b, qs, vs), \A w \in DOMAIN vs : IsVintage(vs[w])
  PROVE  \E vs2 : /\ Holds(Opened(x, e), m, Bumped(b, e.outcome), Ix!Put(qs, e.id, NewHolding(e)), vs2)
                  /\ SameWaiting(vs2, WithVintage(vs, e.vintage))
<1> DEFINE v == e.vintage
           r == Ix!RecordEntry(Ix!GetOrCreateMarket(x, e), e)
           g == Ix!GetOrCreateVintage(r, v)
           p == Ix!Put(qs, e.id, Ix!NewPosition(e))
           b2 == Bumped(b, e.outcome)
           vs1 == WithVintage(vs, v)
<1>1. Holds(r, m, b2, p, vs)
  BY EntryHolds
<1>2. Holds(g, m, b2, p, vs1)
  <2> HIDE DEF r, b2, p
  <2> QED BY <1>1, VintageHolds
<1>3. SameWaiting(vs1, vs1) /\ v \in DOMAIN vs1
  <2> HIDE DEF v
  <2>1. /\ DOMAIN WithVintage(vs, v) = DOMAIN vs \cup {v}
        /\ \A w \in DOMAIN vs \cup {v} : IsVintage(WithVintage(vs, v)[w])
    BY WithVintageFacts
  <2> QED BY <2>1 DEF SameWaiting
<1>4. Opened(x, e) = [g EXCEPT !.vintages[v].offered = @ + e.offered,
                               !.vintages[v].entryCount = @ + 1,
                               !.positions[e.id].vintage = v]
  BY DEF Opened
<1> HIDE DEF g, vs1, p, b2
<1>5. g.vintages = vs1 /\ g.positions = p
  BY <1>2 DEF Holds
<1> DEFINE z1 == vs1[v].offered + e.offered
<1> HIDE DEF z1
<1> DEFINE A == [vs1 EXCEPT ![v].offered = z1]
           t == [g EXCEPT !.vintages = A]
<1>6. Opened(x, e) = [t EXCEPT !.vintages[v].entryCount = @ + 1, !.positions[e.id].vintage = v]
  BY <1>4, <1>5 DEF z1
<1>7. SameWaiting(A, vs1)
  <2> HIDE DEF v
  <2> QED BY <1>3, VintageEdits
<1>8. Holds(t, m, b2, p, A)
  <2> HIDE DEF A
  <2> QED BY <1>2, SetVintages
<1> HIDE DEF t, A
<1>9. t.vintages = A
  BY <1>8 DEF Holds
<1> DEFINE z2 == A[v].entryCount + 1
<1> HIDE DEF z2
<1> DEFINE B == [A EXCEPT ![v].entryCount = z2]
           u == [t EXCEPT !.vintages = B]
<1>10. Opened(x, e) = [u EXCEPT !.positions[e.id].vintage = v]
  BY <1>6, <1>9 DEF z2
<1>11. SameWaiting(B, vs1)
  <2> HIDE DEF v
  <2> QED BY <1>3, <1>7, VintageEdits
<1>12. Holds(u, m, b2, p, B)
  <2> HIDE DEF B
  <2> QED BY <1>8, SetVintages
<1> HIDE DEF u, B
<1>13. u.positions = p
  BY <1>12 DEF Holds
<1>14. Opened(x, e) = [u EXCEPT !.positions = [p EXCEPT ![e.id].vintage = v]]
  BY <1>10, <1>13
<1>15. [p EXCEPT ![e.id].vintage = v] = Ix!Put(qs, e.id, NewHolding(e))
  BY EntryList DEF p
<1>16. Holds(Opened(x, e), m, b2, Ix!Put(qs, e.id, NewHolding(e)), B)
  BY <1>12, <1>14, <1>15, SetPositions
<1> QED BY <1>11, <1>16 DEF b2, vs1

(* The book an entry lands in counts one position more. *)
LEMMA BumpedFacts ==
  ASSUME NEW b, AllBooks(b), NEW o
  PROVE  /\ AllBooks(Bumped(b, o)) /\ DOMAIN Bumped(b, o) = DOMAIN b \cup {o}
         /\ \A w \in DOMAIN b : /\ Bumped(b, o)[w].headroom = b[w].headroom
                                /\ Bumped(b, o)[w].acc = b[w].acc
<1> DEFINE g == Ix!Get(b, o, Ix!NewBook)
           g2 == [g EXCEPT !.positionCount = @ + 1]
           b2 == Bumped(b, o)
<1>1. IsBook(g)
  <2>1. IsBook(Ix!NewBook)
    BY DEF IsBook, Ix!NewBook
  <2> QED BY <2>1 DEF AllBooks, Ix!Get
<1>2. o \in DOMAIN b => g = b[o]
  BY DEF Ix!Get
<1> HIDE DEF g
<1>3. IsBook(g2) /\ g2.headroom = g.headroom /\ g2.acc = g.acc
  <2>1. PICK z1, z2, z3, z4, z5, z6, z7 :
          g = [principal |-> z1, acc |-> z2, vested |-> z3, capacity |-> z4,
               headroom |-> z5, impliedOdds |-> z6, positionCount |-> z7]
    BY <1>1 DEF IsBook
  <2>2. PICK z : z = g.positionCount + 1
    OBVIOUS
  <2>3. g2 = [g EXCEPT !.positionCount = z]
    BY <2>2
  <2> HIDE DEF g2
  <2> QED BY ONLY <2>1, <2>3 DEF IsBook
<1>4. b2 = [w \in DOMAIN b \cup {o} |-> IF w = o THEN g2 ELSE b[w]]
  BY DEF Bumped, Ix!Put, g
<1> HIDE DEF g2, b2
<1>5. DOMAIN b2 = DOMAIN b \cup {o} /\ \A w \in DOMAIN b \cup {o} : b2[w] = IF w = o THEN g2 ELSE b[w]
  BY <1>4
<1> QED BY <1>2, <1>3, <1>5 DEF AllBooks, b2

LEMMA PutTwice ==
  ASSUME NEW f, NEW i, NEW z, NEW z2
  PROVE  [Ix!Put(f, i, z) EXCEPT ![i] = z2] = Ix!Put(f, i, z2)
BY DEF Ix!Put

-----------------------------------------------------------------------------
LEMMA EntryMarket ==
  ASSUME NEW x, NEW k, At(x, k), log[k+1].ev = "Entered"
  PROVE  \E m : /\ Holds(Ix!GetOrCreateMarket(x, log[k+1]), m, x.books, x.positions, x.vintages)
                /\ IsMarket(m) /\ m # Ix!NoMarket /\ ToggleOK(m, k)
                /\ Known(x) => m = x.market
                /\ ~Known(x) => log[k+1].vintage = 0
<1> DEFINE e == log[k+1]
<1>1. /\ Holds(x, x.market, x.books, x.positions, x.vintages)
      /\ Agree(x.market, x.books, x.positions, x.vintages, k)
      /\ ~Known(x) => /\ log[k+1].vintage = 0
                      /\ ~ToggleAfter(0) => ~vintageOpen
                      /\ k = 0
  BY AtFacts
<1>2. CASE Known(x)
  <2>1. IsMarket(x.market) /\ ToggleOK(x.market, k)
    BY <1>1, <1>2 DEF Agree, MarketAt, Known, ToggleOK
  <2>2. Ix!GetOrCreateMarket(x, e) = x
    BY <1>2 DEF Ix!GetOrCreateMarket, Known
  <2> QED BY <1>1, <1>2, <2>1, <2>2 DEF Known
<1>3. CASE ~Known(x)
  <2>1. PICK m : /\ Holds(Ix!GetOrCreateMarket(x, e), m, x.books, x.positions, x.vintages)
                 /\ IsMarket(m) /\ m.openVintage = None /\ m # Ix!NoMarket
    BY <1>1, <1>3, MarketHolds DEF Known
  <2>2. ToggleOK(m, k)
    BY <1>1, <1>3, <2>1 DEF ToggleOK
  <2> QED BY <1>1, <1>3, <2>1, <2>2
<1> QED BY <1>2, <1>3

(* An entry handled. *)
LEMMA EntryAfter ==
  ASSUME NEW x, NEW k, At(x, k), log[k+1].ev = "Entered"
  PROVE  /\ \A j : EnteredAfter(k, j) <=> log[k+1].id = j \/ EnteredAfter(k+1, j)
         /\ \A j : MovedAfter(k, j) <=> MovedAfter(k+1, j)
         /\ \A j : ClaimedAfter(k, j) <=> ClaimedAfter(k+1, j)
         /\ \A j : RefundAfter(k, j) <=> RefundAfter(k+1, j)
         /\ \A v : FinalAfter(k, v) <=> FinalAfter(k+1, v)
         /\ RefreshAfter(k) <=> RefreshAfter(k+1)
         /\ ToggleAfter(k) <=> log[k+1].vintage # 0 \/ ToggleAfter(k+1)
<1>1. k \in Nat /\ k < Len(log) /\ Len(log) \in Nat
  BY AtFacts
<1> QED BY <1>1, AfterNext

LEMMA EntryHoldings ==
  ASSUME NEW x, NEW k, At(x, k), log[k+1].ev = "Entered",
         NEW q, IsHolding(q), HoldingAt(q, log[k+1].id, k+1)
  PROVE  /\ HoldingsAt(Ix!Put(x.positions, log[k+1].id, q), k+1)
         /\ log[k+1].id \notin DOMAIN x.positions
<1> DEFINE i == log[k+1].id
           qs == x.positions
           qs2 == Ix!Put(qs, i, q)
<1>1. HoldingsAt(qs, k) /\ EnteredOK(k+1)
  BY AtFacts DEF Agree, EventOK
<1>2. i \in 1..Count /\ ~EnteredAfter(k+1, i)
  BY <1>1 DEF EnteredOK
<1>3. i \notin DOMAIN qs
  BY <1>1, EntryAfter DEF HoldingsAt
<1>4. /\ DOMAIN qs2 = DOMAIN qs \cup {i} /\ qs2[i] = q
      /\ \A j \in DOMAIN qs : j # i => qs2[j] = qs[j]
  <2>1. qs2 = Ix!Put(qs, i, q)
    OBVIOUS
  <2> HIDE DEF i, qs, qs2
  <2> QED BY <2>1 DEF Ix!Put
<1> HIDE DEF qs2
<1>5. DOMAIN qs2 = {j \in 1..Count : ~EnteredAfter(k+1, j)}
  <2>1. \A j : j \in DOMAIN qs2 <=> j \in 1..Count /\ ~EnteredAfter(k+1, j)
    BY <1>1, <1>2, <1>4, EntryAfter DEF HoldingsAt
  <2> QED BY <2>1
<1>6. ASSUME NEW j \in DOMAIN qs2 PROVE IsHolding(qs2[j]) /\ HoldingAt(qs2[j], j, k+1)
  <2>1. CASE j = i
    BY <1>4, <2>1
  <2>2. CASE j # i
    <3>1. IsHolding(qs[j]) /\ HoldingAt(qs[j], j, k) /\ qs2[j] = qs[j]
      BY <1>1, <1>4, <2>2 DEF HoldingsAt
    <3> QED BY <3>1, EntryAfter DEF HoldingAt
  <2> QED BY <2>1, <2>2
<1>7. HoldingsAt(qs2, k+1)
  BY <1>5, <1>6 DEF HoldingsAt
<1> QED BY <1>3, <1>7 DEF qs2

LEMMA EntryBooks ==
  ASSUME NEW x, NEW k, At(x, k), log[k+1].ev = "Entered"
  PROVE  /\ AllBooks(Bumped(x.books, log[k+1].outcome))
         /\ ~RefreshAfter(k+1) =>
              /\ Known(x) /\ log[k+1].vintage # 0
              /\ DOMAIN Bumped(x.books, log[k+1].outcome) = Outcomes
              /\ \A w \in Outcomes :
                   /\ Bumped(x.books, log[k+1].outcome)[w].headroom = Headroom(books[w])
                   /\ Bumped(x.books, log[k+1].outcome)[w].acc = books[w].acc
<1> DEFINE e == log[k+1]
           b == x.books
           b2 == Bumped(b, e.outcome)
<1>1. /\ ChainInv /\ status # "None" /\ Agree(x.market, b, x.positions, x.vintages, k) /\ EnteredOK(k+1)
      /\ ~Known(x) => e.vintage = 0
  BY AtFacts DEF EventOK
<1>2. AllBooks(b)
  BY <1>1 DEF Agree, BooksAt, AllBooks
<1>3. /\ AllBooks(b2) /\ DOMAIN b2 = DOMAIN b \cup {e.outcome}
      /\ \A w \in DOMAIN b : b2[w].headroom = b[w].headroom /\ b2[w].acc = b[w].acc
  BY <1>2, BumpedFacts
<1>4. e.outcome \in Outcomes
  BY <1>1, ChainStakes DEF EnteredOK, StakeOK
<1> HIDE DEF b2
<1>5. ASSUME ~RefreshAfter(k+1)
      PROVE  /\ Known(x) /\ e.vintage # 0 /\ DOMAIN b2 = Outcomes
             /\ \A w \in Outcomes : b2[w].headroom = Headroom(books[w]) /\ b2[w].acc = books[w].acc
  <2>1. ~CreatedAfter(k+1)
    BY <1>5 DEF CreatedAfter, RefreshAfter
  <2>2. e.vintage # 0 /\ Known(x)
    BY <1>1, <2>1 DEF EnteredOK
  <2>3. ~RefreshAfter(k)
    BY <1>5, EntryAfter
  <2>4. /\ DOMAIN b = Outcomes
        /\ \A w \in Outcomes : b[w].headroom = Headroom(books[w]) /\ b[w].acc = books[w].acc
    BY <1>1, <2>2, <2>3 DEF Agree, BooksAt, Known
  <2> QED BY <1>3, <1>4, <2>2, <2>4
<1> QED BY <1>3, <1>5 DEF b2

(* What the index holds once an entry is recorded and its vintage opened. *)
LEMMA OpenedFacts ==
  ASSUME NEW x, NEW k, At(x, k), log[k+1].ev = "Entered"
  PROVE  LET e == log[k+1]  v == e.vintage  qs == x.positions IN
         \E m, vs2 :
           /\ Holds(Opened(x, e), m, Bumped(x.books, e.outcome), Ix!Put(qs, e.id, NewHolding(e)), vs2)
           /\ IsMarket(m) /\ ToggleOK(m, k) /\ (Known(x) => m = x.market)
           /\ DOMAIN vs2 = DOMAIN x.vintages \cup {v}
           /\ \A w \in DOMAIN vs2 : IsVintage(vs2[w]) /\ vs2[w].pending = Waiting(qs, w)
           /\ \A j \in DOMAIN qs : qs[j].vintage \in DOMAIN vs2
<1> DEFINE e == log[k+1]
           v == e.vintage
           qs == x.positions
           vs == x.vintages
<1>1. PICK m : /\ Holds(Ix!GetOrCreateMarket(x, e), m, x.books, qs, vs)
               /\ IsMarket(m) /\ ToggleOK(m, k) /\ (Known(x) => m = x.market)
  BY EntryMarket
<1>2. VintagesAt(qs, vs)
  BY AtFacts DEF Agree
<1>3. \A w \in DOMAIN vs : IsVintage(vs[w])
  BY <1>2 DEF VintagesAt
<1>4. PICK vs2 : /\ Holds(Opened(x, e), m, Bumped(x.books, e.outcome), Ix!Put(qs, e.id, NewHolding(e)), vs2)
                 /\ SameWaiting(vs2, WithVintage(vs, v))
  BY <1>1, <1>3, OpenedHolds
<1>5. /\ DOMAIN WithVintage(vs, v) = DOMAIN vs \cup {v}
      /\ \A w \in DOMAIN vs : WithVintage(vs, v)[w] = vs[w]
      /\ v \notin DOMAIN vs => WithVintage(vs, v)[v].pending = {}
  <2> HIDE DEF v, vs
  <2>1. PICK g : g = WithVintage(vs, v)
    OBVIOUS
  <2>2. CASE v \in DOMAIN vs
    BY <2>2 DEF WithVintage
  <2>3. CASE v \notin DOMAIN vs
    <3>1. g = Ix!Put(vs, v, NewVintage)
      BY <2>1, <2>3 DEF WithVintage
    <3>2. NewVintage.pending = {}
      BY DEF NewVintage
    <3> QED BY <2>1, <2>3, <3>1, <3>2 DEF Ix!Put
  <2> QED BY <2>2, <2>3
<1>6. DOMAIN vs2 = DOMAIN vs \cup {v}
  BY <1>4, <1>5 DEF SameWaiting
<1>7. v \notin DOMAIN vs => Waiting(qs, v) = {}
  BY <1>2 DEF VintagesAt, Waiting
<1>8. ASSUME NEW w \in DOMAIN vs2 PROVE IsVintage(vs2[w]) /\ vs2[w].pending = Waiting(qs, w)
  <2>1. IsVintage(vs2[w]) /\ vs2[w].pending = WithVintage(vs, v)[w].pending
    BY <1>4, <1>5, <1>6 DEF SameWaiting
  <2>2. CASE w \in DOMAIN vs
    BY <1>2, <1>5, <2>1, <2>2 DEF VintagesAt
  <2>3. CASE w \notin DOMAIN vs
    <3>1. w = v
      BY <1>6, <2>3
    <3> QED BY <1>5, <1>7, <2>1, <2>3, <3>1
  <2> QED BY <2>2, <2>3
<1>9. \A j \in DOMAIN qs : qs[j].vintage \in DOMAIN vs2
  BY <1>2, <1>6 DEF VintagesAt
<1> QED BY <1>1, <1>4, <1>6, <1>8, <1>9

(* An entry that waits for its vintage. *)
LEMMA WaitStep ==
  ASSUME NEW x, NEW k, At(x, k), log[k+1].ev = "Entered", log[k+1].vintage # 0
  PROVE  RelAt(Ix!Handle(x, log[k+1], Chain), k+1)
<1> DEFINE e == log[k+1]
           v == e.vintage
           i == e.id
           qs == x.positions
           qs2 == Ix!Put(qs, i, NewHolding(e))
           b2 == Bumped(x.books, e.outcome)
           o == Opened(x, e)
<1>1. /\ ChainInv /\ status # "None" /\ k \in Nat /\ k + 1 > 0
      /\ Agree(x.market, x.books, x.positions, x.vintages, k)
      /\ EnteredOK(k+1) /\ Known(x)
  BY AtFacts DEF EventOK
<1>2. PICK m, vs2 :
           /\ Holds(o, m, b2, qs2, vs2)
           /\ IsMarket(m) /\ ToggleOK(m, k) /\ (Known(x) => m = x.market)
           /\ DOMAIN vs2 = DOMAIN x.vintages \cup {v}
           /\ \A w \in DOMAIN vs2 : IsVintage(vs2[w]) /\ vs2[w].pending = Waiting(qs, w)
           /\ \A j \in DOMAIN qs : qs[j].vintage \in DOMAIN vs2
  BY OpenedFacts
<1> DEFINE y == [o EXCEPT !.vintages[v].pending = @ \cup {i}, !.market.openVintage = v]
<1>3. Ix!Handle(x, e, Chain) = y
  <2>1. ~Ix!Unknown(x, e) /\ Ix!Vested
    BY DEF Ix!Unknown, Ix!Vested
  <2>2. Ix!Handle(x, e, Chain) = Ix!HandleEnteredVested(x, e, Chain)
    BY <2>1 DEF Ix!Handle
  <2>3. Ix!HandleEnteredVested(x, e, Chain) = y
    BY Zenon DEF Ix!HandleEnteredVested, Opened
  <2> QED BY <2>2, <2>3
<1> HIDE DEF o, b2
<1> DEFINE w1 == [vs2[v] EXCEPT !.pending = @ \cup {i}]
           vs3 == [vs2 EXCEPT ![v] = w1]
           m3 == [m EXCEPT !.openVintage = v]
           s == [o EXCEPT !.vintages = vs3]
           t == [s EXCEPT !.market = m3]
<1>4. o.vintages = vs2 /\ o.market = m
  BY <1>2 DEF Holds
<1>5. y = [s EXCEPT !.market.openVintage = v]
  BY <1>4
<1>6. Holds(s, m, b2, qs2, vs3)
  <2> HIDE DEF vs3, qs2
  <2> QED BY <1>2, SetVintages
<1>7. s.market = m
  <2> HIDE DEF s, vs3, qs2
  <2> QED BY <1>6 DEF Holds
<1>8. y = t
  <2> HIDE DEF s, y
  <2> QED BY <1>5, <1>7
<1>9. Holds(t, m3, b2, qs2, vs3)
  <2> HIDE DEF s, m3, vs3, qs2
  <2> QED BY <1>6, SetMarket
<1>10. IsMarket(m3) /\ m3.openVintage = v /\ m3.status = m.status /\ m3.winner = m.winner
  <2>1. PICK a1, a2, a3, a4, a5, a6, a7, a8, a9, b1, bb, b3, b4 :
          m = [n |-> a1, status |-> a2, winner |-> a3, acceptedPool |-> a4, paidOut |-> a5,
               residue |-> a6, residueClaimed |-> a7, openVintage |-> a8, opener |-> a9,
               spec |-> b1, resolvedPrice |-> bb, voidedStaleAge |-> b3, createdAt |-> b4]
    BY <1>2 DEF IsMarket
  <2> HIDE DEF v
  <2> QED BY ONLY <2>1 DEF IsMarket
<1>11. IsVintage(w1) /\ w1.pending = Waiting(qs, v) \cup {i}
  <2>1. IsVintage(vs2[v]) /\ vs2[v].pending = Waiting(qs, v)
    BY <1>2
  <2>2. PICK z : z = Waiting(qs, v) \cup {i}
    OBVIOUS
  <2>3. w1 = [vs2[v] EXCEPT !.pending = z]
    BY <2>1, <2>2
  <2>4. PICK a, b, c, d, f, g :
        vs2[v] = [offered |-> a, accepted |-> b, rationed |-> c, entryCount |-> d, finalized |-> f, pending |-> g]
    BY <2>1 DEF IsVintage
  <2> HIDE DEF w1, v, qs, i
  <2>5. IsVintage(w1) /\ w1.pending = z
    BY ONLY <2>3, <2>4 DEF IsVintage
  <2> QED BY <2>2, <2>5
<1> HIDE DEF w1, y, t, m3
<1>12. /\ DOMAIN vs3 = DOMAIN vs2 /\ vs3[v] = w1
       /\ \A w \in DOMAIN vs2 : w # v => vs3[w] = vs2[w]
  <2> HIDE DEF v
  <2> QED BY <1>2
<1> HIDE DEF vs3
<1>13. /\ IsHolding(NewHolding(e)) /\ NewHolding(e).owner = e.owner
       /\ NewHolding(e).outcome = e.outcome /\ NewHolding(e).vintage = e.vintage
       /\ NewHolding(e).finalized = FALSE /\ NewHolding(e).claimed = FALSE
       /\ NewHolding(e).refundWithdrawn = FALSE
  BY NewHoldingFacts
<1>14. HoldingAt(NewHolding(e), i, k+1)
  <2> DEFINE p == positions[i]
  <2>1. /\ i \in 1..Count /\ e.outcome = p.outcome /\ e.vintage = p.vintage
        /\ ~MovedAfter(k+1, i) => e.owner = p.owner
        /\ status = "Open" /\ ~p.finalized
    BY <1>1 DEF EnteredOK
  <2>2. ~p.refunded /\ ~p.claimed
    BY <1>1, <2>1, ChainStakes DEF StakeOK
  <2> QED BY <1>13, <2>1, <2>2 DEF HoldingAt
<1>15. HoldingsAt(qs2, k+1) /\ i \notin DOMAIN qs
  BY <1>13, <1>14, EntryHoldings
<1>16. /\ DOMAIN qs2 = DOMAIN qs \cup {i} /\ qs2[i] = NewHolding(e)
       /\ \A j \in DOMAIN qs : j # i => qs2[j] = qs[j]
  <2>1. qs2 = Ix!Put(qs, i, NewHolding(e))
    OBVIOUS
  <2> HIDE DEF i, qs, e, qs2
  <2> QED BY <2>1 DEF Ix!Put
<1> HIDE DEF qs2
<1>17. PreviewsAt(qs2, k+1)
  <2>1. PreviewsAt(qs, k)
    BY <1>1 DEF Agree
  <2> QED BY <1>13, <1>15, <1>16, <2>1, EntryAfter DEF PreviewsAt
<1>18. VintagesAt(qs2, vs3)
  <2>1. Waiting(qs2, v) = Waiting(qs, v) \cup {i}
    BY <1>13, <1>15, <1>16 DEF Waiting
  <2>2. ASSUME NEW w, w # v PROVE Waiting(qs2, w) = Waiting(qs, w)
    BY <1>13, <1>15, <1>16, <2>2 DEF Waiting
  <2>3. ASSUME NEW w \in DOMAIN vs3 PROVE IsVintage(vs3[w]) /\ vs3[w].pending = Waiting(qs2, w)
    <3>1. CASE w = v
      BY <1>11, <1>12, <2>1, <3>1
    <3>2. CASE w # v
      BY <1>2, <1>12, <2>2, <3>2
    <3> QED BY <3>1, <3>2
  <2>4. ASSUME NEW j \in DOMAIN qs2 PROVE qs2[j].vintage \in DOMAIN vs3
    BY <1>2, <1>12, <1>13, <1>15, <1>16
  <2> QED BY <2>3, <2>4 DEF VintagesAt
<1>19. /\ AllBooks(b2)
       /\ ~RefreshAfter(k+1) =>
              /\ DOMAIN b2 = Outcomes
              /\ \A w \in Outcomes : b2[w].headroom = Headroom(books[w]) /\ b2[w].acc = books[w].acc
  BY EntryBooks DEF b2
<1>20. BooksAt(m3, b2, k+1)
  BY <1>19 DEF BooksAt, AllBooks
<1>21. v # None
  <2>1. v = blockNo
    BY <1>1 DEF EnteredOK
  <2>2. blockNo \in Nat
    BY <1>1 DEF ChainInv, IInv, TypeOK
  <2> QED BY <2>1, <2>2, NullAssumption
<1>22. MarketAt(m3, k+1)
  <2>1. vintageOpen
    BY <1>1 DEF EnteredOK
  <2>2. MarketAt(x.market, k) /\ m = x.market
    BY <1>1, <1>2 DEF Agree
  <2>3. ~RefreshAfter(k+1) => m.status = status /\ (status = "Resolved" => m.winner = winner)
    BY <1>1, <2>2, EntryAfter DEF MarketAt, Known
  <2> QED BY <1>10, <1>21, <2>1, <2>3 DEF MarketAt
<1>23. m3 # Ix!NoMarket
  BY <1>10, NotNothing
<1>24. RelAt(t, k+1)
  BY <1>9, <1>15, <1>17, <1>18, <1>20, <1>22, <1>23 DEF RelAt, Agree, Holds
<1> QED BY <1>3, <1>8, <1>24

MarkRefund(q, z) == [q EXCEPT !.refundWithdrawn = z]

(* A seed leg is final as it is entered. *)
LEMMA MarkedOnly ==
  ASSUME NEW q, IsHolding(q), NEW z, z \in BOOLEAN
  PROVE  /\ IsHolding(MarkRefund(q, z)) /\ MarkRefund(q, z).owner = q.owner
         /\ MarkRefund(q, z).outcome = q.outcome /\ MarkRefund(q, z).vintage = q.vintage
         /\ MarkRefund(q, z).accepted = q.accepted /\ MarkRefund(q, z).entryAcc = q.entryAcc
         /\ MarkRefund(q, z).finalized = q.finalized /\ MarkRefund(q, z).claimed = q.claimed
         /\ MarkRefund(q, z).refundWithdrawn = z
<1> DEFINE q2 == MarkRefund(q, z)
<1>1. PICK a, b, c, d, e, f, g, h, i, j, k, l, m, n :
        /\ q = [owner |-> a, outcome |-> b, offered |-> c, accepted |-> d, refused |-> e,
                finalized |-> f, entryAcc |-> g, refundWithdrawn |-> h, claimed |-> i,
                payout |-> j, previewPayout |-> k, createdAt |-> l, createdTx |-> m, vintage |-> n]
        /\ f \in BOOLEAN /\ h \in BOOLEAN /\ i \in BOOLEAN
  BY DEF IsHolding
<1>2. q2 = [q EXCEPT !.refundWithdrawn = z] /\ z \in BOOLEAN
  BY DEF MarkRefund
<1> HIDE DEF q2
<1>3. q2 = [owner |-> a, outcome |-> b, offered |-> c, accepted |-> d, refused |-> e,
                finalized |-> f, entryAcc |-> g, refundWithdrawn |-> z, claimed |-> i,
                payout |-> j, previewPayout |-> k, createdAt |-> l, createdTx |-> m, vintage |-> n]
  BY ONLY <1>1, <1>2
<1>4. /\ IsHolding(q2) /\ q2.owner = q.owner
         /\ q2.outcome = q.outcome /\ q2.vintage = q.vintage
         /\ q2.accepted = q.accepted /\ q2.entryAcc = q.entryAcc
         /\ q2.finalized = q.finalized /\ q2.claimed = q.claimed
         /\ q2.refundWithdrawn = z
  BY ONLY <1>1, <1>2, <1>3 DEF IsHolding
<1> QED BY <1>4 DEF q2

(* Nothing of the opening waits for a vintage. *)
LEMMA SeedsAreFinal ==
  ASSUME NEW x, NEW k, At(x, k)
  PROVE  Waiting(x.positions, 0) = {}
<1>1. /\ ChainInv /\ status # "None" /\ k \in Nat /\ Len(log) \in Nat /\ LogInv
      /\ HoldingsAt(x.positions, k)
  BY AtFacts DEF Agree, At
<1>2. ASSUME NEW i \in DOMAIN x.positions, x.positions[i].vintage = 0, ~x.positions[i].finalized
      PROVE  FALSE
  <2>1. /\ i \in 1..Count /\ HoldingAt(x.positions[i], i, k)
    BY <1>1 DEF HoldingsAt
  <2>2. positions[i].vintage = 0
    BY <1>2, <2>1 DEF HoldingAt
  <2>3. ~FinalAfter(k, 0)
    <3> SUFFICES ASSUME FinalAfter(k, 0) PROVE FALSE
      OBVIOUS
    <3>1. PICK j \in (k+1)..Len(log) : log[j].ev = "VintageFinalized" /\ log[j].vintage = 0
      BY DEF FinalAfter
    <3>2. j \in 1..Len(log)
      BY <1>1
    <3>3. FinalOK(j)
      BY <1>1, <3>1, <3>2 DEF LogInv, EventOK
    <3> QED BY <3>1, <3>3 DEF FinalOK
  <2>4. ~positions[i].finalized
    BY <1>2, <2>1, <2>2, <2>3 DEF HoldingAt
  <2>5. vintageOpen /\ positions[i].vintage = vintageBlock
    BY <1>1, <2>1, <2>4 DEF ChainInv, BatchInv, AgeInv, AgeOK, Count
  <2> QED BY <1>1, <2>2, <2>5 DEF LogInv
<1> QED BY <1>2 DEF Waiting

(* A leg of the opening. *)
LEMMA SeedStep ==
  ASSUME NEW x, NEW k, At(x, k), log[k+1].ev = "Entered", log[k+1].vintage = 0
  PROVE  RelAt(Ix!Handle(x, log[k+1], Chain), k+1)
<1> DEFINE e == log[k+1]
           i == e.id
           p == positions[i]
           qs == x.positions
           h == NewHolding(e)
           qs1 == Ix!Put(qs, i, h)
           b2 == Bumped(x.books, e.outcome)
           o == Opened(x, e)
           a == p.accepted
           g == p.entryAcc
<1>1. /\ ChainInv /\ status # "None" /\ k \in Nat /\ k + 1 > 0
      /\ Agree(x.market, x.books, x.positions, x.vintages, k)
      /\ EnteredOK(k+1)
  BY AtFacts DEF EventOK
<1>2. PICK m, vs2 :
           /\ Holds(o, m, b2, qs1, vs2)
           /\ IsMarket(m) /\ ToggleOK(m, k) /\ (Known(x) => m = x.market)
           /\ DOMAIN vs2 = DOMAIN x.vintages \cup {0}
           /\ \A w \in DOMAIN vs2 : IsVintage(vs2[w]) /\ vs2[w].pending = Waiting(qs, w)
           /\ \A j \in DOMAIN qs : qs[j].vintage \in DOMAIN vs2
  BY OpenedFacts, Zenon
<1> DEFINE r == Ix!RecordAcceptance(o, i, a, g)
           s == [r EXCEPT !.positions[i].refundWithdrawn = p.refunded]
           y == Ix!CloseVintage(s, 0, a)
<1>3. Ix!Handle(x, e, Chain) = y
  <2>1. ~Ix!Unknown(x, e) /\ Ix!Vested
    BY DEF Ix!Unknown, Ix!Vested
  <2>2. Ix!Handle(x, e, Chain) = Ix!HandleEnteredVested(x, e, Chain)
    BY <2>1 DEF Ix!Handle
  <2>3. Chain.positions[i] = p
    BY DEF Chain
  <2>4. Ix!HandleEnteredVested(x, e, Chain) = y
    BY <2>3 DEF Ix!HandleEnteredVested, Opened
  <2> QED BY <2>2, <2>4, Zenon
<1>4. /\ IsHolding(h) /\ h.owner = e.owner /\ h.outcome = e.outcome /\ h.vintage = e.vintage
      /\ h.finalized = FALSE /\ h.claimed = FALSE /\ h.refundWithdrawn = FALSE
  BY NewHoldingFacts
<1> HIDE DEF o, b2, h, qs1, r
<1>5. /\ DOMAIN qs1 = DOMAIN qs \cup {i} /\ qs1[i] = h
      /\ \A j \in DOMAIN qs : j # i => qs1[j] = qs[j]
  <2> HIDE DEF i, qs, e
  <2> QED BY DEF qs1, Ix!Put
<1> DEFINE z == Ix!SaturatingSub(h.offered, a)
           q1 == Accept4(h, a, g, z)
           q2 == MarkRefund(q1, p.refunded)
           qs2 == Ix!Put(qs, i, q2)
<1>6. Holds(r, m, b2, Booked(qs1, i, a, g), vs2)
  <2> HIDE DEF a, g
  <2> QED BY <1>2, AcceptanceHolds DEF r
<1>7. Booked(qs1, i, a, g) = Ix!Put(qs, i, q1)
  <2>1. Booked(qs1, i, a, g) = [qs1 EXCEPT ![i] = q1]
    BY <1>5 DEF Booked, Accept4
  <2> HIDE DEF q1
  <2>2. [qs1 EXCEPT ![i] = q1] = Ix!Put(qs, i, q1)
    <3> HIDE DEF i, qs
    <3> QED BY PutTwice DEF qs1
  <2> QED BY <2>1, <2>2
<1>8. BookedAs(q1, h, a, g)
  <2> HIDE DEF z, a, g
  <2> QED BY <1>4, BookedOnly
<1> HIDE DEF q1
<1>9. p.refunded \in BOOLEAN /\ status = "Open" /\ ~p.claimed /\ p.finalized /\ i \in 1..Count
  <2>1. i \in 1..Count /\ status = "Open" /\ p.finalized
    BY <1>1 DEF EnteredOK
  <2> QED BY <1>1, <2>1, ChainStakes DEF StakeOK
<1>10. /\ IsHolding(q2) /\ q2.owner = q1.owner
         /\ q2.outcome = q1.outcome /\ q2.vintage = q1.vintage
         /\ q2.accepted = q1.accepted /\ q2.entryAcc = q1.entryAcc
         /\ q2.finalized = q1.finalized /\ q2.claimed = q1.claimed
         /\ q2.refundWithdrawn = p.refunded
  <2>1. IsHolding(q1)
    BY <1>8 DEF BookedAs
  <2> HIDE DEF p
  <2> QED BY <1>9, <2>1, MarkedOnly
<1>11. s = [r EXCEPT !.positions = [Ix!Put(qs, i, q1) EXCEPT ![i] = q2]]
  <2>1. r.positions = Ix!Put(qs, i, q1)
    BY <1>6, <1>7 DEF Holds
  <2> DEFINE pp == Ix!Put(qs, i, q1)
  <2>2. pp[i] = q1
    BY DEF Ix!Put
  <2> HIDE DEF pp
  <2>3. s = [r EXCEPT !.positions = [pp EXCEPT ![i] = [pp[i] EXCEPT !.refundWithdrawn = p.refunded]]]
    BY <2>1 DEF pp
  <2> QED BY <2>2, <2>3 DEF pp, MarkRefund
<1> HIDE DEF q2, s
<1>12. Holds(s, m, b2, qs2, vs2)
  <2>1. [Ix!Put(qs, i, q1) EXCEPT ![i] = q2] = qs2
    <3> HIDE DEF i, qs
    <3> QED BY PutTwice
  <2> HIDE DEF qs2
  <2> QED BY <1>6, <1>11, <2>1, SetPositions
<1> DEFINE vs3 == Closed(vs2, 0, a)
<1>13. Holds(y, m, b2, qs2, vs3)
  <2> HIDE DEF qs2, a
  <2> QED BY <1>12, CloseHolds
<1>14. /\ DOMAIN vs3 = DOMAIN vs2 /\ IsVintage(vs3[0]) /\ vs3[0].pending = {}
       /\ \A w \in DOMAIN vs2 : w # 0 => vs3[w] = vs2[w]
  <2>1. 0 \in DOMAIN vs2 /\ IsVintage(vs2[0])
    BY <1>2
  <2> HIDE DEF a
  <2> QED BY <2>1, ClosedList
<1> HIDE DEF vs3, y
<1>15. HoldingAt(q2, i, k+1)
  <2>1. /\ e.outcome = p.outcome /\ e.vintage = p.vintage
        /\ ~MovedAfter(k+1, i) => e.owner = p.owner
    BY <1>1 DEF EnteredOK
  <2>2. /\ q2.owner = e.owner /\ q2.outcome = e.outcome /\ q2.vintage = e.vintage
        /\ q2.accepted = p.accepted /\ q2.entryAcc = p.entryAcc /\ q2.finalized = TRUE
        /\ q2.claimed = FALSE /\ q2.refundWithdrawn = p.refunded
    BY <1>4, <1>8, <1>10 DEF BookedAs
  <2> QED BY <1>9, <2>1, <2>2 DEF HoldingAt
<1>16. HoldingsAt(qs2, k+1) /\ i \notin DOMAIN qs
  BY <1>10, <1>15, EntryHoldings
<1>17. /\ DOMAIN qs2 = DOMAIN qs \cup {i} /\ qs2[i] = q2
       /\ \A j \in DOMAIN qs : j # i => qs2[j] = qs[j]
  <2> HIDE DEF i, qs
  <2> QED BY DEF Ix!Put
<1> HIDE DEF qs2
<1>18. RefreshAfter(k+1)
  <2>1. CreatedAfter(k+1)
    BY <1>1 DEF EnteredOK
  <2> QED BY <2>1 DEF CreatedAfter, RefreshAfter
<1>19. PreviewsAt(qs2, k+1)
  BY <1>18 DEF PreviewsAt
<1>20. q2.finalized = TRUE /\ q2.vintage = 0
  BY <1>4, <1>8, <1>10 DEF BookedAs
<1>21. VintagesAt(qs2, vs3)
  <2>1. Waiting(qs, 0) = {}
    BY SeedsAreFinal
  <2>2. \A w : Waiting(qs2, w) = Waiting(qs, w)
    BY <1>16, <1>17, <1>20 DEF Waiting
  <2>3. ASSUME NEW w \in DOMAIN vs3 PROVE IsVintage(vs3[w]) /\ vs3[w].pending = Waiting(qs2, w)
    <3>1. CASE w = 0
      BY <1>14, <2>1, <2>2, <3>1
    <3>2. CASE w # 0
      BY <1>2, <1>14, <2>2, <3>2
    <3> QED BY <3>1, <3>2
  <2>4. ASSUME NEW j \in DOMAIN qs2 PROVE qs2[j].vintage \in DOMAIN vs3
    BY <1>2, <1>14, <1>16, <1>17, <1>20
  <2> QED BY <2>3, <2>4 DEF VintagesAt
<1>22. BooksAt(m, b2, k+1)
  <2>1. AllBooks(b2)
    BY EntryBooks DEF b2
  <2> QED BY <1>18, <2>1 DEF BooksAt, AllBooks
<1>23. MarketAt(m, k+1) /\ m # Ix!NoMarket
  <2>1. ToggleOK(m, k+1)
    BY <1>2, EntryAfter DEF ToggleOK
  <2> QED BY <1>2, <1>18, <2>1, NotNothing DEF MarketAt, ToggleOK
<1>24. RelAt(y, k+1)
  BY <1>13, <1>16, <1>19, <1>21, <1>22, <1>23 DEF RelAt, Agree, Holds
<1> QED BY <1>3, <1>24

(* Every log, handled in turn, brings the index one log nearer the settler. *)
LEMMA HandleStep ==
  ASSUME NEW x, NEW k, At(x, k)
  PROVE  RelAt(Ix!Handle(x, log[k+1], Chain), k+1)
<1>1. log[k+1].ev \in Kinds
  BY AtFacts DEF EventOK
<1>2. CASE log[k+1].ev \in Settlers
  BY <1>2, SettlerStep
<1>3. CASE log[k+1].ev = "Entered"
  <2>1. CASE log[k+1].vintage = 0
    BY <1>3, <2>1, SeedStep
  <2>2. CASE log[k+1].vintage # 0
    BY <1>3, <2>2, WaitStep
  <2> QED BY <2>1, <2>2
<1>4. CASE log[k+1].ev = "VintageFinalized"
  BY <1>4, FinalStep
<1>5. CASE log[k+1].ev = "Claimed"
  BY <1>5, ClaimedStep
<1>6. CASE log[k+1].ev = "ResidueClaimed"
  BY <1>6, ResidueStep
<1>7. CASE log[k+1].ev = "PositionTransferred"
  BY <1>7, MovedStep
<1>8. CASE log[k+1].ev \in Quiet \ {"ResidueClaimed"}
  BY <1>8, QuietStep
<1> QED BY <1>1, <1>2, <1>3, <1>4, <1>5, <1>6, <1>7, <1>8 DEF Kinds, Settlers, Quiet

IsIndexing(h, x, l, c, n) ==
  h = [j \in 0..n |-> IF j = 0 THEN x ELSE Ix!Handle(h[j-1], l[j], c)]

LEMMA IndexingExists ==
  ASSUME NEW x, NEW l, NEW c, NEW k \in Nat
  PROVE  \E h : IsIndexing(h, x, l, c, k)
<1> DEFINE S == {m \in Nat : \E h : IsIndexing(h, x, l, c, m)}
<1>1. 0 \in S
  <2>1. IsIndexing([j \in 0..0 |-> x], x, l, c, 0)  BY DEF IsIndexing
  <2> QED BY <2>1
<1>2. ASSUME NEW n \in S PROVE n + 1 \in S
  <2>1. PICK h : IsIndexing(h, x, l, c, n)  BY <1>2
  <2>0. n \in Nat
    OBVIOUS
  <2> DEFINE next == Ix!Handle(h[n], l[n + 1], c)
             t == [j \in 0..(n+1) |-> IF j = n + 1 THEN next ELSE h[j]]
  <2>2. ASSUME NEW j \in 0..(n+1)
        PROVE  t[j] = IF j = 0 THEN x ELSE Ix!Handle(t[j-1], l[j], c)
    <3> HIDE DEF next
    <3>1. CASE j = n + 1
      <4>1. t[j] = next /\ t[j-1] = h[n] /\ j # 0
        BY <2>0, <3>1
      <4> QED BY <3>1, <4>1 DEF next
    <3>2. CASE j # n + 1
      <4>1. j \in 0..n /\ t[j] = h[j] /\ (j # 0 => t[j-1] = h[j-1])
        BY <2>0, <3>2
      <4> HIDE DEF t
      <4>2. h[j] = IF j = 0 THEN x ELSE Ix!Handle(h[j-1], l[j], c)
        BY <2>1, <4>1 DEF IsIndexing
      <4> QED BY <4>1, <4>2
    <3> QED BY <3>1, <3>2
  <2>3. t = [j \in 0..(n+1) |-> t[j]]
    OBVIOUS
  <2> HIDE DEF t
  <2>4. IsIndexing(t, x, l, c, n + 1)
    BY <2>2, <2>3 DEF IsIndexing
  <2> QED BY <2>0, <2>4
<1>3. S = Nat
  <2>1. S \in SUBSET Nat  OBVIOUS
  <2> HIDE DEF S
  <2> QED BY <1>1, <1>2, <2>1, SetInduction
<1> QED BY <1>3

(* A block handled: the index holds what the settler holds. *)
LEMMA BlockIndexed ==
  ASSUME ChainInv, LogInv, IndexRel
  PROVE  RelAt(Ix!IndexBlock(index, log, Chain), Len(log))
<1> DEFINE n == Len(log)
           h == CHOOSE f : IsIndexing(f, index, log, Chain, n)
<1>1. n \in Nat
  BY DEF LogInv, IsLog
<1>2. IsIndexing(h, index, log, Chain, n)
  BY <1>1, IndexingExists
<1>3. Ix!IndexBlock(index, log, Chain) = h[n]
  BY DEF Ix!IndexBlock, IsIndexing
<1> HIDE DEF h, n
<1> DEFINE S == {k \in Nat : k <= n => RelAt(h[k], k)}
<1>4. 0 \in S /\ h[0] = index
  <2>1. h[0] = index
    BY <1>1, <1>2 DEF IsIndexing
  <2> QED BY <2>1 DEF IndexRel
<1>5. ASSUME NEW k \in S PROVE k + 1 \in S
  <2>0. k \in Nat
    OBVIOUS
  <2>1. SUFFICES ASSUME k + 1 <= n PROVE RelAt(h[k+1], k+1)
    BY <2>0
  <2>2. RelAt(h[k], k) /\ k \in 0..(Len(log) - 1)
    BY <1>1, <2>0, <2>1 DEF n
  <2>3. At(h[k], k)
    BY <1>4, <2>2 DEF At
  <2>4. h[k+1] = Ix!Handle(h[k], log[k+1], Chain)
    <3>1. k + 1 \in 0..n /\ k + 1 # 0 /\ (k + 1) - 1 = k
      BY <1>1, <2>0, <2>1
    <3> QED BY <1>2, <3>1 DEF IsIndexing
  <2> QED BY <2>3, <2>4, HandleStep
<1>6. S = Nat
  <2>1. S \in SUBSET Nat  OBVIOUS
  <2> HIDE DEF S
  <2> QED BY <1>4, <1>5, <2>1, SetInduction
<1>7. RelAt(h[n], n)
  BY <1>1, <1>6
<1> QED BY <1>3, <1>7 DEF n

(* The logs of l after the k-th, and what a set of logs says. *)
Later(l, k) == {l[j] : j \in (k+1)..Len(l)}
SaysEntered(E, i) == \E e \in E : e.ev = "Entered" /\ e.id = i
SaysMoved(E, i) == \E e \in E : e.ev = "PositionTransferred" /\ e.id = i
SaysClaimed(E, i) == \E e \in E : e.ev = "Claimed" /\ e.id = i
SaysRefund(E, i) == \E e \in E : e.ev = "Claimed" /\ e.id = i /\ e.refund > 0
SaysFinal(E, v) == \E e \in E : e.ev = "VintageFinalized" /\ e.vintage = v
SaysCreated(E) == \E e \in E : e.ev = "MarketCreated"
SaysRefresh(E) ==
  \E e \in E : e.ev \in {"MarketCreated", "VintageFinalized", "Resolved", "Voided"}
SaysToggle(E) ==
  \E e \in E : e.ev = "VintageFinalized" \/ (e.ev = "Entered" /\ e.vintage # 0)

(* A log e of the block, followed by the logs E. *)
EntryOf(e, E) ==
  LET p == positions[e.id] IN
  /\ e.id \in 1..Count /\ e.outcome = p.outcome /\ e.vintage = p.vintage
  /\ ~SaysEntered(E, e.id)
  /\ ~SaysMoved(E, e.id) => e.owner = p.owner
  /\ status = "Open" /\ now < ResolutionTime
  /\ IF e.vintage = 0 THEN p.finalized /\ SaysCreated(E)
     ELSE ~p.finalized /\ vintageOpen /\ e.vintage = blockNo /\ vintageBlock = blockNo
MoveOf(e, E) ==
  LET p == positions[e.id] IN
  /\ e.id \in 1..Count /\ ~SaysEntered(E, e.id)
  /\ ~SaysMoved(E, e.id) => e.to = p.owner
ClaimOf(e, E) ==
  LET p == positions[e.id] IN
  /\ e.id \in 1..Count /\ ~SaysEntered(E, e.id)
  /\ e.payout > 0 \/ e.refund = 0 => p.claimed
  /\ e.refund > 0 => p.refunded
FinalOf(e, E) ==
  LET v == e.vintage IN
  /\ v \in Nat /\ 1 <= v /\ v < blockNo
  /\ \E i \in 1..Count : positions[i].vintage = v
  /\ \A i \in 1..Count : positions[i].vintage = v => positions[i].finalized
  /\ ~SaysToggle(E) => ~vintageOpen
EventOf(e, E) ==
  /\ e.ev \in Kinds
  /\ e.ev = "Entered" => EntryOf(e, E)
  /\ e.ev = "PositionTransferred" => MoveOf(e, E)
  /\ e.ev = "Claimed" => ClaimOf(e, E)
  /\ e.ev = "VintageFinalized" => FinalOf(e, E)
EventsOf(l) == \A j \in 1..Len(l) : EventOf(l[j], Later(l, j))

(* The logs left to handle, as a set. *)
LEMMA AfterIsLater ==
  ASSUME NEW k
  PROVE  /\ \A i : EnteredAfter(k, i) <=> SaysEntered(Later(log, k), i)
         /\ \A i : MovedAfter(k, i) <=> SaysMoved(Later(log, k), i)
         /\ \A i : ClaimedAfter(k, i) <=> SaysClaimed(Later(log, k), i)
         /\ \A i : RefundAfter(k, i) <=> SaysRefund(Later(log, k), i)
         /\ \A v : FinalAfter(k, v) <=> SaysFinal(Later(log, k), v)
         /\ CreatedAfter(k) <=> SaysCreated(Later(log, k))
         /\ RefreshAfter(k) <=> SaysRefresh(Later(log, k))
         /\ ToggleAfter(k) <=> SaysToggle(Later(log, k))
<1>1. \A i : EnteredAfter(k, i) <=> SaysEntered(Later(log, k), i)
  BY DEF EnteredAfter, SaysEntered, Later
<1>2. \A i : MovedAfter(k, i) <=> SaysMoved(Later(log, k), i)
  BY DEF MovedAfter, SaysMoved, Later
<1>3. \A i : ClaimedAfter(k, i) <=> SaysClaimed(Later(log, k), i)
  BY DEF ClaimedAfter, SaysClaimed, Later
<1>4. \A i : RefundAfter(k, i) <=> SaysRefund(Later(log, k), i)
  BY DEF RefundAfter, SaysRefund, Later
<1>5. \A v : FinalAfter(k, v) <=> SaysFinal(Later(log, k), v)
  BY DEF FinalAfter, SaysFinal, Later
<1>6. CreatedAfter(k) <=> SaysCreated(Later(log, k))
  BY DEF CreatedAfter, SaysCreated, Later
<1>7. RefreshAfter(k) <=> SaysRefresh(Later(log, k))
  BY DEF RefreshAfter, SaysRefresh, Later
<1>8. ToggleAfter(k) <=> SaysToggle(Later(log, k))
  BY DEF ToggleAfter, SaysToggle, Later
<1> QED BY <1>1, <1>2, <1>3, <1>4, <1>5, <1>6, <1>7, <1>8

LEMMA AfterIsLaterNext ==
  ASSUME NEW k
  PROVE  /\ \A i : EnteredAfter(k, i)' <=> SaysEntered(Later(log', k), i)
         /\ \A i : MovedAfter(k, i)' <=> SaysMoved(Later(log', k), i)
         /\ \A i : ClaimedAfter(k, i)' <=> SaysClaimed(Later(log', k), i)
         /\ \A i : RefundAfter(k, i)' <=> SaysRefund(Later(log', k), i)
         /\ \A v : FinalAfter(k, v)' <=> SaysFinal(Later(log', k), v)
         /\ CreatedAfter(k)' <=> SaysCreated(Later(log', k))
         /\ RefreshAfter(k)' <=> SaysRefresh(Later(log', k))
         /\ ToggleAfter(k)' <=> SaysToggle(Later(log', k))
<1>1. \A i : EnteredAfter(k, i)' <=> SaysEntered(Later(log', k), i)
  BY DEF EnteredAfter, SaysEntered, Later
<1>2. \A i : MovedAfter(k, i)' <=> SaysMoved(Later(log', k), i)
  BY DEF MovedAfter, SaysMoved, Later
<1>3. \A i : ClaimedAfter(k, i)' <=> SaysClaimed(Later(log', k), i)
  BY DEF ClaimedAfter, SaysClaimed, Later
<1>4. \A i : RefundAfter(k, i)' <=> SaysRefund(Later(log', k), i)
  BY DEF RefundAfter, SaysRefund, Later
<1>5. \A v : FinalAfter(k, v)' <=> SaysFinal(Later(log', k), v)
  BY DEF FinalAfter, SaysFinal, Later
<1>6. CreatedAfter(k)' <=> SaysCreated(Later(log', k))
  BY DEF CreatedAfter, SaysCreated, Later
<1>7. RefreshAfter(k)' <=> SaysRefresh(Later(log', k))
  BY DEF RefreshAfter, SaysRefresh, Later
<1>8. ToggleAfter(k)' <=> SaysToggle(Later(log', k))
  BY DEF ToggleAfter, SaysToggle, Later
<1> QED BY <1>1, <1>2, <1>3, <1>4, <1>5, <1>6, <1>7, <1>8

LEMMA EventIsOf ==
  ASSUME NEW j
  PROVE  /\ EventOK(j) => EventOf(log[j], Later(log, j))
         /\ EventOf(log[j], Later(log, j))' => EventOK(j)'
<1>1. EventOK(j) => EventOf(log[j], Later(log, j))
  <2>1. EnteredOK(j) => EntryOf(log[j], Later(log, j))
    BY AfterIsLater DEF EnteredOK, EntryOf
  <2>2. MovedOK(j) => MoveOf(log[j], Later(log, j))
    BY AfterIsLater DEF MovedOK, MoveOf
  <2>3. ClaimedOK(j) => ClaimOf(log[j], Later(log, j))
    BY AfterIsLater DEF ClaimedOK, ClaimOf
  <2>4. FinalOK(j) => FinalOf(log[j], Later(log, j))
    BY AfterIsLater DEF FinalOK, FinalOf
  <2> QED BY <2>1, <2>2, <2>3, <2>4 DEF EventOK, EventOf
<1>2. EventOf(log[j], Later(log, j))' => EventOK(j)'
  <2>0. Later(log, j)' = Later(log', j)
    BY DEF Later
  <2>1. EntryOf(log[j], Later(log, j))' => EnteredOK(j)'
    BY <2>0, AfterIsLaterNext DEF EnteredOK, EntryOf
  <2>2. MoveOf(log[j], Later(log, j))' => MovedOK(j)'
    BY <2>0, AfterIsLaterNext DEF MovedOK, MoveOf
  <2>3. ClaimOf(log[j], Later(log, j))' => ClaimedOK(j)'
    BY <2>0, AfterIsLaterNext DEF ClaimedOK, ClaimOf
  <2>4. FinalOf(log[j], Later(log, j))' => FinalOK(j)'
    BY <2>0, AfterIsLaterNext DEF FinalOK, FinalOf
  <2> QED BY <2>1, <2>2, <2>3, <2>4 DEF EventOK, EventOf
<1> QED BY <1>1, <1>2

(* Logs emitted after other logs. *)
LEMMA Shifted ==
  ASSUME NEW l, NEW ev, IsLog(l), IsLog(ev)
  PROVE  /\ IsLog(l \o ev) /\ Len(l \o ev) = Len(l) + Len(ev)
         /\ \A j \in 1..Len(l) : (l \o ev)[j] = l[j]
         /\ \A j \in 1..Len(ev) : (l \o ev)[Len(l) + j] = ev[j]
<1> DEFINE S == {l[j] : j \in 1..Len(l)} \cup {ev[j] : j \in 1..Len(ev)}
<1>0. Len(l) \in Nat /\ Len(ev) \in Nat
  BY DEF IsLog
<1>1. l \in [1..Len(l) -> S] /\ ev \in [1..Len(ev) -> S]
  BY DEF IsLog
<1>2. l \in Seq(S) /\ ev \in Seq(S)
  <2> HIDE DEF S
  <2> QED BY <1>0, <1>1
<1> HIDE DEF S
<1>3. /\ l \o ev \in Seq(S) /\ Len(l \o ev) = Len(l) + Len(ev)
      /\ \A j \in 1..Len(l) : (l \o ev)[j] = l[j]
      /\ \A j \in 1..Len(ev) : (l \o ev)[Len(l) + j] = ev[j]
  BY <1>0, <1>2
<1>4. IsLog(l \o ev)
  <2> DEFINE c == l \o ev
  <2> HIDE DEF c
  <2>1. c \in Seq(S) => IsLog(c)
    BY DEF IsLog
  <2> QED BY <1>3, <2>1 DEF c
<1> QED BY <1>3, <1>4

LEMMA LaterShifted ==
  ASSUME NEW l, NEW ev, IsLog(l), IsLog(ev)
  PROVE  /\ \A k \in 0..Len(l) : Later(l \o ev, k) = Later(l, k) \cup Later(ev, 0)
         /\ \A k \in 0..Len(ev) : Later(l \o ev, Len(l) + k) = Later(ev, k)
<1>0. Len(l) \in Nat /\ Len(ev) \in Nat
  BY DEF IsLog
<1> DEFINE c == l \o ev
<1>1. /\ Len(c) = Len(l) + Len(ev)
      /\ \A j \in 1..Len(l) : c[j] = l[j]
      /\ \A j \in 1..Len(ev) : c[Len(l) + j] = ev[j]
  BY Shifted
<1> HIDE DEF c
<1>2. ASSUME NEW k \in 0..Len(l) PROVE Later(c, k) = Later(l, k) \cup Later(ev, 0)
  <2>1. ASSUME NEW j \in (k+1)..Len(c) PROVE c[j] \in Later(l, k) \cup Later(ev, 0)
    <3>1. CASE j <= Len(l)
      BY <1>0, <1>1, <3>1 DEF Later
    <3>2. CASE j > Len(l)
      <4>1. j - Len(l) \in 1..Len(ev) /\ Len(l) + (j - Len(l)) = j
        BY <1>0, <1>1, <3>2
      <4>2. c[j] = ev[j - Len(l)]
        BY <1>1, <4>1
      <4>3. j - Len(l) \in (0+1)..Len(ev)
        BY <4>1
      <4> QED BY <4>2, <4>3 DEF Later
    <3> QED BY <1>0, <3>1, <3>2
  <2>2. ASSUME NEW j \in (k+1)..Len(l) PROVE l[j] \in Later(c, k)
    <3>1. j \in (k+1)..Len(c) /\ c[j] = l[j]
      BY <1>0, <1>1
    <3> QED BY <3>1 DEF Later
  <2>3. ASSUME NEW j \in (0+1)..Len(ev) PROVE ev[j] \in Later(c, k)
    <3>1. Len(l) + j \in (k+1)..Len(c) /\ c[Len(l) + j] = ev[j]
      BY <1>0, <1>1
    <3> QED BY <3>1 DEF Later
  <2> QED BY <2>1, <2>2, <2>3 DEF Later
<1>3. ASSUME NEW k \in 0..Len(ev) PROVE Later(c, Len(l) + k) = Later(ev, k)
  <2>1. ASSUME NEW j \in (Len(l) + k + 1)..Len(c) PROVE c[j] \in Later(ev, k)
    <3>1. j - Len(l) \in (k+1)..Len(ev) /\ j - Len(l) \in 1..Len(ev) /\ Len(l) + (j - Len(l)) = j
      BY <1>0, <1>1
    <3>2. c[j] = ev[j - Len(l)]
      BY <1>1, <3>1
    <3> QED BY <3>1, <3>2 DEF Later
  <2>2. ASSUME NEW j \in (k+1)..Len(ev) PROVE ev[j] \in Later(c, Len(l) + k)
    <3>1. Len(l) + j \in (Len(l) + k + 1)..Len(c) /\ c[Len(l) + j] = ev[j]
      BY <1>0, <1>1
    <3> QED BY <3>1 DEF Later
  <2> QED BY <2>1, <2>2 DEF Later
<1> QED BY <1>2, <1>3 DEF c

(* What a function that emits the logs E does to a stake. *)
StakeKept(i, E) ==
  LET p == positions[i]  q == positions'[i] IN
  /\ q.outcome = p.outcome /\ q.vintage = p.vintage /\ q.offered = p.offered
  /\ p.finalized => q.finalized /\ q.accepted = p.accepted /\ q.entryAcc = p.entryAcc
  /\ ~p.finalized /\ q.finalized => SaysFinal(E, p.vintage)
  /\ p.claimed => q.claimed
  /\ ~p.claimed /\ q.claimed => SaysClaimed(E, i)
  /\ p.refunded => q.refunded
  /\ ~p.refunded /\ q.refunded /\ q.offered > q.accepted => SaysRefund(E, i)
  /\ q.owner = p.owner \/ SaysMoved(E, i)
StakesKept(E) ==
  /\ Count \in Nat /\ Count' \in Nat /\ Count <= Count'
  /\ \A i \in 1..Count : StakeKept(i, E)
  /\ \A i \in (Count+1)..Count' : /\ SaysEntered(E, i)
                                  /\ positions'[i].vintage \in {0, blockNo}
  /\ \A i : SaysEntered(E, i) => i \in (Count+1)..Count'
ViewKept(E) ==
  /\ ~SaysRefresh(E) => /\ status' = status /\ winner' = winner
                        /\ \A w \in Outcomes : /\ Headroom(books'[w]) = Headroom(books[w])
                                               /\ books'[w].acc = books[w].acc
  /\ ~SaysToggle(E) => vintageOpen' = vintageOpen
StaysOpen ==
  /\ blockNo' = blockNo /\ now' = now
  /\ status = "Open" /\ now < ResolutionTime =>
       /\ status' = "Open"
       /\ vintageOpen /\ vintageBlock = blockNo =>
            /\ vintageOpen' /\ vintageBlock' = vintageBlock
            /\ \A i \in 1..Count : ~positions[i].finalized => ~positions'[i].finalized
Begun(ev) ==
  /\ status' # "None"
  /\ status = "None" => ev[1].ev = "Entered" /\ ev[1].vintage = 0
  /\ opening' => N <= Count'
  /\ vintageOpen' => vintageBlock' >= 1 /\ \E i \in 1..Count' : ~positions'[i].finalized

(* A function that emits the logs ev. *)
StepOK(ev) ==
  /\ IsLog(ev) /\ Len(ev) > 0 /\ log' = log \o ev /\ index' = index
  /\ StakesKept(Later(ev, 0)) /\ ViewKept(Later(ev, 0)) /\ StaysOpen /\ Begun(ev)
  /\ EventsOf(ev)'

(* The logs of the block once the function has emitted its own. *)
LEMMA StepLog ==
  ASSUME LogInv, NEW ev, StepOK(ev)
  PROVE  /\ IsLog(log') /\ Len(log') = Len(log) + Len(ev)
         /\ Len(log) \in Nat /\ Len(ev) \in Nat /\ Len(ev) > 0
         /\ \A j \in 1..Len(log) : log'[j] = log[j]
         /\ \A j \in 1..Len(ev) : log'[Len(log) + j] = ev[j]
         /\ \A k \in 0..Len(log) : Later(log', k) = Later(log, k) \cup Later(ev, 0)
         /\ \A k \in 0..Len(ev) : Later(log', Len(log) + k) = Later(ev, k)
<1>1. IsLog(log) /\ IsLog(ev) /\ log' = log \o ev /\ Len(ev) > 0
  BY DEF LogInv, StepOK
<1>2. PICK l : l = log
  OBVIOUS
<1>3. IsLog(l) /\ IsLog(ev) /\ log' = l \o ev
  BY <1>1, <1>2
<1>4. /\ IsLog(l \o ev) /\ Len(l \o ev) = Len(l) + Len(ev)
      /\ \A j \in 1..Len(l) : (l \o ev)[j] = l[j]
      /\ \A j \in 1..Len(ev) : (l \o ev)[Len(l) + j] = ev[j]
  BY <1>3, Shifted
<1>5. /\ \A k \in 0..Len(l) : Later(l \o ev, k) = Later(l, k) \cup Later(ev, 0)
      /\ \A k \in 0..Len(ev) : Later(l \o ev, Len(l) + k) = Later(ev, k)
  BY <1>3, LaterShifted
<1>6. Len(l) \in Nat /\ Len(ev) \in Nat
  BY <1>3 DEF IsLog
<1>7. IsLog(log')
  BY ONLY <1>3, <1>4
<1>8. Later(log, 0) = Later(l, 0) /\ \A k : Later(log, k) = Later(l, k)
  BY <1>2
<1> QED BY ONLY <1>1, <1>2, <1>3, <1>4, <1>5, <1>6, <1>7, <1>8

LEMMA UnionSays ==
  ASSUME NEW D, NEW E
  PROVE  /\ \A i : SaysEntered(D \cup E, i) <=> SaysEntered(D, i) \/ SaysEntered(E, i)
         /\ \A i : SaysMoved(D \cup E, i) <=> SaysMoved(D, i) \/ SaysMoved(E, i)
         /\ \A i : SaysClaimed(D \cup E, i) <=> SaysClaimed(D, i) \/ SaysClaimed(E, i)
         /\ \A i : SaysRefund(D \cup E, i) <=> SaysRefund(D, i) \/ SaysRefund(E, i)
         /\ \A v : SaysFinal(D \cup E, v) <=> SaysFinal(D, v) \/ SaysFinal(E, v)
         /\ SaysCreated(D \cup E) <=> SaysCreated(D) \/ SaysCreated(E)
         /\ SaysRefresh(D \cup E) <=> SaysRefresh(D) \/ SaysRefresh(E)
         /\ SaysToggle(D \cup E) <=> SaysToggle(D) \/ SaysToggle(E)
<1>1. \A i : SaysEntered(D \cup E, i) <=> SaysEntered(D, i) \/ SaysEntered(E, i)
  BY DEF SaysEntered
<1>2. \A i : SaysMoved(D \cup E, i) <=> SaysMoved(D, i) \/ SaysMoved(E, i)
  BY DEF SaysMoved
<1>3. \A i : SaysClaimed(D \cup E, i) <=> SaysClaimed(D, i) \/ SaysClaimed(E, i)
  BY DEF SaysClaimed
<1>4. \A i : SaysRefund(D \cup E, i) <=> SaysRefund(D, i) \/ SaysRefund(E, i)
  BY DEF SaysRefund
<1>5. \A v : SaysFinal(D \cup E, v) <=> SaysFinal(D, v) \/ SaysFinal(E, v)
  BY DEF SaysFinal
<1>6. SaysCreated(D \cup E) <=> SaysCreated(D) \/ SaysCreated(E)
  BY DEF SaysCreated
<1>7. SaysRefresh(D \cup E) <=> SaysRefresh(D) \/ SaysRefresh(E)
  BY DEF SaysRefresh
<1>8. SaysToggle(D \cup E) <=> SaysToggle(D) \/ SaysToggle(E)
  BY DEF SaysToggle
<1> QED BY <1>1, <1>2, <1>3, <1>4, <1>5, <1>6, <1>7, <1>8

(* A log emitted earlier in the block is still right about the settler. *)
LEMMA OldEvent ==
  ASSUME NEW e, NEW D, EventOf(e, D), NEW E, StakesKept(E), ViewKept(E), StaysOpen
  PROVE  EventOf(e, D \cup E)'
<1> DEFINE F == D \cup E
<1>0. /\ \A i : SaysEntered(F, i) <=> SaysEntered(D, i) \/ SaysEntered(E, i)
      /\ \A i : SaysMoved(F, i) <=> SaysMoved(D, i) \/ SaysMoved(E, i)
      /\ SaysCreated(F) <=> SaysCreated(D) \/ SaysCreated(E)
      /\ SaysToggle(F) <=> SaysToggle(D) \/ SaysToggle(E)
  BY UnionSays
<1> HIDE DEF F
<1>1. Count \in Nat /\ Count' \in Nat /\ Count <= Count'
  BY DEF StakesKept
<1>2. ASSUME NEW i \in 1..Count
      PROVE  i \in 1..Count' /\ ~SaysEntered(E, i) /\ StakeKept(i, E)
  BY <1>1 DEF StakesKept
<1>3. ASSUME EntryOf(e, D) PROVE EntryOf(e, F)'
  <2>1. e.id \in 1..Count
    BY <1>3 DEF EntryOf
  <2>2. e.id \in 1..Count' /\ ~SaysEntered(E, e.id) /\ StakeKept(e.id, E)
    BY <1>2, <2>1
  <2>3. /\ e.outcome = positions'[e.id].outcome /\ e.vintage = positions'[e.id].vintage
        /\ ~SaysEntered(F, e.id)
        /\ ~SaysMoved(F, e.id) => e.owner = positions'[e.id].owner
    BY <1>0, <1>3, <2>2 DEF EntryOf, StakeKept
  <2>4. status' = "Open" /\ now' < ResolutionTime /\ blockNo' = blockNo
    BY <1>3 DEF EntryOf, StaysOpen
  <2>5. e.vintage = 0 => positions'[e.id].finalized /\ SaysCreated(F)
    BY <1>0, <1>3, <2>2 DEF EntryOf, StakeKept
  <2>6. e.vintage # 0 => /\ ~positions'[e.id].finalized /\ vintageOpen'
                         /\ e.vintage = blockNo' /\ vintageBlock' = blockNo'
    BY <1>3, <2>1 DEF EntryOf, StaysOpen
  <2> QED BY <2>2, <2>3, <2>4, <2>5, <2>6 DEF EntryOf
<1>4. ASSUME MoveOf(e, D) PROVE MoveOf(e, F)'
  <2>1. e.id \in 1..Count
    BY <1>4 DEF MoveOf
  <2>2. e.id \in 1..Count' /\ ~SaysEntered(E, e.id) /\ StakeKept(e.id, E)
    BY <1>2, <2>1
  <2> QED BY <1>0, <1>4, <2>2 DEF MoveOf, StakeKept
<1>5. ASSUME ClaimOf(e, D) PROVE ClaimOf(e, F)'
  <2>1. e.id \in 1..Count
    BY <1>5 DEF ClaimOf
  <2>2. e.id \in 1..Count' /\ ~SaysEntered(E, e.id) /\ StakeKept(e.id, E)
    BY <1>2, <2>1
  <2> QED BY <1>0, <1>5, <2>2 DEF ClaimOf, StakeKept
<1>6. ASSUME FinalOf(e, D) PROVE FinalOf(e, F)'
  <2> DEFINE v == e.vintage
  <2>1. /\ v \in Nat /\ 1 <= v /\ v < blockNo /\ blockNo' = blockNo
    BY <1>6 DEF FinalOf, StaysOpen
  <2>2. PICK i \in 1..Count : positions[i].vintage = v
    BY <1>6 DEF FinalOf
  <2>3. i \in 1..Count' /\ positions'[i].vintage = v
    BY <1>2, <2>2 DEF StakeKept
  <2>4. ASSUME NEW n \in 1..Count', positions'[n].vintage = v
        PROVE  positions'[n].finalized
    <3>1. CASE n \in 1..Count
      BY <1>2, <1>6, <2>4, <3>1 DEF StakeKept, FinalOf
    <3>2. CASE n \notin 1..Count
      <4>1. n \in (Count+1)..Count'
        BY <1>1, <3>2
      <4>2. positions'[n].vintage \in {0, blockNo}
        BY <4>1 DEF StakesKept
      <4>3. v # 0 /\ v # blockNo
        BY ONLY <2>1
      <4> QED BY <2>4, <4>2, <4>3
    <3> QED BY <3>1, <3>2
  <2>5. ~SaysToggle(F) => ~vintageOpen'
    BY <1>0, <1>6 DEF FinalOf, ViewKept
  <2> QED BY <2>1, <2>3, <2>4, <2>5 DEF FinalOf
<1> QED BY <1>3, <1>4, <1>5, <1>6 DEF EventOf, F

LEMMA StepKeepsEvents ==
  ASSUME LogInv, NEW ev, StepOK(ev)
  PROVE  \A j \in 1..Len(log') : EventOK(j)'
<1> DEFINE E == Later(ev, 0)
<1>1. /\ Len(log') = Len(log) + Len(ev) /\ Len(log) \in Nat /\ Len(ev) \in Nat
      /\ \A j \in 1..Len(log) : log'[j] = log[j]
      /\ \A j \in 1..Len(ev) : log'[Len(log) + j] = ev[j]
      /\ \A k \in 0..Len(log) : Later(log', k) = Later(log, k) \cup E
      /\ \A k \in 0..Len(ev) : Later(log', Len(log) + k) = Later(ev, k)
  BY StepLog
<1>2. StakesKept(E) /\ ViewKept(E) /\ StaysOpen /\ EventsOf(ev)'
  BY DEF StepOK
<1> HIDE DEF E
<1>3. ASSUME NEW j \in 1..Len(log') PROVE EventOf(log[j], Later(log, j))'
  <2>0. ASSUME NEW e, NEW D, e = log'[j], D = Later(log', j), EventOf(e, D)'
        PROVE  EventOf(log[j], Later(log, j))'
    <3>1. Later(log, j)' = D /\ log[j]' = e
      BY <2>0 DEF Later
    <3> QED BY <2>0, <3>1 DEF EventOf, EntryOf, MoveOf, ClaimOf, FinalOf
  <2>1. CASE j <= Len(log)
    <3>1. j \in 1..Len(log) /\ j \in 0..Len(log)
      BY <1>1, <2>1
    <3>2. EventOf(log[j], Later(log, j))
      BY <3>1, EventIsOf DEF LogInv
    <3>3. log'[j] = log[j] /\ Later(log', j) = Later(log, j) \cup E
      BY <1>1, <3>1
    <3>4. PICK e, D : e = log[j] /\ D = Later(log, j)
      OBVIOUS
    <3>5. EventOf(e, D)
      BY <3>2, <3>4
    <3>6. EventOf(e, D \cup E)'
      BY <1>2, <3>5, OldEvent
    <3> QED BY <2>0, <3>3, <3>4, <3>6
  <2>2. CASE j > Len(log)
    <3>1. PICK m \in 1..Len(ev) : j = Len(log) + m
      <4>1. j - Len(log) \in 1..Len(ev) /\ j = Len(log) + (j - Len(log))
        BY <1>1, <2>2
      <4> QED BY <4>1
    <3>2. log'[j] = ev[m] /\ Later(log', j) = Later(ev, m)
      BY <1>1, <3>1
    <3>3. EventOf(ev[m], Later(ev, m))'
      BY <1>2 DEF EventsOf
    <3> QED BY <2>0, <3>2, <3>3
  <2> QED BY <1>1, <2>1, <2>2
<1> QED BY <1>3, EventIsOf

(* Every function keeps the logs of the block right, and the index as far as it is. *)
LEMMA StepKeepsLog ==
  ASSUME LogInv, NEW ev, StepOK(ev)
  PROVE  LogInv'
<1> DEFINE E == Later(ev, 0)
<1>1. /\ IsLog(log') /\ Len(log') = Len(log) + Len(ev)
      /\ Len(log) \in Nat /\ Len(ev) \in Nat /\ Len(ev) > 0
      /\ \A j \in 1..Len(log) : log'[j] = log[j]
      /\ \A j \in 1..Len(ev) : log'[Len(log) + j] = ev[j]
      /\ Later(log', 0) = Later(log, 0) \cup E
  <2>1. 0 \in 0..Len(log)
    BY StepLog
  <2> QED BY <2>1, StepLog
<1>2. ViewKept(E) /\ Begun(ev) /\ index' = index
  BY DEF StepOK
<1> HIDE DEF E
<1>3. IsLog(log)'
  <2>1. IsLog(log)' <=> IsLog(log')
    BY DEF IsLog
  <2> QED BY <1>1, <2>1
<1>4. (\A j \in 1..Len(log) : EventOK(j))'
  BY StepKeepsEvents
<1>5. log' # <<>>
  <2>1. Len(<<>>) = 0
    OBVIOUS
  <2>2. Len(log') > 0
    BY <1>1
  <2> QED BY <2>1, <2>2
<1>6. Known(index)' = Known(index)
  BY <1>2 DEF Known
<1>7. ASSUME ~Known(index)
      PROVE  /\ ~ToggleAfter(0)' => ~vintageOpen'
             /\ log'[1].ev = "Entered" /\ log'[1].vintage = 0
  <2>1. ~ToggleAfter(0)' => ~vintageOpen'
    <3>1. ToggleAfter(0)' <=> SaysToggle(Later(log, 0) \cup E)
      BY <1>1, AfterIsLaterNext
    <3>2. SaysToggle(Later(log, 0) \cup E) <=> SaysToggle(Later(log, 0)) \/ SaysToggle(E)
      BY UnionSays
    <3>3. ToggleAfter(0) <=> SaysToggle(Later(log, 0))
      BY AfterIsLater
    <3>4. ~ToggleAfter(0) => ~vintageOpen
      BY <1>7 DEF LogInv
    <3> QED BY <1>2, <3>1, <3>2, <3>3, <3>4 DEF ViewKept
  <2>2. CASE log = <<>>
    <3>1. status = "None"
      BY <1>7, <2>2 DEF LogInv
    <3>2. Len(log) = 0
      BY <2>2
    <3>3. log'[1] = ev[1]
      <4>1. 1 \in 1..Len(ev) /\ Len(log) + 1 = 1
        BY <1>1, <3>2
      <4> QED BY <1>1, <4>1
    <3> QED BY <1>2, <2>1, <3>1, <3>3 DEF Begun
  <2>3. CASE log # <<>>
    <3>1. Len(log) # 0
      <4>1. ASSUME Len(log) = 0 PROVE log = <<>>
        <5>1. log = [j \in 1..0 |-> log[j]]
          BY <4>1 DEF LogInv, IsLog
        <5> QED BY <5>1
      <4> QED BY <2>3, <4>1
    <3>2. log'[1] = log[1]
      BY <1>1, <3>1
    <3> QED BY <1>7, <2>1, <2>3, <3>2 DEF LogInv
  <2> QED BY <2>2, <2>3
<1>8. status' # "None"
  BY <1>2 DEF Begun
<1>9. (opening => N <= Count)' /\ (vintageOpen => vintageBlock >= 1 /\ \E i \in 1..Count : ~positions[i].finalized)'
  BY <1>2 DEF Begun
<1> QED BY <1>3, <1>4, <1>5, <1>6, <1>7, <1>8, <1>9 DEF LogInv

LEMMA StepKeepsIndex ==
  ASSUME ChainInv, LogInv, IndexRel, NEW ev, StepOK(ev)
  PROVE  IndexRel'
<1> DEFINE E == Later(ev, 0)
<1>1. Later(log', 0) = Later(log, 0) \cup E
  <2>1. 0 \in 0..Len(log)
    BY StepLog
  <2> QED BY <2>1, StepLog
<1>2. StakesKept(E) /\ ViewKept(E) /\ index' = index
  BY DEF StepOK
<1> HIDE DEF E
<1>3. /\ \A i : EnteredAfter(0, i)' <=> EnteredAfter(0, i) \/ SaysEntered(E, i)
      /\ \A i : MovedAfter(0, i)' <=> MovedAfter(0, i) \/ SaysMoved(E, i)
      /\ \A i : ClaimedAfter(0, i)' <=> ClaimedAfter(0, i) \/ SaysClaimed(E, i)
      /\ \A i : RefundAfter(0, i)' <=> RefundAfter(0, i) \/ SaysRefund(E, i)
      /\ \A v : FinalAfter(0, v)' <=> FinalAfter(0, v) \/ SaysFinal(E, v)
      /\ RefreshAfter(0)' <=> RefreshAfter(0) \/ SaysRefresh(E)
      /\ ToggleAfter(0)' <=> ToggleAfter(0) \/ SaysToggle(E)
  BY <1>1, AfterIsLater, AfterIsLaterNext, UnionSays
<1> DEFINE m == index.market
           bs == index.books
           qs == index.positions
           vs == index.vintages
<1>4. /\ IsStore(index) /\ HoldingsAt(qs, 0) /\ PreviewsAt(qs, 0) /\ VintagesAt(qs, vs)
      /\ MarketAt(m, 0) /\ BooksAt(m, bs, 0)
  BY DEF IndexRel, RelAt, Agree
<1>5. /\ Count \in Nat /\ Count' \in Nat /\ Count <= Count'
      /\ \A i : SaysEntered(E, i) <=> i \in (Count+1)..Count'
      /\ \A i \in 1..Count : StakeKept(i, E)
  BY <1>2 DEF StakesKept
<1>6. \A i \in 1..Count : positions[i].refunded => positions[i].finalized
  BY DEF ChainInv, MoneyInv, RefundOK, Count
<1>7. PICK m0, bs0, qs0, vs0 : m0 = m /\ bs0 = bs /\ qs0 = qs /\ vs0 = vs
  OBVIOUS
<1>8. /\ HoldingsAt(qs0, 0) /\ PreviewsAt(qs0, 0) /\ VintagesAt(qs0, vs0)
      /\ MarketAt(m0, 0) /\ BooksAt(m0, bs0, 0)
  BY <1>4, <1>7
<1>9. DOMAIN qs0 = {i \in 1..Count' : ~EnteredAfter(0, i)'}
  BY <1>3, <1>5, <1>8 DEF HoldingsAt
<1>10. ASSUME NEW i \in DOMAIN qs0 PROVE IsHolding(qs0[i]) /\ HoldingAt(qs0[i], i, 0)'
  <2>1. i \in 1..Count /\ IsHolding(qs0[i]) /\ HoldingAt(qs0[i], i, 0)
    BY <1>8 DEF HoldingsAt
  <2>2. StakeKept(i, E)
    BY <1>5, <2>1
  <2>3. PICK q : q = qs0[i]
    OBVIOUS
  <2>4. HoldingAt(q, i, 0)
    BY <2>1, <2>3
  <2>5. HoldingAt(q, i, 0)'
    BY <1>3, <1>6, <2>1, <2>2, <2>4 DEF HoldingAt, StakeKept
  <2> QED BY <2>1, <2>3, <2>5
<1>11. HoldingsAt(qs0, 0)'
  BY <1>9, <1>10 DEF HoldingsAt
<1>12. PreviewsAt(qs0, 0)'
  <2>1. SUFFICES ASSUME ~RefreshAfter(0)', NEW i \in DOMAIN qs0, qs0[i].finalized
                 PROVE  qs0[i].previewPayout = Shown(positions[i])'
    BY DEF PreviewsAt
  <2>2. /\ ~RefreshAfter(0) /\ status' = status /\ winner' = winner
        /\ \A w \in Outcomes : books'[w].acc = books[w].acc
    BY <1>2, <1>3, <2>1 DEF ViewKept
  <2>3. qs0[i].previewPayout = Shown(positions[i])
    BY <1>8, <2>1, <2>2 DEF PreviewsAt
  <2>4. i \in 1..Count /\ positions[i].finalized
    BY <1>8, <2>1 DEF HoldingsAt, HoldingAt
  <2>5. /\ positions'[i].outcome = positions[i].outcome
        /\ positions'[i].accepted = positions[i].accepted
        /\ positions'[i].entryAcc = positions[i].entryAcc
    BY <1>5, <2>4 DEF StakeKept
  <2>6. positions[i].outcome \in Outcomes
    <3>1. CASE status # "None"
      BY <2>4, <3>1, ChainStakes DEF StakeOK
    <3>2. CASE status = "None"
      <4>1. positions = <<>>
        BY <3>2 DEF ChainInv, IInv, LedgerInv, Blank
      <4>2. Count = 0
        BY <4>1 DEF Count
      <4> QED BY <2>4, <4>2
    <3> QED BY <3>1, <3>2
  <2>7. Shown(positions[i])' = Shown(positions[i])
    BY <2>2, <2>5, <2>6 DEF Shown, Payout, Weight, Settlement, Wins
  <2> QED BY <2>3, <2>7
<1>13. VintagesAt(qs0, vs0)'
  BY <1>8 DEF VintagesAt
<1>14. MarketAt(m0, 0)'
  <2>1. m0 # Ix!NoMarket =>
          /\ IsMarket(m0)
          /\ ~ToggleAfter(0)' => (m0.openVintage # None <=> vintageOpen')
          /\ ~RefreshAfter(0)' => /\ m0.status = status'
                                  /\ status' = "Resolved" => m0.winner = winner'
    BY <1>2, <1>3, <1>8 DEF MarketAt, ViewKept
  <2> QED BY <2>1 DEF MarketAt
<1>15. BooksAt(m0, bs0, 0)'
  BY <1>2, <1>3, <1>8 DEF BooksAt, ViewKept
<1>16. Agree(m0, bs0, qs0, vs0, 0)'
  BY <1>11, <1>12, <1>13, <1>14, <1>15 DEF Agree
<1>17. index' = index /\ index'.market = m0 /\ index'.books = bs0 /\ index'.positions = qs0 /\ index'.vintages = vs0
  BY <1>2, <1>7
<1>18. IsStore(index)'
  <2>1. PICK x : x = index
    OBVIOUS
  <2>2. IsStore(x)
    BY <1>4, <2>1
  <2> QED BY <1>2, <2>1, <2>2
<1>19. Agree(index.market, index.books, index.positions, index.vintages, 0)'
  BY <1>16, <1>17
<1> QED BY <1>18, <1>19 DEF IndexRel, RelAt

(* The lists of logs the functions emit. *)
LEMMA OneLog ==
  ASSUME NEW a
  PROVE  /\ IsLog(<<a>>) /\ Len(<<a>>) = 1
         /\ Later(<<a>>, 0) = {a} /\ Later(<<a>>, 1) = {}
<1>1. \A j : j \in (0+1)..1 <=> j = 1
  OBVIOUS
<1>2. (1+1)..1 = {}
  OBVIOUS
<1> QED BY <1>1, <1>2 DEF IsLog, Later
LEMMA TwoLogs ==
  ASSUME NEW a, NEW b
  PROVE  /\ IsLog(<<a, b>>) /\ Len(<<a, b>>) = 2
         /\ Later(<<a, b>>, 0) = {a, b} /\ Later(<<a, b>>, 1) = {b} /\ Later(<<a, b>>, 2) = {}
<1>1. \A j : j \in (0+1)..2 <=> j = 1 \/ j = 2
  OBVIOUS
<1>2. \A j : j \in (1+1)..2 <=> j = 2
  OBVIOUS
<1>3. (2+1)..2 = {}
  OBVIOUS
<1>4. Len(<<a, b>>) = 2 /\ <<a, b>>[1] = a /\ <<a, b>>[2] = b
  OBVIOUS
<1>5. IsLog(<<a, b>>)
  BY DEF IsLog
<1>6. Later(<<a, b>>, 0) = {a, b}
  BY <1>1, <1>4 DEF Later
<1>7. Later(<<a, b>>, 1) = {b}
  BY <1>2, <1>4 DEF Later
<1>8. Later(<<a, b>>, 2) = {}
  BY <1>3, <1>4 DEF Later
<1> QED BY <1>4, <1>5, <1>6, <1>7, <1>8
LEMMA ThreeLogs ==
  ASSUME NEW a, NEW b, NEW c
  PROVE  /\ IsLog(<<a, b, c>>) /\ Len(<<a, b, c>>) = 3
         /\ Later(<<a, b, c>>, 0) = {a, b, c} /\ Later(<<a, b, c>>, 1) = {b, c}
         /\ Later(<<a, b, c>>, 2) = {c} /\ Later(<<a, b, c>>, 3) = {}
<1>1. \A j : j \in (0+1)..3 <=> j = 1 \/ j = 2 \/ j = 3
  OBVIOUS
<1>2. \A j : j \in (1+1)..3 <=> j = 2 \/ j = 3
  OBVIOUS
<1>3. \A j : j \in (2+1)..3 <=> j = 3
  OBVIOUS
<1>4. (3+1)..3 = {}
  OBVIOUS
<1>5. Len(<<a, b, c>>) = 3 /\ <<a, b, c>>[1] = a /\ <<a, b, c>>[2] = b /\ <<a, b, c>>[3] = c
  OBVIOUS
<1>6. IsLog(<<a, b, c>>)
  BY DEF IsLog
<1>7. Later(<<a, b, c>>, 0) = {a, b, c}
  BY <1>1, <1>5 DEF Later
<1>8. Later(<<a, b, c>>, 1) = {b, c}
  BY <1>2, <1>5 DEF Later
<1>9. Later(<<a, b, c>>, 2) = {c}
  BY <1>3, <1>5 DEF Later
<1>10. Later(<<a, b, c>>, 3) = {}
  BY <1>4, <1>5 DEF Later
<1> QED BY <1>5, <1>6, <1>7, <1>8, <1>9, <1>10

LEMMA OneEvent ==
  ASSUME NEW a, EventOf(a, {})'
  PROVE  EventsOf(<<a>>)'
<1>1. PICK l : l = <<a>>
  OBVIOUS
<1>2. /\ Len(l) = 1 /\ Later(l, 1) = {} /\ l[1] = a
  BY <1>1, OneLog
<1>3. \A j : j \in 1..1 <=> j = 1
  OBVIOUS
<1>4. EventsOf(l)'
  BY <1>2, <1>3 DEF EventsOf
<1> QED BY <1>1, <1>4
LEMMA TwoEvents ==
  ASSUME NEW a, NEW b, EventOf(a, {b})', EventOf(b, {})'
  PROVE  EventsOf(<<a, b>>)'
<1>1. PICK l : l = <<a, b>>
  OBVIOUS
<1>2. /\ Len(l) = 2 /\ Later(l, 1) = {b} /\ Later(l, 2) = {} /\ l[1] = a /\ l[2] = b
  BY <1>1, TwoLogs
<1>3. \A j : j \in 1..2 <=> j = 1 \/ j = 2
  OBVIOUS
<1>4. EventsOf(l)'
  BY <1>2, <1>3 DEF EventsOf
<1> QED BY <1>1, <1>4
LEMMA ThreeEvents ==
  ASSUME NEW a, NEW b, NEW c, EventOf(a, {b, c})', EventOf(b, {c})', EventOf(c, {})'
  PROVE  EventsOf(<<a, b, c>>)'
<1>1. PICK l : l = <<a, b, c>>
  OBVIOUS
<1>2. /\ Len(l) = 3 /\ Later(l, 1) = {b, c} /\ Later(l, 2) = {c} /\ Later(l, 3) = {}
      /\ l[1] = a /\ l[2] = b /\ l[3] = c
  BY <1>1, ThreeLogs
<1>3. \A j : j \in 1..3 <=> j = 1 \/ j = 2 \/ j = 3
  OBVIOUS
<1>4. EventsOf(l)'
  BY <1>2, <1>3 DEF EventsOf
<1> QED BY <1>1, <1>4

(* Logs that say nothing of a position or a vintage. *)
LEMMA PlainEvent ==
  ASSUME NEW e, NEW E,
         e.ev \in Kinds \ {"Entered", "PositionTransferred", "Claimed", "VintageFinalized"}
  PROVE  EventOf(e, E)'
BY DEF EventOf

(* A stake once the open vintage, if it is due, is booked. *)
LEMMA RolledStake ==
  ASSUME ChainInv, status # "None", NEW due \in BOOLEAN, NEW i \in 1..Count
  PROVE  LET p == positions[i]  r == PositionsAfter(due)[i] IN
         /\ r.outcome = p.outcome /\ r.vintage = p.vintage /\ r.offered = p.offered
         /\ r.owner = p.owner /\ r.claimed = p.claimed /\ r.refunded = p.refunded
         /\ p.finalized => r = p
         /\ due => r.finalized
         /\ ~due => r = p
         /\ ~p.finalized => vintageOpen /\ p.vintage = vintageBlock
         /\ p.finalized \in BOOLEAN /\ r.finalized \in BOOLEAN
<1>0. LedgerType /\ PendingOK(books, positions, pending)
  BY LedgerTyped DEF LedgerOK, ChainInv
<1>1. positions[i] \in Position /\ Count = Len(positions)
  BY <1>0, PositionAt DEF Count
<1>2. ~positions[i].finalized => vintageOpen /\ positions[i].vintage = vintageBlock
  BY <1>1 DEF ChainInv, BatchInv, AgeInv, AgeOK
<1>3. positions[i].finalized => PositionsAfter(due)[i] = positions[i]
  BY RollKeeps DEF ChainInv
<1>4. CASE ~due
  <2>1. PositionsAfter(due)[i] = positions[i]
    BY <1>4 DEF PositionsAfter
  <2> QED BY <1>1, <1>2, <1>4, <2>1 DEF Position
<1>5. CASE due
  <2>1. i \in pending <=> ~positions[i].finalized
    BY <1>0, <1>1 DEF PendingOK
  <2>2. CASE positions[i].finalized
    BY <1>2, <1>3, <1>5, <2>2
  <2>3. CASE ~positions[i].finalized
    <3>1. PICK a, e : PositionsAfter(due)[i]
             = [positions[i] EXCEPT !.accepted = a, !.entryAcc = e, !.finalized = TRUE]
      BY <1>5, <2>1, <2>3, Zenon DEF PositionsAfter, FinalPositions
    <3> QED BY <1>1, <1>2, <1>5, <2>3, <3>1 DEF Position
  <2> QED BY <2>2, <2>3
<1> QED BY <1>4, <1>5

(* A function that books the due vintage, if any, and enters nothing. *)
Rolled(due, E) ==
  /\ status # "None" /\ status' # "None" /\ due \in BOOLEAN /\ (due => RollDue)
  /\ blockNo' = blockNo /\ now' = now /\ vintageBlock' = vintageBlock
  /\ vintageOpen' = (vintageOpen /\ ~due)
  /\ Count' = Count
  /\ \A w \in Outcomes : /\ Headroom(books'[w]) = Headroom(BooksAfter(due)[w])
                         /\ books'[w].acc = BooksAfter(due)[w].acc
  /\ \A i \in 1..Count :
       LET r == PositionsAfter(due)[i]  q == positions'[i] IN
       /\ q.outcome = r.outcome /\ q.vintage = r.vintage /\ q.offered = r.offered
       /\ q.finalized = r.finalized /\ q.accepted = r.accepted /\ q.entryAcc = r.entryAcc
       /\ r.claimed => q.claimed
       /\ ~r.claimed /\ q.claimed => SaysClaimed(E, i)
       /\ r.refunded => q.refunded
       /\ ~r.refunded /\ q.refunded /\ q.offered > q.accepted => SaysRefund(E, i)
       /\ q.owner = r.owner \/ SaysMoved(E, i)
  /\ due => SaysFinal(E, vintageBlock)
  /\ SaysRefresh(E) \/ (status' = status /\ winner' = winner)
  /\ status = "Open" /\ now < ResolutionTime => status' = "Open"
  /\ opening' => opening
  /\ \A i : ~SaysEntered(E, i)

LEMMA DueFacts ==
  ASSUME ChainInv, LogInv, RollDue
  PROVE  /\ status # "None"
         /\ vintageOpen /\ vintageBlock \in Nat /\ vintageBlock >= 1 /\ vintageBlock < blockNo
         /\ \E i \in 1..Count : ~positions[i].finalized /\ positions[i].vintage = vintageBlock
<1>1. vintageOpen /\ blockNo > vintageBlock
  BY DEF RollDue
<1>2. vintageBlock \in Nat /\ blockNo \in Nat /\ status = "Open"
  BY <1>1 DEF ChainInv, IInv, TypeOK, VintageInv
<1>3. vintageBlock >= 1 /\ \E i \in 1..Count : ~positions[i].finalized
  BY <1>1 DEF LogInv
<1>4. \A i \in 1..Count : ~positions[i].finalized => positions[i].vintage = vintageBlock
  BY <1>2, RolledStake
<1> QED BY <1>1, <1>2, <1>3, <1>4

LEMMA RolledStep ==
  ASSUME ChainInv, LogInv, NEW ev, IsLog(ev), Len(ev) > 0, log' = log \o ev, index' = index,
         Rolled(RollDue, Later(ev, 0)) \/ Rolled(FALSE, Later(ev, 0)), EventsOf(ev)'
  PROVE  StepOK(ev)
<1> DEFINE E == Later(ev, 0)
<1>1. PICK due : Rolled(due, E)
  OBVIOUS
<1> HIDE DEF E
<1>2. status # "None" /\ due \in BOOLEAN /\ (due => RollDue)
  BY <1>1, SMTT(30) DEF Rolled
<1>3. Count \in Nat
  BY <1>2, ChainStakes
<1>4. ASSUME NEW i \in 1..Count PROVE StakeKept(i, E)
  <2> DEFINE p == positions[i]
             r == PositionsAfter(due)[i]
             q == positions'[i]
  <2>1. /\ r.outcome = p.outcome /\ r.vintage = p.vintage /\ r.offered = p.offered
        /\ r.owner = p.owner /\ r.claimed = p.claimed /\ r.refunded = p.refunded
        /\ p.finalized => r = p
        /\ ~due => r = p
        /\ ~p.finalized => vintageOpen /\ p.vintage = vintageBlock
    BY <1>2, RolledStake, SMTT(30)
  <2>2. /\ q.outcome = r.outcome /\ q.vintage = r.vintage /\ q.offered = r.offered
        /\ q.finalized = r.finalized /\ q.accepted = r.accepted /\ q.entryAcc = r.entryAcc
        /\ r.claimed => q.claimed
        /\ ~r.claimed /\ q.claimed => SaysClaimed(E, i)
        /\ r.refunded => q.refunded
        /\ ~r.refunded /\ q.refunded /\ q.offered > q.accepted => SaysRefund(E, i)
        /\ q.owner = r.owner \/ SaysMoved(E, i)
    BY <1>1 DEF Rolled
  <2>3. due => SaysFinal(E, vintageBlock)
    BY <1>1 DEF Rolled
  <2>4. ~p.finalized /\ q.finalized => SaysFinal(E, p.vintage)
    BY <1>2, <2>1, <2>2, <2>3
  <2> QED BY <2>1, <2>2, <2>4 DEF StakeKept
<1>5. StakesKept(E)
  <2>1. Count' = Count /\ \A i : ~SaysEntered(E, i)
    BY <1>1 DEF Rolled
  <2>2. (Count+1)..Count' = {}
    BY <1>3, <2>1
  <2> QED BY <1>3, <1>4, <2>1, <2>2 DEF StakesKept
<1>6. ViewKept(E)
  <2>1. due => SaysRefresh(E) /\ SaysToggle(E)
    <3>1. due => SaysFinal(E, vintageBlock)
      BY <1>1 DEF Rolled
    <3> QED BY <3>1 DEF SaysFinal, SaysRefresh, SaysToggle
  <2>2. ASSUME ~due PROVE BooksAfter(due) = books /\ vintageOpen' = vintageOpen
    <3>1. vintageOpen \in BOOLEAN
      BY DEF ChainInv, IInv, TypeOK
    <3> QED BY <1>1, <2>2, <3>1 DEF Rolled, BooksAfter
  <2>3. ~SaysRefresh(E) => status' = status /\ winner' = winner
    BY <1>1 DEF Rolled
  <2>4. ASSUME ~due, NEW w \in Outcomes
        PROVE  Headroom(books'[w]) = Headroom(books[w]) /\ books'[w].acc = books[w].acc
    <3>1. Headroom(books'[w]) = Headroom(BooksAfter(due)[w]) /\ books'[w].acc = BooksAfter(due)[w].acc
      BY <1>1 DEF Rolled
    <3> QED BY <2>2, <2>4, <3>1
  <2> QED BY <2>1, <2>2, <2>3, <2>4 DEF ViewKept
<1>7. StaysOpen
  <2>1. blockNo' = blockNo /\ now' = now /\ vintageBlock' = vintageBlock
        /\ vintageOpen' = (vintageOpen /\ ~due)
        /\ (status = "Open" /\ now < ResolutionTime => status' = "Open")
    BY <1>1, SMTT(30) DEF Rolled
  <2>2. ASSUME vintageBlock = blockNo PROVE ~due
    <3>1. blockNo \in Nat
      BY DEF ChainInv, IInv, TypeOK
    <3> QED BY <1>2, <2>2, <3>1 DEF RollDue
  <2>3. ASSUME ~due, NEW i \in 1..Count, ~positions[i].finalized PROVE ~positions'[i].finalized
    <3>1. PositionsAfter(due)[i] = positions[i]
      BY <1>2, <2>3, RolledStake
    <3> QED BY <1>1, <2>3, <3>1 DEF Rolled
  <2> QED BY <2>1, <2>2, <2>3 DEF StaysOpen
<1>8. Begun(ev)
  <2>1. status' # "None" /\ status # "None" /\ (opening' => opening) /\ Count' = Count
        /\ vintageBlock' = vintageBlock /\ vintageOpen' = (vintageOpen /\ ~due)
    BY <1>1 DEF Rolled
  <2>2. opening => N <= Count
    BY DEF LogInv
  <2>3. ASSUME vintageOpen' PROVE vintageBlock' >= 1 /\ \E i \in 1..Count' : ~positions'[i].finalized
    <3>1. vintageOpen /\ ~due
      BY <2>1, <2>3
    <3>2. vintageBlock >= 1 /\ \E i \in 1..Count : ~positions[i].finalized
      BY <3>1 DEF LogInv
    <3>3. ASSUME NEW i \in 1..Count, ~positions[i].finalized PROVE ~positions'[i].finalized
      <4>1. PositionsAfter(due)[i] = positions[i]
        BY <1>2, <3>1, <3>3, RolledStake
      <4> QED BY <1>1, <3>3, <4>1 DEF Rolled
    <3> QED BY <2>1, <3>2, <3>3
  <2> QED BY <2>1, <2>2, <2>3 DEF Begun
<1>9. IsLog(ev) /\ Len(ev) > 0 /\ log' = log \o ev /\ index' = index /\ EventsOf(ev)'
  OBVIOUS
<1> QED BY <1>5, <1>6, <1>7, <1>8, <1>9 DEF StepOK, E

(* The log of the booked vintage. *)
LEMMA RolledEvent ==
  ASSUME ChainInv, LogInv, NEW E, NEW F, RollDue, Rolled(RollDue, F), NEW e,
         e.ev = "VintageFinalized", e.vintage = vintageBlock
  PROVE  EventOf(e, E)'
<1>1. /\ status # "None"
      /\ vintageOpen /\ vintageBlock \in Nat /\ vintageBlock >= 1 /\ vintageBlock < blockNo
      /\ \E i \in 1..Count : ~positions[i].finalized /\ positions[i].vintage = vintageBlock
  BY DueFacts
<1>2. blockNo' = blockNo /\ Count' = Count /\ ~vintageOpen'
  BY DEF Rolled
<1>3. ASSUME NEW i \in 1..Count
      PROVE  positions'[i].vintage = positions[i].vintage /\ positions'[i].finalized
  <2>1. /\ PositionsAfter(RollDue)[i].vintage = positions[i].vintage
        /\ PositionsAfter(RollDue)[i].finalized
    BY <1>1, RolledStake DEF Rolled
  <2> QED BY <2>1 DEF Rolled
<1>4. FinalOf(e, E)'
  BY <1>1, <1>2, <1>3 DEF FinalOf
<1> QED BY <1>4 DEF EventOf, Kinds

(* Lists of logs put together. *)
LEMMA CatTwo ==
  ASSUME NEW a, NEW b
  PROVE  <<a>> \o <<b>> = <<a, b>>
<1>1. PICK l, r, c, d : l = <<a>> /\ r = <<b>> /\ c = l \o r /\ d = <<a, b>>
  OBVIOUS
<1>2. IsLog(l) /\ IsLog(r) /\ IsLog(d) /\ Len(l) = 1 /\ Len(r) = 1 /\ Len(d) = 2
      /\ l[1] = a /\ r[1] = b /\ d[1] = a /\ d[2] = b
  BY <1>1, OneLog, TwoLogs
<1>3. /\ IsLog(c) /\ Len(c) = Len(l) + Len(r)
      /\ \A j \in 1..Len(l) : c[j] = l[j]
      /\ \A j \in 1..Len(r) : c[Len(l) + j] = r[j]
  <2>1. /\ IsLog(l \o r) /\ Len(l \o r) = Len(l) + Len(r)
        /\ \A j \in 1..Len(l) : (l \o r)[j] = l[j]
        /\ \A j \in 1..Len(r) : (l \o r)[Len(l) + j] = r[j]
    BY ONLY <1>2, Shifted
  <2> QED BY ONLY <1>1, <2>1
<1>4. Len(c) = 2 /\ c[1] = a /\ c[2] = b
  BY <1>2, <1>3
<1>5. c = d
  BY <1>2, <1>3, <1>4 DEF IsLog
<1> QED BY <1>1, <1>5

(* A function that neither books a vintage nor settles the market. *)
LEMMA RolledPlain ==
  ASSUME ChainInv, status # "None", status' = status, winner' = winner,
         blockNo' = blockNo, now' = now, vintageBlock' = vintageBlock, vintageOpen' = vintageOpen,
         Len(positions') = Count,
         \A w \in Outcomes : /\ Headroom(books'[w]) = Headroom(books[w])
                             /\ books'[w].acc = books[w].acc,
         NEW E,
         \A i \in 1..Count :
            LET p == positions[i]  q == positions'[i] IN
            /\ q.outcome = p.outcome /\ q.vintage = p.vintage /\ q.offered = p.offered
            /\ q.finalized = p.finalized /\ q.accepted = p.accepted /\ q.entryAcc = p.entryAcc
            /\ p.claimed => q.claimed
            /\ ~p.claimed /\ q.claimed => SaysClaimed(E, i)
            /\ p.refunded => q.refunded
            /\ ~p.refunded /\ q.refunded /\ q.offered > q.accepted => SaysRefund(E, i)
            /\ q.owner = p.owner \/ SaysMoved(E, i),
         opening' => opening, \A i : ~SaysEntered(E, i)
  PROVE  Rolled(FALSE, E)
<1>1. BooksAfter(FALSE) = books /\ PositionsAfter(FALSE) = positions
  BY DEF BooksAfter, PositionsAfter
<1>2. vintageOpen \in BOOLEAN /\ Count' = Count
  BY DEF ChainInv, IInv, TypeOK, Count
<1>3. vintageOpen' = (vintageOpen /\ ~FALSE)
  BY <1>2
<1> QED BY <1>1, <1>2, <1>3, Zenon DEF Rolled

LEMMA PositionEdited ==
  ASSUME NEW p \in Seq(Position), NEW n \in Nat, Len(p) = n, NEW i \in 1..n, NEW r \in Position,
         NEW p2, p2 = [p EXCEPT ![i] = r]
  PROVE  /\ Len(p2) = n /\ p2[i] = r
         /\ \A j \in 1..n : j # i => p2[j] = p[j]
<1>1. p \in [1..n -> Position]
  BY SeqIsFun
<1>2. p2 \in [1..n -> Position]
  BY <1>1
<1> QED BY <1>1, <1>2, FunIsSeq

LEMMA NowTyped ==
  ASSUME ChainInv, status # "None", NEW due \in BOOLEAN
  PROVE  /\ PositionsAfter(due) \in Seq(Position) /\ Len(PositionsAfter(due)) = Count /\ Count \in Nat
         /\ \A i \in 1..Count : PositionsAfter(due)[i] \in Position
         /\ vintageOpen \in BOOLEAN /\ RollDue \in BOOLEAN
<1>1. PositionsAfter(due) \in Seq(Position) /\ Len(PositionsAfter(due)) = Count
  BY AfterRoll DEF ChainInv
<1>2. Count \in Nat /\ \A i \in 1..Count : PositionsAfter(due)[i] \in Position
  BY <1>1, SeqIsFun
<1>3. vintageOpen \in BOOLEAN
  BY DEF ChainInv, IInv, TypeOK
<1> QED BY <1>1, <1>2, <1>3 DEF RollDue

(* A position handed to another owner. *)
LEMMA MovedOnly ==
  ASSUME ChainInv, LogInv, NEW u, NEW i \in 1..Count, NEW to \in Users,
         TransferPosition(u, i, to), opening' => opening,
         NEW E, SaysMoved(E, i), \A j : ~SaysEntered(E, j)
  PROVE  Rolled(FALSE, E) /\ positions'[i].owner = to
<1>1. /\ positions' = [positions EXCEPT ![i].owner = to]
      /\ status' = status /\ winner' = winner /\ blockNo' = blockNo /\ now' = now
      /\ books' = books /\ vintageOpen' = vintageOpen /\ vintageBlock' = vintageBlock
  BY DEF TransferPosition, settleVars, chainVars, vintageVars
<1>2. status # "None"
  BY StakeExists DEF ChainInv
<1>3. /\ positions \in Seq(Position) /\ Len(positions) = Count /\ Count \in Nat
      /\ positions[i] \in Position /\ vintageOpen \in BOOLEAN
  BY <1>2, NowTyped DEF PositionsAfter
<1> DEFINE r == [positions[i] EXCEPT !.owner = to]
<1>4. /\ r \in Position /\ r.owner = to /\ r.outcome = positions[i].outcome
      /\ r.vintage = positions[i].vintage /\ r.offered = positions[i].offered
      /\ r.finalized = positions[i].finalized /\ r.accepted = positions[i].accepted
      /\ r.entryAcc = positions[i].entryAcc /\ r.claimed = positions[i].claimed
      /\ r.refunded = positions[i].refunded
  BY <1>3 DEF Position
<1>5. positions' = [positions EXCEPT ![i] = r]
  BY <1>1
<1> HIDE DEF r
<1>6. /\ Len(positions') = Count /\ positions'[i] = r
      /\ \A j \in 1..Count : j # i => positions'[j] = positions[j]
  BY <1>3, <1>4, <1>5, PositionEdited
<1>7. ASSUME NEW j \in 1..Count
      PROVE  LET p == positions[j]  q == positions'[j] IN
             /\ q.outcome = p.outcome /\ q.vintage = p.vintage /\ q.offered = p.offered
             /\ q.finalized = p.finalized /\ q.accepted = p.accepted /\ q.entryAcc = p.entryAcc
             /\ q.claimed = p.claimed /\ q.refunded = p.refunded
             /\ q.owner = p.owner \/ SaysMoved(E, j)
  <2>1. CASE j = i
    BY <1>4, <1>6, <2>1
  <2>2. CASE j # i
    BY <1>6, <2>2
  <2> QED BY <2>1, <2>2
<1>8. \A j \in 1..Count :
         LET p == positions[j]  q == positions'[j] IN
         /\ q.outcome = p.outcome /\ q.vintage = p.vintage /\ q.offered = p.offered
         /\ q.finalized = p.finalized /\ q.accepted = p.accepted /\ q.entryAcc = p.entryAcc
         /\ p.claimed => q.claimed
         /\ ~p.claimed /\ q.claimed => SaysClaimed(E, j)
         /\ p.refunded => q.refunded
         /\ ~p.refunded /\ q.refunded /\ q.offered > q.accepted => SaysRefund(E, j)
         /\ q.owner = p.owner \/ SaysMoved(E, j)
  BY <1>7
<1>9. Rolled(FALSE, E)
  BY <1>1, <1>2, <1>6, <1>8, RolledPlain
<1> QED BY <1>4, <1>6, <1>9

(* A position sold. *)
LEMMA TransferOK ==
  ASSUME ChainInv, LogInv, NEW u, NEW i \in 1..Count, NEW to \in Users,
         Transfer(u, i, to), opening' => opening
  PROVE  \E ev : StepOK(ev)
<1> DEFINE e == [ev |-> "PositionTransferred", id |-> i, to |-> to, tx |-> None]
<1>1. TransferPosition(u, i, to) /\ log' = log \o <<e>> /\ index' = index
  BY DEF Transfer, Emits
<1>2. e.ev = "PositionTransferred" /\ e.id = i /\ e.to = to
  OBVIOUS
<1> HIDE DEF e
<1>3. SaysMoved({e}, i) /\ \A j : ~SaysEntered({e}, j)
  BY <1>2 DEF SaysMoved, SaysEntered
<1>4. Rolled(FALSE, {e}) /\ positions'[i].owner = to
  BY <1>1, <1>3, MovedOnly
<1>5. Count' = Count
  BY <1>4 DEF Rolled
<1>6. EventOf(e, {})'
  BY <1>2, <1>4, <1>5 DEF EventOf, MoveOf, SaysEntered, Kinds
<1>7. IsLog(<<e>>) /\ Len(<<e>>) > 0 /\ Later(<<e>>, 0) = {e}
  BY OneLog
<1>8. EventsOf(<<e>>)'
  BY <1>6, OneEvent
<1>9. PICK ev : ev = <<e>>
  OBVIOUS
<1>10. StepOK(ev)
  BY <1>1, <1>4, <1>7, <1>8, <1>9, RolledStep
<1> QED BY <1>10

(* A seed leg handed to the opener. *)
LEMMA HandLegOverOK ==
  ASSUME ChainInv, LogInv, NEW i \in Outcomes, HandLegOver(i)
  PROVE  \E ev : StepOK(ev)
<1> DEFINE e == [ev |-> "PositionTransferred", id |-> i, to |-> Opener, tx |-> "open"]
           m == [ev |-> "MarketOpened", opener |-> Opener, spec |-> OpeningSpec]
<1>1. /\ TransferPosition(Creator, i, Opener) /\ index' = index /\ opening
      /\ log' = log \o (<<e>> \o (IF opening' THEN <<>> ELSE <<m>>))
  BY DEF HandLegOver, Emits
<1>2. e.ev = "PositionTransferred" /\ e.id = i /\ e.to = Opener /\ m.ev = "MarketOpened"
  OBVIOUS
<1> HIDE DEF e, m
<1>3. i \in 1..Count
  <2>1. N <= Count
    BY <1>1 DEF LogInv
  <2>2. Outcomes = 1..N /\ N \in Nat
    BY SizeAssumption DEF Outcomes
  <2>3. Count \in Nat
    BY SeqIsFun DEF ChainInv, IInv, TypeOK, Count
  <2> QED BY <2>1, <2>2, <2>3
<1>4. Opener \in Users
  BY OpeningAssumption
<1>5. ASSUME NEW E, e \in E, \A x \in E : x = e \/ x = m
      PROVE  Rolled(FALSE, E) /\ positions'[i].owner = Opener
  <2>1. SaysMoved(E, i) /\ \A j : ~SaysEntered(E, j)
    BY <1>2, <1>5 DEF SaysMoved, SaysEntered
  <2> QED BY <1>1, <1>3, <1>4, <2>1, MovedOnly
<1>6. ASSUME NEW E, \A x \in E : x = m
      PROVE  EventOf(e, E)'
  <2>0. SaysMoved({e}, i) /\ \A j : ~SaysEntered({e}, j)
    BY <1>2 DEF SaysMoved, SaysEntered
  <2>1. Rolled(FALSE, {e}) /\ positions'[i].owner = Opener
    BY <1>1, <1>3, <1>4, <2>0, MovedOnly
  <2>2. Count' = Count
    BY <2>1 DEF Rolled
  <2> QED BY <1>2, <1>3, <1>6, <2>1, <2>2 DEF EventOf, MoveOf, SaysEntered, Kinds
<1>7. CASE opening'
  <2>1. log' = log \o <<e>>
    <3>1. <<e>> \o <<>> = <<e>>
      OBVIOUS
    <3> QED BY <1>1, <1>7, <3>1
  <2>2. IsLog(<<e>>) /\ Len(<<e>>) > 0 /\ Later(<<e>>, 0) = {e}
    BY OneLog
  <2>3. EventsOf(<<e>>)'
    BY <1>6, OneEvent
  <2>4. Rolled(FALSE, {e})
    BY <1>5
  <2>5. PICK ev : ev = <<e>>
    OBVIOUS
  <2>6. StepOK(ev)
    BY <1>1, <2>1, <2>2, <2>3, <2>4, <2>5, RolledStep
  <2> QED BY <2>6
<1>8. CASE ~opening'
  <2>1. log' = log \o <<e, m>>
    <3>1. <<e>> \o <<m>> = <<e, m>>
      BY CatTwo
    <3> QED BY <1>1, <1>8, <3>1
  <2>2. IsLog(<<e, m>>) /\ Len(<<e, m>>) > 0 /\ Later(<<e, m>>, 0) = {e, m}
    BY TwoLogs
  <2>3. EventOf(e, {m})' /\ EventOf(m, {})'
    <3>1. EventOf(e, {m})'
      BY <1>6
    <3>2. EventOf(m, {})'
      BY <1>2, PlainEvent DEF Kinds
    <3> QED BY <3>1, <3>2
  <2>4. EventsOf(<<e, m>>)'
    BY <2>3, TwoEvents
  <2>5. Rolled(FALSE, {e, m})
    BY <1>5
  <2>6. PICK ev : ev = <<e, m>>
    OBVIOUS
  <2>7. StepOK(ev)
    BY <1>1, <2>1, <2>2, <2>4, <2>5, <2>6, RolledStep
  <2> QED BY <2>7
<1> QED BY <1>7, <1>8

(* A claim. *)
LEMMA ClaimingOK ==
  ASSUME ChainInv, LogInv, NEW u, NEW i \in 1..Count, Claiming(u, i), opening' => opening
  PROVE  \E ev : StepOK(ev)
<1>0. PICK e : e = [ev |-> "Claimed", id |-> i, payout |-> Settlement(positions[i]),
                    refund |-> Remainder(positions[i])]
  OBVIOUS
<1>1. Claim(u, i) /\ log' = log \o <<e>> /\ index' = index
  BY <1>0 DEF Claiming, Emits
<1>2. e.ev = "Claimed" /\ e.id = i /\ e.refund = Remainder(positions[i])
  BY <1>0
<1>3. status # "None"
  BY StakeExists DEF ChainInv
<1>4. /\ positions \in Seq(Position) /\ Len(positions) = Count /\ Count \in Nat
      /\ positions[i] \in Position /\ vintageOpen \in BOOLEAN
  BY <1>3, NowTyped DEF PositionsAfter
<1>5. /\ positions' = [positions EXCEPT ![i].refunded = TRUE, ![i].claimed = TRUE]
      /\ books' = IF Wins(positions[i]) THEN [books EXCEPT ![winner].live = @ - 1] ELSE books
      /\ status' = status /\ winner' = winner /\ blockNo' = blockNo /\ now' = now
      /\ vintageOpen' = vintageOpen /\ vintageBlock' = vintageBlock
  BY <1>1 DEF Claim, settleVars, chainVars, vintageVars
<1> DEFINE r == [positions[i] EXCEPT !.refunded = TRUE, !.claimed = TRUE]
<1>6. /\ r \in Position /\ r.owner = positions[i].owner /\ r.outcome = positions[i].outcome
      /\ r.vintage = positions[i].vintage /\ r.offered = positions[i].offered
      /\ r.finalized = positions[i].finalized /\ r.accepted = positions[i].accepted
      /\ r.entryAcc = positions[i].entryAcc /\ r.claimed /\ r.refunded
  BY <1>4 DEF Position
<1>7. positions' = [positions EXCEPT ![i] = r]
  BY <1>5
<1> HIDE DEF r
<1>8. /\ Len(positions') = Count /\ positions'[i] = r
      /\ \A j \in 1..Count : j # i => positions'[j] = positions[j]
  BY <1>4, <1>6, <1>7, PositionEdited
<1>9. Count' = Count
  BY <1>8 DEF Count
<1>10. ASSUME NEW w \in Outcomes
       PROVE  Headroom(books'[w]) = Headroom(books[w]) /\ books'[w].acc = books[w].acc
  <2>1. books \in [Outcomes -> Book]
    BY <1>3, LedgerTyped DEF ChainInv, LedgerType
  <2>2. /\ books'[w].capacity = books[w].capacity /\ books'[w].vested = books[w].vested
        /\ books'[w].acc = books[w].acc
    BY <1>5, <2>1 DEF Book
  <2> QED BY <2>2 DEF Headroom
<1>11. SaysClaimed({e}, i) /\ \A j : ~SaysEntered({e}, j)
  BY <1>2 DEF SaysClaimed, SaysEntered
<1>12. ~positions[i].refunded /\ positions[i].offered > positions[i].accepted => SaysRefund({e}, i)
  <2>1. SUFFICES ASSUME ~positions[i].refunded, positions[i].offered > positions[i].accepted
                 PROVE  e.refund > 0
    BY <1>2 DEF SaysRefund
  <2>2. positions[i].offered \in Nat /\ positions[i].accepted \in Nat
    BY <1>4 DEF Position
  <2>3. e.refund = positions[i].offered - positions[i].accepted
    BY <1>2, <2>1 DEF Remainder
  <2> QED BY <2>1, <2>2, <2>3
<1>13. ASSUME NEW j \in 1..Count
       PROVE  LET p == positions[j]  q == positions'[j] IN
              /\ q.outcome = p.outcome /\ q.vintage = p.vintage /\ q.offered = p.offered
              /\ q.finalized = p.finalized /\ q.accepted = p.accepted /\ q.entryAcc = p.entryAcc
              /\ p.claimed => q.claimed
              /\ ~p.claimed /\ q.claimed => SaysClaimed({e}, j)
              /\ p.refunded => q.refunded
              /\ ~p.refunded /\ q.refunded /\ q.offered > q.accepted => SaysRefund({e}, j)
              /\ q.owner = p.owner
  BY <1>6, <1>8, <1>11, <1>12
<1>14. Rolled(FALSE, {e})
  BY <1>3, <1>5, <1>8, <1>10, <1>11, <1>13, RolledPlain
<1>15. EventOf(e, {})'
  <2>1. positions'[i].claimed /\ positions'[i].refunded /\ i \in 1..Count'
    BY <1>6, <1>8, <1>9
  <2>2. ClaimOf(e, {})'
    BY <1>2, <2>1 DEF ClaimOf, SaysEntered
  <2> QED BY <1>2, <2>2 DEF EventOf, Kinds
<1>16. IsLog(<<e>>) /\ Len(<<e>>) > 0 /\ Later(<<e>>, 0) = {e}
  BY OneLog
<1>17. EventsOf(<<e>>)'
  BY <1>15, OneEvent
<1>18. PICK ev : ev = <<e>>
  OBVIOUS
<1>19. StepOK(ev)
  BY <1>1, <1>14, <1>16, <1>17, <1>18, RolledStep
<1> QED BY <1>19

(* The residue claimed. *)
LEMMA ResidueClaimingOK ==
  ASSUME ChainInv, LogInv, NEW u, ResidueClaiming(u), opening' => opening
  PROVE  \E ev : StepOK(ev)
<1>0. PICK e : e = [ev |-> "ResidueClaimed", amount |-> acceptedPool - paidOut]
  OBVIOUS
<1>1. ClaimResidue(u) /\ log' = log \o <<e>> /\ index' = index
  BY <1>0 DEF ResidueClaiming, Emits
<1>2. e.ev = "ResidueClaimed"
  BY <1>0
<1>3. /\ status = "Resolved" /\ status' = status /\ winner' = winner
      /\ blockNo' = blockNo /\ now' = now /\ books' = books /\ positions' = positions
      /\ vintageOpen' = vintageOpen /\ vintageBlock' = vintageBlock
  BY <1>1 DEF ClaimResidue, settleVars, chainVars, vintageVars, ledgerVars
<1>4. \A j : ~SaysEntered({e}, j)
  BY <1>2 DEF SaysEntered
<1>5. /\ BooksAfter(FALSE) = books /\ PositionsAfter(FALSE) = positions /\ Count' = Count
      /\ vintageOpen \in BOOLEAN
  BY <1>3, NowTyped DEF BooksAfter, PositionsAfter, Count
<1>6. Rolled(FALSE, {e})
  BY <1>3, <1>4, <1>5 DEF Rolled
<1>7. EventOf(e, {})'
  BY <1>2, PlainEvent DEF Kinds
<1>8. IsLog(<<e>>) /\ Len(<<e>>) > 0 /\ Later(<<e>>, 0) = {e}
  BY OneLog
<1>9. EventsOf(<<e>>)'
  BY <1>7, OneEvent
<1>10. PICK ev : ev = <<e>>
  OBVIOUS
<1>11. StepOK(ev)
  BY <1>1, <1>6, <1>8, <1>9, <1>10, RolledStep
<1> QED BY <1>11

(* Lists put together, with no log or with two. *)
LEMMA CatNone ==
  ASSUME NEW a
  PROVE  <<>> \o <<a>> = <<a>> /\ <<a>> \o <<>> = <<a>>
OBVIOUS

LEMMA CatThree ==
  ASSUME NEW a, NEW b, NEW c
  PROVE  <<a, b>> \o <<c>> = <<a, b, c>>
<1>1. PICK l, r, s, d : l = <<a, b>> /\ r = <<c>> /\ s = l \o r /\ d = <<a, b, c>>
  OBVIOUS
<1>2. IsLog(l) /\ IsLog(r) /\ IsLog(d) /\ Len(l) = 2 /\ Len(r) = 1 /\ Len(d) = 3
      /\ l[1] = a /\ l[2] = b /\ r[1] = c /\ d[1] = a /\ d[2] = b /\ d[3] = c
  BY <1>1, OneLog, TwoLogs, ThreeLogs
<1>3. /\ IsLog(s) /\ Len(s) = Len(l) + Len(r)
      /\ \A j \in 1..Len(l) : s[j] = l[j]
      /\ \A j \in 1..Len(r) : s[Len(l) + j] = r[j]
  BY <1>1, <1>2, Shifted
<1>4. Len(s) = 3 /\ s[1] = a /\ s[2] = b /\ s[3] = c
  BY <1>2, <1>3
<1>5. s = d
  BY <1>2, <1>3, <1>4 DEF IsLog
<1> QED BY <1>1, <1>5

LEMMA RolledOne ==
  ASSUME ChainInv, LogInv, NEW a, index' = index, log' = log \o <<a>>,
         Rolled(RollDue, {a}) \/ Rolled(FALSE, {a}), EventOf(a, {})'
  PROVE  \E ev : StepOK(ev)
<1>1. IsLog(<<a>>) /\ Len(<<a>>) > 0 /\ Later(<<a>>, 0) = {a}
  BY OneLog
<1>2. EventsOf(<<a>>)'
  BY OneEvent
<1>3. PICK ev : ev = <<a>>
  OBVIOUS
<1>4. StepOK(ev)
  BY <1>1, <1>2, <1>3, RolledStep
<1> QED BY <1>4
LEMMA RolledTwo ==
  ASSUME ChainInv, LogInv, NEW a, NEW b, index' = index, log' = log \o <<a, b>>,
         Rolled(RollDue, {a, b}) \/ Rolled(FALSE, {a, b}), EventOf(a, {b})', EventOf(b, {})'
  PROVE  \E ev : StepOK(ev)
<1>1. IsLog(<<a, b>>) /\ Len(<<a, b>>) > 0 /\ Later(<<a, b>>, 0) = {a, b}
  BY TwoLogs
<1>2. EventsOf(<<a, b>>)'
  BY TwoEvents
<1>3. PICK ev : ev = <<a, b>>
  OBVIOUS
<1>4. StepOK(ev)
  BY <1>1, <1>2, <1>3, RolledStep
<1> QED BY <1>4
LEMMA RolledThree ==
  ASSUME ChainInv, LogInv, NEW a, NEW b, NEW c, index' = index, log' = log \o <<a, b, c>>,
         Rolled(RollDue, {a, b, c}), EventOf(a, {b, c})', EventOf(b, {c})', EventOf(c, {})'
  PROVE  \E ev : StepOK(ev)
<1>1. IsLog(<<a, b, c>>) /\ Len(<<a, b, c>>) > 0 /\ Later(<<a, b, c>>, 0) = {a, b, c}
  BY ThreeLogs
<1>2. EventsOf(<<a, b, c>>)'
  BY ThreeEvents
<1>3. PICK ev : ev = <<a, b, c>>
  OBVIOUS
<1>4. StepOK(ev)
  BY <1>1, <1>2, <1>3, RolledStep
<1> QED BY <1>4

(* A function that rolls the vintage. *)
LEMMA RolledByRoll ==
  ASSUME ChainInv, status # "None", Roll, blockNo' = blockNo, now' = now, status' # "None",
         opening' => opening, status = "Open" /\ now < ResolutionTime => status' = "Open",
         NEW E, SaysRefresh(E) \/ (status' = status /\ winner' = winner),
         RollDue => SaysFinal(E, vintageBlock), \A i : ~SaysEntered(E, i)
  PROVE  Rolled(RollDue, E)
<1>1. RollDue \in BOOLEAN
  BY NowTyped
<1>2. PICK due : due = RollDue
  OBVIOUS
<1>3. /\ books' = BooksAfter(due) /\ positions' = PositionsAfter(due)
      /\ vintageOpen' = (vintageOpen /\ ~due) /\ vintageBlock' = vintageBlock
  BY <1>2 DEF Roll
<1>4. Count' = Count
  <2>1. Len(PositionsAfter(due)) = Count
    BY <1>1, <1>2, NowTyped
  <2> QED BY <1>3, <2>1 DEF Count
<1>5. \A w \in Outcomes : /\ Headroom(books'[w]) = Headroom(BooksAfter(due)[w])
                          /\ books'[w].acc = BooksAfter(due)[w].acc
  BY <1>3
<1>6. ASSUME NEW i \in 1..Count
      PROVE  LET r == PositionsAfter(due)[i]  q == positions'[i] IN
             /\ q.outcome = r.outcome /\ q.vintage = r.vintage /\ q.offered = r.offered
             /\ q.finalized = r.finalized /\ q.accepted = r.accepted /\ q.entryAcc = r.entryAcc
             /\ r.claimed => q.claimed
             /\ ~r.claimed /\ q.claimed => SaysClaimed(E, i)
             /\ r.refunded => q.refunded
             /\ ~r.refunded /\ q.refunded /\ q.offered > q.accepted => SaysRefund(E, i)
             /\ q.owner = r.owner \/ SaysMoved(E, i)
  <2>1. positions'[i] = PositionsAfter(due)[i]
    BY <1>3
  <2> QED BY <2>1
<1>7. Rolled(due, E)
  BY <1>1, <1>2, <1>3, <1>4, <1>5, <1>6 DEF Rolled
<1> QED BY <1>2, <1>7

(* A vintage booked by finalizeVintage. *)
LEMMA FinalizationOK ==
  ASSUME ChainInv, LogInv, Finalization, opening' => opening
  PROVE  \E ev : StepOK(ev)
<1>0. PICK f : f = [ev |-> "VintageFinalized", vintage |-> vintageBlock]
  OBVIOUS
<1>1. /\ RollDue /\ index' = index /\ log' = log \o <<f>> /\ Roll
      /\ status # "None" /\ status' = status /\ winner' = winner /\ blockNo' = blockNo /\ now' = now
  BY <1>0 DEF Finalization, Emits, Finalized, FinalizeVintage, chainVars, settleVars
<1>2. f.ev = "VintageFinalized" /\ f.vintage = vintageBlock
  BY <1>0
<1>3. Rolled(RollDue, {f})
  <2>1. SaysFinal({f}, vintageBlock) /\ \A i : ~SaysEntered({f}, i)
    BY <1>2 DEF SaysFinal, SaysEntered
  <2> QED BY <1>1, <2>1, RolledByRoll
<1>4. EventOf(f, {})'
  BY <1>1, <1>2, <1>3, RolledEvent
<1> QED BY <1>1, <1>3, <1>4, RolledOne

(* A market resolved. *)
LEMMA ResolutionOK ==
  ASSUME ChainInv, LogInv, NEW w, Resolution(w), opening' => opening
  PROVE  \E ev : StepOK(ev)
<1>0. PICK a, f, c : /\ a = [ev |-> "FeedResolved", spec |-> OpeningSpec, price |-> w]
                     /\ f = [ev |-> "VintageFinalized", vintage |-> vintageBlock]
                     /\ c = [ev |-> "Resolved", winner |-> w]
  OBVIOUS
<1>1. /\ index' = index /\ log' = log \o (<<a>> \o Finalized \o <<c>>) /\ Roll
      /\ status = "Open" /\ status' = "Resolved" /\ blockNo' = blockNo /\ now' = now
      /\ now >= ResolutionTime
  BY <1>0 DEF Resolution, Emits, Resolve, chainVars
<1>2. /\ f.ev = "VintageFinalized" /\ f.vintage = vintageBlock
      /\ a.ev = "FeedResolved" /\ c.ev = "Resolved"
  BY <1>0
<1>3. ASSUME NEW E, c \in E, \A x \in E : x = a \/ x = f \/ x = c, RollDue => f \in E
      PROVE  Rolled(RollDue, E)
  <2>1. SaysRefresh(E) /\ (RollDue => SaysFinal(E, vintageBlock)) /\ \A i : ~SaysEntered(E, i)
    BY <1>2, <1>3 DEF SaysFinal, SaysEntered, SaysRefresh
  <2>2. ~(now < ResolutionTime)
    <3>1. now \in Nat /\ ResolutionTime \in Nat
      BY TimeAssumption DEF ChainInv, IInv, TypeOK
    <3> QED BY <1>1, <3>1
  <2> QED BY <1>1, <2>1, <2>2, RolledByRoll
<1>4. \A E : EventOf(a, E)' /\ EventOf(c, E)'
  <2>1. ASSUME NEW E PROVE EventOf(a, E)' /\ EventOf(c, E)'
    BY <1>2, PlainEvent DEF Kinds
  <2> QED BY <2>1
<1>5. CASE RollDue
  <2>1. log' = log \o <<a, f, c>>
    <3>1. Finalized = <<f>>
      BY <1>0, <1>5 DEF Finalized
    <3>2. <<a>> \o <<f>> = <<a, f>> /\ <<a, f>> \o <<c>> = <<a, f, c>>
      BY CatTwo, CatThree
    <3> QED BY <1>1, <3>1, <3>2
  <2>2. Rolled(RollDue, {a, f, c})
    BY <1>3
  <2>3. EventOf(f, {c})'
    BY <1>2, <1>5, <2>2, RolledEvent
  <2> QED BY <1>1, <1>4, <2>1, <2>2, <2>3, RolledThree
<1>6. CASE ~RollDue
  <2>1. log' = log \o <<a, c>>
    <3>1. Finalized = <<>>
      BY <1>6 DEF Finalized
    <3>2. <<a>> \o <<>> = <<a>> /\ <<a>> \o <<c>> = <<a, c>>
      BY CatNone, CatTwo
    <3> QED BY <1>1, <3>1, <3>2
  <2>2. Rolled(RollDue, {a, c})
    BY <1>3, <1>6
  <2> QED BY <1>1, <1>4, <2>1, <2>2, RolledTwo
<1> QED BY <1>5, <1>6

(* A market voided. *)
LEMMA VoidingOK ==
  ASSUME ChainInv, LogInv, NEW u, Voiding(u), opening' => opening
  PROVE  \E ev : StepOK(ev)
<1>0. PICK a, f, c : /\ a = [ev |-> "VoidedStale", spec |-> OpeningSpec, age |-> now]
                     /\ f = [ev |-> "VintageFinalized", vintage |-> vintageBlock]
                     /\ c = [ev |-> "Voided"]
  OBVIOUS
<1>1. /\ index' = index /\ Roll
      /\ log' = log \o ((IF u = Resolver THEN <<a>> ELSE <<>>) \o Finalized \o <<c>>)
      /\ status = "Open" /\ status' = "Voided" /\ blockNo' = blockNo /\ now' = now
      /\ now >= ResolutionTime \/ now >= ResolutionTime + VoidTimeout
  BY <1>0 DEF Voiding, Emits, VoidMarket, chainVars
<1>2. /\ f.ev = "VintageFinalized" /\ f.vintage = vintageBlock
      /\ a.ev = "VoidedStale" /\ c.ev = "Voided"
  BY <1>0
<1>3. ASSUME NEW E, c \in E, \A x \in E : x = a \/ x = f \/ x = c, RollDue => f \in E
      PROVE  Rolled(RollDue, E)
  <2>1. SaysRefresh(E) /\ (RollDue => SaysFinal(E, vintageBlock)) /\ \A i : ~SaysEntered(E, i)
    BY <1>2, <1>3 DEF SaysFinal, SaysEntered, SaysRefresh
  <2>2. ~(now < ResolutionTime)
    <3>1. now \in Nat /\ ResolutionTime \in Nat /\ VoidTimeout \in Nat
      BY TimeAssumption DEF ChainInv, IInv, TypeOK
    <3> QED BY <1>1, <3>1
  <2> QED BY <1>1, <2>1, <2>2, RolledByRoll
<1>4. \A E : EventOf(a, E)' /\ EventOf(c, E)'
  <2>1. ASSUME NEW E PROVE EventOf(a, E)' /\ EventOf(c, E)'
    BY <1>2, PlainEvent DEF Kinds
  <2> QED BY <2>1
<1>5. CASE RollDue
  <2>0. Finalized = <<f>>
    BY <1>0, <1>5 DEF Finalized
  <2>1. CASE u = Resolver
    <3>1. log' = log \o <<a, f, c>>
      <4>1. <<a>> \o <<f>> = <<a, f>> /\ <<a, f>> \o <<c>> = <<a, f, c>>
        BY CatTwo, CatThree
      <4> QED BY <1>1, <2>0, <2>1, <4>1
    <3>2. Rolled(RollDue, {a, f, c})
      BY <1>3
    <3>3. EventOf(f, {c})'
      BY <1>2, <1>5, <3>2, RolledEvent
    <3> QED BY <1>1, <1>4, <3>1, <3>2, <3>3, RolledThree
  <2>2. CASE u # Resolver
    <3>1. log' = log \o <<f, c>>
      <4>1. <<>> \o <<f>> = <<f>> /\ <<f>> \o <<c>> = <<f, c>>
        BY CatNone, CatTwo
      <4> QED BY <1>1, <2>0, <2>2, <4>1
    <3>2. Rolled(RollDue, {f, c})
      BY <1>3
    <3>3. EventOf(f, {c})'
      BY <1>2, <1>5, <3>2, RolledEvent
    <3> QED BY <1>1, <1>4, <3>1, <3>2, <3>3, RolledTwo
  <2> QED BY <2>1, <2>2
<1>6. CASE ~RollDue
  <2>0. Finalized = <<>>
    BY <1>6 DEF Finalized
  <2>1. CASE u = Resolver
    <3>1. log' = log \o <<a, c>>
      <4>1. <<a>> \o <<>> = <<a>> /\ <<a>> \o <<c>> = <<a, c>>
        BY CatNone, CatTwo
      <4> QED BY <1>1, <2>0, <2>1, <4>1
    <3>2. Rolled(RollDue, {a, c})
      BY <1>3, <1>6
    <3> QED BY <1>1, <1>4, <3>1, <3>2, RolledTwo
  <2>2. CASE u # Resolver
    <3>1. log' = log \o <<c>>
      <4>1. <<>> \o <<>> = <<>> /\ <<>> \o <<c>> = <<c>>
        BY CatNone
      <4> QED BY <1>1, <2>0, <2>2, <4>1
    <3>2. Rolled(RollDue, {c})
      BY <1>3, <1>6
    <3> QED BY <1>1, <1>4, <3>1, <3>2, RolledOne
  <2> QED BY <2>1, <2>2
<1> QED BY <1>5, <1>6

(* A refund withdrawn, which books the vintage first on an open market. *)
LEMMA WithdrawalOK ==
  ASSUME ChainInv, LogInv, NEW u, NEW i \in 1..Count, Withdrawal(u, i), opening' => opening
  PROVE  \E ev : StepOK(ev)
<1>0. PICK d : d = (status = "Open" /\ RollDue)
  OBVIOUS
<1>1. status # "None"
  BY StakeExists DEF ChainInv
<1>2. d \in BOOLEAN /\ RollDue \in BOOLEAN /\ vintageOpen \in BOOLEAN
  BY <1>0, <1>1, NowTyped
<1>3. d = RollDue
  <2>1. RollDue => status = "Open"
    BY DEF RollDue, ChainInv, IInv, VintageInv
  <2> QED BY <1>0, <1>2, <2>1
<1>4. PICK r0 : r0 = PositionsAfter(d)[i]
  OBVIOUS
<1>5. PICK f, c : /\ f = [ev |-> "VintageFinalized", vintage |-> vintageBlock]
                  /\ c = [ev |-> "Claimed", id |-> i, payout |-> 0,
                          refund |-> r0.offered - r0.accepted]
  OBVIOUS
<1>6. /\ f.ev = "VintageFinalized" /\ f.vintage = vintageBlock
      /\ c.ev = "Claimed" /\ c.id = i /\ c.payout = 0 /\ c.refund = r0.offered - r0.accepted
  BY <1>5
<1>7. /\ WithdrawRefund(u, i) /\ index' = index
      /\ log' = log \o ((IF status = "Open" THEN Finalized ELSE <<>>) \o <<c>>)
  BY <1>0, <1>4, <1>5 DEF Withdrawal, Emits
<1>8. /\ r0.offered - r0.accepted # 0
      /\ books' = BooksAfter(d) /\ positions' = [PositionsAfter(d) EXCEPT ![i].refunded = TRUE]
      /\ vintageOpen' = (vintageOpen /\ ~d) /\ vintageBlock' = vintageBlock
      /\ status' = status /\ winner' = winner /\ blockNo' = blockNo /\ now' = now
  BY <1>0, <1>4, <1>7 DEF WithdrawRefund, chainVars, settleVars
<1>9. PICK ps : ps = PositionsAfter(d)
  OBVIOUS
<1>10. /\ ps \in Seq(Position) /\ Len(ps) = Count /\ Count \in Nat /\ ps[i] \in Position /\ r0 = ps[i]
  BY <1>1, <1>2, <1>4, <1>9, NowTyped
<1> DEFINE r == [ps[i] EXCEPT !.refunded = TRUE]
<1>11. /\ r \in Position /\ r.owner = ps[i].owner /\ r.outcome = ps[i].outcome
       /\ r.vintage = ps[i].vintage /\ r.offered = ps[i].offered
       /\ r.finalized = ps[i].finalized /\ r.accepted = ps[i].accepted
       /\ r.entryAcc = ps[i].entryAcc /\ r.claimed = ps[i].claimed /\ r.refunded
  BY <1>10 DEF Position
<1>12. positions' = [ps EXCEPT ![i] = r]
  BY <1>8, <1>9
<1> HIDE DEF r
<1>13. /\ Len(positions') = Count /\ positions'[i] = r
       /\ \A j \in 1..Count : j # i => positions'[j] = ps[j]
  BY <1>10, <1>11, <1>12, PositionEdited
<1>14. Count' = Count
  BY <1>13 DEF Count
<1>15. ASSUME NEW E, c \in E, \A x \in E : x = c \/ x = f, d => f \in E
       PROVE  Rolled(d, E)
  <2>1. ASSUME NEW j \in 1..Count
        PROVE  LET p == PositionsAfter(d)[j]  q == positions'[j] IN
               /\ q.outcome = p.outcome /\ q.vintage = p.vintage /\ q.offered = p.offered
               /\ q.finalized = p.finalized /\ q.accepted = p.accepted /\ q.entryAcc = p.entryAcc
               /\ p.claimed => q.claimed
               /\ ~p.claimed /\ q.claimed => SaysClaimed(E, j)
               /\ p.refunded => q.refunded
               /\ ~p.refunded /\ q.refunded /\ q.offered > q.accepted => SaysRefund(E, j)
               /\ q.owner = p.owner \/ SaysMoved(E, j)
    <3>1. CASE j = i
      <4>1. ps[i].offered \in Nat /\ ps[i].accepted \in Nat
        BY <1>10 DEF Position
      <4>2. ps[i].offered > ps[i].accepted => SaysRefund(E, i)
        BY <1>6, <1>10, <1>15, <4>1 DEF SaysRefund
      <4> QED BY <1>9, <1>11, <1>13, <3>1, <4>2
    <3>2. CASE j # i
      BY <1>9, <1>13, <3>2
    <3> QED BY <3>1, <3>2
  <2>2. (d => SaysFinal(E, vintageBlock)) /\ \A j : ~SaysEntered(E, j)
    BY <1>6, <1>15 DEF SaysFinal, SaysEntered
  <2>3. d \in BOOLEAN /\ (d => RollDue)
    BY <1>2, <1>3
  <2>4. \A w \in Outcomes : /\ Headroom(books'[w]) = Headroom(BooksAfter(d)[w])
                            /\ books'[w].acc = BooksAfter(d)[w].acc
    BY <1>8
  <2> QED BY <1>1, <1>8, <1>14, <2>1, <2>2, <2>3, <2>4 DEF Rolled
<1>16. EventOf(c, {})'
  <2>1. positions'[i].refunded /\ i \in 1..Count'
    BY <1>11, <1>13, <1>14
  <2>2. ClaimOf(c, {})'
    <3>1. ~(c.payout > 0) /\ c.refund # 0
      BY <1>6, <1>8
    <3> QED BY <1>6, <2>1, <3>1 DEF ClaimOf, SaysEntered
  <2> QED BY <1>6, <2>2 DEF EventOf, Kinds
<1>17. CASE d
  <2>1. log' = log \o <<f, c>>
    <3>1. Finalized = <<f>> /\ status = "Open"
      BY <1>0, <1>3, <1>5, <1>17 DEF Finalized
    <3>2. <<f>> \o <<c>> = <<f, c>>
      BY CatTwo
    <3> QED BY <1>7, <3>1, <3>2
  <2>2. Rolled(d, {f, c})
    BY <1>15
  <2>3. EventOf(f, {c})'
    BY <1>3, <1>6, <1>17, <2>2, RolledEvent
  <2>4. Rolled(RollDue, {f, c})
    BY <1>3, <2>2
  <2> QED BY <1>7, <1>16, <2>1, <2>3, <2>4, RolledTwo
<1>18. CASE ~d
  <2>1. log' = log \o <<c>>
    <3>1. (IF status = "Open" THEN Finalized ELSE <<>>) = <<>>
      BY <1>3, <1>18 DEF Finalized
    <3>2. <<>> \o <<c>> = <<c>>
      BY CatNone
    <3> QED BY <1>7, <3>1, <3>2
  <2>2. Rolled(d, {c})
    BY <1>15, <1>18
  <2>3. Rolled(RollDue, {c})
    BY <1>3, <2>2
  <2> QED BY <1>7, <1>16, <2>1, <2>3, RolledOne
<1> QED BY <1>17, <1>18

(* An entry, which books the vintage of an earlier block first. *)
LEMMA EntryStepOK ==
  ASSUME ChainInv, LogInv, NEW u \in Users, NEW o \in Outcomes, NEW amount \in Amounts,
         Entry(u, o, amount), opening' => opening
  PROVE  \E ev : StepOK(ev)
<1>0. PICK d, f, e, new :
        /\ d = RollDue /\ f = [ev |-> "VintageFinalized", vintage |-> vintageBlock]
        /\ e = [ev |-> "Entered", id |-> Count + 1, owner |-> u, outcome |-> o,
                offered |-> amount, vintage |-> blockNo, tx |-> Count + 1, day |-> now]
        /\ new = [owner |-> u, outcome |-> o, finalized |-> FALSE, refunded |-> FALSE,
                  claimed |-> FALSE, vintage |-> blockNo, offered |-> amount,
                  accepted |-> 0, entryAcc |-> 0]
  OBVIOUS
<1>1. /\ index' = index /\ log' = log \o (Finalized \o <<e>>)
      /\ status = "Open" /\ now < ResolutionTime
      /\ vintageOpen' = TRUE
      /\ vintageBlock' = (IF vintageOpen /\ ~d THEN vintageBlock ELSE blockNo)
      /\ positions' = Append(PositionsAfter(d), new)
      /\ books' = [w \in Outcomes |->
                 IF w = o THEN BooksAfter(d)[w]
                 ELSE [BooksAfter(d)[w] EXCEPT !.demand = @ + amount]]
      /\ status' = status /\ winner' = winner /\ blockNo' = blockNo /\ now' = now
  BY <1>0 DEF Entry, Emits, Enter, chainVars, settleVars
<1>2. /\ f.ev = "VintageFinalized" /\ f.vintage = vintageBlock
      /\ e.ev = "Entered" /\ e.id = Count + 1 /\ e.owner = u /\ e.outcome = o /\ e.vintage = blockNo
  BY <1>0
<1>3. /\ d \in BOOLEAN /\ vintageOpen \in BOOLEAN /\ Count \in Nat
      /\ PositionsAfter(d) \in Seq(Position) /\ Len(PositionsAfter(d)) = Count
  BY <1>0, <1>1, NowTyped
<1>4. blockNo \in Nat /\ blockNo >= 1 /\ vintageBlock \in Nat
  BY DEF ChainInv, IInv, TypeOK, BatchInv, AgeInv
<1>5. /\ new \in Position /\ new.owner = u /\ new.outcome = o /\ ~new.finalized
      /\ new.vintage = blockNo
  BY <1>0, <1>4, InputAssumption DEF Position
<1>6. /\ Count' = Count + 1 /\ positions'[Count + 1] = new
      /\ \A i \in 1..Count : positions'[i] = PositionsAfter(d)[i]
  BY <1>1, <1>3, <1>5, AppendIsFun DEF Count
<1>7. ASSUME NEW E, e \in E, \A x \in E : x = e \/ x = f, d => f \in E,
             NEW ev, IsLog(ev), Len(ev) > 0, log' = log \o ev, Later(ev, 0) = E, EventsOf(ev)'
      PROVE  StepOK(ev)
  <2>0. /\ \A i : SaysEntered(E, i) <=> i = Count + 1
        /\ d => SaysFinal(E, vintageBlock) /\ SaysRefresh(E)
        /\ SaysToggle(E)
    <3>1. \A i : SaysEntered(E, i) <=> i = Count + 1
      <4>1. \A x \in E : x.ev = "Entered" => x = e
        BY <1>2, <1>7
      <4> QED BY <1>2, <1>7, <4>1 DEF SaysEntered
    <3>2. d => SaysFinal(E, vintageBlock) /\ SaysRefresh(E)
      BY <1>2, <1>7 DEF SaysFinal, SaysRefresh
    <3>3. SaysToggle(E)
      <4>1. e \in E /\ e.ev = "Entered" /\ e.vintage # 0
        BY <1>2, <1>4, <1>7
      <4> QED BY <4>1 DEF SaysToggle
    <3> QED BY <3>1, <3>2, <3>3
  <2>1. ASSUME NEW i \in 1..Count PROVE StakeKept(i, E)
    <3>1. PICK p, r : p = positions[i] /\ r = PositionsAfter(d)[i]
      OBVIOUS
    <3>2. /\ r.outcome = p.outcome /\ r.vintage = p.vintage /\ r.offered = p.offered
          /\ r.owner = p.owner /\ r.claimed = p.claimed /\ r.refunded = p.refunded
          /\ p.finalized => r = p
          /\ ~d => r = p
          /\ ~p.finalized => p.vintage = vintageBlock
      BY <1>1, <1>3, <3>1, RolledStake
    <3>3. positions'[i] = r
      BY <1>6, <3>1
    <3>4. ~p.finalized /\ r.finalized => SaysFinal(E, p.vintage)
      BY <1>3, <2>0, <3>2
    <3> QED BY <3>1, <3>2, <3>3, <3>4 DEF StakeKept
  <2>2. StakesKept(E)
    <3>1. \A i : i \in (Count+1)..Count' <=> i = Count + 1
      BY <1>3, <1>6
    <3>2. Count' \in Nat /\ Count <= Count'
      BY <1>3, <1>6
    <3> QED BY <1>3, <1>5, <1>6, <2>0, <2>1, <3>1, <3>2 DEF StakesKept
  <2>3. ViewKept(E)
    <3>1. ASSUME ~SaysRefresh(E), NEW w \in Outcomes
          PROVE  Headroom(books'[w]) = Headroom(books[w]) /\ books'[w].acc = books[w].acc
      <4>1. ~d /\ BooksAfter(d) = books
        BY <1>3, <2>0, <3>1 DEF BooksAfter
      <4>2. books[w] \in Book
        BY <1>1, LedgerTyped, BookAt DEF ChainInv
      <4>3. books'[w] = IF w = o THEN books[w] ELSE [books[w] EXCEPT !.demand = @ + amount]
        BY <1>1, <4>1
      <4>4. /\ books'[w].capacity = books[w].capacity /\ books'[w].vested = books[w].vested
            /\ books'[w].acc = books[w].acc
        BY <4>2, <4>3 DEF Book
      <4> QED BY <4>4 DEF Headroom
    <3> QED BY <1>1, <2>0, <3>1 DEF ViewKept
  <2>4. StaysOpen
    <3>1. ASSUME vintageOpen, vintageBlock = blockNo
          PROVE  /\ vintageOpen' /\ vintageBlock' = vintageBlock
                 /\ \A i \in 1..Count : ~positions[i].finalized => ~positions'[i].finalized
      <4>0. ~RollDue
        BY <1>4, <3>1 DEF RollDue
      <4>1. ~d
        BY <1>0, <4>0
      <4>2. \A i \in 1..Count : PositionsAfter(d)[i] = positions[i]
        BY <4>1 DEF PositionsAfter
      <4> QED BY <1>1, <1>6, <3>1, <4>1, <4>2
    <3> QED BY <1>1, <3>1 DEF StaysOpen
  <2>5. Begun(ev)
    <3>1. opening => N <= Count
      BY DEF LogInv
    <3>2. opening' => N <= Count'
      <4>1. N \in Nat
        BY SizeAssumption
      <4> QED BY <1>3, <1>6, <3>1, <4>1
    <3>3. vintageBlock' >= 1
      <4>1. vintageOpen => vintageBlock >= 1
        BY DEF LogInv
      <4> QED BY <1>1, <1>4, <4>1
    <3>4. Count + 1 \in 1..Count' /\ ~positions'[Count + 1].finalized
      BY <1>3, <1>5, <1>6
    <3> QED BY <1>1, <3>2, <3>3, <3>4 DEF Begun
  <2> QED BY <1>1, <1>7, <2>2, <2>3, <2>4, <2>5 DEF StepOK
<1>8. EventOf(e, {})'
  <2>1. vintageBlock' = blockNo
    <3>1. ASSUME vintageOpen, ~d PROVE vintageBlock = blockNo
      <4>1. vintageBlock <= blockNo
        BY <3>1 DEF ChainInv, IInv, VintageInv
      <4>2. ~(blockNo > vintageBlock)
        BY <1>0, <3>1 DEF RollDue
      <4> QED BY <1>4, <4>1, <4>2
    <3> QED BY <1>1, <3>1
  <2>2. Count + 1 \in 1..Count' /\ blockNo # 0
    BY <1>3, <1>4, <1>6
  <2>3. EntryOf(e, {})'
    BY <1>1, <1>2, <1>5, <1>6, <2>1, <2>2 DEF EntryOf, SaysEntered, SaysMoved
  <2> QED BY <1>2, <2>3 DEF EventOf, Kinds
<1>9. CASE d
  <2>0. RollDue
    BY <1>0, <1>9
  <2>1. log' = log \o <<f, e>>
    <3>1. Finalized = <<f>>
      BY <1>0, <2>0 DEF Finalized
    <3>2. <<f>> \o <<e>> = <<f, e>>
      BY CatTwo
    <3> QED BY <1>1, <3>1, <3>2
  <2>2. FinalOf(f, {e})'
    <3>1. /\ vintageBlock \in Nat /\ vintageBlock >= 1 /\ vintageBlock < blockNo
          /\ \E i \in 1..Count : positions[i].vintage = vintageBlock
      BY <2>0, DueFacts
    <3>2. \A i \in 1..Count : /\ positions'[i].vintage = positions[i].vintage
                              /\ positions'[i].finalized
      <4>1. ASSUME NEW i \in 1..Count
            PROVE  positions'[i].vintage = positions[i].vintage /\ positions'[i].finalized
        <5>1. PositionsAfter(d)[i].vintage = positions[i].vintage /\ PositionsAfter(d)[i].finalized
          BY <1>1, <1>3, <1>9, RolledStake
        <5> QED BY <1>6, <5>1
      <4> QED BY <4>1
    <3>3. \A i \in 1..Count' : i \in 1..Count \/ i = Count + 1
      BY <1>3, <1>6
    <3>4. \A i \in 1..Count : i \in 1..Count'
      BY <1>3, <1>6
    <3>5. ASSUME NEW i \in 1..Count', positions'[i].vintage = vintageBlock
          PROVE  positions'[i].finalized
      <4>1. vintageBlock # blockNo
        BY ONLY <1>4, <3>1
      <4>2. i # Count + 1
        BY <1>5, <1>6, <3>5, <4>1
      <4> QED BY <3>2, <3>3, <4>2
    <3>6. SaysToggle({e})
      BY <1>2, <1>4 DEF SaysToggle
    <3> QED BY <1>1, <1>2, <3>1, <3>2, <3>4, <3>5, <3>6 DEF FinalOf
  <2>3. EventOf(f, {e})'
    BY <1>2, <2>2 DEF EventOf, Kinds
  <2>4. EventsOf(<<f, e>>)'
    BY <1>8, <2>3, TwoEvents
  <2>5. IsLog(<<f, e>>) /\ Len(<<f, e>>) > 0 /\ Later(<<f, e>>, 0) = {f, e}
    BY TwoLogs
  <2>6. PICK ev : ev = <<f, e>>
    OBVIOUS
  <2>7. IsLog(ev) /\ Len(ev) > 0 /\ log' = log \o ev /\ Later(ev, 0) = {f, e} /\ EventsOf(ev)'
    BY <2>1, <2>4, <2>5, <2>6
  <2>8. StepOK(ev)
    BY <1>7, <2>7
  <2> QED BY <2>8
<1>10. CASE ~d
  <2>1. log' = log \o <<e>>
    <3>1. Finalized = <<>>
      BY <1>0, <1>10 DEF Finalized
    <3>2. <<>> \o <<e>> = <<e>>
      BY CatNone
    <3> QED BY <1>1, <3>1, <3>2
  <2>2. EventsOf(<<e>>)'
    BY <1>8, OneEvent
  <2>3. IsLog(<<e>>) /\ Len(<<e>>) > 0 /\ Later(<<e>>, 0) = {e}
    BY OneLog
  <2>4. PICK ev : ev = <<e>>
    OBVIOUS
  <2>5. IsLog(ev) /\ Len(ev) > 0 /\ log' = log \o ev /\ Later(ev, 0) = {e} /\ EventsOf(ev)'
    BY <2>1, <2>2, <2>3, <2>4
  <2>6. StepOK(ev)
    BY <1>7, <1>10, <2>5
  <2> QED BY <2>6
<1> QED BY <1>3, <1>9, <1>10

(* The logs of the seed legs. *)
SeedLog(l, seed) ==
  /\ IsLog(l) /\ Len(l) = N
  /\ \A w \in Outcomes : /\ l[w].ev = "Entered" /\ l[w].id = w /\ l[w].owner = Creator
                         /\ l[w].outcome = w /\ l[w].vintage = 0

LEMMA OpenOK ==
  ASSUME ChainInv, LogInv, NEW seed, NEW k, Open(seed, k)
  PROVE  \E ev : StepOK(ev)
<1>0. PICK l, m, s :
        /\ l = [w \in Outcomes |->
              [ev |-> "Entered", id |-> w, owner |-> Creator, outcome |-> w,
               offered |-> seed[w], vintage |-> 0, tx |-> "open", day |-> now]]
        /\ m = [ev |-> "MarketCreated", day |-> now]
        /\ s = [ev |-> "SpecRegistered", spec |-> OpeningSpec]
  OBVIOUS
<1>1. Create(seed, k) /\ log' = log \o (l \o <<m, s>>) /\ index' = index
  BY <1>0 DEF Open, Emits
<1>2. N \in Nat /\ N >= 2 /\ Outcomes = 1..N
  BY SizeAssumption DEF Outcomes
<1>3. SeedLog(l, seed)
  <2>1. Len(l) = N
    BY <1>0, <1>2
  <2>2. IsLog(l)
    BY <1>0, <1>2, <2>1 DEF IsLog
  <2>3. \A w \in Outcomes : l[w] = [ev |-> "Entered", id |-> w, owner |-> Creator, outcome |-> w,
               offered |-> seed[w], vintage |-> 0, tx |-> "open", day |-> now]
    BY <1>0
  <2>4. ASSUME NEW w \in Outcomes
        PROVE  /\ l[w].ev = "Entered" /\ l[w].id = w /\ l[w].owner = Creator
               /\ l[w].outcome = w /\ l[w].vintage = 0
    <3>1. PICK a, c, d, x : x = l[w] /\
            x = [ev |-> "Entered", id |-> w, owner |-> Creator, outcome |-> w,
                 offered |-> a, vintage |-> 0, tx |-> c, day |-> d]
      BY <2>3
    <3>2. /\ x.ev = "Entered" /\ x.id = w /\ x.owner = Creator
          /\ x.outcome = w /\ x.vintage = 0
      BY ONLY <3>1
    <3> QED BY <3>1, <3>2
  <2> QED BY <2>1, <2>2, <2>4 DEF SeedLog
<1>4. m.ev = "MarketCreated" /\ s.ev = "SpecRegistered"
  BY <1>0
<1>5. PICK r, ev : r = <<m, s>> /\ ev = l \o r
  OBVIOUS
<1>6. /\ IsLog(r) /\ Len(r) = 2 /\ r[1] = m /\ r[2] = s
      /\ Later(r, 0) = {m, s} /\ Later(r, 1) = {s} /\ Later(r, 2) = {}
  BY <1>5, TwoLogs
<1>7. /\ IsLog(ev) /\ Len(ev) = N + 2
      /\ \A j \in Outcomes : ev[j] = l[j]
      /\ ev[N + 1] = m /\ ev[N + 2] = s
  BY <1>2, <1>3, <1>5, <1>6, Shifted DEF SeedLog
<1>8. /\ \A j \in 0..N : Later(ev, j) = Later(l, j) \cup {m, s}
      /\ Later(ev, N + 1) = {s} /\ Later(ev, N + 2) = {}
  <2>1. IsLog(l) /\ IsLog(r) /\ Len(l) = N
    BY <1>3, <1>6 DEF SeedLog
  <2>2. \A j \in 0..N : Later(ev, j) = Later(l, j) \cup {m, s}
    BY <1>5, <1>6, <2>1, LaterShifted
  <2>3. \A j \in 0..2 : Later(ev, N + j) = Later(r, j)
    <3>1. \A j \in 0..Len(r) : Later(l \o r, Len(l) + j) = Later(r, j)
      BY <2>1, LaterShifted
    <3> QED BY <1>5, <1>6, <2>1, <3>1
  <2> QED BY <1>6, <2>2, <2>3
<1>9. \A j \in 0..N : \A e \in Later(l, j) :
        e.ev = "Entered" /\ e.vintage = 0 /\ e.id \in (j+1)..N
  <2>1. ASSUME NEW j \in 0..N, NEW e \in Later(l, j)
        PROVE  e.ev = "Entered" /\ e.vintage = 0 /\ e.id \in (j+1)..N
    <3>1. PICK w \in (j+1)..N : e = l[w]
      BY <1>3 DEF Later, SeedLog
    <3>2. w \in Outcomes
      BY <1>2
    <3> QED BY <1>3, <3>1, <3>2 DEF SeedLog
  <2> QED BY <2>1
<1>10. PICK ps : ps = positions'
  OBVIOUS
<1>11. /\ Count = 0 /\ Count' = N /\ status = "None" /\ status' = "Open"
       /\ now' = now /\ now < ResolutionTime /\ blockNo' = blockNo
       /\ vintageOpen' = vintageOpen /\ ~vintageOpen
       /\ \A w \in Outcomes : /\ positions'[w].owner = Creator /\ positions'[w].outcome = w
                              /\ positions'[w].vintage = 0 /\ positions'[w].finalized
  <2>1. /\ status = "None" /\ status' = "Open" /\ ResolutionTime > now
        /\ positions' = [w \in Outcomes |-> SeedPosition(seed, SeedClamp(seed, k), w)]
        /\ now' = now /\ blockNo' = blockNo /\ vintageOpen' = vintageOpen
    BY <1>1 DEF Create, chainVars, vintageVars
  <2>2. Count = 0
    <3>1. positions = <<>>
      BY <2>1 DEF ChainInv, IInv, LedgerInv, Blank
    <3> QED BY <3>1 DEF Count
  <2>3. ~vintageOpen
    BY <2>1 DEF ChainInv, IInv, VintageInv
  <2>4. Count' = N
    <3> DEFINE sp(w) == SeedPosition(seed, SeedClamp(seed, k), w)
    <3> HIDE DEF sp
    <3>1. \A g : g = [w \in 1..N |-> sp(w)] => Len(g) = N
      BY <1>2
    <3>2. Len(positions') = N
      BY <1>2, <2>1, <3>1 DEF sp
    <3> QED BY <3>2 DEF Count
  <2>5. ASSUME NEW w \in Outcomes
        PROVE  /\ positions'[w].owner = Creator /\ positions'[w].outcome = w
               /\ positions'[w].vintage = 0 /\ positions'[w].finalized
    BY <2>1 DEF SeedPosition
  <2>6. now < ResolutionTime
    <3>1. now \in Nat /\ ResolutionTime \in Nat
      BY TimeAssumption DEF ChainInv, IInv, TypeOK
    <3> QED BY <2>1, <3>1
  <2> QED BY <2>1, <2>2, <2>3, <2>4, <2>5, <2>6
<1>12. PICK E : E = Later(ev, 0)
  OBVIOUS
<1>13. /\ \A i : SaysEntered(E, i) <=> i \in Outcomes
       /\ SaysRefresh(E) /\ \A j \in 0..N : SaysCreated(Later(ev, j))
  <2>1. E = Later(l, 0) \cup {m, s}
    BY <1>2, <1>8, <1>12
  <2>2. ASSUME NEW i, SaysEntered(E, i) PROVE i \in Outcomes
    <3>1. PICK e \in E : e.ev = "Entered" /\ e.id = i
      BY <2>2 DEF SaysEntered
    <3>2. e \in Later(l, 0)
      BY <1>4, <2>1, <3>1
    <3> QED BY <1>2, <1>9, <3>1, <3>2
  <2>3. ASSUME NEW i \in Outcomes PROVE SaysEntered(E, i)
    <3>1. l[i] \in Later(l, 0)
      BY <1>2, <1>3 DEF Later, SeedLog
    <3>2. l[i] \in E /\ l[i].ev = "Entered" /\ l[i].id = i
      BY <1>3, <2>1, <3>1 DEF SeedLog
    <3> QED BY <3>2 DEF SaysEntered
  <2>4. SaysRefresh(E)
    BY <1>4, <2>1 DEF SaysRefresh
  <2>5. ASSUME NEW j \in 0..N PROVE SaysCreated(Later(ev, j))
    BY <1>4, <1>8 DEF SaysCreated
  <2> QED BY <2>2, <2>3, <2>4, <2>5
<1>14. StakesKept(E)
  <2>1. 1..Count = {} /\ (Count+1)..Count' = Outcomes
    BY <1>2, <1>11
  <2> QED BY <1>2, <1>11, <1>13, <2>1 DEF StakesKept
<1>15. ViewKept(E) /\ StaysOpen
  BY <1>11, <1>13 DEF ViewKept, StaysOpen
<1>16. Begun(ev)
  <2>1. 1 \in Outcomes
    BY <1>2
  <2>2. ev[1].ev = "Entered" /\ ev[1].vintage = 0
    BY <1>3, <1>7, <2>1 DEF SeedLog
  <2> QED BY <1>2, <1>11, <2>2 DEF Begun
<1>17. ASSUME NEW j \in Outcomes PROVE EventOf(ev[j], Later(ev, j))'
  <2>1. PICK e, D : e = ev[j] /\ D = Later(ev, j)
    OBVIOUS
  <2>2. /\ e.ev = "Entered" /\ e.id = j /\ e.owner = Creator /\ e.outcome = j /\ e.vintage = 0
    BY <1>3, <1>7, <2>1 DEF SeedLog
  <2>3. j \in 0..N /\ D = Later(l, j) \cup {m, s}
    BY <1>2, <1>8, <2>1
  <2>4. ~SaysEntered(D, j)
    <3>1. ASSUME NEW x \in D, x.ev = "Entered", x.id = j PROVE FALSE
      <4>1. x \in Later(l, j)
        BY <1>4, <2>3, <3>1
      <4>2. j \in (j+1)..N
        BY <1>9, <2>3, <3>1, <4>1
      <4> QED BY <1>2, <4>2
    <3> QED BY <3>1 DEF SaysEntered
  <2>5. SaysCreated(D)
    BY <1>13, <2>1, <2>3
  <2>6. j \in 1..Count'
    BY <1>2, <1>11
  <2>7. EntryOf(e, D)'
    BY <1>11, <2>2, <2>4, <2>5, <2>6 DEF EntryOf
  <2>8. EventOf(e, D)'
    BY <2>2, <2>7 DEF EventOf, Kinds
  <2> QED BY <2>1, <2>8
<1>18. EventOf(m, {s})' /\ EventOf(s, {})'
  BY <1>4, PlainEvent DEF Kinds
<1>19. EventsOf(ev)'
  <2>1. ASSUME NEW j \in 1..(N + 2) PROVE EventOf(ev[j], Later(ev, j))'
    <3>1. j \in Outcomes \/ j = N + 1 \/ j = N + 2
      BY <1>2
    <3>2. CASE j \in Outcomes
      BY <1>17, <3>2
    <3>3. CASE j = N + 1
      BY <1>7, <1>8, <1>18, <3>3
    <3>4. CASE j = N + 2
      BY <1>7, <1>8, <1>18, <3>4
    <3> QED BY <3>1, <3>2, <3>3, <3>4
  <2> QED BY <1>7, <2>1 DEF EventsOf
<1>20. StepOK(ev)
  <2>1. Len(ev) > 0 /\ log' = log \o ev
    BY <1>1, <1>2, <1>5, <1>7
  <2> QED BY <1>1, <1>7, <1>12, <1>14, <1>15, <1>16, <1>19, <2>1 DEF StepOK
<1> QED BY <1>20

(* A block without logs. *)
LEMMA NoLogs ==
  /\ IsLog(<<>>) /\ Len(<<>>) = 0 /\ Later(<<>>, 0) = {}
  /\ \A l : IsLog(l) => Later(l, Len(l)) = {}
<1>1. Len(<<>>) = 0 /\ 1..0 = {} /\ (0+1)..0 = {}
  OBVIOUS
<1>2. IsLog(<<>>)
  BY <1>1 DEF IsLog
<1>3. Later(<<>>, 0) = {}
  BY <1>1 DEF Later
<1>4. ASSUME NEW l, IsLog(l) PROVE Later(l, Len(l)) = {}
  <2>1. (Len(l) + 1)..Len(l) = {}
    BY <1>4 DEF IsLog
  <2> QED BY <2>1 DEF Later
<1> QED BY <1>1, <1>2, <1>3, <1>4

(* A block without logs leaves the index alone. *)
LEMMA EmptyBlock ==
  ASSUME NEW x, NEW l, NEW c, Len(l) = 0
  PROVE  Ix!IndexBlock(x, l, c) = x
<1> DEFINE h == CHOOSE f : IsIndexing(f, x, l, c, 0)
<1>1. IsIndexing(h, x, l, c, 0)
  BY IndexingExists
<1>2. Ix!IndexBlock(x, l, c) = h[0]
  BY DEF Ix!IndexBlock, IsIndexing
<1> HIDE DEF h
<1>3. h[0] = x
  BY <1>1 DEF IsIndexing
<1> QED BY <1>2, <1>3

(* The block is over: every log of it handled, none of the next one emitted. *)
LEMMA BlockStep ==
  ASSUME ChainInv, LogInv, IndexRel, Block, opening' => opening
  PROVE  LogInv' /\ IndexRel'
<1>1. /\ index' = Ix!IndexBlock(index, log, Chain) /\ log' = <<>>
      /\ blockNo' = blockNo + 1
      /\ status' = status /\ winner' = winner /\ books' = books /\ positions' = positions
      /\ vintageOpen' = vintageOpen /\ vintageBlock' = vintageBlock
  BY DEF Block, NextBlock, settleVars, ledgerVars, vintageVars
<1>2. PICK x, k : x = Ix!IndexBlock(index, log, Chain) /\ k = Len(log)
  OBVIOUS
<1>3. RelAt(x, k) /\ IsLog(log) /\ k \in Nat
  BY <1>2, BlockIndexed DEF LogInv, IsLog
<1>4. Later(log, k) = {} /\ Later(log', 0) = {}
  BY <1>1, <1>2, <1>3, NoLogs
<1>5. /\ \A i : EnteredAfter(0, i)' <=> EnteredAfter(k, i)
      /\ \A i : MovedAfter(0, i)' <=> MovedAfter(k, i)
      /\ \A i : ClaimedAfter(0, i)' <=> ClaimedAfter(k, i)
      /\ \A i : RefundAfter(0, i)' <=> RefundAfter(k, i)
      /\ \A v : FinalAfter(0, v)' <=> FinalAfter(k, v)
      /\ RefreshAfter(0)' <=> RefreshAfter(k)
      /\ ToggleAfter(0)' <=> ToggleAfter(k)
  BY <1>4, AfterIsLater, AfterIsLaterNext
<1>6. ~ToggleAfter(k)
  BY <1>4, AfterIsLater DEF SaysToggle
<1>7. Count' = Count
  BY <1>1 DEF Count
<1>8. PICK m, bs, qs, vs : m = x.market /\ bs = x.books /\ qs = x.positions /\ vs = x.vintages
  OBVIOUS
<1>9. /\ IsStore(x) /\ HoldingsAt(qs, k) /\ PreviewsAt(qs, k) /\ VintagesAt(qs, vs)
      /\ MarketAt(m, k) /\ BooksAt(m, bs, k) /\ (k > 0 => m # Ix!NoMarket)
  BY <1>3, <1>8 DEF RelAt, Agree
<1>10. HoldingsAt(qs, 0)'
  <2>1. ASSUME NEW i \in DOMAIN qs PROVE HoldingAt(qs[i], i, 0)'
    <3>1. PICK q : q = qs[i]
      OBVIOUS
    <3>2. HoldingAt(q, i, k)
      BY <1>9, <3>1 DEF HoldingsAt
    <3>3. HoldingAt(q, i, 0)'
      BY <1>1, <1>5, <3>2 DEF HoldingAt
    <3> QED BY <3>1, <3>3
  <2> QED BY <1>5, <1>7, <1>9, <2>1 DEF HoldingsAt
<1>11. PreviewsAt(qs, 0)'
  <2>1. ASSUME NEW i PROVE Shown(positions[i])' = Shown(positions[i])
    BY <1>1 DEF Shown, Payout, Weight, Settlement, Wins
  <2> QED BY <1>5, <1>9, <2>1 DEF PreviewsAt
<1>12. VintagesAt(qs, vs)'
  BY <1>9 DEF VintagesAt
<1>13. MarketAt(m, 0)'
  BY <1>1, <1>5, <1>9 DEF MarketAt
<1>14. BooksAt(m, bs, 0)'
  BY <1>1, <1>5, <1>9 DEF BooksAt
<1>15. Agree(m, bs, qs, vs, 0)'
  BY <1>10, <1>11, <1>12, <1>13, <1>14 DEF Agree
<1>16. IndexRel'
  <2>1. index' = x
    BY <1>1, <1>2
  <2> QED BY <1>8, <1>9, <1>15, <2>1 DEF IndexRel, RelAt
<1>17. Known(index)' <=> m # Ix!NoMarket
  BY <1>1, <1>2, <1>8 DEF Known
<1>18. ASSUME m = Ix!NoMarket PROVE status = "None"
  <2>1. k = 0
    BY <1>3, <1>9, <1>18
  <2>2. log = <<>>
    <3>1. log = [j \in 1..0 |-> log[j]]
      BY <1>2, <1>3, <2>1 DEF IsLog
    <3> QED BY <3>1
  <2>3. ~Known(index)
    <3>1. Ix!IndexBlock(index, log, Chain) = index
      BY <1>2, <2>1, EmptyBlock
    <3> QED BY <1>2, <1>8, <1>18, <3>1 DEF Known
  <2> QED BY <2>2, <2>3 DEF LogInv
<1>19. IsLog(log)' /\ 1..Len(log') = {}
  <2>1. IsLog(log') /\ Len(log') = 0
    BY <1>1, NoLogs
  <2>2. 1..0 = {}
    OBVIOUS
  <2> QED BY <2>1, <2>2 DEF IsLog
<1>20. ASSUME ~Known(index)'
       PROVE  /\ ~ToggleAfter(0)' => ~vintageOpen'
              /\ log' = <<>> => status' = "None"
              /\ log' # <<>> => log'[1].ev = "Entered" /\ log'[1].vintage = 0
  <2>1. status = "None"
    BY <1>17, <1>18, <1>20
  <2>2. ~vintageOpen
    BY <2>1 DEF ChainInv, IInv, VintageInv
  <2> QED BY <1>1, <2>1, <2>2
<1>21. ASSUME status' = "None" PROVE log' = <<>> /\ ~Known(index)'
  <2>1. status = "None"
    BY <1>1, <1>21
  <2>2. log = <<>> /\ ~Known(index)
    BY <2>1 DEF LogInv
  <2>3. k = 0
    BY <1>2, <2>2, NoLogs
  <2>4. x = index
    BY <1>2, <2>3, EmptyBlock
  <2> QED BY <1>1, <1>8, <1>17, <2>2, <2>4 DEF Known
<1>22. (opening => N <= Count)' /\ (vintageOpen => vintageBlock >= 1 /\ \E i \in 1..Count : ~positions[i].finalized)'
  BY <1>1, <1>7 DEF LogInv
<1>23. (\A j \in 1..Len(log) : EventOK(j))'
  BY <1>19
<1>24. LogInv'
  BY <1>19, <1>20, <1>21, <1>22, <1>23 DEF LogInv
<1> QED BY <1>16, <1>24

(* The invariant of the settler and its index. *)
IndexInv == ChainInv /\ LogInv /\ IndexRel

(* Nothing is indexed yet and nothing is logged. *)
LEMMA IndexStart == IndexInit => IndexInv
<1> SUFFICES ASSUME IndexInit PROVE IndexInv
  OBVIOUS
<1>1. Init /\ log = <<>> /\ index = Ix!Empty /\ opening = FALSE
  BY DEF IndexInit
<1>2. ChainInv
  BY <1>1, InitImplements, BatchInit DEF ChainInv, RInv
<1>3. positions = <<>> /\ status = "None" /\ vintageOpen = FALSE /\ Count = 0
  BY <1>1 DEF Init, Count
<1>4. IsLog(log) /\ 1..Len(log) = {} /\ Later(log, 0) = {}
  <2>1. 1..0 = {}
    OBVIOUS
  <2> QED BY <1>1, <2>1, NoLogs
<1>5. index.market = Ix!NoMarket /\ index.books = <<>> /\ index.positions = <<>>
      /\ index.vintages = <<>> /\ IsStore(index)
  BY <1>1 DEF Ix!Empty, IsStore
<1>6. LogInv
  BY <1>1, <1>3, <1>4, <1>5 DEF LogInv, Known
<1>7. DOMAIN <<>> = {} /\ 1..0 = {}
  OBVIOUS
<1>8. HoldingsAt(<<>>, 0) /\ PreviewsAt(<<>>, 0) /\ VintagesAt(<<>>, <<>>)
  BY <1>3, <1>7 DEF HoldingsAt, PreviewsAt, VintagesAt
<1>9. MarketAt(Ix!NoMarket, 0) /\ BooksAt(Ix!NoMarket, <<>>, 0)
  BY <1>7 DEF MarketAt, BooksAt
<1>10. IndexRel
  BY <1>5, <1>8, <1>9 DEF IndexRel, RelAt, Agree
<1> QED BY <1>2, <1>6, <1>10 DEF IndexInv

(* A step of the indexed system is a step of the settler. *)
LEMMA IndexStepIsSettlers == IndexInv /\ [IndexNext]_allVars => [Next]_vars
<1> SUFFICES ASSUME IndexInv, [IndexNext]_allVars PROVE [Next]_vars
  OBVIOUS
<1>1. ASSUME NEW seed \in Seeds, NEW k \in Kappas, Open(seed, k) PROVE Next
  BY <1>1 DEF Open, Next
<1>2. ASSUME NEW i \in Outcomes, HandLegOver(i) PROVE Next
  <2>1. opening /\ TransferPosition(Creator, i, Opener)
    BY <1>2 DEF HandLegOver
  <2>2. N <= Count
    BY <2>1 DEF IndexInv, LogInv
  <2>3. Count \in Nat /\ N \in Nat /\ i \in 1..N
    <3>1. positions \in Seq(Position)
      BY DEF IndexInv, ChainInv, IInv, TypeOK
    <3> QED BY <3>1, <1>2, SizeAssumption DEF Count, Outcomes
  <2>4. i \in 1..Count
    BY <2>2, <2>3
  <2>5. Creator \in Users /\ Opener \in Users
    BY UserAssumption, OpeningAssumption
  <2> QED BY <2>1, <2>4, <2>5 DEF Next
<1>3. ASSUME NEW u \in Holders, NEW o \in Outcomes, NEW amount \in Amounts, Entry(u, o, amount)
      PROVE  Next
  BY <1>3 DEF Entry, Next, Holders
<1>4. CASE Finalization
  BY <1>4 DEF Finalization, Next
<1>5. ASSUME NEW w \in Outcomes, Resolution(w) PROVE Next
  BY <1>5 DEF Resolution, Next
<1>6. ASSUME NEW u \in Holders \cup {Resolver}, Voiding(u) PROVE Next
  BY <1>6 DEF Voiding, Next, Holders
<1>7. ASSUME NEW u \in Holders, NEW i \in 1..Count, Withdrawal(u, i) PROVE Next
  BY <1>7 DEF Withdrawal, Next, Holders
<1>8. ASSUME NEW u \in Holders, NEW i \in 1..Count, Claiming(u, i) PROVE Next
  BY <1>8 DEF Claiming, Next, Holders
<1>9. ASSUME NEW u \in Holders, ResidueClaiming(u) PROVE Next
  BY <1>9 DEF ResidueClaiming, Next, Holders
<1>10. ASSUME NEW u \in Holders, NEW to \in Holders, NEW i \in 1..Count, Transfer(u, i, to)
       PROVE  Next
  BY <1>10 DEF Transfer, Next, Holders
<1>11. CASE Block
  BY <1>11 DEF Block, Next
<1>12. CASE UNCHANGED allVars
  BY <1>12 DEF allVars
<1> QED BY <1>1, <1>2, <1>3, <1>4, <1>5, <1>6, <1>7, <1>8, <1>9, <1>10, <1>11, <1>12 DEF IndexNext

(* The settler keeps what is proved of it. *)
LEMMA ChainStep == ChainInv /\ [Next]_vars => ChainInv'
BY StepInv, BatchStep, StepImplements DEF ChainInv, RInv

(* Nothing moves. *)
LEMMA IndexStill ==
  ASSUME LogInv, IndexRel, UNCHANGED allVars
  PROVE  LogInv' /\ IndexRel'
<1>1. /\ log' = log /\ index' = index /\ opening' = opening
      /\ blockNo' = blockNo /\ now' = now
      /\ status' = status /\ winner' = winner /\ books' = books /\ positions' = positions
      /\ vintageOpen' = vintageOpen /\ vintageBlock' = vintageBlock
  BY DEF allVars, indexVars, vars, chainVars, settleVars, ledgerVars, vintageVars
<1>2. Count' = Count
  BY <1>1 DEF Count
<1>3. /\ \A k, i : EnteredAfter(k, i)' <=> EnteredAfter(k, i)
      /\ \A k, i : MovedAfter(k, i)' <=> MovedAfter(k, i)
      /\ \A k, i : ClaimedAfter(k, i)' <=> ClaimedAfter(k, i)
      /\ \A k, i : RefundAfter(k, i)' <=> RefundAfter(k, i)
      /\ \A k, v : FinalAfter(k, v)' <=> FinalAfter(k, v)
      /\ \A k : CreatedAfter(k)' <=> CreatedAfter(k)
      /\ \A k : RefreshAfter(k)' <=> RefreshAfter(k)
      /\ \A k : ToggleAfter(k)' <=> ToggleAfter(k)
  BY <1>1 DEF EnteredAfter, MovedAfter, ClaimedAfter, RefundAfter, FinalAfter, CreatedAfter,
              RefreshAfter, ToggleAfter
<1>4. ASSUME NEW j, EventOK(j) PROVE EventOK(j)'
  BY <1>1, <1>2, <1>3, <1>4 DEF EventOK, EnteredOK, MovedOK, ClaimedOK, FinalOK
<1>5. Known(index)' <=> Known(index)
  BY <1>1 DEF Known
<1>6. LogInv'
  <2>1. IsLog(log)' /\ \A j \in 1..Len(log') : EventOK(j)'
    BY <1>1, <1>4 DEF LogInv, IsLog
  <2> QED BY <1>1, <1>2, <1>3, <1>5, <2>1 DEF LogInv
<1>7. PICK m, bs, qs, vs : m = index.market /\ bs = index.books /\ qs = index.positions
                           /\ vs = index.vintages
  OBVIOUS
<1>8. /\ IsStore(index) /\ HoldingsAt(qs, 0) /\ PreviewsAt(qs, 0) /\ VintagesAt(qs, vs)
      /\ MarketAt(m, 0) /\ BooksAt(m, bs, 0)
  BY <1>7 DEF IndexRel, RelAt, Agree
<1>9. HoldingsAt(qs, 0)'
  <2>1. ASSUME NEW i \in DOMAIN qs PROVE HoldingAt(qs[i], i, 0)'
    <3>1. PICK q : q = qs[i]
      OBVIOUS
    <3>2. HoldingAt(q, i, 0)
      BY <1>8, <3>1 DEF HoldingsAt
    <3>3. HoldingAt(q, i, 0)'
      BY <1>1, <1>3, <3>2 DEF HoldingAt
    <3> QED BY <3>1, <3>3
  <2> QED BY <1>2, <1>3, <1>8, <2>1 DEF HoldingsAt
<1>10. PreviewsAt(qs, 0)'
  <2>1. ASSUME NEW i PROVE Shown(positions[i])' = Shown(positions[i])
    BY <1>1 DEF Shown, Payout, Weight, Settlement, Wins
  <2> QED BY <1>3, <1>8, <2>1 DEF PreviewsAt
<1>11. VintagesAt(qs, vs)' /\ MarketAt(m, 0)' /\ BooksAt(m, bs, 0)'
  BY <1>1, <1>3, <1>8 DEF VintagesAt, MarketAt, BooksAt
<1>12. Agree(m, bs, qs, vs, 0)' /\ IsStore(index)'
  BY <1>1, <1>8, <1>9, <1>10, <1>11 DEF Agree, IsStore
<1> QED BY <1>1, <1>6, <1>7, <1>12 DEF IndexRel, RelAt

(* Every step of the two keeps the invariant. *)
LEMMA IndexStep == IndexInv /\ [IndexNext]_allVars => IndexInv'
<1> SUFFICES ASSUME IndexInv, [IndexNext]_allVars PROVE IndexInv'
  OBVIOUS
<1>0. ChainInv /\ LogInv /\ IndexRel
  BY DEF IndexInv
<1>1. ChainInv'
  BY <1>0, IndexStepIsSettlers, ChainStep
<1>2. ASSUME NEW ev, StepOK(ev) PROVE LogInv' /\ IndexRel'
  BY <1>0, <1>2, StepKeepsLog, StepKeepsIndex
<1>3. ASSUME NEW seed \in Seeds, NEW k \in Kappas, Open(seed, k) PROVE LogInv' /\ IndexRel'
  BY <1>0, <1>2, <1>3, OpenOK
<1>4. ASSUME NEW i \in Outcomes, HandLegOver(i) PROVE LogInv' /\ IndexRel'
  BY <1>0, <1>2, <1>4, HandLegOverOK
<1>5. ASSUME opening' = opening, NEW u \in Holders, NEW o \in Outcomes, NEW amount \in Amounts,
             Entry(u, o, amount)
      PROVE  LogInv' /\ IndexRel'
  <2>1. u \in Users /\ (opening' => opening)
    BY <1>5 DEF Holders
  <2> QED BY <1>0, <1>2, <1>5, <2>1, EntryStepOK
<1>6. ASSUME opening' = opening, Finalization PROVE LogInv' /\ IndexRel'
  BY <1>0, <1>2, <1>6, FinalizationOK
<1>7. ASSUME opening' = opening, NEW w \in Outcomes, Resolution(w) PROVE LogInv' /\ IndexRel'
  BY <1>0, <1>2, <1>7, ResolutionOK
<1>8. ASSUME opening' = opening, NEW u, Voiding(u) PROVE LogInv' /\ IndexRel'
  BY <1>0, <1>2, <1>8, VoidingOK
<1>9. ASSUME opening' = opening, NEW u, NEW i \in 1..Count, Withdrawal(u, i)
      PROVE  LogInv' /\ IndexRel'
  BY <1>0, <1>2, <1>9, WithdrawalOK
<1>10. ASSUME opening' = opening, NEW u, NEW i \in 1..Count, Claiming(u, i)
       PROVE  LogInv' /\ IndexRel'
  BY <1>0, <1>2, <1>10, ClaimingOK
<1>11. ASSUME opening' = opening, NEW u, ResidueClaiming(u) PROVE LogInv' /\ IndexRel'
  BY <1>0, <1>2, <1>11, ResidueClaimingOK
<1>12. ASSUME opening' = opening, NEW u, NEW to \in Holders, NEW i \in 1..Count, Transfer(u, i, to)
       PROVE  LogInv' /\ IndexRel'
  <2>1. to \in Users /\ (opening' => opening)
    BY <1>12 DEF Holders
  <2> QED BY <1>0, <1>2, <1>12, <2>1, TransferOK
<1>13. ASSUME opening' = opening, Block PROVE LogInv' /\ IndexRel'
  <2>1. opening' => opening
    BY <1>13
  <2> QED BY <1>0, <1>13, <2>1, BlockStep
<1>14. ASSUME UNCHANGED allVars PROVE LogInv' /\ IndexRel'
  BY <1>0, <1>14, IndexStill
<1>15. LogInv' /\ IndexRel'
  BY <1>3, <1>4, <1>5, <1>6, <1>7, <1>8, <1>9, <1>10, <1>11, <1>12, <1>13, <1>14 DEF IndexNext
<1> QED BY <1>1, <1>15 DEF IndexInv

(* The invariant holds, and it implies what the index promises. *)
LEMMA IndexInvariance == IndexSpec => []IndexInv
<1>1. IndexInit => IndexInv
  BY IndexStart
<1>2. IndexInv /\ [IndexNext]_allVars => IndexInv'
  BY IndexStep
<1> QED BY <1>1, <1>2, PTL DEF IndexSpec

(* Between blocks nothing is still to be handled. *)
LEMMA IndexedFacts ==
  ASSUME IndexInv, Indexed
  PROVE  /\ IsStore(index) /\ status # "None" /\ Len(log) = 0
         /\ HoldingsAt(index.positions, 0) /\ PreviewsAt(index.positions, 0)
         /\ VintagesAt(index.positions, index.vintages)
         /\ MarketAt(index.market, 0) /\ BooksAt(index.market, index.books, 0)
         /\ \A i : ~EnteredAfter(0, i) /\ ~MovedAfter(0, i) /\ ~ClaimedAfter(0, i)
                   /\ ~RefundAfter(0, i) /\ ~FinalAfter(0, i)
         /\ ~RefreshAfter(0) /\ ~ToggleAfter(0)
<1>1. log = <<>> /\ index.market # Ix!NoMarket
  BY DEF Indexed
<1>2. Len(log) = 0 /\ 1..0 = {} /\ (0+1)..Len(log) = {}
  BY <1>1
<1>3. /\ \A i : ~EnteredAfter(0, i) /\ ~MovedAfter(0, i) /\ ~ClaimedAfter(0, i)
                /\ ~RefundAfter(0, i) /\ ~FinalAfter(0, i)
      /\ ~RefreshAfter(0) /\ ~ToggleAfter(0)
  BY <1>2 DEF EnteredAfter, MovedAfter, ClaimedAfter, RefundAfter, FinalAfter,
              RefreshAfter, ToggleAfter
<1>4. status # "None"
  BY <1>1 DEF IndexInv, LogInv, Known
<1> QED BY <1>2, <1>3, <1>4 DEF IndexInv, IndexRel, RelAt, Agree

LEMMA SettlerFollowed == IndexInv => FollowsTheSettler
<1> SUFFICES ASSUME IndexInv, Indexed PROVE FollowsTheSettler
  BY DEF FollowsTheSettler
<1>1. ChainInv /\ status # "None"
  BY IndexedFacts DEF IndexInv
<1>2. PICK m, bs, qs, vs : m = index.market /\ bs = index.books /\ qs = index.positions
                           /\ vs = index.vintages
  OBVIOUS
<1>3. /\ HoldingsAt(qs, 0) /\ VintagesAt(qs, vs) /\ MarketAt(m, 0) /\ BooksAt(m, bs, 0)
      /\ m # Ix!NoMarket
  BY <1>2, IndexedFacts DEF Indexed
<1>4. /\ Count \in Nat /\ Count = Len(positions)
      /\ \A i \in 1..Count : StakeOK(positions[i])
      /\ positions \in Seq(Position) /\ DOMAIN positions = 1..Count
  BY <1>1, ChainStakes DEF ChainInv, IInv, TypeOK
<1>5. DOMAIN qs = 1..Count
  BY <1>3, IndexedFacts DEF HoldingsAt
<1>6. ASSUME NEW i \in 1..Count
      PROVE  /\ qs[i].owner = positions[i].owner /\ qs[i].finalized = positions[i].finalized
             /\ positions[i].finalized => /\ qs[i].accepted = positions[i].accepted
                                          /\ qs[i].entryAcc = positions[i].entryAcc
             /\ qs[i].claimed = positions[i].claimed
             /\ positions[i].finalized /\ positions[i].offered > positions[i].accepted
                  => qs[i].refundWithdrawn = positions[i].refunded
  <2>1. PICK p, q : p = positions[i] /\ q = qs[i]
    OBVIOUS
  <2>2. IsHolding(q) /\ HoldingAt(q, i, 0) /\ StakeOK(p)
    BY <1>3, <1>4, <1>5, <2>1 DEF HoldingsAt
  <2>3. /\ q.owner = p.owner
        /\ q.finalized => p.finalized /\ q.accepted = p.accepted /\ q.entryAcc = p.entryAcc
        /\ p.finalized => q.finalized
        /\ q.claimed => p.claimed
        /\ p.claimed => q.claimed
        /\ q.refundWithdrawn => p.refunded
        /\ p.refunded /\ p.offered > p.accepted => q.refundWithdrawn
    BY <2>1, <2>2, IndexedFacts DEF HoldingAt
  <2>4. /\ q.finalized \in BOOLEAN /\ q.refundWithdrawn \in BOOLEAN /\ q.claimed \in BOOLEAN
        /\ p.finalized \in BOOLEAN /\ p.refunded \in BOOLEAN /\ p.claimed \in BOOLEAN
    BY <2>2 DEF IsHolding, StakeOK
  <2>5. q.finalized = p.finalized /\ q.claimed = p.claimed
    BY <2>3, <2>4
  <2>6. p.finalized => q.accepted = p.accepted /\ q.entryAcc = p.entryAcc
    BY <2>3
  <2>7. p.finalized /\ p.offered > p.accepted => q.refundWithdrawn = p.refunded
    BY <2>3, <2>4
  <2> QED BY <2>1, <2>3, <2>5, <2>6, <2>7
<1>7. UNION {vs[v].pending : v \in DOMAIN vs} = pending
  <2>1. pending \subseteq 1..Count /\ \A i \in 1..Count : i \in pending <=> ~positions[i].finalized
    BY <1>1, <1>4, LedgerTyped DEF LedgerOK, PendingOK, ChainInv, IInv, TypeOK
  <2>2. \A v \in DOMAIN vs : vs[v].pending = Waiting(qs, v)
    BY <1>3 DEF VintagesAt
  <2>3. \A i \in 1..Count : qs[i].vintage \in DOMAIN vs
    BY <1>3, <1>5 DEF VintagesAt
  <2>4. ASSUME NEW i \in pending PROVE i \in UNION {vs[v].pending : v \in DOMAIN vs}
    <3>1. i \in 1..Count /\ ~qs[i].finalized
      BY <1>6, <2>1
    <3>2. i \in Waiting(qs, qs[i].vintage)
      BY <1>5, <3>1 DEF Waiting
    <3> QED BY <2>2, <2>3, <3>1, <3>2
  <2>5. ASSUME NEW v \in DOMAIN vs, NEW i \in vs[v].pending PROVE i \in pending
    <3>1. i \in 1..Count /\ ~qs[i].finalized
      BY <1>5, <2>2, <2>5 DEF Waiting
    <3> QED BY <1>6, <2>1, <3>1
  <2> QED BY <2>4, <2>5
<1>8. (m.openVintage # None) = vintageOpen /\ m.status = status
  <2>1. vintageOpen \in BOOLEAN
    BY <1>1 DEF ChainInv, IInv, TypeOK
  <2>2. (m.openVintage # None <=> vintageOpen) /\ m.status = status
    BY <1>3, IndexedFacts DEF MarketAt
  <2> QED BY <2>1, <2>2
<1>9. \A w \in Outcomes : bs[w].headroom = Headroom(books[w])
  BY <1>3, IndexedFacts DEF BooksAt
<1> QED BY <1>2, <1>4, <1>5, <1>6, <1>7, <1>8, <1>9 DEF FollowsTheSettler, IxPositions

LEMMA PreviewsShown == IndexInv => PreviewIsWhatClaimPays
<1> SUFFICES ASSUME IndexInv, Indexed PROVE PreviewIsWhatClaimPays
  BY DEF PreviewIsWhatClaimPays
<1>1. /\ FollowsTheSettler /\ Indexed
      /\ \A i \in DOMAIN IxPositions :
           IxPositions[i].finalized => IxPositions[i].previewPayout = Shown(positions[i])
  BY SettlerFollowed, IndexedFacts DEF PreviewsAt, IxPositions
<1>2. /\ DOMAIN IxPositions = DOMAIN positions
      /\ \A i \in DOMAIN positions : IxPositions[i].finalized = positions[i].finalized
  BY <1>1 DEF FollowsTheSettler
<1> QED BY <1>1, <1>2 DEF PreviewIsWhatClaimPays, Shown

(* What the index holds is what the settler holds: once the logs of a block are
   handled, every position is indexed with its owner, its state and what it was
   accepted for, the pending entries are the settler's own, and the market's
   status and the room of its books are the settler's (vested.ts: the accepted
   amounts and the claim flags are in no log and are read or told apart there). *)
THEOREM IndexFollows == IndexSpec => []FollowsTheSettler
BY IndexInvariance, SettlerFollowed, PTL

(* The payout the index shows for a final position is the one claim would pay,
   now that the market is open, or does pay, once it is settled: no handler
   leaves a preview of an earlier state behind (vested.ts, refreshPreviews). *)
THEOREM PreviewsArePaid == IndexSpec => []PreviewIsWhatClaimPays
BY IndexInvariance, PreviewsShown, PTL

(* Opened through the factory and followed by the index, the settler takes no
   step it would not take alone, so what is proved of Spec above holds here. *)
THEOREM IndexedSettler == IndexSpec => Spec
<1>1. IndexInit => Init
  BY DEF IndexInit
<1>2. IndexInv /\ [IndexNext]_allVars => [Next]_vars
  BY IndexStepIsSettlers
<1> QED BY <1>1, <1>2, IndexInvariance, PTL DEF IndexSpec, Spec

=============================================================================
