------------------------------ MODULE AgentLoop ------------------------------
(***************************************************************************)
(* The live agent: research, decide, enter, settle the research bill and   *)
(* claim (loop.ts), through the index (graph-source.ts), a Circle wallet   *)
(* and a nanopayment channel (circle/live.ts over circle/http.ts).  Every  *)
(* await ends an action: the venue moves, the index lags behind it, and a  *)
(* transaction the agent gave up on may still land.  A call that rejects   *)
(* ends the process (cli/commands.ts); the operator runs it again, and     *)
(* nothing of the loop's memory survives.                                  *)
(***************************************************************************)
EXTENDS AgentPolicy

CONSTANTS
    Markets, Terms,         \* the markets watched and the terms of each
    SETTLER, PLACEHOLDER_ADDRESS, INTEL_URL,
    Quotes,                 \* what the paid feed may say
    TrustReadings,          \* what the reputation index may say
    OtherStakes,            \* what others stake
    ROUNDS, MAX_ATTEMPTS, KAPPA, BANKROLL,
    MaxTime, MaxMishaps, MaxArrivals, MaxRuns   \* bounds of the checked instances

\* wire.ts: what live mode refuses to start without.
ASSUME LiveWiring ==
    /\ SETTLER # PLACEHOLDER_ADDRESS /\ INTEL_URL # None /\ Markets # {}
    /\ ROUNDS \in Nat \ {0} /\ MAX_ATTEMPTS \in Nat \ {0} /\ OtherStakes \subseteq Nat \ {0}

Capacities == Nat \cup {KAPPA_UNBOUNDED}
Books == [principal: Nat, capacity: Capacities, vested: Nat, headroom: Capacities]

\* _headroom, saturating at 0.
Headroom(capacity, vested) ==
    CASE capacity = KAPPA_UNBOUNDED -> KAPPA_UNBOUNDED
      [] capacity # KAPPA_UNBOUNDED /\ capacity > vested -> capacity - vested
      [] OTHER -> 0

\* What create leaves of a market.
ASSUME TermsAssumption ==
    /\ IsFiniteSet(Markets) /\ KAPPA \in Nat /\ BANKROLL \in Nat
    /\ \A m \in Markets :
        /\ Terms[m].resolutionTime \in Nat /\ Terms[m].books \in Seq(Books)
        /\ \A o \in DOMAIN Terms[m].books :
            LET b == Terms[m].books[o] IN b.headroom = Headroom(b.capacity, b.vested)
        /\ Terms[m].spec # None
        /\ Terms[m].spec.direction \in {"above", "below"}
        /\ Terms[m].spec.strike \in Int /\ Terms[m].spec.maxStaleness \in Nat

\* What the feed and the reputation index answer are numbers, or left out.
ASSUME AnswersAssumption ==
    /\ \A q \in Quotes : q.price8 \in Int /\ q.vol \in Int /\ q.observedAt \in Int
    /\ \A t \in TrustReadings : t # None =>
          \A o \in DOMAIN t : {t[o].score, t[o].unrated} \subseteq Int \cup {None}

VARIABLES
    clock,
    venue,          \* market -> its status, winner and books on chain
    vintage,        \* market -> the entries buffered since the books were last
                    \* rolled, and whether their block has passed
    positions,      \* market -> the agent's positions on chain
    wallet,         \* the agent's balance and the settler's allowance
    index,          \* the venue and the positions as last indexed
    circle,         \* idempotency key -> a transaction Circle accepted
    pending,        \* research authorizations made and not settled
    job,            \* the agent's process
    landed,         \* what has been seen: market -> entries of this run
    mishaps, arrivals, runs

vars == <<clock, venue, vintage, positions, wallet, index, circle, pending, job, landed,
          mishaps, arrivals, runs>>
Chain == <<venue, vintage, positions, wallet, landed>>
Env == <<clock, index, arrivals, runs>>

----------------------------------------------------------------------------
(* The venue, as VestedParimutuel moves it *)

EntryCall(m, d, seen) == [kind |-> "enter", market |-> m, outcome |-> d.outcome,
                          amount |-> d.stake, seen |-> seen]
ApproveCall(d) == [kind |-> "approve", amount |-> d.stake]

\* The entries of the open vintage, [position, outcome, offered, seen]: position
\* is 0 for another's, seen is the books the agent sized its entry on.
Offers(m) == vintage[m].offers
Total(m, F(_)) == Sum([k \in DOMAIN Offers(m) |-> F(Offers(m)[k])], Len(Offers(m)))
Demand(m, w) ==
    LET Against(x) == IF x.outcome # w THEN x.offered ELSE 0 IN Total(m, Against)

\* _finalizeVintage: each bounded book that is short of the demand on it is
\* shared out among its entries, and the tightest share is accepted.
Rationing(m, outcome) ==
    {w \in DOMAIN venue[m].books \ {outcome} :
        /\ venue[m].books[w].headroom # KAPPA_UNBOUNDED
        /\ Demand(m, w) > venue[m].books[w].headroom}
AcceptedOf(m, x) ==
    Min({x.offered} \cup {(x.offered * venue[m].books[w].headroom) \div Demand(m, w) :
                            w \in Rationing(m, x.outcome)})

Stake(m, o) ==
    LET On(x) == IF x.outcome = o THEN AcceptedOf(m, x) ELSE 0 IN Total(m, On)
Inflow(m, o) ==
    LET Against(x) == IF x.outcome # o THEN AcceptedOf(m, x) ELSE 0 IN Total(m, Against)
BookRolled(b, stake, inflow) ==
    LET c == IF b.capacity = KAPPA_UNBOUNDED THEN b.capacity ELSE b.capacity + KAPPA * stake
        v == b.vested + inflow
    IN  [principal |-> b.principal + stake, capacity |-> c, vested |-> v,
         headroom |-> Headroom(c, v)]

OfferOf(m, i) == {k \in DOMAIN Offers(m) : Offers(m)[k].position = i}
PositionRolled(m, i) ==
    IF OfferOf(m, i) = {} THEN positions[m][i]
    ELSE LET x == Offers(m)[CHOOSE k \in OfferOf(m, i) : TRUE]
         IN  [positions[m][i] EXCEPT !.accepted = AcceptedOf(m, x),
                                     !.refund = x.offered - AcceptedOf(m, x)]

\* The market after _rollVintage: rolled once the vintage's block has passed.
BooksNow(m) ==
    IF ~vintage[m].due THEN venue[m].books
    ELSE [o \in DOMAIN venue[m].books |->
            BookRolled(venue[m].books[o], Stake(m, o), Inflow(m, o))]
PositionsNow(m) ==
    IF ~vintage[m].due THEN positions[m]
    ELSE [i \in DOMAIN positions[m] |-> PositionRolled(m, i)]
OffersNow(m) == IF vintage[m].due THEN <<>> ELSE Offers(m)

\* enter: after the roll the entry joins the vintage of its block.
Buffers(m, x) ==
    /\ venue' = [venue EXCEPT ![m].books = BooksNow(m)]
    /\ vintage' = [vintage EXCEPT ![m] = [offers |-> Append(OffersNow(m), x), due |-> FALSE]]
Rolls(m) ==
    /\ venue' = [venue EXCEPT ![m].books = BooksNow(m)]
    /\ vintage' = [vintage EXCEPT ![m] = [offers |-> OffersNow(m), due |-> FALSE]]

Settlement(v, p) ==
    CASE v.status = "Open" \/ p.claimed -> 0
      [] v.status = "Voided" /\ ~p.claimed -> p.accepted
      [] OTHER -> IF v.winner = p.outcome /\ ~p.claimed THEN p.accepted ELSE 0
Owed(v, p) == Settlement(v, p) + p.refund

\* The whole offer is escrowed at once; what of it is accepted the roll decides.
EnterLands(call) ==
    LET m == call.market IN
    /\ Buffers(m, [position |-> Len(positions[m]) + 1, outcome |-> call.outcome,
                   offered |-> call.amount, seen |-> call.seen])
    /\ positions' = [positions EXCEPT ![m] = Append(PositionsNow(m),
           [outcome |-> call.outcome, accepted |-> 0, refund |-> 0, claimed |-> FALSE])]
    /\ wallet' = [balance |-> wallet.balance - call.amount,
                  allowance |-> wallet.allowance - call.amount]

\* claim pays the settlement and any refused remainder.
ClaimPays(m, i) ==
    LET p == positions[m][i] IN
    /\ positions' = [positions EXCEPT ![m][i] = [p EXCEPT !.refund = 0, !.claimed = TRUE]]
    /\ wallet' = [wallet EXCEPT !.balance = @ + Owed(venue[m], p)]
    /\ UNCHANGED <<venue, vintage>>

\* withdrawRefund pays the remainder; an open market is rolled first.
HeldNow(m) == IF venue[m].status = "Open" THEN PositionsNow(m) ELSE positions[m]
RefundPays(m, i) ==
    LET p == HeldNow(m)[i] IN
    /\ positions' = [positions EXCEPT ![m] = [HeldNow(m) EXCEPT ![i] = [p EXCEPT !.refund = 0]]]
    /\ wallet' = [wallet EXCEPT !.balance = @ + p.refund]
    /\ IF venue[m].status = "Open" THEN Rolls(m) ELSE UNCHANGED <<venue, vintage>>

\* What the contracts ask of a call.
Succeeds(call) ==
    CASE call.kind = "approve" -> TRUE
      [] call.kind = "enter" ->
            /\ venue[call.market].status = "Open" /\ call.amount # 0
            /\ clock < Terms[call.market].resolutionTime
            /\ wallet.balance >= call.amount /\ wallet.allowance >= call.amount
      [] OTHER ->
            LET m == call.market IN
            IF call.kind = "claim"
            THEN venue[m].status # "Open" /\ ~positions[m][call.position].claimed
            ELSE HeldNow(m)[call.position].refund > 0

\* A transaction nobody waits for is forgotten once it is final.
Final(key, state) ==
    circle' = IF circle[key].mine THEN [circle EXCEPT ![key].state = state]
              ELSE [k \in DOMAIN circle \ {key} |-> circle[k]]

\* A transaction Circle took is executed.
Land(key) ==
    LET call == circle[key].call IN
    /\ circle[key].state = "QUEUED"
    /\ IF ~Succeeds(call) THEN UNCHANGED <<venue, vintage, positions, wallet>>
       ELSE CASE call.kind = "approve" ->
                   /\ wallet' = [wallet EXCEPT !.allowance = call.amount]
                   /\ UNCHANGED <<venue, vintage, positions>>
              [] call.kind = "enter" -> EnterLands(call)
              [] call.kind = "claim" -> ClaimPays(call.market, call.position)
              [] OTHER -> RefundPays(call.market, call.position)
    /\ Final(key, IF Succeeds(call) THEN "CONFIRMED" ELSE "FAILED")
    /\ landed' = IF circle[key].mine /\ call.kind = "enter" /\ Succeeds(call)
                 THEN [landed EXCEPT ![call.market] = @ + 1] ELSE landed
    /\ UNCHANGED <<Env, pending, job, mishaps>>

\* Circle denies or cancels what it took: a call of any kind.
Denied(key) ==
    /\ mishaps < MaxMishaps /\ mishaps' = mishaps + 1
    /\ circle[key].state = "QUEUED" /\ Final(key, "FAILED")
    /\ UNCHANGED <<Chain, Env, pending, job>>

\* Somebody else stakes, in the agent's block or in another.
OthersEnter(m, outcome, s) ==
    /\ arrivals < MaxArrivals /\ arrivals' = arrivals + 1
    /\ venue[m].status = "Open" /\ clock < Terms[m].resolutionTime
    /\ Buffers(m, [position |-> 0, outcome |-> outcome, offered |-> s, seen |-> None])
    /\ positions' = [positions EXCEPT ![m] = PositionsNow(m)]
    /\ UNCHANGED <<clock, wallet, landed, index, circle, pending, job, mishaps, runs>>

\* finalizeVintage, which anyone may call.
FinalizeVintage(m) ==
    /\ vintage[m].due
    /\ Rolls(m) /\ positions' = [positions EXCEPT ![m] = PositionsNow(m)]
    /\ UNCHANGED <<Env, wallet, landed, circle, pending, job, mishaps>>

\* The market is resolved or voided after its freeze, its last vintage rolled.
Settles(m, status, winner) ==
    /\ venue[m].status = "Open" /\ clock >= Terms[m].resolutionTime
    /\ venue' = [venue EXCEPT ![m] = [status |-> status, winner |-> winner, books |-> BooksNow(m)]]
    /\ vintage' = [vintage EXCEPT ![m] = [offers |-> OffersNow(m), due |-> FALSE]]
    /\ positions' = [positions EXCEPT ![m] = PositionsNow(m)]
    /\ UNCHANGED <<Env, wallet, landed, circle, pending, job, mishaps>>
SettlesSomehow(m) == \/ Settles(m, "Voided", None)
                     \/ \E o \in DOMAIN Terms[m].books : Settles(m, "Resolved", o)

IndexCatchesUp ==
    /\ index # [venue |-> venue, positions |-> positions]
    /\ index' = [venue |-> venue, positions |-> positions]
    /\ UNCHANGED <<Chain, clock, circle, pending, job, mishaps, arrivals, runs>>

\* A block ends: its vintages are due.  Time moves on between blocks only.
BlockEnds == vintage' = [m \in Markets |->
                 [offers |-> Offers(m), due |-> vintage[m].due \/ Offers(m) # <<>>]]
NextBlock == /\ \E m \in Markets : Offers(m) # <<>> /\ ~vintage[m].due
             /\ BlockEnds
             /\ UNCHANGED <<venue, positions, wallet, landed, Env, circle, pending, job, mishaps>>
Tick == /\ clock < MaxTime /\ clock' = clock + 1 /\ BlockEnds
        /\ UNCHANGED <<venue, positions, wallet, landed, index, circle, pending, job, mishaps,
                       arrivals, runs>>

----------------------------------------------------------------------------
(* The process *)

Idle == [pc |-> "idle"]
Mishap == mishaps < MaxMishaps /\ mishaps' = mishaps + 1
\* A map with one more entry.
With(f, k, x) == [n \in DOMAIN f \cup {k} |-> IF n = k THEN x ELSE f[n]]
\* The lists that hold each element of a finite set once.
Orders(S) == {s \in [1..Cardinality(S) -> S] : IsInjective(s)}
MarketOrder == CHOOSE order \in Orders(Markets) : TRUE

\* runCli: a run, a claim, or a decision that sends nothing.
Start(command) ==
    /\ job.pc = "idle"
    /\ IF command = "claim" THEN UNCHANGED runs
       ELSE runs < MaxRuns /\ runs' = runs + 1
    /\ job' = IF command = "claim" THEN [pc |-> "claimable"]
              ELSE [pc |-> "list", command |-> command, round |-> 1, held |-> {},
                    at |-> clock, todo |-> MarketOrder, report |-> <<>>]
    /\ landed' = [m \in Markets |-> 0]
    /\ UNCHANGED <<venue, vintage, positions, wallet, clock, index, arrivals, circle, pending,
                   mishaps>>

\* The process ends with its memory; what Circle took is still on its way.
Abandoned(txs) ==
    [k \in {x \in DOMAIN txs : txs[x].state = "QUEUED"} |-> [txs[k] EXCEPT !.mine = FALSE]]
Ends(txs) == job' = Idle /\ pending' = 0 /\ circle' = Abandoned(txs)

\* Whatever the process awaits may reject once its retries are used up.
Rejects ==
    /\ Mishap /\ job.pc # "idle"
    /\ Ends(circle)
    /\ UNCHANGED <<Chain, Env>>

\* The client's MarketBook of a market, from the index.
MarketBook(m) ==
    [status |-> index.venue[m].status, createdAt |-> 0,
     resolutionTime |-> Terms[m].resolutionTime, spec |-> Terms[m].spec,
     books |-> [o \in DOMAIN index.venue[m].books |->
                  LET b == index.venue[m].books[o] IN
                  [principal |-> b.principal, vested |-> b.vested,
                   capacity |-> IF b.capacity = KAPPA_UNBOUNDED THEN None ELSE b.capacity,
                   headroom |-> IF b.headroom = KAPPA_UNBOUNDED THEN None ELSE b.headroom]]]

\* listMarkets: the markets are read one after the other.
ReadMarket(trust) ==
    /\ job.pc = "list" /\ job.todo # <<>>
    /\ LET m == Head(job.todo) IN
       job' = [job EXCEPT !.todo = Tail(@),
                          !.report = With(@, m, DecodeMarket(MarketBook(m), trust))]
    /\ UNCHANGED <<Chain, Env, circle, pending, mishaps>>

OpenRows == {m \in DOMAIN job.report : job.report[m].status = "open"}
Feeds == {job.report[m].feedKey : m \in OpenRows}

\* research: every market read, one quote is bought per feed of an open market.
\* Each is authorized first; a feed that cannot be quoted leaves its markets
\* without an estimate, its authorization made or not.
BuyQuotes ==
    /\ job.pc = "list" /\ job.todo = <<>>
    /\ \E quote \in Quotes, failed \in SUBSET Feeds : \E authorized \in SUBSET failed :
          /\ IF failed = {} THEN UNCHANGED mishaps ELSE Mishap
          /\ pending' = pending + Cardinality(Feeds \ failed) + Cardinality(authorized)
          /\ job' = [pc |-> "decide", command |-> job.command, round |-> job.round,
                     held |-> job.held, at |-> job.at, report |-> job.report,
                     estimates |-> [m \in DOMAIN job.report |->
                         IF m \notin OpenRows \/ job.report[m].feedKey \in failed THEN None
                         ELSE EstimateFromFeed(job.report[m], quote, job.at)]]
    /\ UNCHANGED <<Chain, Env, circle>>

\* decideAll, then the entries wanted, best edge first; equals stay in the order
\* they were listed in (Array.sort).
Decisions == [m \in DOMAIN job.report \ job.held |->
                Decide(job.report[m], job.estimates[m], wallet.balance, job.at)]
Listed(m) == CHOOSE i \in DOMAIN MarketOrder : MarketOrder[i] = m
Before(a, b) ==
    \/ a.decision.edge > b.decision.edge
    \/ a.decision.edge = b.decision.edge /\ Listed(a.market) < Listed(b.market)
Wanted(decisions) ==
    LET entered == {m \in DOMAIN decisions : decisions[m].action = "enter"}
        entries == {[market |-> m, decision |-> decisions[m],
                     books |-> job.report[m].books] : m \in entered}
    IN  {s \in Orders(entries) : \A i, j \in DOMAIN s : i < j => Before(s[i], s[j])}

DecideAll ==
    /\ job.pc = "decide"
    /\ IF job.command = "decide" THEN job' = [pc |-> "settle", command |-> "decide"]
       ELSE \E wanted \in Wanted(Decisions) :
              job' = [pc |-> "enter", command |-> "run", round |-> job.round,
                      held |-> job.held, wanted |-> wanted]
    /\ UNCHANGED <<Chain, Env, circle, pending, mishaps>>

\* Mutant: a market is held by its receipt's position, which a live entry never
\* names.
HeldByPosition(held, m) == held
\* A market entered is held from then on, whatever became of the calls.
Held(held, m) == held \cup {m}

\* send: one idempotency key for the call, kept by every retry of it.
FreshKey == CHOOSE k \in 1..(Cardinality(DOMAIN circle) + 1) : k \notin DOMAIN circle
SendNext(then, calls) ==
    job' = [pc |-> "post", calls |-> calls, key |-> FreshKey, attempt |-> 1, then |-> then]

\* One wanted entry: skipped when the balance no longer covers it.
NextEntry ==
    /\ job.pc = "enter" /\ job.wanted # <<>>
    /\ LET w == Head(job.wanted) IN
       IF wallet.balance < w.decision.stake
       THEN job' = [job EXCEPT !.wanted = Tail(@)]
       ELSE SendNext([command |-> "run", round |-> job.round, held |-> job.held,
                      wanted |-> Tail(job.wanted), market |-> w.market],
                     <<ApproveCall(w.decision), EntryCall(w.market, w.decision, w.books)>>)
    /\ UNCHANGED <<Chain, Env, circle, pending, mishaps>>

\* One attempt at submitting a call: it may be refused, be lost before or after
\* Circle took it, or be answered.
Submitted(key, call) ==
    IF key \in DOMAIN circle THEN circle
    ELSE With(circle, key, [call |-> call, state |-> "QUEUED", mine |-> TRUE])

Post(taken, answer) ==
    /\ job.pc = "post"
    /\ answer = "ok" => taken
    /\ answer = "refused" => ~taken
    /\ LET txs == IF taken THEN Submitted(job.key, Head(job.calls)) ELSE circle IN
       CASE answer = "ok" ->
              /\ job' = [job EXCEPT !.pc = "poll"] /\ circle' = txs
              /\ UNCHANGED <<mishaps, pending>>
         [] answer = "retryable" /\ job.attempt < MAX_ATTEMPTS ->
              /\ Mishap /\ job' = [job EXCEPT !.attempt = @ + 1] /\ circle' = txs
              /\ UNCHANGED pending
         [] OTHER -> Mishap /\ Ends(txs)
    /\ UNCHANGED <<Chain, Env>>

\* What follows a call that was confirmed or failed: the next step of the entry
\* unless this one failed, the next entry, the next claim (#sendAll).
AfterCall(failed) ==
    IF Len(job.calls) > 1 /\ ~failed THEN SendNext(job.then, Tail(job.calls))
    ELSE LET then == job.then IN
         job' = IF then.command = "run"
                THEN [pc |-> "enter", command |-> "run", round |-> then.round,
                      held |-> Held(then.held, then.market), wanted |-> then.wanted]
                ELSE [pc |-> "claims", claims |-> then.claims]

Terminal(key) == circle[key].state \in {"CONFIRMED", "FAILED"}
Forget(key) == [k \in DOMAIN circle \ {key} |-> circle[k]]

\* #await: until the transaction is final, or the attempts are used up.
Poll ==
    /\ job.pc = "poll"
    /\ IF Terminal(job.key)
       THEN /\ AfterCall(circle[job.key].state = "FAILED")
            /\ circle' = Forget(job.key) /\ UNCHANGED <<pending, mishaps>>
       ELSE Mishap /\ Ends(circle)
    /\ UNCHANGED <<Chain, Env>>

\* The end of a round: the next one reads everything again.
NextRound ==
    /\ job.pc = "enter" /\ job.wanted = <<>>
    /\ job' = IF job.round < ROUNDS
              THEN [pc |-> "list", command |-> "run", round |-> job.round + 1,
                    held |-> job.held, at |-> clock, todo |-> MarketOrder, report |-> <<>>]
              ELSE [pc |-> "settle", command |-> "run"]
    /\ UNCHANGED <<Chain, Env, circle, pending, mishaps>>

\* settle: one payment for everything authorized, cleared once it returned.
Settle ==
    /\ job.pc = "settle" /\ pending' = 0
    /\ job' = IF job.command = "run" THEN [pc |-> "claimable"] ELSE Idle
    /\ UNCHANGED <<Chain, Env, circle, mishaps>>

\* The client's claimable items of the wallet, from the index.
ClaimableItems ==
    LET held == UNION {{[market |-> m, position |-> i] : i \in DOMAIN index.positions[m]} :
                          m \in Markets}
        record(x) == index.positions[x.market][x.position]
        call(x) == IF Settlement(index.venue[x.market], record(x)) > 0
                   THEN "claim" ELSE "withdrawRefund"
    IN  {[market |-> x.market, position |-> x.position, call |-> call(x)] :
            x \in {y \in held : Owed(index.venue[y.market], record(y)) > 0}}

Claimable ==
    /\ job.pc = "claimable"
    /\ \E claims \in Orders(DecodeClaimable(ClaimableItems)) :
          job' = [pc |-> "claims", claims |-> claims]
    /\ UNCHANGED <<Chain, Env, circle, pending, mishaps>>

\* claimAll: one transaction per item; one that fails does not stop the rest.
NextClaim ==
    /\ job.pc = "claims"
    /\ IF job.claims = <<>> THEN job' = Idle
       ELSE LET item == Head(job.claims) IN
            SendNext([command |-> "claim", claims |-> Tail(job.claims)],
                     <<[kind |-> item.call, market |-> item.market, position |-> item.position]>>)
    /\ UNCHANGED <<Chain, Env, circle, pending, mishaps>>

----------------------------------------------------------------------------
Init ==
    /\ clock = 0 /\ mishaps = 0 /\ arrivals = 0 /\ runs = 0 /\ pending = 0
    /\ venue = [m \in Markets |-> [status |-> "Open", winner |-> None, books |-> Terms[m].books]]
    /\ vintage = [m \in Markets |-> [offers |-> <<>>, due |-> FALSE]]
    /\ positions = [m \in Markets |-> <<>>]
    /\ wallet = [balance |-> BANKROLL, allowance |-> 0]
    /\ index = [venue |-> venue, positions |-> positions]
    /\ circle = <<>>
    /\ job = Idle /\ landed = [m \in Markets |-> 0]

Reads == (\E trust \in TrustReadings : ReadMarket(trust)) \/ DecideAll
Acts ==
    \/ BuyQuotes \/ NextEntry
    \/ \E taken \in BOOLEAN, answer \in {"ok", "retryable", "refused"} : Post(taken, answer)
    \/ Poll \/ NextRound \/ Settle \/ Claimable \/ NextClaim

Next ==
    \/ Tick \/ NextBlock \/ IndexCatchesUp \/ Reads \/ Acts \/ Rejects
    \/ \E command \in {"run", "claim", "decide"} : Start(command)
    \/ \E key \in DOMAIN circle : Land(key) \/ Denied(key)
    \/ \E m \in Markets :
          \/ \E o \in DOMAIN Terms[m].books, s \in OtherStakes : OthersEnter(m, o, s)
          \/ FinalizeVintage(m) \/ SettlesSomehow(m)

\* Circle executes what it took, the index follows, the process takes its
\* steps (what it awaits returns or rejects), and the operator does not for
\* ever leave out the claim.
Fairness ==
    /\ []<>(~ job.pc \in {"list", "decide"}) /\ WF_vars(Acts)
    /\ SF_vars(Start("claim")) /\ WF_vars(IndexCatchesUp)
    /\ \A key \in 1..(MaxMishaps + 2) : WF_vars(key \in DOMAIN circle /\ Land(key))

Spec == Init /\ [][Next]_vars /\ Fairness

----------------------------------------------------------------------------
(* Properties *)

\* One run enters a market at most once: not for a retried submission, not for
\* an entry that failed or was rationed, not in a later round (loop.ts, held;
\* live.ts, one idempotency key per send).
EnteredOncePerRun == \A m \in Markets : landed[m] <= 1

\* Another entry of the vintage leans on a bounded book this one leans on.
Competes(m, k) ==
    \E j \in DOMAIN Offers(m) \ {k} : \E w \in DOMAIN venue[m].books :
        /\ venue[m].books[w].headroom # KAPPA_UNBOUNDED
        /\ w \notin {Offers(m)[k].outcome, Offers(m)[j].outcome}

\* What decide.ts sized to the tightest opposing book is accepted whole: a remainder
\* becomes the agent's only where the books had moved between its read and the block it
\* entered in, or another entry of that block competed for them (quote.ts says as much
\* of a quote: entries of one vintage are rationed together).
RationedOnlyByMovement ==
    [][\A m \in Markets : \A i \in DOMAIN positions[m] :
         positions'[m][i].refund > positions[m][i].refund
         => \E k \in OfferOf(m, i) : \/ venue[m].books # Offers(m)[k].seen
                                    \/ Competes(m, k)]_vars

\* Whatever a settled market owes the agent is claimed in the end: for entries
\* whose confirmation was never seen and entries of earlier runs as well
\* (claimAll asks the index, not the loop's memory).
StakesComeBack ==
    \A m \in Markets :
        venue[m].status # "Open"
            ~> \A i \in DOMAIN positions[m] : Owed(venue[m], positions[m][i]) = 0
=============================================================================
