--------------------------- MODULE AgentRegistries ---------------------------
(***************************************************************************)
(* The three ERC-8004 registries, the index that follows their logs, and   *)
(* the wallets of a market looked up in it.  The contracts are not in this *)
(* repository: they are modelled from what the handlers and the readers    *)
(* say of them.  register gives the ids out in turn and emits the mint,    *)
(* Registered and the signing wallet in an order of its own; an ownership  *)
(* move clears that wallet with a zero-length value, before or after the   *)
(* Transfer, and a burn may or may not; a client rates an agent it does    *)
(* not hold, 1, 2, ... per pair, and revokes an entry once; a validator    *)
(* may overwrite its answer.  Each data source of the index starts at a    *)
(* block of its own.  AgentBook, on another chain, emits nothing the       *)
(* venue's index reads.                                                    *)
(***************************************************************************)
EXTENDS ReputationIndex

CONSTANTS
  Agents, Users, Raters, Validators, Hashes,
  Stakers,           \* wallets that come to the venue, or prove their human
  Values,            \* feedback values: value and decimals
  Responses,         \* validation responses
  Writes,            \* metadata a holder writes: key and raw value
  StartBlocks,       \* what startBlock a manifest may give each source
  Markets,           \* who holds what of which market: outcomes and holdings
  PPM,
  MaxOps, MaxLogs, MaxBlock      \* bounds

VARIABLES
  tokens,            \* the identities minted
  written,           \* what has been set under which key, ever
  rated,             \* the feedback of each agent by each client
  requests,          \* the validation requests by hash
  logs,              \* logs not handled yet
  block,             \* the chain's block
  starts,            \* the block each data source starts at
  venue,             \* the Agent rows of the venue's index, by wallet
  ops,               \* transactions so far
  ix                 \* the index

contractVars == <<tokens, written, rated, requests>>
chainVars == <<contractVars, venue, block, ops>>
vars == <<chainVars, logs, starts, ix>>

Trust == INSTANCE TrustReads

-----------------------------------------------------------------------------
(* The contracts.                                                          *)

Wallets == Users \cup Raters
Live(a) == a \in DOMAIN tokens /\ tokens[a].owner # Zero

\* A transaction and the logs it emits.
Emits(es) ==
  /\ ops < MaxOps
  /\ Len(logs) + Len(es) <= MaxLogs
  /\ ops' = ops + 1
  /\ logs' = logs \o [k \in DOMAIN es |-> [es[k] EXCEPT !.at = block]]
  /\ UNCHANGED <<venue, block, starts, ix>>

Signing(a, bytes, length) ==
  [kind |-> "MetadataSet", at |-> 0, agent |-> a, key |-> <<"agentWallet">>,
   raw |-> [length |-> length, bytes |-> bytes]]
Moved(a, from, to) == [kind |-> "Transfer", at |-> 0, agent |-> a, from |-> from, to |-> to]

Register(a, u, uri) ==
  LET minted == <<Moved(a, Zero, u),
                  [kind |-> "Registered", at |-> 0, agent |-> a, owner |-> u, uri |-> uri],
                  Signing(a, u, 20)>>
  IN  /\ a \notin DOMAIN tokens /\ \A b \in Agents : b < a => b \in DOMAIN tokens
      /\ tokens' = (a :> [owner |-> u, approved |-> Zero, wallet |-> u, uri |-> uri]) @@ tokens
      /\ \E order \in {<<1, 2, 3>>, <<3, 2, 1>>} :
           Emits([k \in 1..3 |-> minted[order[k]]])
      /\ UNCHANGED <<written, rated, requests>>

TransferAgent(a, u) ==
  LET move == Moved(a, tokens[a].owner, u)
      cleared == Signing(a, "", 0)
  IN  /\ Live(a) /\ u # tokens[a].owner
      /\ \E clears \in (IF u = Zero THEN BOOLEAN ELSE {TRUE}), es \in {<<move, cleared>>, <<cleared, move>>} :
           /\ Emits(IF clears THEN es ELSE <<move>>)
           /\ tokens' = [tokens EXCEPT ![a] = [@ EXCEPT !.owner = u, !.approved = Zero,
                                                 !.wallet = IF clears THEN None ELSE @]]
      /\ UNCHANGED <<written, rated, requests>>

ApproveAgent(a, u) ==
  /\ Live(a)
  /\ tokens' = [tokens EXCEPT ![a].approved = u]
  /\ Emits(<<[kind |-> "Approval", at |-> 0, agent |-> a, approved |-> u]>>)
  /\ UNCHANGED <<written, rated, requests>>

\* setAgentWallet and unsetAgentWallet.
SignAs(a, u) ==
  /\ Live(a)
  /\ tokens' = [tokens EXCEPT ![a].wallet = u]
  /\ Emits(<<IF u = None THEN Signing(a, "", 0) ELSE Signing(a, u, 20)>>)
  /\ UNCHANGED <<written, rated, requests>>

SetURI(a, uri) ==
  /\ Live(a)
  /\ tokens' = [tokens EXCEPT ![a].uri = uri]
  /\ Emits(<<[kind |-> "URIUpdated", at |-> 0, agent |-> a, uri |-> uri]>>)
  /\ UNCHANGED <<written, rated, requests>>

SetMetadata(a, w) ==
  /\ Live(a)
  /\ written' = written \cup {[agent |-> a, key |-> w.key, bytes |-> w.bytes]}
  /\ Emits(<<[kind |-> "MetadataSet", at |-> 0, agent |-> a, key |-> w.key,
              raw |-> [length |-> 1, bytes |-> w.bytes]]>>)
  /\ UNCHANGED <<tokens, rated, requests>>

Entries(a, c) == IF <<a, c>> \in DOMAIN rated THEN rated[<<a, c>>] ELSE <<>>

GiveFeedback(a, c, v) ==
  LET entries == Entries(a, c)
  IN  /\ Live(a) /\ c # tokens[a].owner
      /\ rated' = (<<a, c>> :> Append(entries, [value |-> v, at |-> block, revoked |-> FALSE])) @@ rated
      /\ Emits(<<[kind |-> "NewFeedback", at |-> 0, agent |-> a, client |-> c,
                  index |-> Len(entries) + 1, value |-> v, tag1 |-> "conduct", tag2 |-> ""]>>)
      /\ UNCHANGED <<tokens, written, requests>>

RevokeFeedback(a, c, i) ==
  /\ i \in DOMAIN Entries(a, c) /\ ~rated[<<a, c>>][i].revoked
  /\ rated' = [rated EXCEPT ![<<a, c>>][i].revoked = TRUE]
  /\ Emits(<<[kind |-> "FeedbackRevoked", at |-> 0, agent |-> a, client |-> c, index |-> i]>>)
  /\ UNCHANGED <<tokens, written, requests>>

AppendResponse(a, c, i) ==
  /\ i \in DOMAIN Entries(a, c)
  /\ Emits(<<[kind |-> "ResponseAppended", at |-> 0, agent |-> a, client |-> c, index |-> i,
              responder |-> tokens[a].owner]>>)
  /\ UNCHANGED <<tokens, written, rated, requests>>

RequestValidation(a, v, h) ==
  /\ Live(a) /\ h \notin DOMAIN requests
  /\ requests' = (h :> [agent |-> a, validator |-> v, at |-> block, response |-> None]) @@ requests
  /\ Emits(<<[kind |-> "ValidationRequest", at |-> 0, agent |-> a, validator |-> v, hash |-> h]>>)
  /\ UNCHANGED <<tokens, written, rated>>

RespondValidation(h, r) ==
  /\ h \in DOMAIN requests
  /\ requests' = [requests EXCEPT ![h].response = r]
  /\ Emits(<<[kind |-> "ValidationResponse", at |-> 0, agent |-> requests[h].agent,
              validator |-> requests[h].validator, hash |-> h, response |-> r]>>)
  /\ UNCHANGED <<tokens, written, rated>>

\* getOrCreateAgent of the venue's index: the row of a wallet that stakes.
VenueAgent == [erc8004Id |-> None, agentBookVerified |-> FALSE, totalAccepted |-> 0]
EnterVenue(u) ==
  /\ ops < MaxOps /\ ops' = ops + 1
  /\ venue' = (u :> VenueAgent) @@ venue
  /\ UNCHANGED <<contractVars, block, logs, starts, ix>>

NextBlock ==
  /\ block < MaxBlock
  /\ block' = block + 1
  /\ UNCHANGED <<contractVars, venue, ops, logs, starts, ix>>

-----------------------------------------------------------------------------
(* The index: what is pending of the sources that have started, in order,  *)
(* before anybody reads it again.                                          *)

SourceOf(e) ==
  CASE e.kind \in {"NewFeedback", "FeedbackRevoked", "ResponseAppended"} -> "reputation"
    [] e.kind \in {"ValidationRequest", "ValidationResponse"} -> "validation"
    [] OTHER -> "identity"

HandleStarted(store, e) == IF e.at >= starts[SourceOf(e)] THEN Handle(store, e) ELSE store

HandleLogs ==
  /\ logs # <<>>
  /\ ix' = FoldLeft(HandleStarted, ix, logs)
  /\ logs' = <<>>
  /\ UNCHANGED <<chainVars, starts>>

Init ==
  /\ tokens = <<>> /\ written = {} /\ rated = <<>> /\ requests = <<>>
  /\ logs = <<>> /\ block = 1 /\ ops = 0
  /\ venue = <<>>
  /\ starts \in StartBlocks
  /\ ix = EmptyStore

Next ==
  \/ \E a \in Agents, u \in Users : Register(a, u, "card")
  \/ \E a \in Agents, u \in Users \cup {Zero} : TransferAgent(a, u) \/ ApproveAgent(a, u)
  \/ \E a \in Agents, u \in Users \cup {None} : SignAs(a, u)
  \/ \E a \in Agents : SetURI(a, "newer card")
  \/ \E a \in Agents, w \in Writes : SetMetadata(a, w)
  \/ \E a \in Agents, c \in Raters, v \in Values : GiveFeedback(a, c, v)
  \/ \E a \in Agents, c \in Raters, i \in 1..MaxOps : RevokeFeedback(a, c, i) \/ AppendResponse(a, c, i)
  \/ \E a \in Agents, v \in Validators, h \in Hashes : RequestValidation(a, v, h)
  \/ \E h \in Hashes, r \in Responses : RespondValidation(h, r)
  \/ \E u \in Stakers : EnterVenue(u)
  \/ NextBlock
  \/ HandleLogs

Spec == Init /\ [][Next]_vars

-----------------------------------------------------------------------------
(* Properties, of an index that has handled every log.                     *)

CaughtUp == logs = <<>>
FromTheStart(source) == starts[source] = 1

AllFeedback ==
  UNION {{[agent |-> p[1], client |-> p[2], index |-> i, entry |-> rated[p][i]] :
            i \in DOMAIN rated[p]} : p \in DOMAIN rated}
IndexedFeedback == {f \in AllFeedback : f.entry.at >= starts.reputation}
IndexedRequests == {h \in DOMAIN requests : requests[h].at >= starts.validation}

IsMean(mean, sum, count) ==
  IF count = 0 THEN mean = 0
  ELSE mean * count <= PRECISION * sum /\ PRECISION * sum < (mean + 1) * count

\* What r says of the feedback fs.
Aggregates(r, fs) ==
  LET active == {f \in fs : ~f.entry.revoked}
      sum == MapThenSumSet(LAMBDA f : ScaleValue(f.entry.value), active)
  IN  /\ r.feedbackCount = Cardinality(fs)
      /\ r.activeFeedbackCount = Cardinality(active)
      /\ r.revokedFeedbackCount = Cardinality(fs \ active)
      /\ r.scoreSum = sum
      /\ IsMean(r.averageScore, sum, Cardinality(active))

\* What r says of the requests hs: the last response to each counts, once.
Validates(count, sum, mean, hs) ==
  LET answered == {h \in hs : requests[h].response # None}
      total == MapThenSumSet(LAMBDA h : requests[h].response, answered)
  IN  count = Cardinality(answered) /\ sum = total /\ IsMean(mean, total, count)

OverDays(field) == MapThenSumSet(LAMBDA d : ix.days[d][field], DOMAIN ix.days)

\* handleNewFeedback, handleFeedbackRevoked, handleValidationResponse: kept up in
\* O(1) per log, the figures of every agent, client, validator and of the registry
\* are those of a recount of what counts now, over the whole history since the
\* source started; overwritten answers and revoked scores included, and the days
\* add up to the totals.
AggregatesAreARecount ==
  CaughtUp /\ ix.registry # None =>
    LET of(field, x) == {f \in IndexedFeedback : f[field] = x}
        asked(field, x) == {h \in IndexedRequests : requests[h][field] = x}
    IN  /\ Aggregates(ix.registry, IndexedFeedback)
        /\ \A a \in DOMAIN ix.agents :
             LET r == ix.agents[a] IN
             /\ Aggregates(r, of("agent", a))
             /\ r.validationCount = Cardinality(asked("agent", a))
             /\ Validates(r.validationResponseCount, r.validationResponseSum,
                          r.averageValidationResponse, asked("agent", a))
        /\ \A c \in DOMAIN ix.clients :
             LET r == ix.clients[c] IN
             /\ r.feedbackCount = Cardinality(of("client", c))
             /\ r.activeFeedbackCount = Cardinality({f \in of("client", c) : ~f.entry.revoked})
             /\ FromTheStart("reputation") =>
                  r.agentsRated = Cardinality({f.agent : f \in of("client", c)})
        /\ \A v \in DOMAIN ix.validators :
             LET r == ix.validators[v] IN
             Validates(r.responseCount, r.responseSum, r.averageResponse, asked("validator", v))
        /\ Validates(ix.registry.validationResponseCount, ix.registry.validationResponseSum,
                     ix.registry.averageValidationResponse, IndexedRequests)
        /\ OverDays("feedbackGiven") = ix.registry.feedbackCount
        /\ OverDays("feedbackRevoked") = ix.registry.revokedFeedbackCount
        /\ OverDays("validationsRequested") = ix.registry.validationRequestCount
        /\ OverDays("validationsResponded") = ix.registry.validationResponseCount

\* The capabilities an agent has ever advertised, under either convention.
Advertised(a) ==
  UNION {CASE w.key = <<"capabilities">> -> {TRIM[w.bytes[k]] : k \in DOMAIN w.bytes}
           [] w.key[1] = "capability" -> {TRIM[w.key[2]]}
           [] OTHER -> {} : w \in {x \in written : x.agent = a}} \ {""}

\* identity.ts: whatever the order of the logs of one transaction, the index names
\* the holder, the approved operator, the signing wallet and the card the contract
\* has now, counts the live identities, and counts each capability once per agent.
IdentityFollowsRegistry ==
  CaughtUp /\ FromTheStart("identity") /\ ix.registry # None =>
    /\ DOMAIN ix.agents = DOMAIN tokens
    /\ \A a \in DOMAIN tokens :
         LET r == ix.agents[a] IN
         /\ r.owner = tokens[a].owner
         /\ r.burned = (tokens[a].owner = Zero)
         /\ r.approved = IF tokens[a].approved = Zero THEN None ELSE tokens[a].approved
         /\ r.agentWallet = tokens[a].wallet
         /\ r.metadataURI = tokens[a].uri
    /\ ix.registry.agentCount = Cardinality(DOMAIN tokens)
    /\ ix.registry.liveAgentCount = Cardinality({a \in DOMAIN tokens : Live(a)})
    /\ OverDays("agentsRegistered") = ix.registry.agentCount
    /\ \A name \in DOMAIN ix.capabilityStats :
         ix.capabilityStats[name] = Cardinality({a \in DOMAIN tokens : name \in Advertised(a)})

-----------------------------------------------------------------------------
(* The wallets of a market.                                                *)

Answers(w) == {a \in DOMAIN tokens : w \in {tokens[a].owner, tokens[a].wallet}}
Score(a) ==
  LET active == {f \in AllFeedback : f.agent = a /\ ~f.entry.revoked}
  IN  [count |-> Cardinality(active),
       sum |-> MapThenSumSet(LAMBDA f : ScaleValue(f.entry.value), active)]

\* The share of the stake of all counterparties that the wallets ws hold.
StakeShare(parties, ws) ==
  LET stake(us) == MapThenSumSet(LAMBDA w : parties[w].stake, us)
  IN  (stake(ws) * PPM) \div stake(DOMAIN parties)

\* counterpartyTrust and vpm_agent_reputation: the record a wallet is shown with is
\* one it answers to now, as holder or as signing wallet, with the score that record
\* has now; a wallet that answers to one is never shown as unknown, nor its stake
\* left out of the registered share; and the money of a side is all accounted for,
\* on the client's answer and on the tools' reading of it.  Whoever still signs for
\* a burned identity answers to it here, and its stake counts as registered: the
\* trust read does not select burned, against domain.ts, which calls a burned identity
\* not a live one.  Only the lookup of one wallet tells the two apart.
ReputationIsTheHolders ==
  CaughtUp /\ (\A s \in DOMAIN starts : FromTheStart(s)) => \A m \in Markets :
    LET trust == Trust!CounterpartyTrust(ix, TRUE, m.outcomes, m.holdings)
        stake(hs) == MapThenSumSet(LAMBDA h : h.accepted, hs)
        tools == Trust!NormalizeTrust(trust)
    IN  /\ \A o \in m.outcomes :
             LET side == trust.sides[o] IN
             /\ side.opposingPrincipal = stake({h \in m.holdings : h.outcome # o})
             /\ \A w \in DOMAIN side.wallets :
                  LET shown == side.wallets[w] IN
                  IF Answers(w) = {} THEN shown.agentId = None /\ shown.meanScore = None
                  ELSE /\ shown.agentId \in Answers(w)
                       /\ shown.feedbackCount = Score(shown.agentId).count
                       /\ (shown.meanScore = None) = (shown.feedbackCount = 0)
                       /\ shown.meanScore # None =>
                            IsMean(shown.meanScore, Score(shown.agentId).sum, shown.feedbackCount)
             /\ side.unratedPrincipal
                  + stake({h \in m.holdings : h.outcome # o /\ side.wallets[h.owner].meanScore # None})
                  = side.opposingPrincipal
        /\ DOMAIN tools.counterparties = {h.owner : h \in m.holdings}
        /\ tools.registeredShare =
             StakeShare(tools.counterparties,
                        {w \in DOMAIN tools.counterparties : Answers(w) # {}})
        /\ \A w \in DOMAIN tools.counterparties :
             LET party == tools.counterparties[w]
                 record == Trust!Lookup(ix, venue, w, "ok", "ok")
                 status == Trust!IdentityStatus(record)
             IN  /\ Cardinality(m.outcomes) = 2 =>
                      party.stake = stake({h \in m.holdings : h.owner = w /\ h.outcome = party.outcome})
                 /\ (party.agentId # None) = (Answers(w) # {})
                 /\ status = "registered" => Live(record.agentId) /\ record.agentId \in Answers(w)
                 /\ status = "burned" => ~Live(record.agentId)
                 /\ (\E a \in DOMAIN tokens : tokens[a].owner = w) => status = "registered"

=============================================================================
