--------------------------- MODULE ReputationIndex ---------------------------
(***************************************************************************)
(* The handlers of subgraph-erc8004-arc/src: each takes the store and one  *)
(* log of a registry to the store after it.  A log is a record e with its  *)
(* kind, its block e.at and its parameters.  Block time is the block       *)
(* number and a day DAY blocks; hashes, URIs of documents and entity ids   *)
(* are left out, an entity being named by what its id is made of.  null is *)
(* None.  A BigDecimal score is an integer in units of the smallest        *)
(* decimal a client may use, an average the floor of PRECISION times it.   *)
(***************************************************************************)
EXTENDS Integers, FiniteSetsExt, SequencesExt, TLC

CONSTANTS
  None,
  Zero,                \* ZERO_ADDRESS
  MAX_VALUE_DECIMALS,
  DAY,                 \* SECONDS_PER_DAY, in blocks
  PRECISION,           \* the digits an average keeps
  TRIM,                \* String.trim on the texts in use
  LOWER                \* trim().toLowerCase() on the texts in use

-----------------------------------------------------------------------------
(* helpers.ts                                                              *)

EmptyStore ==
  [registry |-> None, agents |-> <<>>, clients |-> <<>>, validators |-> <<>>, days |-> <<>>,
   feedback |-> <<>>, responses |-> <<>>, validations |-> <<>>, transfers |-> <<>>,
   metadata |-> <<>>, endpoints |-> <<>>, capabilities |-> <<>>, capabilityStats |-> <<>>]

NewRegistry ==
  [contracts |-> {}, agentCount |-> 0, liveAgentCount |-> 0, clientCount |-> 0,
   validatorCount |-> 0, feedbackCount |-> 0, activeFeedbackCount |-> 0,
   revokedFeedbackCount |-> 0, feedbackResponseCount |-> 0, scoreSum |-> 0, averageScore |-> 0,
   validationRequestCount |-> 0, validationResponseCount |-> 0, validationResponseSum |-> 0,
   averageValidationResponse |-> 0, lastUpdatedAt |-> 0]

\* getOrCreateRegistry: which contract a log came from is learnt from the log.
OnRegistry(ix, source, e) ==
  [ix EXCEPT !.registry =
     [(IF @ = None THEN NewRegistry ELSE @) EXCEPT !.contracts = @ \cup {source},
                                                   !.lastUpdatedAt = e.at]]

NewAgent(e) ==
  [owner |-> Zero, approved |-> None, agentWallet |-> None, name |-> None, description |-> None,
   metadataURI |-> "", registeredAt |-> e.at, updatedAt |-> e.at, burned |-> FALSE,
   feedbackCount |-> 0, activeFeedbackCount |-> 0, revokedFeedbackCount |-> 0, scoreSum |-> 0,
   averageScore |-> 0, lastFeedbackAt |-> None, validationCount |-> 0,
   validationResponseCount |-> 0, validationResponseSum |-> 0, averageValidationResponse |-> 0]

\* getOrCreateAgent: whichever log names an agent first creates it, and counts it.
OnAgent(ix, a, e) ==
  IF a \in DOMAIN ix.agents THEN ix
  ELSE [ix EXCEPT !.agents = (a :> NewAgent(e)) @@ @,
                  !.registry.agentCount = @ + 1, !.registry.liveAgentCount = @ + 1]

OnClient(ix, c, e) ==
  IF c \in DOMAIN ix.clients THEN [ix EXCEPT !.clients[c].lastSeenAt = e.at]
  ELSE [ix EXCEPT !.clients =
          (c :> [feedbackCount |-> 0, activeFeedbackCount |-> 0, revokedFeedbackCount |-> 0,
                 agentsRated |-> 0, firstSeenAt |-> e.at, lastSeenAt |-> e.at]) @@ @,
                  !.registry.clientCount = @ + 1]

OnValidator(ix, v, e) ==
  IF v \in DOMAIN ix.validators THEN [ix EXCEPT !.validators[v].lastSeenAt = e.at]
  ELSE [ix EXCEPT !.validators =
          (v :> [requestCount |-> 0, responseCount |-> 0, responseSum |-> 0,
                 averageResponse |-> 0, firstSeenAt |-> e.at, lastSeenAt |-> e.at]) @@ @,
                  !.registry.validatorCount = @ + 1]

NewDay == [agentsRegistered |-> 0, feedbackGiven |-> 0, feedbackRevoked |-> 0,
           validationsRequested |-> 0, validationsResponded |-> 0, totalAgents |-> 0]

\* getOrCreateDayData, and one more of what the handler counts.
CountOnDay(ix, e, field) ==
  LET d == e.at \div DAY
      day == IF d \in DOMAIN ix.days THEN ix.days[d] ELSE NewDay
  IN  [ix EXCEPT !.days = (d :> [day EXCEPT ![field] = @ + 1,
                                            !.totalAgents = ix.registry.agentCount]) @@ @]

\* scaleValue: 87 with no decimals and 8700 with two are one score.
ScaleValue(v) ==
  LET decimals == Min({v.decimals, MAX_VALUE_DECIMALS})
  IN  v.value * 10 ^ (MAX_VALUE_DECIMALS - decimals)

SafeAverage(sum, count) == IF count = 0 THEN 0 ELSE (PRECISION * sum) \div count

-----------------------------------------------------------------------------
(* identity.ts                                                             *)

HandleRegistered(ix0, e) ==
  LET ix == OnAgent(OnRegistry(ix0, "identity", e), e.agent, e)
  IN  CountOnDay([ix EXCEPT !.agents[e.agent] =
        [@ EXCEPT !.owner = e.owner, !.metadataURI = e.uri, !.registeredAt = e.at,
                  !.updatedAt = e.at]], e, "agentsRegistered")

HandleURIUpdated(ix0, e) ==
  LET ix == OnAgent(OnRegistry(ix0, "identity", e), e.agent, e)
  IN  [ix EXCEPT !.agents[e.agent] = [@ EXCEPT !.metadataURI = e.uri, !.updatedAt = e.at]]

\* A mint, a sale or a burn; the approval of the token does not outlive it.
HandleTransfer(ix0, e) ==
  LET ix == OnAgent(OnRegistry(ix0, "identity", e), e.agent, e)
      burns == e.to = Zero /\ ~ix.agents[e.agent].burned
  IN  [ix EXCEPT !.agents[e.agent] = [@ EXCEPT !.owner = e.to, !.updatedAt = e.at,
                                               !.approved = None, !.burned = @ \/ burns],
                 !.registry.liveAgentCount = @ - (IF burns THEN 1 ELSE 0),
                 !.transfers = Append(@, [agent |-> e.agent, from |-> e.from, to |-> e.to])]

HandleApproval(ix0, e) ==
  LET ix == OnAgent(OnRegistry(ix0, "identity", e), e.agent, e)
      approved == IF e.approved = Zero THEN None ELSE e.approved
  IN  [ix EXCEPT !.agents[e.agent] = [@ EXCEPT !.approved = approved, !.updatedAt = e.at]]

UpsertEndpoint(ix, a, protocol, uri) ==
  IF LOWER[protocol] = "" THEN ix
  ELSE [ix EXCEPT !.endpoints = (<<a, LOWER[protocol]>> :> uri) @@ @]

\* CapabilityStat counts agents, not writes.
UpsertCapability(ix, a, rawName, value) ==
  LET name == TRIM[rawName]
      first == <<a, name>> \notin DOMAIN ix.capabilities
      before == IF name \in DOMAIN ix.capabilityStats THEN ix.capabilityStats[name] ELSE 0
  IN  IF name = "" THEN ix
      ELSE [ix EXCEPT !.capabilities = (<<a, name>> :> value) @@ @,
                      !.capabilityStats = IF first THEN (name :> before + 1) @@ @ ELSE @]

\* capabilities = "a,b": one after the other.
UpsertCapabilities(ix, a, names) ==
  FoldLeft(LAMBDA acc, name : UpsertCapability(acc, a, name, ""), ix, names)

\* Mutant of SignsAs: a cleared wallet is a value of another length.
SignsAsLast(wallet, raw) == IF raw.length = 20 THEN raw.bytes ELSE wallet
\* The wallet an agent signs as: 20 bytes set it, none clear it, and any other
\* length is not this registry's, so the last good value stands.
SignsAs(wallet, raw) ==
  CASE raw.length = 20 -> raw.bytes
    [] raw.length = 0 -> None
    [] OTHER -> wallet

\* A key is stored verbatim, and a documented subset projected onto the agent.
HandleMetadataSet(ix0, e) ==
  LET ix1 == OnAgent(OnRegistry(ix0, "identity", e), e.agent, e)
      ix == [ix1 EXCEPT !.metadata = (<<e.agent, e.key>> :> e.raw) @@ @,
                        !.agents[e.agent].updatedAt = e.at]
      a == e.agent
  IN  CASE e.key[1] = "agentWallet" -> [ix EXCEPT !.agents[a].agentWallet = SignsAs(@, e.raw)]
        [] e.key[1] = "name" -> [ix EXCEPT !.agents[a].name = e.raw.bytes]
        [] e.key[1] = "description" -> [ix EXCEPT !.agents[a].description = e.raw.bytes]
        [] e.key[1] = "capabilities" /\ Len(e.key) = 1 -> UpsertCapabilities(ix, a, e.raw.bytes)
        [] e.key[1] \in {"endpoints", "endpoint"} -> UpsertEndpoint(ix, a, e.key[2], e.raw.bytes)
        [] e.key[1] \in {"capabilities", "capability"} ->
             UpsertCapability(ix, a, e.key[2], e.raw.bytes)
        [] OTHER -> ix

-----------------------------------------------------------------------------
(* reputation.ts                                                           *)

\* An agent's or the registry's aggregates are over the scores not revoked.
Averaged(r) == [r EXCEPT !.averageScore = SafeAverage(r.scoreSum, r.activeFeedbackCount)]
Counted(r, score) ==
  Averaged([r EXCEPT !.feedbackCount = @ + 1, !.activeFeedbackCount = @ + 1,
                     !.scoreSum = @ + score])
Uncounted(r, score) ==
  Averaged([r EXCEPT !.activeFeedbackCount = @ - 1, !.revokedFeedbackCount = @ + 1,
                     !.scoreSum = @ - score])

PackTags(e) == SelectSeq(<<e.tag1, e.tag2>>, LAMBDA tag : tag # "")

HandleNewFeedback(ix0, e) ==
  LET ix == OnClient(OnAgent(OnRegistry(ix0, "reputation", e), e.agent, e), e.client, e)
      score == ScaleValue(e.value)
      id == <<e.agent, e.client, e.index>>
  IN  CountOnDay(
        [ix EXCEPT
          !.feedback = (id :> [score |-> score, tags |-> PackTags(e), revoked |-> FALSE,
                               createdAt |-> e.at, responseCount |-> 0]) @@ @,
          !.clients[e.client] =
             [@ EXCEPT !.agentsRated = @ + (IF e.index = 1 THEN 1 ELSE 0),
                       !.feedbackCount = @ + 1, !.activeFeedbackCount = @ + 1],
          !.agents[e.agent] = [Counted(@, score) EXCEPT !.lastFeedbackAt = e.at,
                                                        !.updatedAt = e.at],
          !.registry = Counted(@, score)],
        e, "feedbackGiven")

\* A revocation of what was never indexed leaves the aggregates alone.
HandleFeedbackRevoked(ix0, e) ==
  LET ix1 == OnAgent(OnRegistry(ix0, "reputation", e), e.agent, e)
      id == <<e.agent, e.client, e.index>>
      known == id \in DOMAIN ix1.feedback /\ ~ix1.feedback[id].revoked
      ix == OnClient(ix1, e.client, e)
      score == ix.feedback[id].score
  IN  IF ~known THEN ix1
      ELSE CountOnDay(
        [ix EXCEPT
          !.feedback[id].revoked = TRUE,
          !.agents[e.agent] = [Uncounted(@, score) EXCEPT !.updatedAt = e.at],
          !.clients[e.client] = [@ EXCEPT !.activeFeedbackCount = @ - 1,
                                          !.revokedFeedbackCount = @ + 1],
          !.registry = Uncounted(@, score)],
        e, "feedbackRevoked")

HandleResponseAppended(ix0, e) ==
  LET ix == OnAgent(OnRegistry(ix0, "reputation", e), e.agent, e)
      id == <<e.agent, e.client, e.index>>
  IN  IF id \notin DOMAIN ix.feedback THEN ix
      ELSE [ix EXCEPT !.responses = Append(@, [feedback |-> id, responder |-> e.responder]),
                      !.feedback[id].responseCount = @ + 1,
                      !.registry.feedbackResponseCount = @ + 1]

-----------------------------------------------------------------------------
(* validation.ts                                                           *)

HandleValidationRequest(ix0, e) ==
  LET ix == OnValidator(OnAgent(OnRegistry(ix0, "validation", e), e.agent, e), e.validator, e)
  IN  CountOnDay(
        [ix EXCEPT
          !.validations = (e.hash :> [agent |-> e.agent, validator |-> e.validator,
                                      status |-> "REQUESTED", response |-> None,
                                      requestedAt |-> e.at, respondedAt |-> None]) @@ @,
          !.validators[e.validator].requestCount = @ + 1,
          !.agents[e.agent] = [@ EXCEPT !.validationCount = @ + 1, !.updatedAt = e.at],
          !.registry.validationRequestCount = @ + 1],
        e, "validationsRequested")

\* Mutant of Scored: an overwritten response is counted again.
ScoredAgain(r, fresh, previous, response) ==
  LET sum == r.validationResponseSum + response
      count == r.validationResponseCount + 1
  IN  [r EXCEPT !.validationResponseSum = sum, !.validationResponseCount = count,
                !.averageValidationResponse = SafeAverage(sum, count)]
\* The response in the sums of an agent or the registry: a first one counts, a
\* repeat swaps the old score out.
Scored(r, fresh, previous, response) ==
  LET sum == r.validationResponseSum - previous + response
      count == r.validationResponseCount + (IF fresh THEN 1 ELSE 0)
  IN  [r EXCEPT !.validationResponseSum = sum, !.validationResponseCount = count,
                !.averageValidationResponse = SafeAverage(sum, count)]

\* The same for the validator, whose fields are named otherwise.
ScoredBy(v, fresh, previous, response) ==
  LET sum == v.responseSum - previous + response
      count == v.responseCount + (IF fresh THEN 1 ELSE 0)
  IN  [v EXCEPT !.responseSum = sum, !.responseCount = count,
                !.averageResponse = SafeAverage(sum, count)]

\* A response whose request predates the deployment is dropped.
HandleValidationResponse(ix0, e) ==
  LET ix1 == OnRegistry(ix0, "validation", e)
      fresh == ix1.validations[e.hash].status # "RESPONDED"
      previous == IF fresh THEN 0 ELSE ix1.validations[e.hash].response
      ix == OnAgent(OnValidator(ix1, e.validator, e), e.agent, e)
      scored == [ix EXCEPT
        !.validations[e.hash] = [@ EXCEPT !.status = "RESPONDED", !.response = e.response,
                                          !.respondedAt = e.at],
        !.validators[e.validator] = ScoredBy(@, fresh, previous, e.response),
        !.agents[e.agent] = [Scored(@, fresh, previous, e.response) EXCEPT !.updatedAt = e.at],
        !.registry = Scored(@, fresh, previous, e.response)]
  IN  IF e.hash \notin DOMAIN ix1.validations THEN ix1
      ELSE IF fresh THEN CountOnDay(scored, e, "validationsResponded") ELSE scored

-----------------------------------------------------------------------------
Handle(ix, e) ==
  CASE e.kind = "Registered" -> HandleRegistered(ix, e)
    [] e.kind = "URIUpdated" -> HandleURIUpdated(ix, e)
    [] e.kind = "Transfer" -> HandleTransfer(ix, e)
    [] e.kind = "Approval" -> HandleApproval(ix, e)
    [] e.kind = "MetadataSet" -> HandleMetadataSet(ix, e)
    [] e.kind = "NewFeedback" -> HandleNewFeedback(ix, e)
    [] e.kind = "FeedbackRevoked" -> HandleFeedbackRevoked(ix, e)
    [] e.kind = "ResponseAppended" -> HandleResponseAppended(ix, e)
    [] e.kind = "ValidationRequest" -> HandleValidationRequest(ix, e)
    [] e.kind = "ValidationResponse" -> HandleValidationResponse(ix, e)
=============================================================================
