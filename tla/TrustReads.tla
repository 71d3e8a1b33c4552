----------------------------- MODULE TrustReads -----------------------------
(***************************************************************************)
(* What packages/client and packages/mcp say of the wallets on the other   *)
(* side of a market, read from the two indexes: the positions of the       *)
(* venue's and the identities of the registries'.  Pure reads: holdings is *)
(* the answer of marketPositions, ix the store of ReputationIndex, venue   *)
(* the Agent rows of the venue's own index.  An undefined or null field is *)
(* None; a share in [0, 1] stays in parts per PPM, a float mean is floored *)
(* at PRECISION.  Sorting of a list for display and prose are left out.    *)
(***************************************************************************)
EXTENDS Integers, FiniteSetsExt, TLC

CONSTANTS None, PPM

ShareToPpm(part, whole) == IF whole = 0 THEN 0 ELSE (part * PPM) \div whole

-----------------------------------------------------------------------------
(* counterpartyTrust.ts                                                    *)

\* decodeAgent: an identity with no live feedback is registered but unrated, and
\* the count beside the mean is the active one.
DecodeAgent(ix, a) ==
  LET agent == ix.agents[a]
  IN  [agentId |-> a, owner |-> agent.owner, agentWallet |-> agent.agentWallet,
       feedbackCount |-> agent.activeFeedbackCount, scoreSum |-> agent.scoreSum,
       meanScore |-> IF agent.activeFeedbackCount = 0 THEN None ELSE agent.averageScore]

\* agentsQuery: where { <identity>_in: addresses }, by id.
AgentsBy(ix, identity, w) == {a \in DOMAIN ix.agents : ix.agents[a][identity] = w}

\* Mutant of ReputationOf: only the holder of the identity is asked for.
ReputationOfHolder(ix, w) ==
  IF AgentsBy(ix, "owner", w) = {} THEN None ELSE DecodeAgent(ix, Max(AgentsBy(ix, "owner", w)))
\* subgraphReputationLookup: a wallet is looked up as the address an agent signs
\* as and as the holder of one; the first wins, the last page entry within each.
ReputationOf(ix, w) ==
  LET byWallet == AgentsBy(ix, "agentWallet", w)
      byOwner == AgentsBy(ix, "owner", w)
  IN  CASE byWallet # {} -> DecodeAgent(ix, Max(byWallet))
        [] byOwner # {} -> DecodeAgent(ix, Max(byOwner))
        [] OTHER -> None

\* summarize: the wallets holding the other outcomes, and what is known of them.
Summarize(o, holdings, reputation) ==
  LET opposing == {h \in holdings : h.outcome # o}
      wallets == {h.owner : h \in opposing}
      principal == [w \in wallets |->
                      MapThenSumSet(LAMBDA h : h.accepted, {h \in opposing : h.owner = w})]
      heldBy(ws) == MapThenSumSet(LAMBDA w : principal[w], ws)
      known(w) == reputation[w] # None
      rated == {w \in wallets : known(w) /\ reputation[w].meanScore # None}
      weight(w) == ShareToPpm(principal[w], heldBy(rated))
  IN  [outcome |-> o,
       opposingPrincipal |-> heldBy(wallets),
       counterparties |-> Cardinality(wallets),
       ratedCounterparties |-> Cardinality(rated),
       wallets |-> [w \in wallets |->
         [principal |-> principal[w], sharePpm |-> ShareToPpm(principal[w], heldBy(wallets)),
          meanScore |-> IF known(w) THEN reputation[w].meanScore ELSE None,
          feedbackCount |-> IF known(w) THEN reputation[w].feedbackCount ELSE 0,
          agentId |-> IF known(w) THEN reputation[w].agentId ELSE None]],
       meanScore |-> IF rated = {} THEN None
                     ELSE MapThenSumSet(LAMBDA w : reputation[w].meanScore, rated)
                            \div Cardinality(rated),
       principalWeightedMeanScore |->
         IF heldBy(rated) = 0 THEN None
         ELSE MapThenSumSet(LAMBDA w : weight(w) * reputation[w].meanScore, rated) \div PPM,
       unratedPrincipal |-> heldBy(wallets \ rated),
       unratedSharePpm |-> ShareToPpm(heldBy(wallets \ rated), heldBy(wallets))]

\* counterpartyTrust: one summary per outcome; with no registry index configured
\* everybody is unrated, and the answer says so.
CounterpartyTrust(ix, configured, outcomes, holdings) ==
  LET reputation == [w \in {h.owner : h \in holdings} |->
                       IF configured THEN ReputationOf(ix, w) ELSE None]
  IN  [sides |-> [o \in outcomes |-> Summarize(o, holdings, reputation)],
       reputationUnavailable |-> ~configured]

-----------------------------------------------------------------------------
(* venue-reader.ts: the same answer as the tools carry it.                 *)

\* readSides: a wallet appears on every side it is not alone on; its largest entry
\* is kept, the first on a tie.  Only with two outcomes is the one it holds known.
ReadSides(trust) ==
  LET outcomes == DOMAIN trust.sides
      onSide(w) == {o \in outcomes : w \in DOMAIN trust.sides[o].wallets}
      stake(o, w) == trust.sides[o].wallets[w].principal
      kept(w) == CHOOSE o \in onSide(w) :
                   \A x \in onSide(w) : stake(o, w) > stake(x, w)
                                        \/ (stake(o, w) = stake(x, w) /\ o <= x)
      held(o) == IF Cardinality(outcomes) = 2 THEN CHOOSE x \in outcomes : x # o ELSE None
  IN  [w \in UNION {DOMAIN trust.sides[o].wallets : o \in outcomes} |->
         LET entry == trust.sides[kept(w)].wallets[w]
         IN  [outcome |-> held(kept(w)), stake |-> entry.principal, share |-> entry.sharePpm,
              agentId |-> entry.agentId, feedbackCount |-> entry.feedbackCount,
              score |-> entry.meanScore]]

\* shareOf: of the stake listed, how much has an identity.
RegisteredShare(parties) ==
  LET stakeOf(ws) == MapThenSumSet(LAMBDA w : parties[w].stake, ws)
      total == stakeOf(DOMAIN parties)
  IN  IF total = 0 THEN None
      ELSE ShareToPpm(stakeOf({w \in DOMAIN parties : parties[w].agentId # None}), total)

\* normalizeTrust: without a reputation source the share is unknown, not zero.
NormalizeTrust(trust) ==
  LET parties == ReadSides(trust)
  IN  [counterparties |-> parties,
       registeredShare |-> IF trust.reputationUnavailable THEN None ELSE RegisteredShare(parties),
       notes |-> IF trust.reputationUnavailable THEN {"no reputation source"} ELSE {}]

-----------------------------------------------------------------------------
(* agent-directory.ts and tools/agent-reputation.ts: one wallet looked up. *)

NoIdentity ==
  [found |-> FALSE, burned |-> None, agentId |-> None, feedbackCount |-> None,
   activeFeedbackCount |-> None, revokedFeedbackCount |-> None, averageScore |-> None,
   validationCount |-> None, lastSeen |-> None]

\* readIdentity: the holder's identity, or else the one that signs as the wallet;
\* each selection returns one entity, the first by id.
ReadIdentity(ix, w) ==
  LET byOwner == AgentsBy(ix, "owner", w)
      byWallet == AgentsBy(ix, "agentWallet", w)
      a == IF byOwner # {} THEN Min(byOwner) ELSE Min(byWallet)
      agent == ix.agents[a]
  IN  IF byOwner \cup byWallet = {} THEN NoIdentity
      ELSE [found |-> TRUE, burned |-> agent.burned, agentId |-> a,
            feedbackCount |-> agent.feedbackCount,
            activeFeedbackCount |-> agent.activeFeedbackCount,
            revokedFeedbackCount |-> agent.revokedFeedbackCount,
            averageScore |-> agent.averageScore, validationCount |-> agent.validationCount,
            lastSeen |-> agent.updatedAt]

\* readVenue: a wallet the venue has never seen has done nothing on it, and its
\* AgentBook flag is unknown.
ReadVenue(venue, w) ==
  IF w \notin DOMAIN venue THEN [erc8004Id |-> None, humanBacked |-> None, acceptedStake |-> 0]
  ELSE [erc8004Id |-> venue[w].erc8004Id, humanBacked |-> venue[w].agentBookVerified,
        acceptedStake |-> venue[w].totalAccepted]

\* tolerate: a source that is not configured, or fails, leaves a note.
\* lookup: either source may be missing, and the answer is what the other says.
Lookup(ix, venue, w, identitySource, venueSource) ==
  LET identity == IF identitySource = "ok" THEN ReadIdentity(ix, w) ELSE NoIdentity
      activity == IF venueSource = "ok" THEN ReadVenue(venue, w) ELSE None
  IN  [wallet |-> w,
       registered |-> identity.found /\ ~identity.burned,
       burned |-> identity.burned,
       agentId |-> CASE identity.agentId # None -> identity.agentId
                     [] activity # None -> activity.erc8004Id
                     [] OTHER -> None,
       reputation |-> identity,
       humanBacked |-> IF activity = None THEN None ELSE activity.humanBacked,
       venue |-> activity,
       notes |-> {[source |-> "identity", why |-> identitySource] : x \in {1} \cap
                    (IF identitySource = "ok" THEN {} ELSE {1})}
                 \cup {[source |-> "venue", why |-> venueSource] : x \in
                    (IF venueSource = "ok" THEN {} ELSE {1})}]

\* The tool's answer: three states of the flag, and they are not the same.
IdentityStatus(record) ==
  CASE record.registered -> "registered"
    [] record.burned = TRUE -> "burned"
    [] OTHER -> "none"
=============================================================================
