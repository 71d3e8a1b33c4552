------------------------------ MODULE TierGate ------------------------------
(***************************************************************************)
(* The tier gate of packages/agentkit-tier: requests evaluated             *)
(* concurrently, each through a verification budget, a proof check, a      *)
(* registry read behind a cache, a nonce store and a rate limit.  Every    *)
(* await of gate.ts and verify.ts ends an action: other requests, the      *)
(* clock and the registry move in between.                                 *)
(***************************************************************************)
EXTENDS AgentProof, Integers, SequencesExt

CONSTANTS
    Slots,              \* requests evaluated at the same time
    Wallets,
    HeaderValue,        \* the proof header values in use, by name
    IssuedAt,           \* when each was issued
    ProofHeaders,       \* the ways they are presented
    Carriers,           \* requests without their proof: source, path, address
    DOMAIN_NAME, ACCEPTED_CHAINS,
    MAX_LIFETIME, MAX_AGE, SKEW, REQUIRE_URI,
    BASE, MULTIPLIER, WINDOW, BUDGET, REJECT, COUNTING,
    REGISTERED_TTL, UNREGISTERED_TTL, MAX_ENTRIES,
    MaxTime, MaxRequests, MaxMishaps    \* bounds of the checked instances

\* What createAgentTierVerifier, buildTierPolicies and buildVerificationPolicy
\* refuse at construction.
ASSUME ConfigurationAccepted ==
    /\ ACCEPTED_CHAINS # {} /\ ACCEPTED_CHAINS \subseteq {480, 8453}
    /\ MAX_LIFETIME \in Nat \ {0} /\ MAX_AGE \in Nat \ {0} /\ SKEW \in Nat
    /\ BASE \in Nat \ {0} /\ WINDOW \in Nat \ {0} /\ MULTIPLIER \in Nat \ {0}
    /\ BUDGET = None \/ BUDGET \in Nat \ {0}
    /\ REJECT \in BOOLEAN /\ COUNTING \in BOOLEAN /\ REQUIRE_URI \in BOOLEAN

\* Lifetimes are times, in milliseconds; nothing refuses any of them.
ASSUME LifetimesAreTimes == REGISTERED_TTL \in Int /\ UNREGISTERED_TTL \in Int

ASSUME IssuedAsSigned ==
    \A name \in DOMAIN HeaderValue : EnvelopeCode(HeaderValue[name]) = "ok" =>
        FieldOf(HeaderValue[name].message[1], "Issued At") = IssuedAt[name]

VARIABLES
    clock,
    agentBook,      \* the registry on World Chain: wallet -> standing
    cache,          \* createCachingAgentBook: entries, oldest insertion first
    nonces,         \* the store: spent nonce -> when it may be forgotten
    counters,       \* the store: bucket and window -> count and end
    job,            \* slot -> the request in it and how far it is
    issued,
    mishaps,        \* failures and changes of standing so far
    honoured,       \* what has been seen: proof -> its acceptances, in order
    charged,        \* bucket -> requests charged to it within its window
    passed,         \* bucket -> those of them that were let through
    lastWas         \* wallet -> standing -> when that standing ended

vars == <<clock, agentBook, cache, nonces, counters, job, issued, mishaps,
          honoured, charged, passed, lastWas>>

Standings == {"unregistered", "registered", "revoked"}
Tiers == {"anonymous", "human-backed"}

\* buildTierPolicies: one base, so that the tenfold relation cannot drift.
Limit(tier) == IF tier = "anonymous" THEN BASE ELSE BASE * MULTIPLIER

\* buildVerificationPolicy: the human-backed limit unless configured.
VerificationLimit == IF BUDGET = None THEN Limit("human-backed") ELSE BUDGET

----------------------------------------------------------------------------
(* ratelimit.ts and storage.ts *)

WindowStart(now) == (now \div WINDOW) * WINDOW
RateLimitKey(subject, window) == <<subject, window>>
WindowEnd(bucket) == bucket[2] + WINDOW

At(f, k, default) == IF k \in DOMAIN f THEN f[k] ELSE default
With(f, k, v) == [x \in DOMAIN f \cup {k} |-> IF x = k THEN v ELSE f[x]]
SweptNonces == [k \in {x \in DOMAIN nonces : nonces[x] > clock} |-> nonces[k]]
SweptCounters == [k \in {x \in DOMAIN counters : counters[x].expires > clock} |-> counters[k]]

\* InMemoryTierStorage.incrementWindow: the count after the increment.
NextCount(bucket) ==
    LET entry == At(counters, bucket, [value |-> 0, expires |-> 0])
    IN  IF entry.expires > clock THEN entry.value + 1 ELSE 1

IncrementWindow(bucket) ==
    /\ nonces' = SweptNonces
    /\ counters' = With(SweptCounters, bucket,
                        [value |-> NextCount(bucket), expires |-> WindowEnd(bucket)])

\* enforceRateLimit: a store that answers counts, one that fails lets through.
Allowed(bucket, limit) == NextCount(bucket) <= limit

Counted(bucket, ok) ==
    IF clock >= WindowEnd(bucket) THEN UNCHANGED <<charged, passed>>
    ELSE /\ charged' = With(charged, bucket, At(charged, bucket, 0) + 1)
         /\ passed' = With(passed, bucket, At(passed, bucket, 0) + IF ok THEN 1 ELSE 0)

\* consumeNonce: accepted once, until the entry may be forgotten.
NonceKey(chain, wallet, nonce) == <<chain, wallet, nonce>>
Replayed(key) == At(nonces, key, 0) > clock
\* Mutant: the nonce may be forgotten at once.
ConsumeNonceForgetful(key, expires) ==
    /\ nonces' = With(SweptNonces, key, clock)
    /\ counters' = SweptCounters
ConsumeNonce(key, expires) ==
    /\ nonces' = With(SweptNonces, key,
                      IF Replayed(key) THEN nonces[key] ELSE expires)
    /\ counters' = SweptCounters

----------------------------------------------------------------------------
(* gate.ts: the buckets *)

Raw(req) == IF ProofHeader(req)[1] = Joint THEN Noise ELSE HeaderValue[ProofHeader(req)[1]]
Message(req) == Raw(req).message[1]

AnonymousSubject(req) == <<"ip", ForwardedClientAddress(req)>>
\* Mutant: the two budgets share a key space.
VerificationSubjectUnprefixed(req) == AnonymousSubject(req)
VerificationSubject(req) == <<"verify", ForwardedClientAddress(req)>>
DefaultSubject(req, tier) ==
    IF tier = "human-backed" THEN <<"wallet", Message(req).address>>
    ELSE AnonymousSubject(req)

----------------------------------------------------------------------------
(* verify.ts, up to the first await *)

UriMatches(b, path) ==
    IF path = None THEN ~REQUIRE_URI ELSE ValueIn(b, "URI") = path

TimeOf(b, key) == IF FieldIn(b, key) = {} THEN 0 ELSE ValueIn(b, key)

\* The first check that fails, in the code's order, or "ok".
FieldsCode(m, path) ==
    LET b == Block(m)
        chain == ParseChainId(ValueIn(b, "Chain ID"))
        from == TimeOf(b, "Issued At")
        until == TimeOf(b, "Expiration Time")
        notBefore == TimeOf(b, "Not Before")
    IN  CASE ValueIn(b, "Version") # "1" -> "proof_unsupported_version"
          [] m.domain # DOMAIN_NAME -> "proof_domain_mismatch"
          [] chain = None -> "proof_malformed"
          [] chain \notin ACCEPTED_CHAINS -> "proof_chain_unsupported"
          [] ~UriMatches(b, path) -> "proof_uri_mismatch"
          [] FieldIn(b, "Expiration Time") = {} -> "proof_malformed"
          [] from = None \/ until = None \/ notBefore = None -> "proof_malformed"
          [] until <= from -> "proof_malformed"
          [] until - from > MAX_LIFETIME -> "proof_lifetime_too_long"
          [] from > clock + SKEW \/ notBefore > clock + SKEW -> "proof_not_yet_valid"
          [] clock - from > MAX_AGE + SKEW -> "proof_stale"
          [] until <= clock -> "proof_expired"
          [] OTHER -> "ok"

\* normalizeRequestHeaders, readProofHeader and the checks of verifyNormalized.
ProofCode(req) ==
    IF ConflictingHeader(req) THEN "headers_malformed"
    ELSE IF ProofHeader(req) = None THEN "no_proof_presented"
    ELSE LET raw == Raw(req) IN
         IF EnvelopeCode(raw) # "ok" THEN EnvelopeCode(raw)
         ELSE FieldsCode(raw.message[1], req.path)

SignatureCode(req) ==
    LET signature == Raw(req).signature
    IN  IF signature.by = None THEN "signature_malformed"      \* recovery threw
        ELSE IF signature.over = Message(req) /\ signature.by = Message(req).address
        THEN "ok" ELSE "signature_mismatch"
Wallet(req) == Message(req).address
Expires(req) == FieldOf(Message(req), "Expiration Time")
KeyOf(req) == NonceKey(ParseChainId(FieldOf(Message(req), "Chain ID")), Wallet(req),
                       FieldOf(Message(req), "Nonce"))

\* What a registry record means to the verifier.
StandingCode(standing) ==
    CASE standing = "unregistered" -> "agentbook_unregistered"
      [] standing = "revoked" -> "agentbook_revoked"
      [] OTHER -> "ok"

----------------------------------------------------------------------------
(* agentbook.ts: the cache *)

Hits(wallet) == {i \in DOMAIN cache : cache[i].wallet = wallet}
Fresh(wallet) == {i \in Hits(wallet) : cache[i].expires > clock}
Without(wallet) ==
    IF Hits(wallet) = {} THEN cache ELSE RemoveAt(cache, CHOOSE i \in Hits(wallet) : TRUE)
Ttl(standing) == IF standing = "unregistered" THEN UNREGISTERED_TTL ELSE REGISTERED_TTL

\* Mutant: the lifetime runs from the answer.
CacheExpiryFromAnswer(asked, standing) == clock + Ttl(standing)
\* An answer is kept for its lifetime from the moment the question was asked.
CacheExpiry(asked, standing) == asked + Ttl(standing)

\* The oldest entry leaves when the cache is full; a known key keeps its place.
Cached(wallet, standing, asked) ==
    LET kept == IF cache # <<>> /\ Len(cache) >= MAX_ENTRIES THEN Tail(cache) ELSE cache
        entry == [wallet |-> wallet, standing |-> standing,
                  expires |-> CacheExpiry(asked, standing)]
    IN  IF \E i \in DOMAIN kept : kept[i].wallet = wallet
        THEN [i \in DOMAIN kept |-> IF kept[i].wallet = wallet THEN entry ELSE kept[i]]
        ELSE Append(kept, entry)

----------------------------------------------------------------------------
(* The requests *)

Idle == [pc |-> "idle"]
Goto(j, pc) == job' = [job EXCEPT ![j].pc = pc]

\* The adapters: 200 goes on to the handler with the decision, anything else is
\* answered with a problem document.
Problem(status) == IF status = 429 THEN "Too many requests" ELSE "Invalid agent proof"
Response(status) == [status |-> status, next |-> status = 200,
                     title |-> IF status \in {401, 429} THEN Problem(status) ELSE ""]

Done(status, bucket) ==
    [pc |-> "done", response |-> Response(status),
     refusedAt |-> IF status = 429 THEN bucket ELSE None]

\* The verdict of the verifier; the request goes on to its rate limit.
Verdict(j, tier, code) ==
    job' = [job EXCEPT ![j].pc = "rate", ![j].tier = tier, ![j].code = code]

Judge(j, code, pc) == IF code = "ok" THEN Goto(j, pc) ELSE Verdict(j, "anonymous", code)

Mishap == mishaps < MaxMishaps /\ mishaps' = mishaps + 1
Observed == <<honoured, charged, passed, lastWas>>
World == <<clock, agentBook, issued>>
Store == <<nonces, counters>>

Request(carrier, header) ==
    [source |-> carrier.source, path |-> carrier.path, forwarded |-> carrier.forwarded,
     realIp |-> carrier.realIp, proof |-> header]

\* A proof is sent from the moment it is issued, by whoever holds it, once or again.
\* evaluate: normalise, read the clock; only a readable proof is budgeted.
Arrive(j, req) ==
    /\ job[j].pc \in {"idle", "done"} /\ issued < MaxRequests
    /\ \A entry \in Range(req.proof) : \A name \in Range(entry) : IssuedAt[name] <= clock
    /\ job' = [job EXCEPT ![j] =
           [pc |-> IF /\ COUNTING /\ VerificationLimit # None
                      /\ ~ConflictingHeader(req) /\ ProofHeader(req) # None
                   THEN "budget" ELSE "verify",
            req |-> req, window |-> WindowStart(clock), checked |-> 0, asked |-> 0,
            standing |-> "unregistered", tier |-> "anonymous", code |-> "ok"]]
    /\ issued' = issued + 1
    /\ UNCHANGED <<clock, agentBook, mishaps, cache, nonces, counters, Observed>>

\* The verification budget, charged before anything about the caller is known.
BudgetBucket(j) == RateLimitKey(VerificationSubject(job[j].req), job[j].window)
Budget(j) ==
    /\ job[j].pc = "budget"
    /\ IncrementWindow(BudgetBucket(j))
    /\ LET ok == Allowed(BudgetBucket(j), VerificationLimit) IN
       /\ Counted(BudgetBucket(j), ok)
       /\ IF ok THEN Goto(j, "verify")
          ELSE job' = [job EXCEPT ![j] = Done(429, BudgetBucket(j))]
    /\ UNCHANGED <<World, mishaps, cache, honoured, lastWas>>

BudgetFails(j) ==
    /\ Mishap /\ job[j].pc = "budget"
    /\ Goto(j, "verify")
    /\ UNCHANGED <<World, cache, Store, Observed>>

\* The checks on the fields, the expiry among them; then the signature is recovered.
Verify(j) ==
    /\ job[j].pc = "verify"
    /\ LET code == ProofCode(job[j].req) IN
       IF code # "ok" THEN Verdict(j, "anonymous", code)
       ELSE job' = [job EXCEPT ![j].pc = "signature", ![j].checked = clock]
    /\ UNCHANGED <<World, mishaps, cache, Store, Observed>>

\* The signer is known; then the cache answers or the registry is asked.
Recover(j) ==
    /\ job[j].pc = "signature"
    /\ LET req == job[j].req
           code == SignatureCode(req)
       IN
       IF code # "ok" THEN Verdict(j, "anonymous", code) /\ UNCHANGED cache
       ELSE IF Fresh(Wallet(req)) # {}
       THEN LET standing == cache[CHOOSE i \in Fresh(Wallet(req)) : TRUE].standing IN
            /\ job' = [job EXCEPT ![j].asked = clock, ![j].standing = standing,
                         ![j].pc = IF StandingCode(standing) = "ok" THEN "nonce" ELSE "rate",
                         ![j].code = StandingCode(standing)]
            /\ UNCHANGED cache
       ELSE /\ job' = [job EXCEPT ![j].pc = "lookup", ![j].asked = clock]
            /\ cache' = Without(Wallet(req))
    /\ UNCHANGED <<World, mishaps, Store, Observed>>

\* The registry answers at one time and the answer arrives at a later one.
ReadAgentBook(j) ==
    /\ job[j].pc = "lookup"
    /\ job' = [job EXCEPT ![j].pc = "answer", ![j].standing = agentBook[Wallet(job[j].req)]]
    /\ UNCHANGED <<World, mishaps, cache, Store, Observed>>

AgentBookFails(j) ==
    /\ Mishap /\ job[j].pc = "lookup"
    /\ Verdict(j, "anonymous", "agentbook_unavailable")
    /\ UNCHANGED <<World, cache, Store, Observed>>

Answer(j) ==
    /\ job[j].pc = "answer"
    /\ cache' = Cached(Wallet(job[j].req), job[j].standing, job[j].asked)
    /\ Judge(j, StandingCode(job[j].standing), "nonce")
    /\ UNCHANGED <<World, mishaps, Store, Observed>>

\* Consumed last, and only on an otherwise complete pass; the expiry is not looked at again.
Consume(j) ==
    /\ job[j].pc = "nonce"
    /\ LET req == job[j].req
           used == Replayed(KeyOf(req)) IN
       /\ ConsumeNonce(KeyOf(req), Expires(req))
       /\ IF used THEN Verdict(j, "anonymous", "nonce_replayed")
          ELSE Verdict(j, "human-backed", "ok")
       /\ honoured' = IF used THEN honoured
                      ELSE With(honoured, ProofHeader(req),
                                Append(At(honoured, ProofHeader(req), <<>>),
                                       [checked |-> job[j].checked, used |-> clock,
                                        expires |-> Expires(req)]))
    /\ UNCHANGED <<World, mishaps, cache, charged, passed, lastWas>>

ConsumeFails(j) ==
    /\ Mishap /\ job[j].pc = "nonce"
    /\ Verdict(j, "anonymous", "nonce_store_unavailable")
    /\ UNCHANGED <<World, cache, Store, Observed>>

\* The decision: a rejected proof is 401 whatever its bucket holds.
Presented(j) == job[j].code # "no_proof_presented"
Status(j, allowed) ==
    CASE REJECT /\ job[j].tier = "anonymous" /\ Presented(j) -> 401
      [] ~allowed -> 429
      [] OTHER -> 200

Bucket(j) == RateLimitKey(DefaultSubject(job[j].req, job[j].tier), job[j].window)

Rate(j) ==
    /\ COUNTING /\ job[j].pc = "rate"
    /\ IncrementWindow(Bucket(j))
    /\ LET ok == Allowed(Bucket(j), Limit(job[j].tier)) IN
       /\ Counted(Bucket(j), ok)
       /\ job' = [job EXCEPT ![j] = Done(Status(j, ok), Bucket(j))]
    /\ UNCHANGED <<World, mishaps, cache, honoured, lastWas>>

\* A failing store lets the request through uncounted, as does a gate told not
\* to count.
RateUncounted(j) ==
    /\ job[j].pc = "rate"
    /\ IF COUNTING THEN Mishap ELSE UNCHANGED mishaps
    /\ job' = [job EXCEPT ![j] = Done(Status(j, TRUE), Bucket(j))]
    /\ UNCHANGED <<World, cache, Store, Observed>>

----------------------------------------------------------------------------
(* The world *)

\* A wallet is registered with AgentBook, or its registration is revoked.
ChangeStanding(w, standing) ==
    /\ Mishap
    /\ \/ agentBook[w] = "unregistered" /\ standing = "registered"
       \/ agentBook[w] = "registered" /\ standing = "revoked"
    /\ agentBook' = [agentBook EXCEPT ![w] = standing]
    /\ lastWas' = [lastWas EXCEPT ![w][agentBook[w]] = clock]
    /\ UNCHANGED <<clock, issued, cache, nonces, counters, job, honoured, charged, passed>>

Tick ==
    /\ clock < MaxTime /\ clock' = clock + 1
    /\ UNCHANGED <<agentBook, issued, mishaps, cache, nonces, counters, job, Observed>>

\* What a readable proof names: a wallet, and a time or none (parseSiweMessage,
\* Date.parse).
ASSUME ProofsName ==
    \A carrier \in Carriers, header \in ProofHeaders :
        LET req == Request(carrier, header) IN
        ProofHeader(req) # None /\ EnvelopeCode(Raw(req)) = "ok" =>
            /\ Wallet(req) \in Wallets
            /\ FieldIn(Block(Message(req)), "Expiration Time") # {} =>
                  Expires(req) = None \/ Expires(req) \in Int

Empty == [x \in {} |-> 0]
Init ==
    /\ clock = 0 /\ issued = 0 /\ mishaps = 0
    /\ agentBook \in [Wallets -> {"unregistered", "registered"}]
    /\ cache = <<>> /\ nonces = Empty /\ counters = Empty
    /\ job = [j \in Slots |-> Idle]
    /\ honoured = Empty /\ charged = Empty /\ passed = Empty
    /\ lastWas = [w \in Wallets |-> [s \in Standings |-> -1]]

Next ==
    \/ Tick
    \/ \E w \in Wallets, s \in Standings : ChangeStanding(w, s)
    \/ \E j \in Slots :
          \/ \E c \in Carriers, header \in ProofHeaders : Arrive(j, Request(c, header))
          \/ Budget(j) \/ BudgetFails(j) \/ Verify(j) \/ Recover(j)
          \/ ReadAgentBook(j) \/ AgentBookFails(j) \/ Answer(j)
          \/ Consume(j) \/ ConsumeFails(j) \/ Rate(j) \/ RateUncounted(j)

Spec == Init /\ [][Next]_vars

----------------------------------------------------------------------------
(* Properties *)

\* Of all the times a proof makes a request human-backed, only the first may come while
\* the proof is valid; each later one is of a request that passed its checks before the
\* proof expired and reached the store after (verify.ts looks at the expiry once, before
\* its awaits, and storage.ts forgets a nonce at its expiry).
SpentAgainOnlyAcrossExpiry ==
    \A proof \in DOMAIN honoured : \A n \in DOMAIN honoured[proof] :
        LET use == honoured[proof][n] IN
        /\ use.checked < use.expires
        /\ n > 1 => use.expires <= use.used

LastWas(w, s) == IF agentBook[w] = s THEN clock ELSE lastWas[w][s]
Judged(j) == /\ job[j].pc \in {"nonce", "rate"}
             /\ job[j].code \in {"ok", "agentbook_unregistered", "agentbook_revoked"}

\* The registry standing a request was judged by was true less than one cache
\* lifetime before the verifier asked for it, however long the registry took to
\* answer and whichever request asked (agentbook.ts, createCachingAgentBook).
StandingWasRecent ==
    \A j \in Slots : Judged(j) =>
        LastWas(Wallet(job[j].req), job[j].standing) > job[j].asked - Ttl(job[j].standing)

LimitOf(bucket) ==
    CASE bucket[1][1] = "verify" -> VerificationLimit
      [] bucket[1][1] = "wallet" -> Limit("human-backed")
      [] OTHER -> Limit("anonymous")

\* Within a window no bucket, and no source of proofs to verify, is let through
\* more often than its limit, and no request is refused for its rate unless its
\* own bucket was charged beyond the limit by requests, each counted once.
RateLimitsHold ==
    /\ \A b \in DOMAIN passed : passed[b] <= LimitOf(b)
    /\ \A j \in Slots :
          (job[j].pc = "done" /\ job[j].response.status = 429) =>
              At(charged, job[j].refusedAt, 0) > LimitOf(job[j].refusedAt)
=============================================================================
