--------------------------- MODULE TierGateProofs ---------------------------
(***************************************************************************)
(* What the tier gate promises of concurrent requests, for any number of   *)
(* them, any windows, limits and lifetimes: a proof is not spent twice     *)
(* before it expires, a standing is never older than the cache allows, and *)
(* a bucket never lets more through than its limit.  Each is an invariant  *)
(* of its own over the same typing of the requests under way.              *)
(***************************************************************************)
EXTENDS TierGate, SequenceTheorems, TLAPS

-----------------------------------------------------------------------------
(* Requests under way.                                                     *)

Pcs == {"budget", "verify", "signature", "lookup", "answer", "nonce", "rate"}
Requests == {Request(carrier, header) : carrier \in Carriers, header \in ProofHeaders}

(* The codes of the checks on a proof, and those that name a registry standing. *)
FieldFaults == {"proof_unsupported_version", "proof_domain_mismatch", "proof_malformed",
                "proof_chain_unsupported", "proof_uri_mismatch", "proof_lifetime_too_long",
                "proof_not_yet_valid", "proof_stale", "proof_expired"}
ProofFaults == FieldFaults \cup {"headers_malformed", "no_proof_presented",
                                 "signature_malformed", "signature_mismatch"}
StandingCodes == {"ok", "agentbook_unregistered", "agentbook_revoked"}
OtherFaults == {"agentbook_unavailable", "nonce_replayed", "nonce_store_unavailable"}
Codes == ProofFaults \cup StandingCodes \cup OtherFaults

InFlight == [pc: Pcs, req: Requests, window: Int, checked: Int, asked: Int,
             standing: Standings, tier: Tiers, code: Codes]

Running(j) == job[j].pc \notin {"idle", "done"}

(* A proof that passed the checks names a wallet and an expiry. *)
Readable(req) == Wallet(req) \in Wallets /\ Expires(req) \in Int

(* It passed them before it expired; the code does not look again. *)
Passed(r) == Readable(r.req) /\ r.checked < Expires(r.req)

JobOK(r) ==
  r.pc \notin {"idle", "done"} =>
    /\ r \in InFlight
    /\ r.asked <= clock /\ r.window <= clock
    /\ r.pc # "rate" => r.code = "ok" /\ r.tier = "anonymous"
    /\ r.pc \in {"signature", "lookup", "answer", "nonce"} => Passed(r)
    /\ r.pc = "rate" /\ r.tier = "human-backed" => Readable(r.req)

JobsOK == job = [j \in Slots |-> job[j]] /\ \A j \in Slots : JobOK(job[j])

Entry == [wallet: Wallets, standing: Standings, expires: Int]

TypeOK ==
  /\ clock \in Nat
  /\ agentBook \in [Wallets -> Standings]
  /\ lastWas \in [Wallets -> [Standings -> Int]]
  /\ \A w \in Wallets, s \in Standings : lastWas[w][s] <= clock
  /\ cache \in Seq(Entry)
  /\ JobsOK

-----------------------------------------------------------------------------
(* The nonces: a proof that was honoured is in the store until it expires.  *)

ReadAs(proof) == IF proof[1] = Joint THEN Noise ELSE HeaderValue[proof[1]]
ExpiryOf(proof) == FieldOf(ReadAs(proof).message[1], "Expiration Time")
SpentAs(proof) ==
  LET m == ReadAs(proof).message[1]
  IN  NonceKey(ParseChainId(FieldOf(m, "Chain ID")), m.address, FieldOf(m, "Nonce"))

(* Every acceptance of a proof was checked before its expiry, and every one after
   the first was settled after it. *)
UsesOK(p, uses) ==
  /\ uses \in Seq([checked: Int, used: Int, expires: Int]) /\ uses # <<>>
  /\ \A n \in 1..Len(uses) :
       /\ uses[n].expires = ExpiryOf(p) /\ uses[n].checked < ExpiryOf(p)
       /\ n > 1 => ExpiryOf(p) <= uses[n].used

SpentInv ==
  /\ nonces = [k \in DOMAIN nonces |-> nonces[k]]
  /\ \A k \in DOMAIN nonces : nonces[k] \in Int
  /\ honoured = [p \in DOMAIN honoured |-> honoured[p]]
  /\ \A p \in DOMAIN honoured :
       /\ ExpiryOf(p) \in Int /\ UsesOK(p, honoured[p])
       /\ clock < ExpiryOf(p) => /\ SpentAs(p) \in DOMAIN nonces
                                 /\ nonces[SpentAs(p)] >= ExpiryOf(p)

-----------------------------------------------------------------------------
(* The registry: an answer was true when it was given, which is not before it
   was asked for; a cached one expires one lifetime after it was asked for.  *)

EntryOK(e) == LastWas(e.wallet, e.standing) >= e.expires - Ttl(e.standing)

JudgedOK(r) ==
  /\ r.pc = "answer" => LastWas(Wallet(r.req), r.standing) >= r.asked
  /\ /\ r.pc \in {"nonce", "rate"}
     /\ r.code \in StandingCodes
     => /\ Wallet(r.req) \in Wallets
        /\ LastWas(Wallet(r.req), r.standing) > r.asked - Ttl(r.standing)

StandingInv ==
  /\ \A i \in 1..Len(cache) : EntryOK(cache[i])
  /\ \A j \in Slots : JudgedOK(job[j])

-----------------------------------------------------------------------------
(* The counters: while a bucket's window lasts the store counts every request
   that was charged to it, and nobody was let through beyond the limit.      *)

Bucketed(b) == b[2] \in Int /\ LimitOf(b) \in Nat

CountInv ==
  /\ counters = [b \in DOMAIN counters |-> counters[b]]
  /\ charged = [b \in DOMAIN charged |-> charged[b]]
  /\ passed = [b \in DOMAIN passed |-> passed[b]]
  /\ DOMAIN passed = DOMAIN charged
  /\ \A b \in DOMAIN counters :
       /\ Bucketed(b) /\ counters[b].value \in Nat /\ counters[b].expires = WindowEnd(b)
       /\ clock < WindowEnd(b) => b \in DOMAIN charged /\ charged[b] = counters[b].value
  /\ \A b \in DOMAIN charged :
       /\ Bucketed(b) /\ charged[b] \in Nat /\ passed[b] \in Nat
       /\ passed[b] <= charged[b] /\ passed[b] <= LimitOf(b)
       /\ clock < WindowEnd(b) => b \in DOMAIN counters

RefusedInv ==
  \A j \in Slots :
     (job[j].pc = "done" /\ job[j].response.status = 429) =>
        /\ LimitOf(job[j].refusedAt) \in Nat
        /\ At(charged, job[j].refusedAt, 0) > LimitOf(job[j].refusedAt)

-----------------------------------------------------------------------------
(* What a code says of the proof it is given for.                          *)

LEMMA FieldsCodes ==
  ASSUME NEW m, NEW path
  PROVE  /\ FieldsCode(m, path) \in FieldFaults \cup {"ok"}
         /\ FieldsCode(m, path) = "ok" =>
              /\ FieldIn(Block(m), "Expiration Time") # {}
              /\ TimeOf(Block(m), "Expiration Time") # None
              /\ ~(TimeOf(Block(m), "Expiration Time") <= clock)
BY DEF FieldsCode, FieldFaults

LEMMA ProofCodes ==
  ASSUME NEW req
  PROVE  /\ ProofCode(req) \in ProofFaults \cup {"ok"}
         /\ ProofCode(req) = "ok" =>
              /\ ProofHeader(req) # None /\ EnvelopeCode(Raw(req)) = "ok"
              /\ FieldIn(Block(Message(req)), "Expiration Time") # {}
              /\ Expires(req) # None /\ ~(Expires(req) <= clock)
<1> DEFINE code == FieldsCode(Message(req), req.path)
<1>1. EnvelopeCode(Raw(req)) \in {"ok", "proof_malformed", "signature_malformed"}
  BY DEF EnvelopeCode
<1>2. FieldIn(Block(Message(req)), "Expiration Time") # {} =>
        TimeOf(Block(Message(req)), "Expiration Time") = Expires(req)
  BY DEF TimeOf, Expires, FieldOf
<1>3. /\ code \in FieldFaults \cup {"ok"}
      /\ code = "ok" => /\ FieldIn(Block(Message(req)), "Expiration Time") # {}
                        /\ TimeOf(Block(Message(req)), "Expiration Time") # None
                        /\ ~(TimeOf(Block(Message(req)), "Expiration Time") <= clock)
  BY FieldsCodes
<1>4. ProofCode(req) = IF ConflictingHeader(req) THEN "headers_malformed"
                       ELSE IF ProofHeader(req) = None THEN "no_proof_presented"
                       ELSE IF EnvelopeCode(Raw(req)) # "ok" THEN EnvelopeCode(Raw(req))
                       ELSE code
  BY DEF ProofCode, Message
<1> HIDE DEF code
<1>5. CASE ConflictingHeader(req) \/ ProofHeader(req) = None
  BY <1>4, <1>5 DEF ProofFaults, FieldFaults
<1>6. CASE ~ConflictingHeader(req) /\ ProofHeader(req) # None /\ EnvelopeCode(Raw(req)) # "ok"
  BY <1>1, <1>4, <1>6 DEF ProofFaults, FieldFaults
<1>7. CASE ~ConflictingHeader(req) /\ ProofHeader(req) # None /\ EnvelopeCode(Raw(req)) = "ok"
  <2>1. ProofCode(req) = code
    BY <1>4, <1>7
  <2> QED BY <1>2, <1>3, <1>7, <2>1 DEF ProofFaults
<1> QED BY <1>5, <1>6, <1>7

LEMMA SignatureCodes ==
  ASSUME NEW req
  PROVE  SignatureCode(req) \in {"ok", "signature_malformed", "signature_mismatch"}
BY DEF SignatureCode

(* A proof without a fault can be read, and has not expired. *)
LEMMA CheckedIsReadable ==
  ASSUME clock \in Int, NEW req \in Requests, ProofCode(req) = "ok"
  PROVE  Readable(req) /\ clock < Expires(req)
<1>1. PICK carrier \in Carriers, header \in ProofHeaders : req = Request(carrier, header)
  BY DEF Requests
<1>2. /\ ProofHeader(req) # None /\ EnvelopeCode(Raw(req)) = "ok"
      /\ FieldIn(Block(Message(req)), "Expiration Time") # {}
      /\ Expires(req) # None /\ ~(Expires(req) <= clock)
  BY ProofCodes
<1>3. ProofHeader(req) # None /\ EnvelopeCode(Raw(req)) = "ok" =>
        /\ Wallet(req) \in Wallets
        /\ FieldIn(Block(Message(req)), "Expiration Time") # {} =>
              Expires(req) = None \/ Expires(req) \in Int
  BY <1>1, ProofsName
<1>4. Wallet(req) \in Wallets /\ (Expires(req) = None \/ Expires(req) \in Int)
  BY <1>2, <1>3, Zenon
<1>5. Expires(req) \in Int
  BY <1>2, <1>4, Zenon
<1>6. clock < Expires(req)
  <2>1. ~(Expires(req) <= clock)
    BY <1>2, Zenon
  <2> QED BY <1>5, <2>1
<1> QED BY <1>4, <1>5, <1>6 DEF Readable

-----------------------------------------------------------------------------
(* How an action moves its request.                                        *)

OnlySlot(j) ==
  /\ job' = [k \in Slots |-> job'[k]]
  /\ \A k \in Slots : k # j => job'[k] = job[k]

LEMMA SlotMoves ==
  ASSUME JobsOK, NEW j \in Slots, NEW r, job' = [job EXCEPT ![j] = r]
  PROVE  OnlySlot(j) /\ job'[j] = r
BY DEF JobsOK, OnlySlot

LEMMA JobTyped ==
  ASSUME TypeOK, NEW j \in Slots, Running(j)
  PROVE  /\ job[j] \in InFlight /\ JobOK(job[j])
         /\ job[j].pc \in Pcs /\ job[j].req \in Requests /\ job[j].window \in Int
         /\ job[j].asked \in Int /\ job[j].standing \in Standings /\ job[j].tier \in Tiers
         /\ job[j].code \in Codes /\ job[j].checked \in Int
<1>1. job[j] \in InFlight /\ JobOK(job[j])
  BY DEF TypeOK, JobsOK, JobOK, Running
<1> QED BY <1>1 DEF InFlight

LEMMA GotoMoves ==
  ASSUME TypeOK, NEW j \in Slots, Running(j), NEW pc \in Pcs, Goto(j, pc)
  PROVE  /\ OnlySlot(j) /\ job'[j] \in InFlight /\ job'[j].pc = pc
         /\ job'[j].req = job[j].req /\ job'[j].window = job[j].window
         /\ job'[j].asked = job[j].asked /\ job'[j].standing = job[j].standing
         /\ job'[j].tier = job[j].tier /\ job'[j].code = job[j].code
         /\ job'[j].checked = job[j].checked
<1>1. job[j] \in InFlight
  BY JobTyped
<1> DEFINE r == [job[j] EXCEPT !.pc = pc]
<1>2. /\ r \in InFlight /\ r.pc = pc /\ r.req = job[j].req /\ r.window = job[j].window
      /\ r.asked = job[j].asked /\ r.standing = job[j].standing
      /\ r.tier = job[j].tier /\ r.code = job[j].code /\ r.checked = job[j].checked
  BY <1>1 DEF InFlight
<1>3. job' = [job EXCEPT ![j] = r]
  BY DEF Goto
<1> HIDE DEF r
<1> QED BY <1>2, <1>3, SlotMoves DEF TypeOK

LEMMA VerdictMoves ==
  ASSUME TypeOK, NEW j \in Slots, Running(j), NEW tier \in Tiers, NEW code \in Codes,
         Verdict(j, tier, code)
  PROVE  /\ OnlySlot(j) /\ job'[j] \in InFlight /\ job'[j].pc = "rate"
         /\ job'[j].req = job[j].req /\ job'[j].window = job[j].window
         /\ job'[j].asked = job[j].asked /\ job'[j].standing = job[j].standing
         /\ job'[j].tier = tier /\ job'[j].code = code
<1>1. job[j] \in InFlight
  BY JobTyped
<1> DEFINE r == [job[j] EXCEPT !.pc = "rate", !.tier = tier, !.code = code]
<1>2. /\ r \in InFlight /\ r.pc = "rate" /\ r.req = job[j].req /\ r.window = job[j].window
      /\ r.asked = job[j].asked /\ r.standing = job[j].standing
      /\ r.tier = tier /\ r.code = code
  BY <1>1 DEF InFlight, Pcs
<1>3. job' = [job EXCEPT ![j] = r]
  BY DEF Verdict
<1> HIDE DEF r
<1> QED BY <1>2, <1>3, SlotMoves DEF TypeOK

-----------------------------------------------------------------------------
(* The cache.                                                              *)

LEMMA RemoveAtKeeps ==
  ASSUME NEW S, NEW s \in Seq(S), NEW i \in 1..Len(s)
  PROVE  /\ RemoveAt(s, i) \in Seq(S)
         /\ \A j \in 1..Len(RemoveAt(s, i)) : \E k \in 1..Len(s) : RemoveAt(s, i)[j] = s[k]
<1> DEFINE a == SubSeq(s, 1, i - 1)
           b == SubSeq(s, i + 1, Len(s))
           n == Len(s)
<1>0. n \in Nat /\ i \in 1..n
  OBVIOUS
<1>1. a \in Seq(S) /\ Len(a) = i - 1 /\ \A j \in 1..(i - 1) : a[j] = s[j]
  BY <1>0
<1>2. b \in Seq(S) /\ Len(b) = n - i /\ \A j \in 1..(n - i) : b[j] = s[i + j]
  BY <1>0
<1>3. RemoveAt(s, i) = a \o b
  BY DEF RemoveAt
<1> HIDE DEF a, b, n
<1>4. /\ a \o b \in Seq(S) /\ Len(a \o b) = n - 1
      /\ \A j \in 1..(i - 1) : (a \o b)[j] = a[j]
      /\ \A j \in 1..(n - i) : (a \o b)[i - 1 + j] = b[j]
  <2>1. /\ a \o b \in Seq(S) /\ Len(a \o b) = Len(a) + Len(b)
        /\ \A j \in 1..(Len(a) + Len(b)) :
              (a \o b)[j] = IF j <= Len(a) THEN a[j] ELSE b[j - Len(a)]
    BY <1>1, <1>2, ConcatProperties
  <2>2. /\ a \o b \in Seq(S) /\ Len(a \o b) = n - 1
        /\ \A j \in 1..(n - 1) : (a \o b)[j] = IF j <= i - 1 THEN a[j] ELSE b[j - (i - 1)]
    <3>1. Len(a) + Len(b) = n - 1
      BY <1>0, <1>1, <1>2
    <3> QED BY <1>1, <2>1, <3>1
  <2>3. ASSUME NEW j \in 1..(i - 1) PROVE (a \o b)[j] = a[j]
    <3>1. j \in 1..(n - 1) /\ j <= i - 1
      BY <1>0
    <3> QED BY <2>2, <3>1
  <2>4. ASSUME NEW j \in 1..(n - i) PROVE (a \o b)[i - 1 + j] = b[j]
    <3>1. /\ i - 1 + j \in 1..(n - 1) /\ ~(i - 1 + j <= i - 1)
          /\ (i - 1 + j) - (i - 1) = j
      BY <1>0
    <3> QED BY <2>2, <3>1
  <2> QED BY <2>2, <2>3, <2>4
<1>5. ASSUME NEW j \in 1..(n - 1) PROVE \E k \in 1..n : (a \o b)[j] = s[k]
  <2>1. CASE j <= i - 1
    <3>1. j \in 1..(i - 1) /\ j \in 1..n
      BY <1>0, <2>1
    <3> QED BY <1>1, <1>4, <3>1
  <2>2. CASE j > i - 1
    <3>1. PICK k \in 1..(n - i) : j = i - 1 + k
      <4>1. j - (i - 1) \in 1..(n - i) /\ j = i - 1 + (j - (i - 1))
        BY <1>0, <2>2
      <4> QED BY <4>1
    <3>2. (a \o b)[j] = s[i + k] /\ i + k \in 1..n
      <4>1. (a \o b)[i - 1 + k] = b[k] /\ b[k] = s[i + k]
        BY <1>2, <1>4
      <4>2. i + k \in 1..n
        BY <1>0
      <4> QED BY <3>1, <4>1, <4>2
    <3> QED BY <3>2
  <2>3. j <= i - 1 \/ j > i - 1
    BY <1>0
  <2> QED BY <2>1, <2>2, <2>3
<1> QED BY <1>3, <1>4, <1>5 DEF n

(* What the cache holds after an entry leaves it. *)
LEMMA WithoutKeeps ==
  ASSUME cache \in Seq(Entry), NEW wallet
  PROVE  /\ Without(wallet) \in Seq(Entry)
         /\ \A j \in 1..Len(Without(wallet)) : \E k \in 1..Len(cache) : Without(wallet)[j] = cache[k]
<1>1. CASE Hits(wallet) = {}
  BY <1>1 DEF Without
<1>2. CASE Hits(wallet) # {}
  <2>1. PICK i \in Hits(wallet) : i = CHOOSE k \in Hits(wallet) : TRUE
    BY <1>2
  <2>2. i \in 1..Len(cache)
    BY <2>1 DEF Hits
  <2>3. Without(wallet) = RemoveAt(cache, i)
    BY <1>2, <2>1 DEF Without
  <2> QED BY <2>2, <2>3, RemoveAtKeeps
<1> QED BY <1>1, <1>2

(* An answer is entered; every other entry was there before. *)
LEMMA CachedKeeps ==
  ASSUME cache \in Seq(Entry), NEW wallet \in Wallets, NEW standing \in Standings, NEW asked \in Int
  PROVE  /\ Cached(wallet, standing, asked) \in Seq(Entry)
         /\ \A j \in 1..Len(Cached(wallet, standing, asked)) :
              \/ Cached(wallet, standing, asked)[j]
                   = [wallet |-> wallet, standing |-> standing, expires |-> asked + Ttl(standing)]
              \/ \E k \in 1..Len(cache) : Cached(wallet, standing, asked)[j] = cache[k]
<1> DEFINE kept == IF cache # <<>> /\ Len(cache) >= MAX_ENTRIES THEN Tail(cache) ELSE cache
           e == [wallet |-> wallet, standing |-> standing, expires |-> asked + Ttl(standing)]
           put == [i \in DOMAIN kept |-> IF kept[i].wallet = wallet THEN e ELSE kept[i]]
<1>1. e \in Entry
  <2>1. Ttl(standing) \in Int
    BY LifetimesAreTimes DEF Ttl
  <2> QED BY <2>1 DEF Entry
<1>2. /\ kept \in Seq(Entry)
      /\ \A j \in 1..Len(kept) : \E k \in 1..Len(cache) : kept[j] = cache[k]
  <2>1. CASE cache # <<>>
    <3>1. /\ Tail(cache) \in Seq(Entry) /\ Len(Tail(cache)) = Len(cache) - 1
          /\ \A j \in 1..(Len(cache) - 1) : Tail(cache)[j] = cache[j + 1]
      BY <2>1
    <3>2. \A j \in 1..(Len(cache) - 1) : j + 1 \in 1..Len(cache)
      OBVIOUS
    <3> QED BY <3>1, <3>2
  <2>2. CASE cache = <<>>
    BY <2>2
  <2> QED BY <2>1, <2>2
<1>3. Cached(wallet, standing, asked)
        = IF \E i \in DOMAIN kept : kept[i].wallet = wallet THEN put ELSE Append(kept, e)
  BY DEF Cached, CacheExpiry
<1> HIDE DEF e, kept
<1>4. CASE \E i \in DOMAIN kept : kept[i].wallet = wallet
  <2>1. put \in [1..Len(kept) -> Entry] /\ Len(kept) \in Nat
    BY <1>1, <1>2
  <2>2. \A j \in 1..Len(kept) : put[j] = e \/ put[j] = kept[j]
    BY <1>2
  <2> HIDE DEF put
  <2>3. put \in Seq(Entry) /\ Len(put) = Len(kept)
    BY <2>1
  <2> QED BY <1>2, <1>3, <1>4, <2>2, <2>3 DEF e
<1>5. CASE ~(\E i \in DOMAIN kept : kept[i].wallet = wallet)
  <2>1. /\ Append(kept, e) \in Seq(Entry) /\ Len(Append(kept, e)) = Len(kept) + 1
        /\ Append(kept, e)[Len(kept) + 1] = e
        /\ \A j \in 1..Len(kept) : Append(kept, e)[j] = kept[j]
    BY <1>1, <1>2
  <2>2. \A j \in 1..(Len(kept) + 1) : j = Len(kept) + 1 \/ j \in 1..Len(kept)
    BY <1>2
  <2> QED BY <1>2, <1>3, <1>5, <2>1, <2>2 DEF e
<1> QED BY <1>4, <1>5

-----------------------------------------------------------------------------
(* What each action does to its request.                                   *)

LEMMA JobsFrame ==
  ASSUME JobsOK, clock' = clock, NEW j \in Slots, OnlySlot(j), JobOK(job'[j])
  PROVE  JobsOK'
<1>1. \A k \in Slots : JobOK(job'[k])
  BY DEF JobsOK, OnlySlot
<1>2. \A k \in Slots : JobOK(job[k])'
  BY <1>1 DEF JobOK
<1> QED BY <1>2 DEF JobsOK, OnlySlot

(* A request that only changed in what is allowed at its stage. *)
LEMMA JobKept ==
  ASSUME TypeOK, NEW j \in Slots, Running(j), NEW r \in InFlight,
         r.req = job[j].req, r.window = job[j].window, r.asked <= clock,
         r.pc # "rate" => r.code = "ok" /\ r.tier = "anonymous",
         r.pc \in {"signature", "lookup", "answer", "nonce"} => Passed(r),
         r.pc = "rate" /\ r.tier = "human-backed" => Readable(r.req)
  PROVE  JobOK(r)
BY JobTyped DEF JobOK, Running

LEMMA DoneMoves ==
  ASSUME TypeOK, NEW j \in Slots, NEW status, NEW bucket,
         job' = [job EXCEPT ![j] = Done(status, bucket)]
  PROVE  /\ OnlySlot(j) /\ JobOK(job'[j]) /\ job'[j].pc = "done"
         /\ job'[j].response.status = status
         /\ status = 429 => job'[j].refusedAt = bucket
<1>1. /\ Done(status, bucket).pc = "done" /\ Done(status, bucket).response.status = status
      /\ status = 429 => Done(status, bucket).refusedAt = bucket
  BY DEF Done, Response
<1>2. OnlySlot(j) /\ job'[j] = Done(status, bucket)
  BY SlotMoves DEF TypeOK
<1> QED BY <1>1, <1>2 DEF JobOK

LEMMA WindowStarts ==
  ASSUME clock \in Nat
  PROVE  WindowStart(clock) \in Int /\ WindowStart(clock) <= clock
<1>1. WINDOW \in Nat /\ WINDOW > 0
  BY ConfigurationAccepted
<1>2. clock \div WINDOW \in Nat /\ WINDOW * (clock \div WINDOW) <= clock
  BY <1>1
<1>3. WindowStart(clock) = WINDOW * (clock \div WINDOW)
  BY <1>1, <1>2 DEF WindowStart
<1> QED BY <1>1, <1>2, <1>3

LEMMA ArriveMoves ==
  ASSUME TypeOK, NEW j \in Slots, NEW req \in Requests, Arrive(j, req)
  PROVE  OnlySlot(j) /\ JobOK(job'[j]) /\ job'[j].pc \in {"budget", "verify"}
<1> DEFINE pc == IF /\ COUNTING /\ VerificationLimit # None
                    /\ ~ConflictingHeader(req) /\ ProofHeader(req) # None
                 THEN "budget" ELSE "verify"
           r == [pc |-> pc, req |-> req, window |-> WindowStart(clock), checked |-> 0,
                 asked |-> 0, standing |-> "unregistered", tier |-> "anonymous", code |-> "ok"]
<1>1. OnlySlot(j) /\ job'[j] = r
  <2>1. job' = [job EXCEPT ![j] = r]
    BY DEF Arrive
  <2> HIDE DEF r
  <2> QED BY <2>1, SlotMoves DEF TypeOK
<1>2. pc \in {"budget", "verify"}
  OBVIOUS
<1> HIDE DEF pc
<1>3. r \in InFlight
  BY <1>2, WindowStarts DEF InFlight, Pcs, Standings, Tiers, Codes, StandingCodes, TypeOK
<1>4. JobOK(r)
  BY <1>2, <1>3, WindowStarts DEF JobOK, TypeOK
<1> QED BY <1>1, <1>2, <1>4

LEMMA BudgetMoves ==
  ASSUME TypeOK, NEW j \in Slots, Budget(j)
  PROVE  /\ OnlySlot(j) /\ JobOK(job'[j])
         /\ job'[j].pc \in {"verify", "done"}
         /\ job'[j].pc = "done" => /\ ~Allowed(BudgetBucket(j), VerificationLimit)
                                   /\ job'[j].refusedAt = BudgetBucket(j)
<1>1. Running(j) /\ job[j].pc = "budget"
  BY DEF Budget, Running
<1>2. CASE Allowed(BudgetBucket(j), VerificationLimit)
  <2>1. Goto(j, "verify")
    BY <1>2 DEF Budget
  <2>2. /\ OnlySlot(j) /\ job'[j] \in InFlight /\ job'[j].pc = "verify"
        /\ job'[j].req = job[j].req /\ job'[j].window = job[j].window
        /\ job'[j].asked = job[j].asked /\ job'[j].tier = job[j].tier /\ job'[j].code = job[j].code
    BY <1>1, <2>1, GotoMoves DEF Pcs
  <2>3. job[j].asked <= clock /\ job[j].tier = "anonymous" /\ job[j].code = "ok"
    BY <1>1, JobTyped DEF JobOK, Running
  <2>4. JobOK(job'[j])
    BY <1>1, <2>2, <2>3, JobKept
  <2> QED BY <2>2, <2>4
<1>3. CASE ~Allowed(BudgetBucket(j), VerificationLimit)
  BY <1>3, DoneMoves DEF Budget
<1> QED BY <1>2, <1>3

LEMMA BudgetFailsMoves ==
  ASSUME TypeOK, NEW j \in Slots, BudgetFails(j)
  PROVE  OnlySlot(j) /\ JobOK(job'[j]) /\ job'[j].pc = "verify"
<1>1. Running(j) /\ job[j].pc = "budget"
  BY DEF BudgetFails, Running
<1>2. /\ OnlySlot(j) /\ job'[j] \in InFlight /\ job'[j].pc = "verify"
      /\ job'[j].req = job[j].req /\ job'[j].window = job[j].window
      /\ job'[j].asked = job[j].asked /\ job'[j].tier = job[j].tier /\ job'[j].code = job[j].code
  BY <1>1, GotoMoves DEF Pcs, BudgetFails
<1>3. job[j].asked <= clock /\ job[j].tier = "anonymous" /\ job[j].code = "ok"
  BY <1>1, JobTyped DEF JobOK, Running
<1>4. JobOK(job'[j])
  BY <1>1, <1>2, <1>3, JobKept
<1> QED BY <1>2, <1>4

(* A request that was refused its tier, by the verifier or by a failure. *)
LEMMA AnonymousMoves ==
  ASSUME TypeOK, NEW j \in Slots, Running(j), NEW code \in Codes, Verdict(j, "anonymous", code)
  PROVE  /\ OnlySlot(j) /\ JobOK(job'[j]) /\ job'[j].pc = "rate"
         /\ job'[j].req = job[j].req /\ job'[j].asked = job[j].asked
         /\ job'[j].standing = job[j].standing /\ job'[j].code = code
<1>1. /\ OnlySlot(j) /\ job'[j] \in InFlight /\ job'[j].pc = "rate"
      /\ job'[j].req = job[j].req /\ job'[j].window = job[j].window
      /\ job'[j].asked = job[j].asked /\ job'[j].standing = job[j].standing
      /\ job'[j].tier = "anonymous" /\ job'[j].code = code
  BY VerdictMoves DEF Tiers
<1>2. job[j].asked <= clock
  BY JobTyped DEF JobOK, Running
<1>3. JobOK(job'[j])
  BY <1>1, <1>2, JobKept
<1> QED BY <1>1, <1>3


(* A request in its checks: it has no standing to be judged by yet. *)
LEMMA CheckingStage ==
  ASSUME TypeOK, NEW j \in Slots, job[j].pc \in Pcs \ {"rate"}
  PROVE  /\ Running(j) /\ job[j] \in InFlight /\ job[j].asked <= clock
         /\ job[j].code = "ok" /\ job[j].tier = "anonymous"
BY JobTyped DEF Running, Pcs, JobOK

LEMMA VerifyMoves ==
  ASSUME TypeOK, NEW j \in Slots, Verify(j)
  PROVE  /\ OnlySlot(j) /\ JobOK(job'[j]) /\ job'[j].req = job[j].req
         /\ \/ job'[j].pc = "rate" /\ job'[j].code \notin StandingCodes
            \/ job'[j].pc = "signature"
<1> DEFINE req == job[j].req
           code == ProofCode(req)
<1>1. /\ job[j].pc = "verify" /\ Running(j) /\ job[j] \in InFlight /\ job[j].asked <= clock
      /\ job[j].code = "ok" /\ job[j].tier = "anonymous"
  BY CheckingStage DEF Verify, Pcs
<1>2. req \in Requests
  BY <1>1 DEF InFlight
<1>3. clock \in Int
  BY DEF TypeOK
<1>4. CASE code # "ok"
  <2>1. code \in ProofFaults
    BY <1>4, ProofCodes
  <2>2. Verdict(j, "anonymous", code)
    BY <1>4 DEF Verify
  <2>3. code \in Codes /\ code \notin StandingCodes
    BY <2>1 DEF ProofFaults, FieldFaults, Codes, StandingCodes
  <2> HIDE DEF code, req
  <2> QED BY <1>1, <2>2, <2>3, AnonymousMoves DEF req
<1>5. CASE code = "ok"
  <2>1. Readable(req) /\ clock < Expires(req)
    BY <1>2, <1>3, <1>5, CheckedIsReadable
  <2> DEFINE r == [job[j] EXCEPT !.pc = "signature", !.checked = clock]
  <2>2. job' = [job EXCEPT ![j] = r]
    BY <1>5 DEF Verify
  <2> HIDE DEF code, req
  <2>3. /\ r \in InFlight /\ r.req = job[j].req /\ r.window = job[j].window
        /\ r.asked = job[j].asked /\ r.pc = "signature" /\ r.checked = clock
        /\ r.code = job[j].code /\ r.tier = job[j].tier
    BY <1>1, <1>3 DEF InFlight, Pcs
  <2> HIDE DEF r
  <2>4. JobOK(r)
    BY <1>1, <2>1, <2>3, JobKept DEF req, Passed
  <2>5. OnlySlot(j) /\ job'[j] = r
    BY <2>2, SlotMoves DEF TypeOK
  <2> QED BY <2>3, <2>4, <2>5
<1> QED BY <1>4, <1>5

LEMMA RecoverMoves ==
  ASSUME TypeOK, NEW j \in Slots, Recover(j)
  PROVE  /\ OnlySlot(j) /\ JobOK(job'[j]) /\ job'[j].req = job[j].req
         /\ \/ /\ job'[j].pc = "rate" /\ job'[j].code \notin StandingCodes /\ cache' = cache
            \/ /\ job'[j].pc \in {"nonce", "rate"} /\ job'[j].asked = clock /\ cache' = cache
               /\ \E i \in Fresh(Wallet(job[j].req)) : job'[j].standing = cache[i].standing
            \/ job'[j].pc = "lookup" /\ cache' = Without(Wallet(job[j].req))
<1> DEFINE req == job[j].req
           code == SignatureCode(req)
           standing == cache[CHOOSE i \in Fresh(Wallet(req)) : TRUE].standing
<1>1. /\ job[j].pc = "signature" /\ Running(j) /\ job[j] \in InFlight /\ job[j].asked <= clock
      /\ job[j].code = "ok" /\ job[j].tier = "anonymous"
  BY CheckingStage DEF Recover, Pcs
<1>2. Passed(job[j])
  BY <1>1, JobTyped DEF JobOK, Running
<1>3. clock \in Int
  BY DEF TypeOK
<1>4. CASE code # "ok"
  <2>1. code \in {"signature_malformed", "signature_mismatch"}
    BY <1>4, SignatureCodes
  <2>2. Verdict(j, "anonymous", code) /\ cache' = cache
    BY <1>4 DEF Recover
  <2>3. code \in Codes /\ code \notin StandingCodes
    BY <2>1 DEF ProofFaults, FieldFaults, Codes, StandingCodes
  <2> HIDE DEF code, req
  <2> QED BY <1>1, <2>2, <2>3, AnonymousMoves DEF req
<1>5. CASE code = "ok" /\ Fresh(Wallet(req)) # {}
  <2>1. PICK i \in Fresh(Wallet(req)) : standing = cache[i].standing
    BY <1>5
  <2>2. standing \in Standings
    <3>1. i \in 1..Len(cache) /\ cache[i] \in Entry
      BY <2>1 DEF Fresh, Hits, TypeOK
    <3> QED BY <2>1, <3>1 DEF Entry
  <2> HIDE DEF standing, code, req
  <2> DEFINE pc == IF StandingCode(standing) = "ok" THEN "nonce" ELSE "rate"
             r == [job[j] EXCEPT !.asked = clock, !.standing = standing,
                                 !.pc = pc, !.code = StandingCode(standing)]
  <2>4. job' = [job EXCEPT ![j] = r] /\ cache' = cache
    BY <1>5 DEF Recover, code, req, standing
  <2>5. /\ pc \in {"nonce", "rate"} /\ StandingCode(standing) \in StandingCodes
        /\ pc = "nonce" => StandingCode(standing) = "ok"
    BY DEF StandingCode, StandingCodes
  <2>6. pc \in Pcs /\ StandingCode(standing) \in Codes
    BY <2>5 DEF Pcs, Codes
  <2> HIDE DEF pc
  <2>7. /\ r \in InFlight /\ r.req = job[j].req /\ r.window = job[j].window
        /\ r.asked = clock /\ r.standing = standing /\ r.pc = pc
        /\ r.code = StandingCode(standing) /\ r.tier = job[j].tier
        /\ r.checked = job[j].checked
    BY <1>1, <1>3, <2>2, <2>6 DEF InFlight
  <2> HIDE DEF r
  <2>8. JobOK(r)
    <3>1. /\ r.asked <= clock /\ r.tier = "anonymous"
          /\ r.pc # "rate" => r.code = "ok"
          /\ Passed(r)
      BY <1>1, <1>2, <1>3, <2>5, <2>7 DEF Passed
    <3> QED BY <1>1, <2>7, <3>1, JobKept
  <2>9. OnlySlot(j) /\ job'[j] = r
    BY <2>4, SlotMoves DEF TypeOK
  <2> QED BY <2>1, <2>4, <2>5, <2>7, <2>8, <2>9 DEF req
<1>6. CASE code = "ok" /\ Fresh(Wallet(req)) = {}
  <2> DEFINE r == [job[j] EXCEPT !.pc = "lookup", !.asked = clock]
  <2>2. job' = [job EXCEPT ![j] = r] /\ cache' = Without(Wallet(req))
    BY <1>6 DEF Recover
  <2> HIDE DEF code, req
  <2>3. /\ r \in InFlight /\ r.req = job[j].req /\ r.window = job[j].window
        /\ r.asked = clock /\ r.pc = "lookup" /\ r.checked = job[j].checked
        /\ r.code = job[j].code /\ r.tier = job[j].tier
    BY <1>1, <1>3 DEF InFlight, Pcs
  <2> HIDE DEF r
  <2>4. JobOK(r)
    BY <1>1, <1>2, <1>3, <2>3, JobKept DEF Passed
  <2>5. OnlySlot(j) /\ job'[j] = r
    BY <2>2, SlotMoves DEF TypeOK
  <2> QED BY <2>2, <2>3, <2>4, <2>5 DEF req
<1> QED BY <1>4, <1>5, <1>6

LEMMA ReadAgentBookMoves ==
  ASSUME TypeOK, NEW j \in Slots, ReadAgentBook(j)
  PROVE  /\ OnlySlot(j) /\ JobOK(job'[j]) /\ job'[j].pc = "answer"
         /\ Wallet(job[j].req) \in Wallets
         /\ job'[j].req = job[j].req /\ job'[j].asked <= clock
         /\ job'[j].standing = agentBook[Wallet(job[j].req)]
<1>1. /\ job[j].pc = "lookup" /\ Running(j) /\ job[j] \in InFlight /\ job[j].asked <= clock
      /\ job[j].code = "ok" /\ job[j].tier = "anonymous"
  BY CheckingStage DEF ReadAgentBook, Pcs
<1>2. Passed(job[j])
  BY <1>1, JobTyped DEF JobOK, Running
<1> DEFINE standing == agentBook[Wallet(job[j].req)]
           r == [job[j] EXCEPT !.pc = "answer", !.standing = standing]
<1>3. standing \in Standings /\ Wallet(job[j].req) \in Wallets
  BY <1>2 DEF Passed, Readable, TypeOK
<1>4. job' = [job EXCEPT ![j] = r]
  BY DEF ReadAgentBook
<1> HIDE DEF standing
<1>5. /\ r \in InFlight /\ r.req = job[j].req /\ r.window = job[j].window
      /\ r.asked = job[j].asked /\ r.pc = "answer" /\ r.standing = standing
      /\ r.code = job[j].code /\ r.tier = job[j].tier /\ r.checked = job[j].checked
  BY <1>1, <1>3 DEF InFlight, Pcs
<1> HIDE DEF r
<1>6. JobOK(r)
  BY <1>1, <1>2, <1>5, JobKept DEF Passed
<1>7. OnlySlot(j) /\ job'[j] = r
  BY <1>4, SlotMoves DEF TypeOK
<1> QED BY <1>1, <1>3, <1>5, <1>6, <1>7 DEF standing

LEMMA AgentBookFailsMoves ==
  ASSUME TypeOK, NEW j \in Slots, AgentBookFails(j)
  PROVE  /\ OnlySlot(j) /\ JobOK(job'[j]) /\ job'[j].pc = "rate"
         /\ job'[j].code \notin StandingCodes
<1>1. Running(j)
  BY DEF AgentBookFails, Running
<1>2. "agentbook_unavailable" \in Codes /\ "agentbook_unavailable" \notin StandingCodes
  BY DEF Codes, OtherFaults, StandingCodes
<1> QED BY <1>1, <1>2, AnonymousMoves DEF AgentBookFails

LEMMA AnswerMoves ==
  ASSUME TypeOK, NEW j \in Slots, Answer(j)
  PROVE  /\ OnlySlot(j) /\ JobOK(job'[j]) /\ job'[j].pc \in {"nonce", "rate"}
         /\ Wallet(job[j].req) \in Wallets /\ job[j].asked \in Int
         /\ job[j].standing \in Standings
         /\ job'[j].req = job[j].req /\ job'[j].asked = job[j].asked
         /\ job'[j].standing = job[j].standing
<1>1. /\ job[j].pc = "answer" /\ Running(j) /\ job[j] \in InFlight /\ job[j].asked <= clock
      /\ job[j].code = "ok" /\ job[j].tier = "anonymous"
  BY CheckingStage DEF Answer, Pcs
<1>2. Passed(job[j])
  BY <1>1, JobTyped DEF JobOK, Running
<1>3. Wallet(job[j].req) \in Wallets /\ job[j].asked \in Int /\ job[j].standing \in Standings
  BY <1>1, <1>2 DEF Passed, Readable, InFlight
<1>4. CASE StandingCode(job[j].standing) = "ok"
  <2>1. Goto(j, "nonce")
    BY <1>4 DEF Answer, Judge
  <2>2. /\ OnlySlot(j) /\ job'[j] \in InFlight /\ job'[j].pc = "nonce"
        /\ job'[j].req = job[j].req /\ job'[j].window = job[j].window
        /\ job'[j].asked = job[j].asked /\ job'[j].standing = job[j].standing
        /\ job'[j].tier = job[j].tier /\ job'[j].code = job[j].code
        /\ job'[j].checked = job[j].checked
    BY <1>1, <2>1, GotoMoves DEF Pcs
  <2>3. JobOK(job'[j])
    BY <1>1, <1>2, <2>2, JobKept DEF Passed
  <2> QED BY <1>3, <2>2, <2>3
<1>5. CASE StandingCode(job[j].standing) # "ok"
  <2>1. StandingCode(job[j].standing) \in Codes
    BY DEF StandingCode, Codes, StandingCodes
  <2>2. Verdict(j, "anonymous", StandingCode(job[j].standing))
    BY <1>5 DEF Answer, Judge
  <2> QED BY <1>1, <1>3, <2>1, <2>2, AnonymousMoves
<1> QED BY <1>4, <1>5

LEMMA ConsumeMoves ==
  ASSUME TypeOK, NEW j \in Slots, Consume(j)
  PROVE  /\ OnlySlot(j) /\ JobOK(job'[j]) /\ job'[j].pc = "rate"
         /\ Passed(job[j]) /\ job'[j].req = job[j].req
         /\ job'[j].asked = job[j].asked /\ job'[j].standing = job[j].standing
         /\ job[j].pc = "nonce" /\ job[j].code = "ok"
<1>1. /\ job[j].pc = "nonce" /\ Running(j) /\ job[j] \in InFlight /\ job[j].asked <= clock
      /\ job[j].code = "ok" /\ job[j].tier = "anonymous"
  BY CheckingStage DEF Consume, Pcs
<1>2. Passed(job[j])
  BY <1>1, JobTyped DEF JobOK, Running
<1>3. CASE Replayed(KeyOf(job[j].req))
  <2>1. "nonce_replayed" \in Codes
    BY DEF Codes, OtherFaults
  <2>2. Verdict(j, "anonymous", "nonce_replayed")
    BY <1>3 DEF Consume
  <2> QED BY <1>1, <1>2, <2>1, <2>2, AnonymousMoves
<1>4. CASE ~Replayed(KeyOf(job[j].req))
  <2>1. Verdict(j, "human-backed", "ok")
    BY <1>4 DEF Consume
  <2>2. /\ OnlySlot(j) /\ job'[j] \in InFlight /\ job'[j].pc = "rate"
        /\ job'[j].req = job[j].req /\ job'[j].window = job[j].window
        /\ job'[j].asked = job[j].asked /\ job'[j].standing = job[j].standing
    BY <1>1, <2>1, VerdictMoves DEF Tiers, Codes, StandingCodes
  <2>3. JobOK(job'[j])
    BY <1>1, <1>2, <2>2, JobKept DEF Passed
  <2> QED BY <1>1, <1>2, <2>2, <2>3
<1> QED BY <1>3, <1>4

LEMMA ConsumeFailsMoves ==
  ASSUME TypeOK, NEW j \in Slots, ConsumeFails(j)
  PROVE  /\ OnlySlot(j) /\ JobOK(job'[j]) /\ job'[j].pc = "rate"
         /\ job'[j].code \notin StandingCodes
<1>1. Running(j)
  BY DEF ConsumeFails, Running
<1>2. "nonce_store_unavailable" \in Codes /\ "nonce_store_unavailable" \notin StandingCodes
  BY DEF Codes, OtherFaults, StandingCodes
<1> QED BY <1>1, <1>2, AnonymousMoves DEF ConsumeFails

LEMMA RateMoves ==
  ASSUME TypeOK, NEW j \in Slots, Rate(j)
  PROVE  /\ OnlySlot(j) /\ JobOK(job'[j]) /\ job'[j].pc = "done"
         /\ job'[j].response.status = 429 =>
              /\ ~Allowed(Bucket(j), Limit(job[j].tier))
              /\ job'[j].refusedAt = Bucket(j)
<1> DEFINE ok == Allowed(Bucket(j), Limit(job[j].tier))
<1>1. job' = [job EXCEPT ![j] = Done(Status(j, ok), Bucket(j))]
  BY DEF Rate
<1>2. Status(j, ok) = 429 => ~ok
  BY DEF Status
<1> DEFINE status == Status(j, ok)
           bucket == Bucket(j)
<1>3. job' = [job EXCEPT ![j] = Done(status, bucket)] /\ (status = 429 => ~ok)
  BY <1>1, <1>2
<1> HIDE DEF status, bucket
<1>4. /\ OnlySlot(j) /\ JobOK(job'[j]) /\ job'[j].pc = "done"
      /\ job'[j].response.status = status
      /\ status = 429 => job'[j].refusedAt = bucket
  <2>1. OnlySlot(j) /\ job'[j] = Done(status, bucket)
    BY <1>3, SlotMoves DEF TypeOK
  <2>2. Done(status, bucket).pc = "done"
    BY DEF Done
  <2>3. Done(status, bucket).response.status = status
    BY DEF Done, Response
  <2>4. status = 429 => Done(status, bucket).refusedAt = bucket
    BY DEF Done
  <2>5. JobOK(job'[j])
    BY <2>1, <2>2 DEF JobOK
  <2> QED BY <2>1, <2>2, <2>3, <2>4, <2>5
<1> QED BY <1>3, <1>4 DEF ok, bucket

LEMMA RateUncountedMoves ==
  ASSUME TypeOK, NEW j \in Slots, RateUncounted(j)
  PROVE  /\ OnlySlot(j) /\ JobOK(job'[j]) /\ job'[j].pc = "done"
         /\ job'[j].response.status # 429
<1>1. job' = [job EXCEPT ![j] = Done(Status(j, TRUE), Bucket(j))]
  BY DEF RateUncounted
<1>2. Status(j, TRUE) # 429
  BY DEF Status
<1> QED BY <1>1, <1>2, DoneMoves


-----------------------------------------------------------------------------
(* The typing is an invariant.                                             *)

ByRequest(j) ==
  \/ \E c \in Carriers, header \in ProofHeaders : Arrive(j, Request(c, header))
  \/ Budget(j) \/ BudgetFails(j) \/ Verify(j) \/ Recover(j)
  \/ ReadAgentBook(j) \/ AgentBookFails(j) \/ Answer(j)
  \/ Consume(j) \/ ConsumeFails(j) \/ Rate(j) \/ RateUncounted(j)

LEMMA RequestMoves ==
  ASSUME TypeOK, NEW j \in Slots, ByRequest(j)
  PROVE  OnlySlot(j) /\ JobOK(job'[j])
<1>1. ASSUME NEW c \in Carriers, NEW header \in ProofHeaders, Arrive(j, Request(c, header))
      PROVE  OnlySlot(j) /\ JobOK(job'[j])
  <2>1. Request(c, header) \in Requests
    BY DEF Requests
  <2> QED BY <1>1, <2>1, ArriveMoves
<1> QED BY <1>1, BudgetMoves, BudgetFailsMoves, VerifyMoves, RecoverMoves, ReadAgentBookMoves,
           AgentBookFailsMoves, AnswerMoves, ConsumeMoves, ConsumeFailsMoves,
           RateMoves, RateUncountedMoves DEF ByRequest

LEMMA RequestFrame ==
  ASSUME NEW j \in Slots, ByRequest(j)
  PROVE  clock' = clock /\ agentBook' = agentBook /\ lastWas' = lastWas
BY DEF ByRequest, Arrive, Budget, BudgetFails, Verify, Recover, ReadAgentBook, AgentBookFails, Answer,
       Consume, ConsumeFails, Rate, RateUncounted, World, Observed

LEMMA CacheMoves ==
  ASSUME NEW j \in Slots, ByRequest(j)
  PROVE  \/ cache' = cache
         \/ Recover(j) /\ cache' = Without(Wallet(job[j].req))
         \/ Answer(j) /\ cache' = Cached(Wallet(job[j].req), job[j].standing, job[j].asked)
BY DEF ByRequest, Arrive, Budget, BudgetFails, Verify, Recover, ReadAgentBook, AgentBookFails, Answer,
       Consume, ConsumeFails, Rate, RateUncounted

LEMMA TypeInit == Init => TypeOK
<1> SUFFICES ASSUME Init PROVE TypeOK
  OBVIOUS
<1>1. clock \in Nat /\ cache \in Seq(Entry)
  BY DEF Init
<1>2. agentBook \in [Wallets -> Standings]
  BY DEF Init, Standings
<1>3. lastWas = [w \in Wallets |-> [s \in Standings |-> -1]] /\ clock = 0
  BY DEF Init
<1>4. job = [j \in Slots |-> Idle]
  BY DEF Init
<1>5. JobsOK
  BY <1>4 DEF JobsOK, JobOK, Idle
<1> QED BY <1>1, <1>2, <1>3, <1>5 DEF TypeOK

LEMMA TypeStep == TypeOK /\ [Next]_vars => TypeOK'
<1> SUFFICES ASSUME TypeOK, [Next]_vars PROVE TypeOK'
  OBVIOUS
<1>1. ASSUME NEW j \in Slots, ByRequest(j) PROVE TypeOK'
  <2>1. clock' = clock /\ agentBook' = agentBook /\ lastWas' = lastWas
    BY <1>1, RequestFrame
  <2>2. JobsOK'
    BY <1>1, <2>1, RequestMoves, JobsFrame DEF TypeOK
  <2>3. cache' \in Seq(Entry)
    <3>1. CASE cache' = cache
      BY <3>1 DEF TypeOK
    <3>2. CASE cache' = Without(Wallet(job[j].req))
      BY <3>2, WithoutKeeps DEF TypeOK
    <3>3. CASE /\ Answer(j)
               /\ cache' = Cached(Wallet(job[j].req), job[j].standing, job[j].asked)
      <4>1. /\ Wallet(job[j].req) \in Wallets /\ job[j].asked \in Int
            /\ job[j].standing \in Standings
        BY <3>3, AnswerMoves
      <4> QED BY <3>3, <4>1, CachedKeeps DEF TypeOK
    <3> QED BY <1>1, <3>1, <3>2, <3>3, CacheMoves
  <2> QED BY <2>1, <2>2, <2>3 DEF TypeOK
<1>2. CASE Tick
  <2>1. /\ clock' = clock + 1 /\ agentBook' = agentBook /\ lastWas' = lastWas
        /\ cache' = cache /\ job' = job /\ clock \in Nat
    BY <1>2 DEF Tick, Observed, TypeOK
  <2>2. \A j \in Slots : JobOK(job[j])'
    <3> SUFFICES ASSUME NEW j \in Slots, job[j].pc \notin {"idle", "done"}
                 PROVE  job[j].asked <= clock + 1 /\ job[j].window <= clock + 1 /\ JobOK(job[j])
      BY <2>1 DEF JobOK
    <3>1. /\ job[j].asked \in Int /\ job[j].window \in Int /\ JobOK(job[j])
      BY JobTyped DEF Running
    <3>2. job[j].asked <= clock /\ job[j].window <= clock
      BY <3>1 DEF JobOK
    <3> QED BY <2>1, <3>1, <3>2
  <2>3. JobsOK'
    BY <2>1, <2>2 DEF JobsOK, TypeOK
  <2>4. \A w \in Wallets, s \in Standings : lastWas[w][s] <= clock + 1
    <3> TAKE w \in Wallets, s \in Standings
    <3>1. lastWas[w][s] \in Int /\ lastWas[w][s] <= clock
      BY DEF TypeOK
    <3> QED BY <2>1, <3>1
  <2> QED BY <2>1, <2>3, <2>4 DEF TypeOK
<1>3. ASSUME NEW w \in Wallets, NEW s \in Standings, ChangeStanding(w, s) PROVE TypeOK'
  <2>1. /\ clock' = clock /\ cache' = cache /\ job' = job
        /\ agentBook' = [agentBook EXCEPT ![w] = s]
        /\ lastWas' = [lastWas EXCEPT ![w][agentBook[w]] = clock]
    BY <1>3 DEF ChangeStanding
  <2>2. JobsOK'
    BY <2>1 DEF JobsOK, JobOK, TypeOK
  <2>3. agentBook' \in [Wallets -> Standings] /\ lastWas' \in [Wallets -> [Standings -> Int]]
    BY <2>1 DEF TypeOK
  <2>4. ASSUME NEW x \in Wallets, NEW y \in Standings PROVE lastWas'[x][y] <= clock
    BY <2>1 DEF TypeOK
  <2> QED BY <2>1, <2>2, <2>3, <2>4 DEF TypeOK
<1>4. CASE UNCHANGED vars
  BY <1>4 DEF vars, TypeOK, JobsOK, JobOK
<1> QED BY <1>1, <1>2, <1>3, <1>4 DEF Next, ByRequest


-----------------------------------------------------------------------------
(* A proof is spent again only across its expiry.                          *)

(* The fact the store keeps for an honoured proof. *)
KeptUntilExpiry(p) ==
  clock < ExpiryOf(p) => SpentAs(p) \in DOMAIN nonces /\ nonces[SpentAs(p)] >= ExpiryOf(p)

NoncesTyped ==
  /\ nonces = [k \in DOMAIN nonces |-> nonces[k]]
  /\ \A k \in DOMAIN nonces : nonces[k] \in Int

LEMMA SweptKeeps ==
  ASSUME clock \in Nat, NoncesTyped, nonces' = SweptNonces, clock' = clock
  PROVE  /\ NoncesTyped'
         /\ \A p : ExpiryOf(p) \in Int /\ KeptUntilExpiry(p) => KeptUntilExpiry(p)'
<1>1. \A k : k \in DOMAIN nonces' <=> k \in DOMAIN nonces /\ nonces[k] > clock
  BY DEF SweptNonces
<1>2. \A k \in DOMAIN nonces' : nonces'[k] = nonces[k]
  BY DEF SweptNonces
<1>3. NoncesTyped'
  BY <1>2 DEF NoncesTyped, SweptNonces
<1>4. ASSUME NEW p, ExpiryOf(p) \in Int, KeptUntilExpiry(p) PROVE KeptUntilExpiry(p)'
  <2> SUFFICES ASSUME clock < ExpiryOf(p)
               PROVE  SpentAs(p) \in DOMAIN nonces' /\ nonces'[SpentAs(p)] >= ExpiryOf(p)
    BY DEF KeptUntilExpiry
  <2>1. SpentAs(p) \in DOMAIN nonces /\ nonces[SpentAs(p)] >= ExpiryOf(p)
    BY <1>4 DEF KeptUntilExpiry
  <2>2. nonces[SpentAs(p)] \in Int
    BY <2>1 DEF NoncesTyped
  <2>3. nonces[SpentAs(p)] > clock
    BY <1>4, <2>1, <2>2
  <2> QED BY <1>1, <1>2, <2>1, <2>3
<1> QED BY <1>3, <1>4

LEMMA ConsumedKeeps ==
  ASSUME clock \in Nat, NoncesTyped, NEW key, NEW expires \in Int,
         ConsumeNonce(key, expires), clock' = clock
  PROVE  /\ NoncesTyped'
         /\ ~Replayed(key) => key \in DOMAIN nonces' /\ nonces'[key] = expires
         /\ \A p : ExpiryOf(p) \in Int /\ KeptUntilExpiry(p) => KeptUntilExpiry(p)'
<1> DEFINE v == IF Replayed(key) THEN nonces[key] ELSE expires
<1>1. nonces' = With(SweptNonces, key, v)
  BY DEF ConsumeNonce
<1>2. Replayed(key) <=> key \in DOMAIN nonces /\ nonces[key] > clock
  BY DEF Replayed, At
<1>3. v \in Int
  BY <1>2 DEF NoncesTyped
<1>4. /\ \A k : k \in DOMAIN nonces' <=> k = key \/ (k \in DOMAIN nonces /\ nonces[k] > clock)
      /\ nonces'[key] = v
      /\ \A k \in DOMAIN nonces' : k # key => nonces'[k] = nonces[k]
  <2> HIDE DEF v
  <2> QED BY <1>1 DEF With, SweptNonces
<1>5. NoncesTyped'
  <2>1. nonces' = [k \in DOMAIN nonces' |-> nonces'[k]]
    <3> HIDE DEF v
    <3> QED BY <1>1 DEF With
  <2>2. \A k \in DOMAIN nonces' : nonces'[k] \in Int
    <3> HIDE DEF v
    <3> QED BY <1>3, <1>4 DEF NoncesTyped
  <2> QED BY <2>1, <2>2 DEF NoncesTyped
<1>6. ASSUME NEW p, ExpiryOf(p) \in Int, KeptUntilExpiry(p) PROVE KeptUntilExpiry(p)'
  <2> SUFFICES ASSUME clock < ExpiryOf(p)
               PROVE  SpentAs(p) \in DOMAIN nonces' /\ nonces'[SpentAs(p)] >= ExpiryOf(p)
    BY DEF KeptUntilExpiry
  <2>1. SpentAs(p) \in DOMAIN nonces /\ nonces[SpentAs(p)] >= ExpiryOf(p)
    BY <1>6 DEF KeptUntilExpiry
  <2>2. nonces[SpentAs(p)] \in Int
    BY <2>1 DEF NoncesTyped
  <2>3. nonces[SpentAs(p)] > clock
    BY <1>6, <2>1, <2>2
  <2>4. SpentAs(p) \in DOMAIN nonces'
    BY <1>4, <2>1, <2>3
  <2>5. CASE SpentAs(p) = key
    BY <1>2, <1>4, <2>1, <2>3, <2>4, <2>5
  <2>6. CASE SpentAs(p) # key
    <3> HIDE DEF v
    <3> QED BY <1>4, <2>1, <2>4, <2>6
  <2> QED BY <2>5, <2>6
<1>7. ~Replayed(key) => key \in DOMAIN nonces' /\ nonces'[key] = expires
  BY <1>4
<1> QED BY <1>5, <1>6, <1>7

LEMMA StoreMoves ==
  ASSUME NEW j \in Slots, ByRequest(j)
  PROVE  \/ honoured' = honoured /\ nonces' = nonces
         \/ honoured' = honoured /\ nonces' = SweptNonces
         \/ Consume(j)
BY DEF ByRequest, Arrive, Budget, BudgetFails, Verify, Recover, ReadAgentBook, AgentBookFails, Answer,
       ConsumeFails, Rate, RateUncounted, Observed, Store, IncrementWindow

(* An acceptance after the expiry of a proof that was accepted before. *)
LEMMA UsesGrow ==
  ASSUME NEW p, NEW uses, UsesOK(p, uses),
         NEW use \in [checked: Int, used: Int, expires: Int],
         use.expires = ExpiryOf(p), use.checked < ExpiryOf(p), ExpiryOf(p) <= use.used
  PROVE  UsesOK(p, Append(uses, use))
<1>1. uses \in Seq([checked: Int, used: Int, expires: Int]) /\ Len(uses) \in Nat
  BY DEF UsesOK
<1>2. /\ Append(uses, use) \in Seq([checked: Int, used: Int, expires: Int])
      /\ Len(Append(uses, use)) = Len(uses) + 1
      /\ Append(uses, use)[Len(uses) + 1] = use
      /\ \A n \in 1..Len(uses) : Append(uses, use)[n] = uses[n]
  BY <1>1
<1>3. Append(uses, use) # <<>>
  BY <1>1, <1>2
<1>4. ASSUME NEW n \in 1..(Len(uses) + 1)
      PROVE  /\ Append(uses, use)[n].expires = ExpiryOf(p)
             /\ Append(uses, use)[n].checked < ExpiryOf(p)
             /\ n > 1 => ExpiryOf(p) <= Append(uses, use)[n].used
  <2>1. n = Len(uses) + 1 \/ n \in 1..Len(uses)
    BY <1>1
  <2>2. CASE n = Len(uses) + 1
    BY <1>2, <2>2
  <2>3. CASE n \in 1..Len(uses)
    <3>1. Append(uses, use)[n] = uses[n]
      BY <1>2, <2>3
    <3> QED BY <2>3, <3>1 DEF UsesOK
  <2> QED BY <2>1, <2>2, <2>3
<1> QED BY <1>2, <1>3, <1>4 DEF UsesOK

LEMMA SpentInit == Init => SpentInv
BY DEF Init, SpentInv, Empty

LEMMA SpentStep == TypeOK /\ SpentInv /\ [Next]_vars => SpentInv'
<1> SUFFICES ASSUME TypeOK, SpentInv, [Next]_vars PROVE SpentInv'
  OBVIOUS
<1>0. clock \in Nat /\ NoncesTyped
  BY DEF TypeOK, SpentInv, NoncesTyped
<1>1. ASSUME NEW j \in Slots, ByRequest(j) PROVE SpentInv'
  <2>1. clock' = clock
    BY <1>1, RequestFrame
  <2>2. CASE honoured' = honoured /\ nonces' = nonces
    BY <2>1, <2>2 DEF SpentInv
  <2>3. CASE honoured' = honoured /\ nonces' = SweptNonces
    <3>1. NoncesTyped' /\ \A p : ExpiryOf(p) \in Int /\ KeptUntilExpiry(p) => KeptUntilExpiry(p)'
      BY <1>0, <2>1, <2>3, SweptKeeps
    <3>2. \A p \in DOMAIN honoured :
             ExpiryOf(p) \in Int /\ UsesOK(p, honoured[p]) /\ KeptUntilExpiry(p)
      BY DEF SpentInv, KeptUntilExpiry
    <3>3. \A p \in DOMAIN honoured : KeptUntilExpiry(p)'
      BY <3>1, <3>2
    <3> QED BY <2>3, <3>1, <3>2, <3>3 DEF SpentInv, NoncesTyped, KeptUntilExpiry, UsesOK
  <2>4. CASE Consume(j)
    <3>0. PICK req : req = job[j].req
      OBVIOUS
    <3>01. PICK p : p = ProofHeader(req)
      OBVIOUS
    <3>1. Readable(req) /\ job[j].checked \in Int /\ job[j].checked < Expires(req)
      <4>1. Passed(job[j]) /\ Running(j)
        BY <2>4, ConsumeMoves DEF Running
      <4> QED BY <3>0, <4>1, JobTyped DEF Passed
    <3>2. /\ KeyOf(req) = SpentAs(p) /\ Expires(req) = ExpiryOf(p) /\ ExpiryOf(p) \in Int
      BY <3>01, <3>1 DEF Readable, KeyOf, SpentAs, Expires, ExpiryOf, Wallet, Message, Raw, ReadAs
    <3> DEFINE use == [checked |-> job[j].checked, used |-> clock, expires |-> Expires(req)]
               before == At(honoured, p, <<>>)
    <3>3. /\ ConsumeNonce(KeyOf(req), Expires(req))
          /\ honoured' = IF Replayed(KeyOf(req)) THEN honoured
                         ELSE With(honoured, p, Append(before, use))
      BY <2>4, <3>0, <3>01 DEF Consume
    <3>4. /\ NoncesTyped'
          /\ ~Replayed(SpentAs(p)) => SpentAs(p) \in DOMAIN nonces'
                                      /\ nonces'[SpentAs(p)] = ExpiryOf(p)
          /\ \A q : ExpiryOf(q) \in Int /\ KeptUntilExpiry(q) => KeptUntilExpiry(q)'
      BY <1>0, <2>1, <3>2, <3>3, ConsumedKeeps
    <3>5. \A q \in DOMAIN honoured :
             ExpiryOf(q) \in Int /\ UsesOK(q, honoured[q]) /\ KeptUntilExpiry(q)
      BY DEF SpentInv, KeptUntilExpiry
    <3>6. \A q \in DOMAIN honoured : KeptUntilExpiry(q)'
      BY <3>4, <3>5
    <3>7. CASE Replayed(SpentAs(p))
      <4>1. honoured' = honoured
        BY <3>2, <3>3, <3>7
      <4> QED BY <3>4, <3>5, <3>6, <4>1 DEF SpentInv, NoncesTyped, KeptUntilExpiry, UsesOK
    <3>8. CASE ~Replayed(SpentAs(p))
      <4>1. p \in DOMAIN honoured => ExpiryOf(p) <= clock
        <5> SUFFICES ASSUME p \in DOMAIN honoured, clock < ExpiryOf(p) PROVE FALSE
          BY <1>0, <3>2
        <5>1. SpentAs(p) \in DOMAIN nonces /\ nonces[SpentAs(p)] >= ExpiryOf(p)
          BY <3>5 DEF KeptUntilExpiry
        <5>2. nonces[SpentAs(p)] > clock
          BY <1>0, <3>2, <5>1 DEF NoncesTyped
        <5> QED BY <3>8, <5>1, <5>2 DEF Replayed, At
      <4>2. UsesOK(p, Append(before, use))
        <5>1. /\ use \in [checked: Int, used: Int, expires: Int]
              /\ use.expires = ExpiryOf(p) /\ use.checked < ExpiryOf(p) /\ use.used = clock
          BY <1>0, <3>1, <3>2
        <5> HIDE DEF use
        <5>2. CASE p \in DOMAIN honoured
          <6>1. before = honoured[p] /\ UsesOK(p, before)
            BY <3>5, <5>2 DEF At
          <6> HIDE DEF before
          <6> QED BY <4>1, <5>1, <5>2, <6>1, UsesGrow
        <5>3. CASE p \notin DOMAIN honoured
          <6>1. before = <<>>
            BY <5>3 DEF At
          <6> HIDE DEF before
          <6> QED BY <5>1, <6>1 DEF UsesOK
        <5> QED BY <5>2, <5>3
      <4> HIDE DEF use, before
      <4> DEFINE uses == Append(before, use)
      <4>3. UsesOK(p, uses) /\ honoured' = With(honoured, p, uses)
        BY <3>2, <3>3, <3>8, <4>2
      <4> HIDE DEF uses
      <4>4. /\ DOMAIN honoured' = DOMAIN honoured \cup {p} /\ honoured'[p] = uses
            /\ \A q \in DOMAIN honoured : q # p => honoured'[q] = honoured[q]
            /\ honoured' = [q \in DOMAIN honoured' |-> honoured'[q]]
        BY <4>3 DEF With
      <4>5. KeptUntilExpiry(p)'
        BY <2>1, <3>2, <3>4, <3>8 DEF KeptUntilExpiry
      <4>6. ASSUME NEW q \in DOMAIN honoured'
            PROVE  ExpiryOf(q) \in Int /\ UsesOK(q, honoured'[q]) /\ KeptUntilExpiry(q)'
        BY <3>2, <3>5, <3>6, <4>3, <4>4, <4>5
      <4> QED BY <3>4, <4>4, <4>6 DEF SpentInv, NoncesTyped, KeptUntilExpiry, UsesOK
    <3> QED BY <3>7, <3>8
  <2> QED BY <1>1, <2>2, <2>3, <2>4, StoreMoves
<1>2. CASE Tick
  <2>1. clock' = clock + 1 /\ nonces' = nonces /\ honoured' = honoured
    BY <1>2 DEF Tick, Observed
  <2>2. ASSUME NEW p \in DOMAIN honoured, clock + 1 < ExpiryOf(p) PROVE clock < ExpiryOf(p)
    BY <1>0, <2>2 DEF SpentInv
  <2> QED BY <2>1, <2>2 DEF SpentInv
<1>3. CASE \E w \in Wallets, s \in Standings : ChangeStanding(w, s)
  BY <1>3 DEF ChangeStanding, SpentInv
<1>4. CASE UNCHANGED vars
  BY <1>4 DEF vars, SpentInv
<1> QED BY <1>1, <1>2, <1>3, <1>4 DEF Next, ByRequest

(* Whatever requests with the same proof are between their checks, and however
   the store forgets, a proof is never honoured a second time before it expires:
   every acceptance but the first is of a request that passed the expiry check in
   time and reached the store after the expiry. *)
THEOREM ProofsSpentAgainOnlyAcrossExpiry == Spec => []SpentAgainOnlyAcrossExpiry
<1>1. Init => TypeOK /\ SpentInv
  BY TypeInit, SpentInit
<1>2. TypeOK /\ SpentInv /\ [Next]_vars => (TypeOK /\ SpentInv)'
  BY TypeStep, SpentStep
<1>3. SpentInv => SpentAgainOnlyAcrossExpiry
  <2> SUFFICES ASSUME SpentInv, NEW p \in DOMAIN honoured, NEW n \in DOMAIN honoured[p]
               PROVE  /\ honoured[p][n].checked < honoured[p][n].expires
                      /\ n > 1 => honoured[p][n].expires <= honoured[p][n].used
    BY DEF SpentAgainOnlyAcrossExpiry
  <2>1. UsesOK(p, honoured[p])
    BY DEF SpentInv
  <2>2. n \in 1..Len(honoured[p])
    BY <2>1 DEF UsesOK
  <2> QED BY <2>1, <2>2 DEF UsesOK
<1> QED BY <1>1, <1>2, <1>3, PTL DEF Spec


-----------------------------------------------------------------------------
(* The standing a request is judged by was recent.                         *)

(* The last time a wallet had a standing never moves back. *)
LEMMA LastWasGrows ==
  ASSUME TypeOK, [Next]_vars, NEW w \in Wallets, NEW s \in Standings
  PROVE  /\ LastWas(w, s) \in Int /\ LastWas(w, s)' \in Int
         /\ LastWas(w, s) <= LastWas(w, s)'
<1>0. /\ clock \in Int /\ clock' \in Int /\ agentBook[w] \in Standings
      /\ lastWas[w][s] \in Int /\ lastWas'[w][s] \in Int
      /\ lastWas[w][s] <= clock /\ lastWas'[w][s] <= clock'
  <2>1. TypeOK'
    BY TypeStep
  <2> QED BY <2>1 DEF TypeOK
<1>1. CASE clock' = clock /\ agentBook' = agentBook /\ lastWas' = lastWas
  BY <1>0, <1>1 DEF LastWas
<1>2. CASE Tick
  <2>1. clock' = clock + 1 /\ agentBook' = agentBook /\ lastWas' = lastWas
    BY <1>2 DEF Tick, Observed
  <2> QED BY <1>0, <2>1 DEF LastWas
<1>3. ASSUME NEW x \in Wallets, NEW y \in Standings, ChangeStanding(x, y)
      PROVE  LastWas(w, s) \in Int /\ LastWas(w, s)' \in Int /\ LastWas(w, s) <= LastWas(w, s)'
  <2>1. /\ clock' = clock /\ agentBook' = [agentBook EXCEPT ![x] = y]
        /\ lastWas' = [lastWas EXCEPT ![x][agentBook[x]] = clock]
        /\ y # agentBook[x]
    BY <1>3 DEF ChangeStanding
  <2>2. CASE w # x
    <3>1. agentBook'[w] = agentBook[w] /\ lastWas'[w] = lastWas[w]
      BY <2>1, <2>2 DEF TypeOK
    <3> QED BY <1>0, <2>1, <3>1 DEF LastWas
  <2>3. CASE w = x /\ s = agentBook[w]
    <3>1. agentBook'[w] = y /\ lastWas'[w][s] = clock
      BY <2>1, <2>3 DEF TypeOK
    <3> QED BY <1>0, <2>1, <2>3, <3>1 DEF LastWas
  <2>4. CASE w = x /\ s # agentBook[w]
    <3>1. agentBook'[w] = y /\ lastWas'[w][s] = lastWas[w][s]
      BY <2>1, <2>4 DEF TypeOK
    <3> QED BY <1>0, <2>1, <2>4, <3>1 DEF LastWas
  <2> QED BY <2>2, <2>3, <2>4
<1>4. CASE UNCHANGED vars
  BY <1>1, <1>4 DEF vars
<1>5. ASSUME NEW j \in Slots, ByRequest(j)
      PROVE  clock' = clock /\ agentBook' = agentBook /\ lastWas' = lastWas
  BY <1>5, RequestFrame
<1> QED BY <1>1, <1>2, <1>3, <1>4, <1>5 DEF Next, ByRequest

LEMMA TtlTyped == \A s : Ttl(s) \in Int
BY LifetimesAreTimes DEF Ttl

(* What was recent enough stays so. *)
LEMMA EntryStays ==
  ASSUME TypeOK, [Next]_vars, NEW e \in Entry, EntryOK(e)
  PROVE  EntryOK(e)'
<1>1. e.wallet \in Wallets /\ e.standing \in Standings /\ e.expires \in Int
  BY DEF Entry
<1>2. /\ LastWas(e.wallet, e.standing) \in Int /\ LastWas(e.wallet, e.standing)' \in Int
      /\ LastWas(e.wallet, e.standing) <= LastWas(e.wallet, e.standing)'
  BY <1>1, LastWasGrows
<1> QED BY <1>1, <1>2, TtlTyped DEF EntryOK

LEMMA JudgedStays ==
  ASSUME TypeOK, [Next]_vars, NEW r, JobOK(r), JudgedOK(r)
  PROVE  JudgedOK(r)'
<1>1. CASE r.pc = "answer"
  <2>1. r \in InFlight /\ Wallet(r.req) \in Wallets
    BY <1>1 DEF JobOK, Passed, Readable
  <2>2. r.standing \in Standings /\ r.asked \in Int
    BY <2>1 DEF InFlight
  <2>3. /\ LastWas(Wallet(r.req), r.standing) \in Int
        /\ LastWas(Wallet(r.req), r.standing)' \in Int
        /\ LastWas(Wallet(r.req), r.standing) <= LastWas(Wallet(r.req), r.standing)'
    BY <2>1, <2>2, LastWasGrows
  <2>4. LastWas(Wallet(r.req), r.standing) >= r.asked
    BY <1>1 DEF JudgedOK
  <2>5. LastWas(Wallet(r.req), r.standing)' >= r.asked
    BY <2>2, <2>3, <2>4
  <2> QED BY <1>1, <2>5 DEF JudgedOK
<1>2. CASE r.pc \in {"nonce", "rate"} /\ r.code \in StandingCodes
  <2>1. r \in InFlight /\ Wallet(r.req) \in Wallets
    BY <1>2 DEF JobOK, JudgedOK
  <2>2. r.standing \in Standings /\ r.asked \in Int
    BY <2>1 DEF InFlight
  <2>3. /\ LastWas(Wallet(r.req), r.standing) \in Int
        /\ LastWas(Wallet(r.req), r.standing)' \in Int
        /\ LastWas(Wallet(r.req), r.standing) <= LastWas(Wallet(r.req), r.standing)'
    BY <2>1, <2>2, LastWasGrows
  <2>4. LastWas(Wallet(r.req), r.standing) > r.asked - Ttl(r.standing)
    BY <1>2 DEF JudgedOK
  <2>5. LastWas(Wallet(r.req), r.standing)' > r.asked - Ttl(r.standing)
    BY <2>2, <2>3, <2>4, TtlTyped
  <2> QED BY <1>2, <2>1, <2>5 DEF JudgedOK
<1>3. CASE r.pc # "answer" /\ ~(r.pc \in {"nonce", "rate"} /\ r.code \in StandingCodes)
  BY <1>3 DEF JudgedOK
<1> QED BY <1>1, <1>2, <1>3

(* What a request is judged by once it has moved.  The world stands still. *)
LEMMA RequestJudged ==
  ASSUME TypeOK, StandingInv, NEW j \in Slots, ByRequest(j),
         REGISTERED_TTL > 0, UNREGISTERED_TTL > 0
  PROVE  JudgedOK(job'[j])
<1>0. /\ \A s : Ttl(s) \in Int /\ Ttl(s) > 0
      /\ clock \in Int
  BY LifetimesAreTimes DEF Ttl, TypeOK
<1>1. ASSUME job'[j].pc \notin {"answer", "nonce", "rate"} PROVE JudgedOK(job'[j])
  BY <1>1 DEF JudgedOK
<1>2. ASSUME job'[j].pc = "rate", job'[j].code \notin StandingCodes PROVE JudgedOK(job'[j])
  BY <1>2 DEF JudgedOK
<1>3. ASSUME NEW c \in Carriers, NEW header \in ProofHeaders, Arrive(j, Request(c, header))
      PROVE  JudgedOK(job'[j])
  <2>1. Request(c, header) \in Requests
    BY DEF Requests
  <2> QED BY <1>1, <1>3, <2>1, ArriveMoves
<1>4. CASE Budget(j) \/ BudgetFails(j)
  BY <1>1, <1>4, BudgetMoves, BudgetFailsMoves
<1>5. CASE Rate(j) \/ RateUncounted(j)
  BY <1>1, <1>5, RateMoves, RateUncountedMoves
<1>6. CASE AgentBookFails(j) \/ ConsumeFails(j)
  BY <1>2, <1>6, AgentBookFailsMoves, ConsumeFailsMoves
<1>11. CASE Verify(j)
  BY <1>1, <1>2, <1>11, VerifyMoves
<1>7. CASE Recover(j)
  <2>1. CASE job'[j].pc = "rate" /\ job'[j].code \notin StandingCodes
    BY <1>2, <2>1
  <2>2. CASE job'[j].pc = "lookup"
    BY <1>1, <2>2
  <2>3. CASE /\ job'[j].pc \in {"nonce", "rate"} /\ job'[j].asked = clock
             /\ \E i \in Fresh(Wallet(job[j].req)) : job'[j].standing = cache[i].standing
    <3>1. PICK i \in Fresh(Wallet(job[j].req)) : job'[j].standing = cache[i].standing
      BY <2>3
    <3>2. /\ i \in 1..Len(cache) /\ cache[i] \in Entry /\ EntryOK(cache[i])
          /\ cache[i].wallet = Wallet(job[j].req) /\ cache[i].expires > clock
      BY <3>1 DEF Fresh, Hits, TypeOK, StandingInv
    <3>3. /\ cache[i].wallet \in Wallets /\ cache[i].standing \in Standings
          /\ cache[i].expires \in Int
      BY <3>2 DEF Entry
    <3>4. LastWas(cache[i].wallet, cache[i].standing) \in Int
      BY <1>0, <3>3 DEF LastWas, TypeOK
    <3>5. LastWas(cache[i].wallet, cache[i].standing) > clock - Ttl(cache[i].standing)
      BY <1>0, <3>2, <3>3, <3>4 DEF EntryOK
    <3>6. job'[j].req = job[j].req
      BY <1>7, RecoverMoves
    <3>7. /\ Wallet(job'[j].req) \in Wallets
          /\ LastWas(Wallet(job'[j].req), job'[j].standing) > job'[j].asked - Ttl(job'[j].standing)
      BY <2>3, <3>1, <3>2, <3>3, <3>5, <3>6
    <3> QED BY <2>3, <3>7 DEF JudgedOK
  <2> QED BY <1>7, <2>1, <2>2, <2>3, RecoverMoves
<1>8. CASE ReadAgentBook(j)
  <2>1. /\ job'[j].pc = "answer" /\ job'[j].req = job[j].req /\ job'[j].asked <= clock
        /\ job'[j].standing = agentBook[Wallet(job[j].req)]
    BY <1>8, ReadAgentBookMoves
  <2>2. LastWas(Wallet(job'[j].req), job'[j].standing) = clock
    BY <2>1 DEF LastWas
  <2> QED BY <2>1, <2>2 DEF JudgedOK
<1>9. CASE Answer(j)
  <2>1. /\ job'[j].pc \in {"nonce", "rate"} /\ Wallet(job[j].req) \in Wallets
        /\ job[j].asked \in Int /\ job[j].standing \in Standings
        /\ job'[j].req = job[j].req /\ job'[j].asked = job[j].asked
        /\ job'[j].standing = job[j].standing
    BY <1>9, AnswerMoves
  <2>2. LastWas(Wallet(job[j].req), job[j].standing) >= job[j].asked
    BY <1>9 DEF Answer, StandingInv, JudgedOK
  <2>3. LastWas(Wallet(job[j].req), job[j].standing) \in Int
    BY <1>0, <2>1 DEF LastWas, TypeOK
  <2>4. LastWas(Wallet(job[j].req), job[j].standing) > job[j].asked - Ttl(job[j].standing)
    BY <1>0, <2>1, <2>2, <2>3
  <2> QED BY <2>1, <2>4 DEF JudgedOK
<1>10. CASE Consume(j)
  <2>1. /\ job'[j].pc = "rate" /\ job'[j].req = job[j].req
        /\ job'[j].asked = job[j].asked /\ job'[j].standing = job[j].standing
        /\ job[j].pc = "nonce" /\ job[j].code = "ok"
    BY <1>10, ConsumeMoves
  <2>2. /\ Wallet(job[j].req) \in Wallets
        /\ LastWas(Wallet(job[j].req), job[j].standing) > job[j].asked - Ttl(job[j].standing)
    BY <2>1 DEF StandingInv, JudgedOK, StandingCodes
  <2> QED BY <2>1, <2>2 DEF JudgedOK
<1> QED BY <1>3, <1>4, <1>5, <1>6, <1>7, <1>8, <1>9, <1>10, <1>11 DEF ByRequest

(* Every entry of the cache was there, or is the answer that was just given. *)
LEMMA EntriesKept ==
  ASSUME TypeOK, StandingInv, NEW j \in Slots, ByRequest(j), NEW i \in 1..Len(cache')
  PROVE  cache'[i] \in Entry /\ EntryOK(cache'[i])
<1> DEFINE Good(e) == e \in Entry /\ EntryOK(e)
<1>1. \A k \in 1..Len(cache) : Good(cache[k])
  BY DEF TypeOK, StandingInv
<1>2. CASE cache' = cache
  BY <1>1, <1>2
<1>3. CASE cache' = Without(Wallet(job[j].req))
  <2>1. PICK k \in 1..Len(cache) : cache'[i] = cache[k]
    BY <1>3, WithoutKeeps DEF TypeOK
  <2> QED BY <1>1, <2>1
<1>4. CASE Answer(j) /\ cache' = Cached(Wallet(job[j].req), job[j].standing, job[j].asked)
  <2>1. PICK w, s, t : w = Wallet(job[j].req) /\ s = job[j].standing /\ t = job[j].asked
    OBVIOUS
  <2>2. w \in Wallets /\ s \in Standings /\ t \in Int
    BY <1>4, <2>1, AnswerMoves
  <2>3. \/ cache'[i] = [wallet |-> w, standing |-> s, expires |-> t + Ttl(s)]
        \/ \E k \in 1..Len(cache) : cache'[i] = cache[k]
    BY <1>4, <2>1, <2>2, CachedKeeps DEF TypeOK
  <2>4. LastWas(w, s) >= t
    BY <1>4, <2>1 DEF Answer, StandingInv, JudgedOK
  <2>5. LastWas(w, s) >= (t + Ttl(s)) - Ttl(s)
    BY <2>2, <2>4, TtlTyped
  <2>6. Good([wallet |-> w, standing |-> s, expires |-> t + Ttl(s)])
    BY <2>2, <2>5, TtlTyped DEF Entry, EntryOK
  <2> HIDE DEF Good
  <2>7. Good(cache'[i])
    BY <1>1, <2>3, <2>6
  <2> QED BY <2>7 DEF Good
<1> QED BY <1>2, <1>3, <1>4, CacheMoves

LEMMA StandingInit == Init => StandingInv
<1> SUFFICES ASSUME Init PROVE StandingInv
  OBVIOUS
<1>1. Len(cache) = 0 /\ \A j \in Slots : job[j].pc = "idle"
  BY DEF Init, Idle
<1> QED BY <1>1 DEF StandingInv, JudgedOK

LEMMA StandingStep ==
  ASSUME REGISTERED_TTL > 0, UNREGISTERED_TTL > 0
  PROVE  TypeOK /\ StandingInv /\ [Next]_vars => StandingInv'
<1> SUFFICES ASSUME TypeOK, StandingInv, [Next]_vars PROVE StandingInv'
  OBVIOUS
<1>1. ASSUME NEW j \in Slots, ByRequest(j) PROVE StandingInv'
  <2>1. clock' = clock /\ agentBook' = agentBook /\ lastWas' = lastWas
    BY <1>1, RequestFrame
  <2>2. ASSUME NEW i \in 1..Len(cache') PROVE EntryOK(cache[i])'
    <3>1. EntryOK(cache'[i])
      BY <1>1, EntriesKept
    <3> QED BY <2>1, <3>1 DEF EntryOK, LastWas
  <2>3. ASSUME NEW k \in Slots PROVE JudgedOK(job[k])'
    <3>1. JudgedOK(job'[k])
      BY <1>1, RequestJudged, RequestMoves DEF OnlySlot, StandingInv
    <3> QED BY <2>1, <3>1 DEF JudgedOK, LastWas
  <2> QED BY <2>2, <2>3 DEF StandingInv
<1>2. ASSUME cache' = cache, job' = job PROVE StandingInv'
  <2>1. ASSUME NEW i \in 1..Len(cache) PROVE EntryOK(cache[i])'
    <3>1. PICK e \in Entry : e = cache[i] /\ EntryOK(e)
      BY DEF TypeOK, StandingInv
    <3>2. EntryOK(e)'
      BY <3>1, EntryStays
    <3> QED BY <1>2, <3>1, <3>2 DEF EntryOK, LastWas
  <2>2. ASSUME NEW j \in Slots PROVE JudgedOK(job[j])'
    <3>1. PICK r : r = job[j]
      OBVIOUS
    <3>2. JobOK(r) /\ JudgedOK(r)
      BY <3>1 DEF TypeOK, JobsOK, StandingInv
    <3>3. JudgedOK(r)'
      BY <3>2, JudgedStays
    <3> QED BY <1>2, <3>1, <3>3 DEF JudgedOK, LastWas
  <2> QED BY <1>2, <2>1, <2>2 DEF StandingInv
<1>3. CASE Tick
  BY <1>2, <1>3 DEF Tick
<1>4. CASE \E w \in Wallets, s \in Standings : ChangeStanding(w, s)
  BY <1>2, <1>4 DEF ChangeStanding
<1>5. CASE UNCHANGED vars
  BY <1>2, <1>5 DEF vars
<1> QED BY <1>1, <1>3, <1>4, <1>5 DEF Next, ByRequest

(* With lifetimes that are positive, as the defaults are, the registry standing
   a request was judged by was true less than one lifetime before the verifier
   asked for it, through the cache or not, however late the answer. *)
THEOREM StandingsAreRecent ==
  ASSUME REGISTERED_TTL > 0, UNREGISTERED_TTL > 0
  PROVE  Spec => []StandingWasRecent
<1>1. Init => TypeOK /\ StandingInv
  BY TypeInit, StandingInit
<1>2. TypeOK /\ StandingInv /\ [Next]_vars => (TypeOK /\ StandingInv)'
  BY TypeStep, StandingStep
<1>3. StandingInv => StandingWasRecent
  BY DEF StandingInv, StandingWasRecent, JudgedOK, Judged, StandingCodes
<1> QED BY <1>1, <1>2, <1>3, PTL DEF Spec


-----------------------------------------------------------------------------
(* Nobody is let through beyond the limit of a bucket.                     *)

LEMMA LimitsAreWhole ==
  /\ WINDOW \in Nat /\ WINDOW > 0
  /\ \A tier : Limit(tier) \in Nat /\ Limit(tier) >= 1
  /\ VerificationLimit \in Nat /\ VerificationLimit >= 1
<1>1. /\ BASE \in Nat /\ BASE >= 1 /\ MULTIPLIER \in Nat /\ MULTIPLIER >= 1
      /\ WINDOW \in Nat /\ WINDOW > 0
      /\ BUDGET = None \/ (BUDGET \in Nat /\ BUDGET >= 1)
  BY ConfigurationAccepted
<1>2. BASE * MULTIPLIER \in Nat /\ BASE * MULTIPLIER >= 1
  BY <1>1
<1>3. \A tier : Limit(tier) \in Nat /\ Limit(tier) >= 1
  BY <1>1, <1>2 DEF Limit
<1> QED BY <1>1, <1>3 DEF VerificationLimit

(* What the store answers: one more than it counted in the bucket's window. *)
LEMMA NextIsOneMore ==
  ASSUME clock \in Nat, CountInv, NEW b, Bucketed(b)
  PROVE  /\ NextCount(b) \in Nat /\ NextCount(b) >= 1
         /\ clock < WindowEnd(b) => NextCount(b) = At(charged, b, 0) + 1
         /\ clock >= WindowEnd(b) => NextCount(b) = 1
<1>1. WindowEnd(b) \in Int
  BY LimitsAreWhole DEF WindowEnd, Bucketed
<1>2. CASE b \in DOMAIN counters
  <2>1. /\ counters[b].value \in Nat /\ counters[b].expires = WindowEnd(b)
        /\ clock < WindowEnd(b) => b \in DOMAIN charged /\ charged[b] = counters[b].value
    BY <1>2 DEF CountInv
  <2>2. NextCount(b) = IF WindowEnd(b) > clock THEN counters[b].value + 1 ELSE 1
    BY <1>2, <2>1 DEF NextCount, At
  <2> QED BY <1>1, <2>1, <2>2 DEF At
<1>3. CASE b \notin DOMAIN counters
  <2>1. NextCount(b) = 1
    <3>1. At(counters, b, [value |-> 0, expires |-> 0]).expires = 0
      BY <1>3 DEF At
    <3> QED BY <3>1 DEF NextCount
  <2>2. clock < WindowEnd(b) => b \notin DOMAIN charged
    BY <1>3 DEF CountInv
  <2> QED BY <1>1, <2>1, <2>2 DEF At
<1> QED BY <1>2, <1>3

(* A request is counted: in the store, and against its bucket while the
   bucket's window lasts. *)
LEMMA CountedKeeps ==
  ASSUME clock \in Nat, CountInv, NEW b, Bucketed(b), LimitOf(b) >= 1,
         IncrementWindow(b), NEW ok, ok = Allowed(b, LimitOf(b)), Counted(b, ok),
         clock' = clock
  PROVE  /\ CountInv'
         /\ \A a : At(charged', a, 0) = At(charged, a, 0)
                   \/ (a = b /\ At(charged, a, 0) \in Nat /\ At(charged', a, 0) = At(charged, a, 0) + 1)
         /\ ~ok => At(charged', b, 0) > LimitOf(b)
<1> DEFINE n == NextCount(b)
           L == LimitOf(b)
           entry == [value |-> n, expires |-> WindowEnd(b)]
<1>1. /\ n \in Nat /\ n >= 1
      /\ clock < WindowEnd(b) => n = At(charged, b, 0) + 1
      /\ clock >= WindowEnd(b) => n = 1
  BY NextIsOneMore
<1>2. L \in Nat /\ L >= 1 /\ b[2] \in Int
  BY DEF Bucketed
<1>3. ok <=> n <= L
  BY DEF Allowed
<1>4. WindowEnd(b) \in Int
  BY <1>2, LimitsAreWhole DEF WindowEnd
<1>5. counters' = With(SweptCounters, b, entry)
  BY DEF IncrementWindow
<1>6. entry.value = n /\ entry.expires = WindowEnd(b)
  OBVIOUS
<1> HIDE DEF n, entry, L
<1>7. /\ \A a : a \in DOMAIN counters' <=> a = b \/ (a \in DOMAIN counters /\ counters[a].expires > clock)
      /\ counters'[b] = entry
      /\ \A a \in DOMAIN counters' : a # b => counters'[a] = counters[a]
      /\ counters' = [a \in DOMAIN counters' |-> counters'[a]]
  BY <1>5 DEF With, SweptCounters
<1>8. ASSUME NEW a, a \in DOMAIN counters', a # b
      PROVE  /\ Bucketed(a) /\ counters'[a].value \in Nat /\ counters'[a].expires = WindowEnd(a)
             /\ clock < WindowEnd(a) => a \in DOMAIN charged /\ charged[a] = counters'[a].value
  BY <1>7, <1>8 DEF CountInv
<1>9. ASSUME NEW a \in DOMAIN charged, clock < WindowEnd(a)
      PROVE  a \in DOMAIN counters'
  BY <1>7, <1>9 DEF CountInv
<1>10. CASE clock >= WindowEnd(b)
  <2>1. charged' = charged /\ passed' = passed
    BY <1>10 DEF Counted
  <2>2. ~(clock < WindowEnd(b))
    BY <1>4, <1>10
  <2>3. ok
    BY <1>1, <1>2, <1>3, <1>10
  <2>4. \A a \in DOMAIN counters' :
           /\ Bucketed(a) /\ counters'[a].value \in Nat /\ counters'[a].expires = WindowEnd(a)
           /\ clock < WindowEnd(a) => a \in DOMAIN charged /\ charged[a] = counters'[a].value
    BY <1>1, <1>6, <1>7, <1>8, <2>2
  <2>5. CountInv'
    BY <1>7, <1>9, <2>1, <2>4 DEF CountInv, Bucketed
  <2> QED BY <2>1, <2>3, <2>5
<1>11. CASE clock < WindowEnd(b)
  <2> DEFINE extra == IF ok THEN 1 ELSE 0
             c == At(charged, b, 0) + 1
             p == At(passed, b, 0) + extra
  <2>1. charged' = With(charged, b, c) /\ passed' = With(passed, b, p)
    <3>1. ~(clock >= WindowEnd(b))
      BY <1>4, <1>11
    <3> QED BY <3>1 DEF Counted
  <2>2. c = n
    BY <1>1, <1>11
  <2>3. /\ At(charged, b, 0) \in Nat /\ At(passed, b, 0) \in Nat
        /\ At(passed, b, 0) <= At(charged, b, 0) /\ At(passed, b, 0) <= L
    BY <1>2 DEF CountInv, At, L
  <2>4. /\ p \in Nat /\ c \in Nat /\ p <= c /\ p <= L
        /\ c = At(charged, b, 0) + 1
    <3>1. CASE ok
      BY <1>1, <1>2, <1>3, <1>11, <2>2, <2>3, <3>1
    <3>2. CASE ~ok
      BY <1>2, <2>3, <3>2
    <3> QED BY <3>1, <3>2
  <2> HIDE DEF c, p
  <2>5. /\ DOMAIN charged' = DOMAIN charged \cup {b} /\ charged'[b] = c
        /\ \A a \in DOMAIN charged : a # b => charged'[a] = charged[a]
        /\ charged' = [a \in DOMAIN charged' |-> charged'[a]]
    BY <2>1 DEF With
  <2>6. /\ DOMAIN passed' = DOMAIN passed \cup {b} /\ passed'[b] = p
        /\ \A a \in DOMAIN passed : a # b => passed'[a] = passed[a]
        /\ passed' = [a \in DOMAIN passed' |-> passed'[a]]
    BY <2>1 DEF With
  <2>7. \A a \in DOMAIN counters' :
           /\ Bucketed(a) /\ counters'[a].value \in Nat /\ counters'[a].expires = WindowEnd(a)
           /\ clock < WindowEnd(a) => a \in DOMAIN charged' /\ charged'[a] = counters'[a].value
    <3> SUFFICES ASSUME NEW a \in DOMAIN counters'
                 PROVE  /\ Bucketed(a) /\ counters'[a].value \in Nat
                        /\ counters'[a].expires = WindowEnd(a)
                        /\ clock < WindowEnd(a) =>
                             a \in DOMAIN charged' /\ charged'[a] = counters'[a].value
      OBVIOUS
    <3>1. CASE a = b
      BY <1>1, <1>6, <1>7, <2>2, <2>5, <3>1
    <3>2. CASE a # b
      BY <1>8, <2>5, <3>2
    <3> QED BY <3>1, <3>2
  <2>8. \A a \in DOMAIN charged' :
          /\ Bucketed(a) /\ charged'[a] \in Nat /\ passed'[a] \in Nat
          /\ passed'[a] <= charged'[a] /\ passed'[a] <= LimitOf(a)
          /\ clock < WindowEnd(a) => a \in DOMAIN counters'
    <3> SUFFICES ASSUME NEW a \in DOMAIN charged'
                 PROVE  /\ Bucketed(a) /\ charged'[a] \in Nat /\ passed'[a] \in Nat
                        /\ passed'[a] <= charged'[a] /\ passed'[a] <= LimitOf(a)
                        /\ clock < WindowEnd(a) => a \in DOMAIN counters'
      OBVIOUS
    <3>1. CASE a = b
      BY <1>7, <2>4, <2>5, <2>6, <3>1 DEF L
    <3>2. CASE a # b
      <4>1. a \in DOMAIN charged /\ a \in DOMAIN passed
        BY <2>5, <3>2 DEF CountInv
      <4> QED BY <1>9, <2>5, <2>6, <3>2, <4>1 DEF CountInv
    <3> QED BY <3>1, <3>2
  <2>9. CountInv'
    <3>1. DOMAIN passed' = DOMAIN charged'
      BY <2>5, <2>6 DEF CountInv
    <3>2. \A a : Bucketed(a)' <=> Bucketed(a)
      BY DEF Bucketed, LimitOf, VerificationLimit, Limit
    <3>3. \A a : LimitOf(a)' = LimitOf(a)
      BY DEF LimitOf, VerificationLimit, Limit
    <3> QED BY <1>7, <2>5, <2>6, <2>7, <2>8, <3>1, <3>2, <3>3 DEF CountInv
  <2>10. \A a : At(charged', a, 0) = At(charged, a, 0)
                \/ (a = b /\ At(charged, a, 0) \in Nat /\ At(charged', a, 0) = At(charged, a, 0) + 1)
    BY <2>3, <2>4, <2>5 DEF At
  <2>11. ~ok => At(charged', b, 0) > LimitOf(b)
    <3>1. At(charged', b, 0) = n
      BY <2>2, <2>5 DEF At
    <3> QED BY <1>1, <1>2, <1>3, <3>1 DEF L
  <2> QED BY <2>9, <2>10, <2>11
<1> QED BY <1>4, <1>10, <1>11


(* Every request is charged to a bucket whose limit is the one it is held to. *)
LEMMA BucketsHaveLimits ==
  ASSUME TypeOK, NEW j \in Slots, Running(j)
  PROVE  /\ Bucketed(BudgetBucket(j)) /\ LimitOf(BudgetBucket(j)) = VerificationLimit
         /\ Bucketed(Bucket(j)) /\ LimitOf(Bucket(j)) = Limit(job[j].tier)
<1>1. job[j].window \in Int /\ job[j].tier \in Tiers
  BY JobTyped
<1>2. /\ BudgetBucket(j)[1][1] = "verify" /\ BudgetBucket(j)[2] = job[j].window
  BY DEF BudgetBucket, RateLimitKey, VerificationSubject
<1>3. /\ Bucket(j)[2] = job[j].window
      /\ Bucket(j)[1][1] = IF job[j].tier = "human-backed" THEN "wallet" ELSE "ip"
  BY DEF Bucket, RateLimitKey, DefaultSubject, AnonymousSubject
<1>4. LimitOf(BudgetBucket(j)) = VerificationLimit
  BY <1>2 DEF LimitOf
<1>5. LimitOf(Bucket(j)) = Limit(job[j].tier)
  BY <1>1, <1>3 DEF LimitOf, Tiers
<1> QED BY <1>1, <1>2, <1>3, <1>4, <1>5, LimitsAreWhole DEF Bucketed

LEMMA CountersFrame ==
  ASSUME CountInv, counters' = counters, charged' = charged, passed' = passed,
         clock \in Nat, clock' \in Nat, clock <= clock'
  PROVE  CountInv'
<1>1. /\ \A b : Bucketed(b)' <=> Bucketed(b)
      /\ \A b : LimitOf(b)' = LimitOf(b)
      /\ \A b : WindowEnd(b)' = WindowEnd(b)
  BY DEF Bucketed, LimitOf, VerificationLimit, Limit, WindowEnd
<1>2. \A b : Bucketed(b) => WindowEnd(b) \in Int
  BY LimitsAreWhole DEF Bucketed, WindowEnd
<1>3. ASSUME NEW b, Bucketed(b), clock' < WindowEnd(b) PROVE clock < WindowEnd(b)
  BY <1>2, <1>3
<1> QED BY <1>1, <1>3 DEF CountInv

(* The store forgets a counter only when its window is over. *)
LEMMA SweptCountersKeep ==
  ASSUME CountInv, counters' = SweptCounters, charged' = charged, passed' = passed,
         clock' = clock
  PROVE  CountInv'
<1>1. /\ \A b : Bucketed(b)' <=> Bucketed(b)
      /\ \A b : LimitOf(b)' = LimitOf(b)
  BY DEF Bucketed, LimitOf, VerificationLimit, Limit
<1>2. /\ \A b : b \in DOMAIN counters' <=> b \in DOMAIN counters /\ counters[b].expires > clock
      /\ \A b \in DOMAIN counters' : counters'[b] = counters[b]
      /\ counters' = [b \in DOMAIN counters' |-> counters'[b]]
  BY DEF SweptCounters
<1>3. ASSUME NEW b \in DOMAIN charged, clock < WindowEnd(b) PROVE b \in DOMAIN counters'
  BY <1>2, <1>3 DEF CountInv
<1> QED BY <1>1, <1>2, <1>3 DEF CountInv

(* A count against a bucket: the budget of the verifier or the limit of a tier. *)
Charges(j) ==
  \/ /\ Budget(j)
     /\ IncrementWindow(BudgetBucket(j))
     /\ Counted(BudgetBucket(j), Allowed(BudgetBucket(j), LimitOf(BudgetBucket(j))))
  \/ /\ Rate(j)
     /\ IncrementWindow(Bucket(j))
     /\ Counted(Bucket(j), Allowed(Bucket(j), LimitOf(Bucket(j))))

LEMMA CountersMove ==
  ASSUME TypeOK, NEW j \in Slots, ByRequest(j)
  PROVE  \/ charged' = charged /\ passed' = passed /\ counters' = counters /\ ~Budget(j) /\ ~Rate(j)
         \/ charged' = charged /\ passed' = passed /\ counters' = SweptCounters /\ Consume(j)
         \/ Charges(j)
<1>1. CASE Budget(j)
  <2>1. Running(j)
    BY <1>1 DEF Budget, Running
  <2>2. LimitOf(BudgetBucket(j)) = VerificationLimit
    BY <2>1, BucketsHaveLimits
  <2>3. /\ IncrementWindow(BudgetBucket(j))
        /\ Counted(BudgetBucket(j), Allowed(BudgetBucket(j), VerificationLimit))
    BY <1>1 DEF Budget
  <2> QED BY <1>1, <2>2, <2>3 DEF Charges
<1>2. CASE Rate(j)
  <2>1. Running(j)
    BY <1>2 DEF Rate, Running
  <2>2. LimitOf(Bucket(j)) = Limit(job[j].tier)
    BY <2>1, BucketsHaveLimits
  <2>3. /\ IncrementWindow(Bucket(j))
        /\ Counted(Bucket(j), Allowed(Bucket(j), Limit(job[j].tier)))
    BY <1>2 DEF Rate
  <2> QED BY <1>2, <2>2, <2>3 DEF Charges
<1>3. CASE Consume(j)
  BY <1>3 DEF Consume, ConsumeNonce
<1>4. CASE ~Budget(j) /\ ~Rate(j) /\ ~Consume(j)
  BY <1>4 DEF ByRequest, Arrive, BudgetFails, Verify, Recover, ReadAgentBook, AgentBookFails, Answer,
              ConsumeFails, RateUncounted, Observed, Store
<1> QED BY <1>1, <1>2, <1>3, <1>4

LEMMA ChargesKeep ==
  ASSUME TypeOK, CountInv, NEW j \in Slots, ByRequest(j), Charges(j)
  PROVE  \E b : /\ CountInv'
                /\ (b = BudgetBucket(j) /\ Budget(j)) \/ (b = Bucket(j) /\ Rate(j))
                /\ \A a : \/ At(charged', a, 0) = At(charged, a, 0)
                          \/ /\ At(charged, a, 0) \in Nat
                             /\ At(charged', a, 0) = At(charged, a, 0) + 1
                /\ LimitOf(b) \in Nat
                /\ ~Allowed(b, LimitOf(b)) => At(charged', b, 0) > LimitOf(b)
<1>0. Running(j) /\ clock \in Nat /\ clock' = clock
  BY RequestFrame DEF Charges, Budget, Rate, Running, TypeOK
<1>1. /\ Bucketed(BudgetBucket(j)) /\ LimitOf(BudgetBucket(j)) >= 1
      /\ Bucketed(Bucket(j)) /\ LimitOf(Bucket(j)) >= 1
  BY <1>0, BucketsHaveLimits, LimitsAreWhole
<1>2. PICK b : /\ (b = BudgetBucket(j) /\ Budget(j)) \/ (b = Bucket(j) /\ Rate(j))
               /\ IncrementWindow(b) /\ Counted(b, Allowed(b, LimitOf(b)))
  <2>1. CASE Budget(j) /\ IncrementWindow(BudgetBucket(j))
             /\ Counted(BudgetBucket(j), Allowed(BudgetBucket(j), LimitOf(BudgetBucket(j))))
    BY <2>1
  <2>2. CASE Rate(j) /\ IncrementWindow(Bucket(j))
             /\ Counted(Bucket(j), Allowed(Bucket(j), LimitOf(Bucket(j))))
    BY <2>2
  <2> QED BY <2>1, <2>2 DEF Charges
<1>3. Bucketed(b) /\ LimitOf(b) >= 1 /\ LimitOf(b) \in Nat
  BY <1>1, <1>2 DEF Bucketed
<1>4. PICK ok : ok = Allowed(b, LimitOf(b)) /\ Counted(b, ok)
  BY <1>2
<1>5. /\ CountInv'
      /\ \A a : At(charged', a, 0) = At(charged, a, 0)
                \/ (a = b /\ At(charged, a, 0) \in Nat /\ At(charged', a, 0) = At(charged, a, 0) + 1)
      /\ ~ok => At(charged', b, 0) > LimitOf(b)
  BY <1>0, <1>2, <1>3, <1>4, CountedKeeps
<1> QED BY <1>2, <1>3, <1>4, <1>5

LEMMA CountInit == Init => CountInv /\ RefusedInv
<1> SUFFICES ASSUME Init PROVE CountInv /\ RefusedInv
  OBVIOUS
<1>1. counters = Empty /\ charged = Empty /\ passed = Empty
  BY DEF Init
<1>2. \A j \in Slots : job[j].pc = "idle"
  BY DEF Init, Idle
<1>3. CountInv
  BY <1>1 DEF CountInv, Empty
<1> QED BY <1>2, <1>3 DEF RefusedInv

LEMMA CountStep == TypeOK /\ CountInv /\ RefusedInv /\ [Next]_vars => (CountInv /\ RefusedInv)'
<1> SUFFICES ASSUME TypeOK, CountInv, RefusedInv, [Next]_vars PROVE CountInv' /\ RefusedInv'
  OBVIOUS
<1>0. \A b : LimitOf(b)' = LimitOf(b)
  BY DEF LimitOf, VerificationLimit, Limit
<1>1. ASSUME NEW j \in Slots, ByRequest(j) PROVE CountInv' /\ RefusedInv'
  <2>1. clock' = clock /\ clock \in Nat
    BY <1>1, RequestFrame DEF TypeOK
  <2>2. OnlySlot(j)
    BY <1>1, RequestMoves
  <2> DEFINE Refused(k) == job[k].pc = "done" /\ job[k].response.status = 429
             Over(b) == LimitOf(b) \in Nat /\ At(charged, b, 0) > LimitOf(b)
             OverNext(b) == LimitOf(b) \in Nat /\ At(charged', b, 0) > LimitOf(b)
  <2>3. \A k \in Slots : Refused(k) => Over(job[k].refusedAt)
    BY DEF RefusedInv
  <2>4. SUFFICES /\ CountInv' /\ \A b : Over(b) => OverNext(b)
                 /\ job'[j].pc = "done" /\ job'[j].response.status = 429 =>
                      OverNext(job'[j].refusedAt)
    <3>1. ASSUME NEW k \in Slots, job'[k].pc = "done" /\ job'[k].response.status = 429
          PROVE  OverNext(job'[k].refusedAt)
      <4>1. CASE k = j
        BY <2>4, <3>1, <4>1
      <4>2. CASE k # j
        <5>1. job'[k] = job[k]
          BY <2>2, <4>2 DEF OnlySlot
        <5> QED BY <2>3, <2>4, <3>1, <5>1
      <4> QED BY <4>1, <4>2
    <3>2. RefusedInv'
      BY <1>0, <3>1 DEF RefusedInv
    <3> QED BY <2>4, <3>2
  <2>5. CASE /\ charged' = charged /\ passed' = passed
             /\ counters' = counters /\ ~Budget(j) /\ ~Rate(j)
    <3>1. CountInv' /\ \A b : Over(b) => OverNext(b)
      BY <2>1, <2>5, CountersFrame
    <3>2. job'[j].pc # "done" \/ job'[j].response.status # 429
      <4>1. ASSUME NEW c \in Carriers, NEW header \in ProofHeaders, Arrive(j, Request(c, header))
            PROVE  job'[j].pc # "done"
        <5>1. Request(c, header) \in Requests
          BY DEF Requests
        <5> QED BY <4>1, <5>1, ArriveMoves
      <4> QED BY <1>1, <2>5, <4>1, BudgetFailsMoves, VerifyMoves, RecoverMoves, ReadAgentBookMoves,
                 AgentBookFailsMoves, AnswerMoves, ConsumeMoves, ConsumeFailsMoves,
                 RateUncountedMoves DEF ByRequest
    <3> QED BY <3>1, <3>2
  <2>6. CASE /\ charged' = charged /\ passed' = passed
             /\ counters' = SweptCounters /\ Consume(j)
    <3>1. CountInv' /\ \A b : Over(b) => OverNext(b)
      BY <2>1, <2>6, SweptCountersKeep
    <3>2. job'[j].pc # "done"
      BY <2>6, ConsumeMoves
    <3> QED BY <3>1, <3>2
  <2>7. CASE Charges(j)
    <3>1. PICK b : /\ CountInv'
                   /\ (b = BudgetBucket(j) /\ Budget(j)) \/ (b = Bucket(j) /\ Rate(j))
                   /\ \A a : \/ At(charged', a, 0) = At(charged, a, 0)
                             \/ /\ At(charged, a, 0) \in Nat
                                /\ At(charged', a, 0) = At(charged, a, 0) + 1
                   /\ LimitOf(b) \in Nat
                   /\ ~Allowed(b, LimitOf(b)) => At(charged', b, 0) > LimitOf(b)
      BY <1>1, <2>7, ChargesKeep
    <3>2. ASSUME NEW a, Over(a) PROVE OverNext(a)
      BY <3>1, <3>2
    <3>3. Running(j)
      BY <2>7 DEF Charges, Budget, Rate, Running
    <3>4. job'[j].pc = "done" /\ job'[j].response.status = 429 =>
            ~Allowed(b, LimitOf(b)) /\ job'[j].refusedAt = b
      BY <3>1, <3>3, BudgetMoves, RateMoves, BucketsHaveLimits
    <3> QED BY <3>1, <3>2, <3>4
  <2> QED BY <1>1, <2>5, <2>6, <2>7, CountersMove
<1>2. ASSUME counters' = counters, charged' = charged, passed' = passed, job' = job,
             clock' \in Nat, clock <= clock'
      PROVE  CountInv' /\ RefusedInv'
  <2>1. CountInv'
    BY <1>2, CountersFrame DEF TypeOK
  <2> QED BY <1>0, <1>2, <2>1 DEF RefusedInv
<1>3. CASE Tick
  <2>1. clock \in Nat /\ clock' = clock + 1
    BY <1>3 DEF TypeOK, Tick
  <2> QED BY <1>2, <1>3, <2>1 DEF Tick, Observed
<1>4. CASE \E w \in Wallets, s \in Standings : ChangeStanding(w, s)
  <2>1. clock \in Nat /\ clock' = clock
    BY <1>4 DEF TypeOK, ChangeStanding
  <2> QED BY <1>2, <1>4, <2>1 DEF ChangeStanding
<1>5. CASE UNCHANGED vars
  <2>1. clock \in Nat /\ clock' = clock
    BY <1>5 DEF TypeOK, vars
  <2> QED BY <1>2, <1>5, <2>1 DEF vars
<1> QED BY <1>1, <1>3, <1>4, <1>5 DEF Next, ByRequest

(* Within a window nobody is let through more often than the limit of the
   bucket allows, human-backed or not, and the verifier is not asked more often
   than its budget; a request refused for its rate met a bucket charged beyond
   its limit. *)
THEOREM LimitsAreKept == Spec => []RateLimitsHold
<1>1. Init => TypeOK /\ CountInv /\ RefusedInv
  BY TypeInit, CountInit
<1>2. TypeOK /\ CountInv /\ RefusedInv /\ [Next]_vars => (TypeOK /\ CountInv /\ RefusedInv)'
  BY TypeStep, CountStep
<1>3. CountInv /\ RefusedInv => RateLimitsHold
  BY DEF CountInv, RefusedInv, RateLimitsHold
<1> QED BY <1>1, <1>2, <1>3, PTL DEF Spec


=============================================================================
