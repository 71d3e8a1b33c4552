----------------------------- MODULE AgentProof -----------------------------
(***************************************************************************)
(* The proof an agent sends with a request, and how it is read: the        *)
(* request's headers (headers.ts), the envelope in the proof header        *)
(* (proof.ts), the signed message inside it (siwe.ts) and the client that  *)
(* builds all three (client.ts).  Text is a sequence of lines, a line is   *)
(* of a kind, and a field's value is <<v>>, or <<>> when it is empty.      *)
(***************************************************************************)
EXTENDS Naturals, Sequences, FiniteSets

CONSTANT None         \* undefined or null

Noise == [form |-> "noise"]     \* no base64, no JSON, no object
Joint == "joint"                \* several values joined with a comma
Mandatory == {"URI", "Version", "Chain ID", "Nonce", "Issued At"}

----------------------------------------------------------------------------
(* siwe.ts *)

FieldLine(key, value) == [kind |-> "field", key |-> key, value |-> <<value>>]
TextLine == [kind |-> "text"]
ResourcesLine == [kind |-> "resources"]
ItemLine == [kind |-> "item"]

\* The message formatSiweMessage renders: the optional lines only when given.
FormatSiweMessage(in) ==
    [domain |-> in.domain, address |-> in.address, blank |-> TRUE,
     lines |-> (IF in.statement THEN <<TextLine>> ELSE <<>>)
               \o << FieldLine("URI", in.uri), FieldLine("Version", in.version),
                     FieldLine("Chain ID", in.chainId), FieldLine("Nonce", in.nonce),
                     FieldLine("Issued At", in.issuedAt) >>
               \o (IF in.expirationTime = None THEN <<>>
                   ELSE <<FieldLine("Expiration Time", in.expirationTime[1])>>)
               \o (IF in.notBefore = None THEN <<>>
                   ELSE <<FieldLine("Not Before", in.notBefore[1])>>)
               \o (IF in.resources THEN <<ResourcesLine, ItemLine>> ELSE <<>>)]

IsField(line, key) == line.kind = "field" /\ line.key = key
UriLines(m) == {i \in DOMAIN m.lines : IsField(m.lines[i], "URI")}
FieldStart(m) == CHOOSE i \in UriLines(m) : \A j \in UriLines(m) : i <= j

\* What stands before the first URI line is the statement; the rest is fields.
Block(m) == SubSeq(m.lines, FieldStart(m), Len(m.lines))

\* A resource is read only in an unbroken run under the Resources line.
InResources(b, i) ==
    \E k \in 1..(i - 1) : /\ b[k].kind = "resources"
                          /\ \A j \in (k + 1)..(i - 1) : b[j].kind = "item"

Fields(b) == {i \in DOMAIN b : b[i].kind = "field"}
FieldIn(b, key) == {i \in Fields(b) : b[i].key = key}

SiweReadable(m) ==
    /\ m.domain # None /\ m.address # None /\ m.blank
    /\ UriLines(m) # {}
    /\ LET b == Block(m) IN
       /\ \A i \in DOMAIN b : /\ b[i].kind # "text"
                              /\ b[i].kind = "item" => InResources(b, i)
       /\ \A i, j \in Fields(b) : b[i].key = b[j].key => i = j
       /\ \A key \in Mandatory :
             \E i \in FieldIn(b, key) : b[i].value # <<>>

ValueIn(b, key) == b[CHOOSE i \in FieldIn(b, key) : TRUE].value[1]
FieldOf(m, key) == ValueIn(Block(m), key)

\* A chain line is a bare number or eip155 with a number; null otherwise.
ParseChainId(raw) == IF raw.namespace \in {"", "eip155"} THEN raw.reference ELSE None

----------------------------------------------------------------------------
(* proof.ts *)

\* The verdict on an envelope: "ok", or the failure code.
EnvelopeCode(raw) ==
    IF raw = Noise \/ raw.message = None THEN "proof_malformed"
    ELSE IF raw.signature = None THEN "signature_malformed"
    ELSE IF ~SiweReadable(raw.message[1]) THEN "proof_malformed"
    ELSE "ok"

Envelope(message, signature) ==
    [form |-> "envelope", message |-> <<message>>, signature |-> signature]

----------------------------------------------------------------------------
(* client.ts: a proof for one resource, signed by the agent's wallet.  The *)
(* address in the message is the one the caller names; the signature       *)
(* recovers to whoever signed.                                             *)

Signature(signer, message) == [by |-> signer, over |-> message]

BuildProof(in, signer) ==
    LET message == FormatSiweMessage(
            [domain |-> in.domain, address |-> in.wallet, statement |-> in.statement,
             uri |-> in.uri, version |-> "1",
             chainId |-> [namespace |-> IF in.caip2 THEN "eip155" ELSE "",
                          reference |-> in.chainId],
             nonce |-> in.nonce, issuedAt |-> in.issuedAt,
             expirationTime |-> <<in.issuedAt + in.lifetime>>,
             notBefore |-> None, resources |-> FALSE])
    IN  Envelope(message, Signature(signer, message))

----------------------------------------------------------------------------
(* headers.ts.  A request's proof headers are a sequence of entries, one   *)
(* per spelling of the name, each with its values; a fetch Headers has     *)
(* joined them all into one value.                                         *)

EntryConflicts(entry) == \E i, j \in DOMAIN entry : entry[i] # entry[j]
Given(entries) == {i \in DOMAIN entries : entries[i] # <<>>}
Joined(entries) == \/ Cardinality(Given(entries)) > 1
                   \/ \E i \in DOMAIN entries : Len(entries[i]) > 1

\* tryNormalizeHeaders: whether the proof header is ambiguous, and its value.
ConflictingHeader(req) ==
    req.source = "plain" /\ \E i \in DOMAIN req.proof : EntryConflicts(req.proof[i])

ProofHeader(req) ==
    LET given == Given(req.proof)
        last == CHOOSE i \in given : \A j \in given : j <= i
    IN  IF given = {} \/ ConflictingHeader(req) THEN None
        ELSE IF req.source = "fetch" /\ Joined(req.proof) THEN <<Joint>>
        ELSE <<req.proof[last][1]>>

\* forwardedClientAddress: the first hop of x-forwarded-for, else x-real-ip.
ForwardedClientAddress(req) ==
    IF req.forwarded # <<>> /\ Head(req.forwarded) # None
    THEN Head(req.forwarded) ELSE req.realIp
=============================================================================
