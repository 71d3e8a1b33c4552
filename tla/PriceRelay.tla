----------------------------- MODULE PriceRelay -----------------------------
(***************************************************************************)
(* A price's way onto the chain: the source feed's rounds, the CRE         *)
(* workflow of cre/price-relay that copies the latest ones into a signed   *)
(* report, the forwarder that delivers reports, late, out of order or more *)
(* than once, and contracts/src/oracles/ChainlinkCreOracle.sol, which      *)
(* keeps the newest usable round of every feed.  Other workflows may       *)
(* target the oracle through the same forwarder with whatever they like.   *)
(***************************************************************************)
EXTENDS Integers, Sequences, FiniteSets

CONSTANTS
  Feeds,              \* feed keys, one per source feed description
  Described,          \* the feeds whose source describes itself as configured
  Decimals,           \* decimals() of each source feed
  TARGET_DECIMALS,    \* 8: the scale of IPriceOracle
  MAX_DECIMALS,       \* 18: what the oracle refuses beyond
  MaxInt256,          \* type(int256).max
  MAX_FUTURE_SKEW,    \* the oracle's tolerance for a source clock ahead of this chain
  Answers,            \* answers the rounds of a source feed may carry
  Ahead,              \* how far the source clock may be ahead
  Zero,               \* the zero address, and the zero workflow id
  Owners, Forwarders, Authors, Workflows,   \* values configuration may be set to
  Relay,              \* the relay workflow, as [author, workflowId]
  Foreign,            \* some other workflow targeting the oracle
  MaxRounds,          \* bound: rounds of each source feed
  MaxTime             \* bound: block.timestamp

ASSUME DecimalsAssumption == Decimals \in [Feeds -> Nat] /\ TARGET_DECIMALS \in Nat
ASSUME InputAssumption ==
  Answers \in [Feeds -> SUBSET Int] /\ Ahead \in Nat /\ MaxTime \in Nat
ASSUME WidthAssumption == Described \subseteq Feeds /\ MaxInt256 \in Nat
(* The other workflow is somebody else's. *)
ASSUME ForeignAssumption ==
  Foreign.author # Relay.author /\ Foreign.workflowId # Relay.workflowId
(* The laws of powers of ten that a change of scale uses. *)
ASSUME PowersAssumption ==
  \A f \in Feeds :
    LET up == TARGET_DECIMALS - Decimals[f]
        down == Decimals[f] - TARGET_DECIMALS
    IN  /\ 10^Decimals[f] > 0 /\ 10^TARGET_DECIMALS > 0
        /\ up >= 0 => 10^up * 10^Decimals[f] = 10^TARGET_DECIMALS
        /\ down > 0 => 10^down > 0 /\ 10^down * 10^TARGET_DECIMALS = 10^Decimals[f]

VARIABLES
  now,                \* block.timestamp of the venue's chain
  source,             \* the rounds of every source feed, oldest first
  sent,               \* reports handed to the forwarder; it may deliver any, again
  readings,           \* the oracle's readings
  owner, forwarder, expectedAuthor, expectedWorkflowId, locked   \* its configuration

config == <<forwarder, expectedAuthor, expectedWorkflowId, locked>>
vars == <<now, source, sent, readings, owner, config>>

NoReading == [price8 |-> 0, updatedAt |-> 0]

-----------------------------------------------------------------------------
(* The source chain and the workflow.                                      *)

Written(f) == source[f] # <<>>
Latest(f) == source[f][Len(source[f])]

(* buildUpdate: the feed it was configured for, a round that was written, with a
   positive answer and usable decimals. *)
Usable(f) ==
  f \in Described /\ Written(f) /\ Latest(f).answer > 0 /\ Decimals[f] <= MAX_DECIMALS

(* A new round on the source chain, stamped by a clock that may be ahead of ours.
   The last one is published in time for the model's clock to reach its stamp. *)
Publish(f, answer, skew) ==
  /\ Len(source[f]) < MaxRounds[f]
  /\ now + skew <= MaxTime
  /\ Written(f) => now + skew >= Latest(f).updatedAt
  /\ source' = [source EXCEPT ![f] = Append(@, [answer |-> answer, updatedAt |-> now + skew])]
  /\ UNCHANGED <<now, sent, readings, owner, config>>

(* One cron run: every usable latest round goes into one report; with none, the run
   fails and sends nothing. *)
RelayRun ==
  LET usable == {f \in Feeds : Usable(f)}
  IN /\ usable # {}
     /\ sent' = sent \cup {[from |-> Relay, updates |-> [f \in usable |-> Latest(f)]]}
     /\ UNCHANGED <<now, source, readings, owner, config>>

(* A report of some other workflow: a price nobody published, newer than any. *)
ForeignRun(f) ==
  /\ sent' = sent \cup {[from |-> Foreign,
                         updates |-> [g \in {f} |-> [answer |-> 99, updatedAt |-> MaxTime]]]}
  /\ UNCHANGED <<now, source, readings, owner, config>>

-----------------------------------------------------------------------------
(* The oracle.                                                             *)

(* The answer at the scale of IPriceOracle, truncated if the feed is finer. *)
To8(answer, decimals) ==
  IF decimals <= TARGET_DECIMALS THEN answer * 10^(TARGET_DECIMALS - decimals)
                                 ELSE answer \div 10^(decimals - TARGET_DECIMALS)

(* Mutant of Applies: a replayed or reordered round lands again. *)
AppliesAnyOrder(f, u) ==
  Decimals[f] <= MAX_DECIMALS /\ u.answer > 0 /\ u.updatedAt <= now + MAX_FUTURE_SKEW

(* _apply: the four reasons to ignore an entry, each of which skips only that entry. *)
Applies(f, u) ==
  /\ Decimals[f] <= MAX_DECIMALS
  /\ u.answer > 0
  /\ u.updatedAt > readings[f].updatedAt
  /\ u.updatedAt <= now + MAX_FUTURE_SKEW

(* Scaling up is checked: an answer that leaves int256 reverts. *)
Fits(f, u) == To8(u.answer, Decimals[f]) <= MaxInt256

(* Mutant of Apply: one entry that does not apply discards the report. *)
ApplyAllOrNothing(updates) ==
  IF \A f \in DOMAIN updates : Applies(f, updates[f])
  THEN [f \in Feeds |-> IF f \in DOMAIN updates
                        THEN [price8 |-> To8(updates[f].answer, Decimals[f]),
                              updatedAt |-> updates[f].updatedAt]
                        ELSE readings[f]]
  ELSE readings

Apply(updates) ==
  [f \in Feeds |-> IF f \in DOMAIN updates /\ Applies(f, updates[f])
                   THEN [price8 |-> To8(updates[f].answer, Decimals[f]),
                         updatedAt |-> updates[f].updatedAt]
                   ELSE readings[f]]

(* An entry that does not apply is skipped, but one that overflows takes the whole
   report with it. *)
Overflows(updates) == \E f \in DOMAIN updates : Applies(f, updates[f]) /\ ~Fits(f, updates[f])

Configured == expectedAuthor # Zero \/ expectedWorkflowId # Zero

(* Mutant of Accepts: either of the two checks is enough. *)
AcceptsEither(r) ==
  Configured /\ (r.workflowId = expectedWorkflowId \/ r.author = expectedAuthor \/ expectedAuthor = Zero)

(* onReport accepts only a configured workflow; a check that is not set is skipped. *)
Accepts(r) ==
  /\ Configured
  /\ expectedWorkflowId # Zero => r.workflowId = expectedWorkflowId
  /\ expectedAuthor # Zero => r.author = expectedAuthor

(* The contract at sender calls onReport with a report that was sent. *)
OnReport(sender, r) ==
  /\ r \in sent
  /\ sender = forwarder
  /\ Accepts(r.from)
  /\ ~Overflows(r.updates)
  /\ readings' = Apply(r.updates)
  /\ UNCHANGED <<now, source, sent, owner, config>>

SetForwarder(u, f) ==
  /\ u = owner /\ ~locked /\ f # Zero
  /\ forwarder' = f
  /\ UNCHANGED <<now, source, sent, readings, owner, expectedAuthor, expectedWorkflowId, locked>>

SetExpectedAuthor(u, a) ==
  /\ u = owner /\ ~locked
  /\ expectedAuthor' = a
  /\ UNCHANGED <<now, source, sent, readings, owner, forwarder, expectedWorkflowId, locked>>

SetExpectedWorkflowId(u, w) ==
  /\ u = owner /\ ~locked
  /\ expectedWorkflowId' = w
  /\ UNCHANGED <<now, source, sent, readings, owner, forwarder, expectedAuthor, locked>>

TransferOwnership(u, v) ==
  /\ u = owner
  /\ owner' = v
  /\ UNCHANGED <<now, source, sent, readings, config>>

Lock(u) ==
  /\ u = owner /\ ~locked
  /\ Configured
  /\ locked' = TRUE
  /\ UNCHANGED <<now, source, sent, readings, owner, forwarder, expectedAuthor, expectedWorkflowId>>

Tick ==
  /\ now < MaxTime
  /\ now' = now + 1
  /\ UNCHANGED <<source, sent, readings, owner, config>>

-----------------------------------------------------------------------------
(* The constructor names a forwarder and an owner, and no workflow. *)
Init ==
  /\ now = 1
  /\ source = [f \in Feeds |-> <<>>] /\ sent = {}
  /\ readings = [f \in Feeds |-> NoReading]
  /\ owner \in Owners /\ forwarder \in Forwarders \ {Zero}
  /\ expectedAuthor = Zero /\ expectedWorkflowId = Zero /\ locked = FALSE

Next ==
  \/ \E f \in Feeds : \E answer \in Answers[f], skew \in {0, Ahead} : Publish(f, answer, skew)
  \/ RelayRun
  \/ \E f \in Feeds : ForeignRun(f)
  \/ \E s \in Forwarders, r \in sent : OnReport(s, r)
  \/ \E u \in Owners, f \in Forwarders : SetForwarder(u, f)
  \/ \E u \in Owners, a \in Authors : SetExpectedAuthor(u, a)
  \/ \E u \in Owners, w \in Workflows : SetExpectedWorkflowId(u, w)
  \/ \E u, v \in Owners : TransferOwnership(u, v)
  \/ \E u \in Owners : Lock(u)
  \/ Tick

Spec == Init /\ [][Next]_vars

(* Time passes, the cron keeps running, and the forwarder delivers what the DON has
   signed to an oracle its owner has pointed at the relay. *)
FairSpec ==
  /\ Spec
  /\ WF_vars(Tick)
  /\ WF_vars(RelayRun)
  /\ \A f \in Feeds : WF_vars(\E s \in Forwarders, r \in sent :
                                OnReport(s, r) /\ readings'[f] # readings[f])

-----------------------------------------------------------------------------
(* Properties.                                                             *)

(* A round of f that this reading came from, at the reader's scale, rounded down. *)
CameFrom(f, reading, round) ==
  /\ round.updatedAt = reading.updatedAt
  /\ round.answer > 0
  /\ reading.price8 * 10^Decimals[f] <= round.answer * 10^TARGET_DECIMALS
  /\ round.answer * 10^TARGET_DECIMALS < (reading.price8 + 1) * 10^Decimals[f]

(* After lock only the named workflow is trusted: with the relay named, a new reading
   is a round the source feed published, under that feed's own key, whatever other
   workflows send and whatever the owner does. *)
LockedReadsTheSource ==
  [][locked /\ expectedAuthor \in {Zero, Relay.author}
            /\ expectedWorkflowId \in {Zero, Relay.workflowId} =>
       /\ \A f \in Feeds : readings'[f] # readings[f] =>
            \E k \in 1..Len(source[f]) : CameFrom(f, readings'[f], source[f][k])
       /\ UNCHANGED config]_vars

Oracle == INSTANCE PriceOracle

(* Replayed, reordered and early reports never move a reading back or into the
   future: the oracle keeps the promises of IPriceOracle. *)
ImplementsOracle == Oracle!Spec

(* A usable round that stays the latest reaches the oracle, though another feed of the
   same report has nothing new or nothing usable; unless the latest round of one of
   them overflows when it is scaled: then the whole report reverts, against _apply's
   comment that one bad entry is skipped. *)
RelayNamed == Accepts(Relay)
Arrived(f) == Written(f) /\ readings[f].updatedAt >= Latest(f).updatedAt
Blocked == \E f \in Feeds : Usable(f) /\ ~Fits(f, Latest(f))
RoundsArrive ==
  <>[]RelayNamed => \A f \in Feeds : Usable(f) ~> Arrived(f) \/ ~Usable(f) \/ Blocked

=============================================================================
