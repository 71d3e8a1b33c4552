-------------------------- MODULE PriceRelayProofs --------------------------
(***************************************************************************)
(* Theorems about PriceRelay, for any feeds, scales, rounds and workflows: *)
(* the CRE oracle keeps the promise of IPriceOracle however reports are    *)
(* delivered, and once locked it reads nothing but the source's rounds.    *)
(***************************************************************************)
EXTENDS PriceRelay, TLAPS

Round == [answer : Int, updatedAt : Int]
Reading == [price8 : Int, updatedAt : Int]
Updates(r) == DOMAIN r.updates

(* What is on its way: every entry of a report is a round of a feed of ours. *)
SentType ==
  \A r \in sent : Updates(r) \subseteq Feeds /\ \A f \in Updates(r) : r.updates[f] \in Round

RelayType ==
  /\ now \in Nat
  /\ source \in [Feeds -> Seq(Round)]
  /\ readings \in [Feeds -> Reading]
  /\ SentType

(* The relay signs only what the source published, and every other report is the
   other workflow's. *)
Published(f, u) == \E k \in 1..Len(source[f]) : source[f][k] = u
RelayHonest ==
  \A r \in sent : \/ r.from = Foreign
                  \/ r.from = Relay /\ \A f \in Updates(r) : Published(f, r.updates[f])

IInv == RelayType /\ RelayHonest

-----------------------------------------------------------------------------
(* The change of scale yields a whole number, the largest at the reader's scale
   that is not above the answer. *)
LEMMA ScaledDown ==
  ASSUME NEW f \in Feeds, NEW answer \in Int
  PROVE  /\ To8(answer, Decimals[f]) \in Int
         /\ To8(answer, Decimals[f]) * 10^Decimals[f] <= answer * 10^TARGET_DECIMALS
         /\ answer * 10^TARGET_DECIMALS < (To8(answer, Decimals[f]) + 1) * 10^Decimals[f]
<1> DEFINE d == Decimals[f]
           P == 10^TARGET_DECIMALS
           Q == 10^d
           q == To8(answer, d)
<1>1. d \in Nat /\ TARGET_DECIMALS \in Nat
  BY DecimalsAssumption
<1>2. P \in Int /\ Q \in Int
  BY <1>1
<1>3. P > 0 /\ Q > 0
  BY PowersAssumption
<1>4. CASE d <= TARGET_DECIMALS
  <2> DEFINE R == 10^(TARGET_DECIMALS - d)
  <2>1. R \in Int
    BY <1>1, <1>4
  <2>2. R * Q = P
    BY <1>1, <1>4, PowersAssumption
  <2>3. q = answer * R
    BY <1>4 DEF To8
  <2> HIDE DEF P, Q, R, q
  <2>4. q \in Int
    BY <2>1, <2>3
  <2>5. q * Q = answer * P
    BY <1>2, <2>1, <2>2, <2>3
  <2>6. (q + 1) * Q = q * Q + Q
    BY <1>2, <2>4
  <2>7. q * Q <= answer * P /\ answer * P < (q + 1) * Q
    BY <1>2, <1>3, <2>4, <2>5, <2>6
  <2> QED BY <2>4, <2>7 DEF P, Q, q
<1>5. CASE d > TARGET_DECIMALS
  <2> DEFINE R == 10^(d - TARGET_DECIMALS)
  <2>1. R \in Int
    BY <1>1, <1>5
  <2>2. R > 0 /\ R * P = Q
    BY <1>1, <1>5, PowersAssumption
  <2>3. q = answer \div R
    BY <1>1, <1>5 DEF To8
  <2> HIDE DEF P, Q, R, q
  <2>4. q \in Int /\ q * R <= answer /\ answer < (q + 1) * R
    BY <2>1, <2>2, <2>3
  <2>5. (q * R) * P <= answer * P /\ answer * P < ((q + 1) * R) * P
    BY <1>2, <1>3, <2>1, <2>4
  <2>6. q * Q = (q * R) * P /\ (q + 1) * Q = ((q + 1) * R) * P
    BY <1>2, <2>1, <2>2, <2>4
  <2>7. q * Q <= answer * P /\ answer * P < (q + 1) * Q
    BY <2>5, <2>6
  <2> QED BY <2>4, <2>7 DEF P, Q, q
<1> QED BY <1>1, <1>4, <1>5

(* Applying a report's entries leaves every feed a reading. *)
LEMMA ApplyType ==
  ASSUME IInv, NEW r \in sent
  PROVE  Apply(r.updates) \in [Feeds -> Reading]
<1> SUFFICES ASSUME NEW f \in Feeds
             PROVE  Apply(r.updates)[f] \in Reading
  BY DEF Apply
<1>1. CASE f \in Updates(r) /\ Applies(f, r.updates[f])
  <2>1. r.updates[f] \in Round
    BY <1>1 DEF IInv, RelayType, SentType
  <2>2. To8(r.updates[f].answer, Decimals[f]) \in Int
    BY <2>1, ScaledDown DEF Round
  <2> QED BY <1>1, <2>1, <2>2 DEF Apply, Reading, Round, Updates
<1>2. CASE ~(f \in Updates(r) /\ Applies(f, r.updates[f]))
  BY <1>2 DEF Apply, IInv, RelayType, Updates
<1> QED BY <1>1, <1>2

(* The latest round of a feed that has any is one of its rounds. *)
LEMMA LatestPublished ==
  ASSUME IInv, NEW f \in Feeds, Written(f)
  PROVE  Latest(f) \in Round /\ Published(f, Latest(f))
<1>1. source[f] \in Seq(Round) /\ Len(source[f]) \in 1..Len(source[f])
  BY DEF IInv, RelayType, Written
<1> QED BY <1>1 DEF Latest, Published

LEMMA InvInit == Init => IInv
<1> SUFFICES ASSUME Init PROVE IInv
  OBVIOUS
<1>1. source \in [Feeds -> Seq(Round)]
  BY DEF Init
<1> QED BY <1>1 DEF Init, IInv, RelayType, SentType, RelayHonest, NoReading, Reading

LEMMA InvPublish ==
  ASSUME IInv, NEW f \in Feeds, NEW answer \in Answers[f], NEW skew \in {0, Ahead},
         Publish(f, answer, skew)
  PROVE  IInv'
<1> DEFINE round == [answer |-> answer, updatedAt |-> now + skew]
<1>1. round \in Round
  BY InputAssumption DEF IInv, RelayType, Round
<1>2. /\ source' = [source EXCEPT ![f] = Append(@, round)]
      /\ UNCHANGED <<now, sent, readings>>
  BY DEF Publish
<1> HIDE DEF round
<1>3. source' \in [Feeds -> Seq(Round)]
  BY <1>1, <1>2 DEF IInv, RelayType
<1>4. ASSUME NEW g \in Feeds, NEW u, Published(g, u) PROVE Published(g, u)'
  <2>1. PICK k \in 1..Len(source[g]) : source[g][k] = u
    BY <1>4 DEF Published
  <2>2. source[g] \in Seq(Round)
    BY DEF IInv, RelayType
  <2>3. source'[g] = source[g] \/ source'[g] = Append(source[g], round)
    BY <1>2 DEF IInv, RelayType
  <2>4. k \in 1..Len(source'[g]) /\ source'[g][k] = u
    BY <2>1, <2>2, <2>3, <1>1
  <2> QED BY <2>4 DEF Published
<1>5. RelayHonest'
  BY <1>2, <1>4 DEF IInv, RelayType, SentType, RelayHonest, Updates
<1> QED BY <1>2, <1>3, <1>5 DEF IInv, RelayType, SentType, Updates

LEMMA InvRelayRun ==
  ASSUME IInv, RelayRun PROVE IInv'
<1> DEFINE usable == {f \in Feeds : Usable(f)}
           report == [from |-> Relay, updates |-> [f \in usable |-> Latest(f)]]
<1>1. sent' = sent \cup {report} /\ UNCHANGED <<now, source, readings>>
  BY DEF RelayRun
<1>2. Updates(report) = usable /\ report.from = Relay
  BY DEF Updates
<1>3. \A f \in usable : /\ report.updates[f] = Latest(f)
                        /\ report.updates[f] \in Round /\ Published(f, report.updates[f])
  BY LatestPublished DEF Usable
<1>4. usable \subseteq Feeds
  OBVIOUS
<1> HIDE DEF usable, report
<1>5. SentType'
  BY <1>1, <1>2, <1>3, <1>4 DEF IInv, RelayType, SentType, Updates
<1>6. RelayHonest'
  BY <1>1, <1>2, <1>3, <1>4 DEF IInv, RelayHonest, Published, Updates
<1> QED BY <1>1, <1>5, <1>6 DEF IInv, RelayType

LEMMA InvForeignRun ==
  ASSUME IInv, NEW f \in Feeds, ForeignRun(f) PROVE IInv'
<1> DEFINE report == [from |-> Foreign,
                      updates |-> [g \in {f} |-> [answer |-> 99, updatedAt |-> MaxTime]]]
<1>1. sent' = sent \cup {report} /\ UNCHANGED <<now, source, readings>>
  BY DEF ForeignRun
<1>2. /\ Updates(report) = {f} /\ report.from = Foreign
      /\ report.updates[f] \in Round
  BY InputAssumption DEF Updates, Round
<1> HIDE DEF report
<1>3. SentType'
  BY <1>1, <1>2 DEF IInv, RelayType, SentType, Updates
<1>4. RelayHonest'
  BY <1>1, <1>2 DEF IInv, RelayHonest, Published, Updates
<1> QED BY <1>1, <1>3, <1>4 DEF IInv, RelayType

(* Every other step leaves the source and the reports as they are. *)
LEMMA InvFrame ==
  ASSUME IInv, UNCHANGED <<source, sent>>, now' \in Nat, readings' \in [Feeds -> Reading]
  PROVE  IInv'
BY DEF IInv, RelayType, SentType, RelayHonest, Published, Updates

LEMMA InvNext == IInv /\ [Next]_vars => IInv'
<1> SUFFICES ASSUME IInv, [Next]_vars PROVE IInv'
  OBVIOUS
<1>0. now \in Nat /\ readings \in [Feeds -> Reading]
  BY DEF IInv, RelayType
<1>1. ASSUME NEW f \in Feeds, NEW answer \in Answers[f], NEW skew \in {0, Ahead},
             Publish(f, answer, skew)
      PROVE  IInv'
  BY <1>1, InvPublish
<1>2. CASE RelayRun
  BY <1>2, InvRelayRun
<1>3. ASSUME NEW f \in Feeds, ForeignRun(f) PROVE IInv'
  BY <1>3, InvForeignRun
<1>4. ASSUME NEW s \in Forwarders, NEW r \in sent, OnReport(s, r) PROVE IInv'
  BY <1>0, <1>4, ApplyType, InvFrame DEF OnReport
<1>5. ASSUME NEW u \in Owners, NEW f \in Forwarders, SetForwarder(u, f) PROVE IInv'
  BY <1>0, <1>5, InvFrame DEF SetForwarder
<1>6. ASSUME NEW u \in Owners, NEW a \in Authors, SetExpectedAuthor(u, a) PROVE IInv'
  BY <1>0, <1>6, InvFrame DEF SetExpectedAuthor
<1>7. ASSUME NEW u \in Owners, NEW w \in Workflows, SetExpectedWorkflowId(u, w) PROVE IInv'
  BY <1>0, <1>7, InvFrame DEF SetExpectedWorkflowId
<1>8. ASSUME NEW u \in Owners, NEW v \in Owners, TransferOwnership(u, v) PROVE IInv'
  BY <1>0, <1>8, InvFrame DEF TransferOwnership
<1>9. ASSUME NEW u \in Owners, Lock(u) PROVE IInv'
  BY <1>0, <1>9, InvFrame DEF Lock
<1>10. CASE Tick
  BY <1>0, <1>10, InvFrame DEF Tick
<1>11. CASE UNCHANGED vars
  BY <1>0, <1>11, InvFrame DEF vars
<1> QED BY <1>1, <1>2, <1>3, <1>4, <1>5, <1>6, <1>7, <1>8, <1>9, <1>10, <1>11 DEF Next

LEMMA InvHolds == Spec => []IInv
BY InvInit, InvNext, PTL DEF Spec

-----------------------------------------------------------------------------
(* A step of the relay is a write of newer readings, a tick, or nothing, as far as
   a reader of IPriceOracle can tell. *)
LEMMA StepImplements ==
  ASSUME IInv, [Next]_vars
  PROVE  [Oracle!Write \/ Oracle!Tick]_<<now, readings>>
<1>0. now \in Nat /\ readings \in [Feeds -> Reading]
  BY DEF IInv, RelayType
<1>1. ASSUME NEW s \in Forwarders, NEW r \in sent, OnReport(s, r) PROVE Oracle!Write
  <2>1. readings' = Apply(r.updates) /\ UNCHANGED now
    BY <1>1 DEF OnReport
  <2>2. readings' \in [Feeds -> Reading]
    BY <2>1, ApplyType
  <2>3. ASSUME NEW f \in Feeds, readings'[f] # readings[f]
        PROVE  Oracle!Written(readings[f], readings'[f])
    <3>1. /\ f \in Updates(r) /\ Applies(f, r.updates[f])
          /\ readings'[f].updatedAt = r.updates[f].updatedAt
      BY <2>1, <2>3 DEF Apply, Updates
    <3>2. readings'[f].price8 \in Int
      BY <2>2 DEF Reading
    <3> QED BY <3>1, <3>2 DEF Applies, Oracle!Written
  <2> QED BY <2>1, <2>2, <2>3 DEF Oracle!Write
<1>2. CASE Tick
  BY <1>0, <1>2 DEF Tick, Oracle!Tick
<1>3. ASSUME UNCHANGED <<now, readings>>
      PROVE  [Oracle!Write \/ Oracle!Tick]_<<now, readings>>
  BY <1>3
<1>4. ASSUME NEW f \in Feeds, NEW answer \in Answers[f], NEW skew \in {0, Ahead},
             Publish(f, answer, skew)
      PROVE  UNCHANGED <<now, readings>>
  BY <1>4 DEF Publish
<1>5. RelayRun => UNCHANGED <<now, readings>>
  BY DEF RelayRun
<1>6. ASSUME NEW f \in Feeds, ForeignRun(f) PROVE UNCHANGED <<now, readings>>
  BY <1>6 DEF ForeignRun
<1>7. ASSUME NEW u \in Owners PROVE
        /\ \A f \in Forwarders : SetForwarder(u, f) => UNCHANGED <<now, readings>>
        /\ \A a \in Authors : SetExpectedAuthor(u, a) => UNCHANGED <<now, readings>>
        /\ \A w \in Workflows : SetExpectedWorkflowId(u, w) => UNCHANGED <<now, readings>>
        /\ \A v \in Owners : TransferOwnership(u, v) => UNCHANGED <<now, readings>>
        /\ Lock(u) => UNCHANGED <<now, readings>>
  BY DEF SetForwarder, SetExpectedAuthor, SetExpectedWorkflowId, TransferOwnership, Lock
<1>8. UNCHANGED vars => UNCHANGED <<now, readings>>
  BY DEF vars
<1> QED BY <1>1, <1>2, <1>3, <1>4, <1>5, <1>6, <1>7, <1>8 DEF Next

(* However reports are delayed, replayed, reordered or mixed with other workflows',
   the CRE oracle keeps the promise of IPriceOracle: a reading only moves to a newer
   round, which is not ahead of this chain beyond the skew (_apply). *)
THEOREM RelayImplementsOracle == Spec => ImplementsOracle
<1>1. Init => Oracle!Init
  BY DEF Init, Oracle!Init, NoReading, Oracle!NoReading
<1>2. IInv /\ [Next]_vars => [Oracle!Write \/ Oracle!Tick]_<<now, readings>>
  BY StepImplements
<1> QED BY <1>1, <1>2, InvHolds, PTL DEF Spec, ImplementsOracle, Oracle!Spec

-----------------------------------------------------------------------------
(* What onReport accepts under a configuration that names the relay is the relay's. *)
LEMMA AcceptsTheRelay ==
  ASSUME IInv, NEW r \in sent, Accepts(r.from),
         expectedAuthor \in {Zero, Relay.author},
         expectedWorkflowId \in {Zero, Relay.workflowId}
  PROVE  r.from = Relay
<1>1. expectedAuthor # Zero \/ expectedWorkflowId # Zero
  BY DEF Accepts, Configured
<1>2. r.from # Foreign
  BY <1>1, ForeignAssumption DEF Accepts
<1> QED BY <1>2 DEF IInv, RelayHonest

LEMMA LockedStep ==
  ASSUME IInv, [Next]_vars, locked,
         expectedAuthor \in {Zero, Relay.author},
         expectedWorkflowId \in {Zero, Relay.workflowId}
  PROVE  /\ \A f \in Feeds : readings'[f] # readings[f] =>
              \E k \in 1..Len(source[f]) : CameFrom(f, readings'[f], source[f][k])
         /\ UNCHANGED config
<1>1. ASSUME NEW s \in Forwarders, NEW r \in sent, OnReport(s, r),
             NEW f \in Feeds, readings'[f] # readings[f]
      PROVE  \E k \in 1..Len(source[f]) : CameFrom(f, readings'[f], source[f][k])
  <2>1. readings' = Apply(r.updates) /\ Accepts(r.from)
    BY <1>1 DEF OnReport
  <2>2. /\ f \in Updates(r) /\ Applies(f, r.updates[f])
        /\ readings'[f] = [price8 |-> To8(r.updates[f].answer, Decimals[f]),
                           updatedAt |-> r.updates[f].updatedAt]
    BY <1>1, <2>1 DEF Apply, Updates
  <2>3. r.updates[f] \in Round
    BY <2>2 DEF IInv, RelayType, SentType
  <2>4. Relay = r.from
    BY <2>1, AcceptsTheRelay
  <2>5. Relay # Foreign
    BY ForeignAssumption
  <2>6. PICK k \in 1..Len(source[f]) : source[f][k] = r.updates[f]
    BY <2>2, <2>4, <2>5 DEF IInv, RelayHonest, Published
  <2>7. CameFrom(f, readings'[f], r.updates[f])
    <3>1. r.updates[f].answer \in Int /\ r.updates[f].answer > 0
      BY <2>2, <2>3 DEF Applies, Round
    <3> DEFINE q == To8(r.updates[f].answer, Decimals[f])
    <3>2. readings'[f].price8 = q /\ readings'[f].updatedAt = r.updates[f].updatedAt
      BY <2>2
    <3>3. /\ q * 10^Decimals[f] <= r.updates[f].answer * 10^TARGET_DECIMALS
          /\ r.updates[f].answer * 10^TARGET_DECIMALS < (q + 1) * 10^Decimals[f]
      BY <3>1, ScaledDown
    <3> HIDE DEF q
    <3> QED BY <3>1, <3>2, <3>3, Zenon DEF CameFrom
  <2> QED BY <2>6, <2>7
<1>2. ASSUME NEW s \in Forwarders, NEW r \in sent, OnReport(s, r) PROVE UNCHANGED config
  BY <1>2 DEF OnReport, config
<1>3. \/ \E s \in Forwarders, r \in sent : OnReport(s, r)
      \/ UNCHANGED <<readings, config>>
  BY DEF Next, vars, config, Publish, RelayRun, ForeignRun, SetForwarder, SetExpectedAuthor,
         SetExpectedWorkflowId, TransferOwnership, Lock, Tick
<1> QED BY <1>1, <1>2, <1>3

(* Once locked with the relay named, by its author, its id or both, every reading that
   changes is a round the source published under that feed, at the reader's scale,
   and the configuration stays (onReport, lock). *)
THEOREM LockedReads == Spec => LockedReadsTheSource
<1>1. IInv /\ [Next]_vars =>
        [locked /\ expectedAuthor \in {Zero, Relay.author}
               /\ expectedWorkflowId \in {Zero, Relay.workflowId} =>
          /\ \A f \in Feeds : readings'[f] # readings[f] =>
               \E k \in 1..Len(source[f]) : CameFrom(f, readings'[f], source[f][k])
          /\ UNCHANGED config]_vars
  BY LockedStep
<1> QED BY <1>1, InvHolds, PTL DEF Spec, LockedReadsTheSource

=============================================================================
