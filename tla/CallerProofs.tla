--------------------------- MODULE CallerProofs ---------------------------
(***************************************************************************)
(* What holds of those who call the market.  The resolver, for every set   *)
(* of specs, every freeze and timeout: however many specs name a market,   *)
(* one of them settles it, once and for good.  Its keepers: what a run     *)
(* decides was due at one moment of the run.  The page, for every set of   *)
(* networks, every wallet and any number of presses: a transaction goes    *)
(* where the press said.                                                   *)
(***************************************************************************)
EXTENDS Keeper, WebFlow, FiniteSetTheorems, TLAPS

(* What a step of the market can do to the settlement, whoever takes it. *)
Untouched == UNCHANGED <<marketVars, settled>>
Opens == status = "None" /\ status' = "Open" /\ UNCHANGED <<winner, settled>>
TimesOut == /\ status = "Open" /\ now >= FREEZE + VOID_TIMEOUT
            /\ status' = "Voided" /\ UNCHANGED settled
Settles(s) == /\ status = "Open" /\ settled' = settled \cup {s}
              /\ status' \in {"Resolved", "Voided"}

LEMMA StepKinds ==
  ASSUME [ResolutionNext]_vars
  PROVE  Untouched \/ Opens \/ TimesOut \/ \E s \in Specs : Settles(s)
<1> USE DEF Untouched, marketVars, resolverVars
<1>1. ASSUME NEW s \in Specs, Open(s) PROVE Opens
  BY <1>1 DEF Open, Opens
<1>2. ASSUME NEW s \in Specs, Register(s) PROVE Untouched
  BY <1>2 DEF Register
<1>3. ASSUME NEW s \in Specs, Resolve(s) PROVE Settles(s)
  BY <1>3 DEF Resolve, Settles, SettlerResolve
<1>4. ASSUME NEW s \in Specs, VoidStale(s) PROVE Settles(s)
  BY <1>4 DEF VoidStale, Settles, SettlerVoid
<1>5. ASSUME VoidMarket PROVE TimesOut
  BY <1>5 DEF VoidMarket, TimesOut
<1>6. ASSUME NEW f, NEW p, NEW t, WritePrice(f, p, t) PROVE Untouched
  BY <1>6 DEF WritePrice
<1>7. CASE Clock
  BY <1>7 DEF Clock
<1>8. CASE UNCHANGED vars
  BY <1>8 DEF vars
<1> HIDE DEF Untouched
<1> QED BY <1>1, <1>2, <1>3, <1>4, <1>5, <1>6, <1>7, <1>8 DEF ResolutionNext

(* The inductive form of OneSpecSettles: until the market is settled no spec is,
   and then at most one. *)
SettledOnce ==
  /\ settled = {} \/ \E s \in Specs : settled = {s}
  /\ settled # {} => status \in {"Resolved", "Voided"}
  /\ status = "Resolved" => settled # {}

LEMMA SettledOnceInductive == ResolutionSpec => []SettledOnce
<1>1. ResolutionInit => SettledOnce
  BY DEF ResolutionInit, SettledOnce
<1>2. SettledOnce /\ [ResolutionNext]_vars => SettledOnce'
  <2> SUFFICES ASSUME SettledOnce, [ResolutionNext]_vars PROVE SettledOnce'
    OBVIOUS
  <2>1. CASE Untouched
    BY <2>1 DEF SettledOnce, Untouched, marketVars
  <2>2. CASE Opens
    BY <2>2 DEF SettledOnce, Opens
  <2>3. CASE TimesOut
    BY <2>3 DEF SettledOnce, TimesOut
  <2>4. ASSUME NEW s \in Specs, Settles(s) PROVE SettledOnce'
    <3>1. settled = {}
      BY <2>4 DEF SettledOnce, Settles
    <3>2. settled' = {s}
      BY <2>4, <3>1 DEF Settles
    <3> QED BY <2>4, <3>2 DEF SettledOnce, Settles
  <2> QED BY <2>1, <2>2, <2>3, <2>4, StepKinds
<1> QED BY <1>1, <1>2, PTL DEF ResolutionSpec

(* Whatever the number of specs naming a market and the order of calls, the resolver
   settles it through at most one of them, and never without the settler. *)
THEOREM SettledThroughOneSpec == ResolutionSpec => []OneSpecSettles
<1>1. SettledOnce => OneSpecSettles
  <2> SUFFICES ASSUME SettledOnce PROVE OneSpecSettles
    OBVIOUS
  <2>1. Cardinality(settled) \in {0, 1}
    BY FS_EmptySet, FS_Singleton DEF SettledOnce
  <2> QED BY <2>1 DEF SettledOnce, OneSpecSettles
<1> QED BY <1>1, SettledOnceInductive, PTL

(* No later call of anybody, and no later price, changes a settlement. *)
THEOREM SettledForGood == ResolutionSpec => SettlementIsFinal
<1>1. [ResolutionNext]_vars => [(status \in {"Resolved", "Voided"}) => UNCHANGED marketVars]_vars
  <2> SUFFICES ASSUME [ResolutionNext]_vars, status \in {"Resolved", "Voided"}
               PROVE  UNCHANGED marketVars
    OBVIOUS
  <2> QED BY StepKinds DEF Untouched, Opens, TimesOut, Settles
<1> QED BY <1>1, PTL DEF ResolutionSpec, SettlementIsFinal

-----------------------------------------------------------------------------
(* The keepers.                                                            *)

Answers(S) == {<<>>} \cup {<<x>> : x \in S}
PreviewAnswer == [hasReading: BOOLEAN, ready: BOOLEAN, age: Nat]
Snapshot == [preview: Answers(PreviewAnswer), known: Answers(BOOLEAN), settled: Answers(BOOLEAN)]
Run == [at: {"idle", "reading"}, i: Nat, now: Nat, allowVoid: BOOLEAN, snapshot: Snapshot]

KeeperTypes ==
  /\ now \in Nat
  /\ \A f \in Feeds : readings[f].updatedAt \in Nat
  /\ runs \in [Keepers -> Run]
  /\ \A k \in Keepers : runs[k].at = "reading" => runs[k].i \in 1..Len(SpecIds)

(* What a preview calls for was due when it was answered, and a run remembers that. *)
WasDue(k, p) ==
  /\ p.ready => [spec |-> SpecOf(k), call |-> "resolve"] \in due[k]
  /\ runs[k].now >= SpecOf(k).resolutionTime /\ p.age > SpecOf(k).maxStaleness + EXTRA =>
       [spec |-> SpecOf(k), call |-> "voidStale"] \in due[k]

SeenOK ==
  \A k \in Keepers : runs[k].at = "reading" =>
    /\ runs[k].now <= now + CLOCK_AHEAD
    /\ \A p \in PreviewAnswer : runs[k].snapshot.preview = <<p>> => WasDue(k, p)

KeeperInv == KeeperTypes /\ SeenOK

LEMMA SpecFields ==
  ASSUME NEW s \in Specs
  PROVE  s.feed \in Feeds /\ s.maxStaleness \in Nat /\ s.resolutionTime \in Nat
BY SpecAssumption

LEMMA SpecOfSpecs ==
  ASSUME NEW k, runs[k].i \in 1..Len(SpecIds)
  PROVE  SpecOf(k) \in Specs
BY KeeperAssumption DEF SpecOf

(* Time and the rounds of the feeds only move forward. *)
LEMMA RoundsGrow ==
  ASSUME KeeperTypes, [ResolutionNext]_vars
  PROVE  /\ now' \in Nat /\ now' >= now
         /\ \A f \in Feeds : /\ readings'[f].updatedAt \in Nat
                             /\ readings'[f].updatedAt >= readings[f].updatedAt
<1>1. ASSUME NEW f \in Feeds, NEW p, NEW t \in Int, WritePrice(f, p, t)
      PROVE  /\ now' = now
             /\ \A g \in Feeds : /\ readings'[g].updatedAt \in Nat
                                 /\ readings'[g].updatedAt >= readings[g].updatedAt
  <2>1. /\ now' = now
        /\ \A g \in Feeds : readings'[g] # readings[g] => Written(readings[g], readings'[g])
    BY <1>1 DEF WritePrice, Write
  <2>2. ASSUME NEW g \in Feeds
        PROVE  readings'[g].updatedAt \in Nat /\ readings'[g].updatedAt >= readings[g].updatedAt
    <3>1. CASE readings'[g] = readings[g]
      BY <3>1 DEF KeeperTypes
    <3>2. CASE readings'[g] # readings[g]
      <4>1. readings'[g].updatedAt > readings[g].updatedAt
        BY <2>1, <3>2 DEF Written
      <4>2. readings'[g] = readings[g] \/ readings'[g] = [price8 |-> p, updatedAt |-> t]
        <5>1. readings' = [readings EXCEPT ![f] = [price8 |-> p, updatedAt |-> t]]
          BY <1>1 DEF WritePrice
        <5> QED BY <5>1
      <4>3. readings'[g].updatedAt = t
        BY <3>2, <4>2
      <4> QED BY <4>1, <4>3 DEF KeeperTypes
    <3> QED BY <3>1, <3>2
  <2> QED BY <2>1, <2>2
<1>2. ASSUME UNCHANGED readings, now' = now \/ now' = now + 1
      PROVE  /\ now' \in Nat /\ now' >= now
             /\ \A f \in Feeds : /\ readings'[f].updatedAt \in Nat
                                 /\ readings'[f].updatedAt >= readings[f].updatedAt
  BY <1>2 DEF KeeperTypes
<1>3. CASE \E s \in Specs : Open(s) \/ Register(s) \/ Resolve(s) \/ VoidStale(s)
  BY <1>2, <1>3 DEF Open, Register, Resolve, VoidStale
<1>4. CASE VoidMarket
  BY <1>2, <1>4 DEF VoidMarket
<1>5. CASE Clock
  BY <1>2, <1>5 DEF Clock
<1>6. CASE UNCHANGED vars
  BY <1>2, <1>6 DEF vars
<1>7. CASE \E f \in Feeds, p \in Prices, t \in (now - 1)..(now + MAX_FUTURE_SKEW) : WritePrice(f, p, t)
  BY <1>1, <1>7 DEF KeeperTypes
<1> QED BY <1>3, <1>4, <1>5, <1>6, <1>7 DEF ResolutionNext

(* A run under way forgets nothing, and learns what the step has made due. *)
LEMMA Remembered ==
  ASSUME Remember, NEW k \in Keepers, runs'[k].at = "reading"
  PROVE  due[k] \subseteq due'[k] /\ DueNow' \subseteq due'[k]
<1>1. due'[k] = IF runs'[k].at = "idle" THEN {} ELSE due[k] \cup DueNow'
  BY DEF Remember
<1>2. due'[k] = due[k] \cup DueNow'
  BY <1>1
<1> QED BY <1>2

LEMMA IdleRun == Idle \in Run /\ Idle.at # "reading" /\ NoSnapshot \in Snapshot
BY DEF Idle, Run, NoSnapshot, Snapshot, Answers, Unread

(* Advance ends the pass or takes the next spec, of which nothing is read yet. *)
LEMMA AdvanceRun ==
  ASSUME KeeperTypes, NEW k \in Keepers, runs[k].at = "reading", runs' = Advance(k)
  PROVE  /\ runs' \in [Keepers -> Run]
         /\ \A j \in Keepers : j # k => runs'[j] = runs[j]
         /\ \/ runs'[k].at # "reading"
            \/ /\ runs'[k].i \in 1..Len(SpecIds) /\ runs'[k].snapshot.preview = <<>>
               /\ runs'[k].now = runs[k].now
<1>1. /\ runs \in [Keepers -> Run] /\ runs[k] \in Run /\ runs[k].i \in 1..Len(SpecIds)
      /\ Len(SpecIds) \in Nat
  BY KeeperAssumption DEF KeeperTypes
<1>2. CASE runs[k].i = Len(SpecIds)
  <2>1. runs' = [runs EXCEPT ![k] = Idle]
    BY <1>2 DEF Advance
  <2> QED BY <1>1, <2>1, IdleRun
<1>3. CASE runs[k].i # Len(SpecIds)
  <2> DEFINE next == [runs[k] EXCEPT !.at = "reading", !.i = runs[k].i + 1,
                                     !.snapshot = NoSnapshot]
  <2>1. runs' = [runs EXCEPT ![k] = next]
    BY <1>1, <1>3 DEF Advance
  <2>2. next \in Run /\ next.i = runs[k].i + 1 /\ next.snapshot = NoSnapshot
    <3>1. /\ NoSnapshot \in Snapshot /\ "reading" \in {"idle", "reading"}
          /\ runs[k].i + 1 \in Nat
      BY <1>1, IdleRun
    <3> HIDE DEF NoSnapshot, Snapshot
    <3> QED BY <1>1, <3>1 DEF Run
  <2>5. next.now = runs[k].now
    <3>1. runs[k] \in [at: {"idle", "reading"}, i: Nat, now: Nat, allowVoid: BOOLEAN, snapshot: Snapshot]
      BY <1>1 DEF Run
    <3> HIDE DEF Snapshot, NoSnapshot
    <3> QED BY <3>1
  <2>3. NoSnapshot.preview = <<>>
    BY DEF NoSnapshot, Unread
  <2> HIDE DEF next
  <2> QED BY <1>1, <1>3, <2>1, <2>2, <2>3, <2>5
<1> QED BY <1>2, <1>3

LEMMA PreviewTyped ==
  ASSUME KeeperTypes, NEW s \in Specs
  PROVE  /\ Preview(s) \in PreviewAnswer
         /\ Preview(s).ready => Ready(s)
         /\ Preview(s).age > 0 => Live(s) /\ HasReading(s.feed) /\ Age(s) = Preview(s).age
<1>1. s.feed \in Feeds /\ s.maxStaleness \in Nat
  BY SpecFields
<1>2. now \in Nat /\ readings[s.feed].updatedAt \in Nat
  BY <1>1 DEF KeeperTypes
<1>3. Age(s) \in Nat
  BY <1>2 DEF Age
<1>4. Live(s) \in BOOLEAN /\ Ready(s) \in BOOLEAN
  BY DEF Live, Ready
<1>5. CASE Live(s) /\ HasReading(s.feed)
  <2>1. Preview(s) = [hasReading |-> TRUE, ready |-> Ready(s), age |-> Age(s)]
    BY <1>5 DEF Preview
  <2> QED BY <1>3, <1>4, <1>5, <2>1 DEF PreviewAnswer
<1>6. CASE ~(Live(s) /\ HasReading(s.feed))
  <2>1. Preview(s) = [hasReading |-> ~Live(s), ready |-> FALSE, age |-> 0]
    BY <1>6 DEF Preview
  <2> QED BY <1>4, <2>1 DEF PreviewAnswer
<1> QED BY <1>5, <1>6

(* What a fresh preview calls for is due at the moment of the read. *)
LEMMA CalledFor ==
  ASSUME KeeperInv, NEW k \in Keepers, runs[k].at = "reading",
         NEW s \in Specs, NEW p \in PreviewAnswer, p = Preview(s)
  PROVE  /\ p.ready => [spec |-> s, call |-> "resolve"] \in DueNow
         /\ runs[k].now >= s.resolutionTime /\ p.age > s.maxStaleness + EXTRA =>
              [spec |-> s, call |-> "voidStale"] \in DueNow
<1>1. /\ p.ready => Ready(s)
      /\ p.age > 0 => Live(s) /\ HasReading(s.feed) /\ Age(s) = p.age
  BY PreviewTyped DEF KeeperInv
<1>2. /\ s.maxStaleness \in Nat /\ s.resolutionTime \in Nat
      /\ EXTRA \in Nat /\ CLOCK_AHEAD \in Nat
  BY SpecFields, KeeperAssumption
<1>3. p.age \in Nat
  BY DEF PreviewAnswer
<1>4. runs[k].now \in Nat /\ now \in Nat /\ runs[k].now <= now + CLOCK_AHEAD
  BY DEF KeeperInv, KeeperTypes, Run, SeenOK
<1>5. ASSUME p.ready PROVE [spec |-> s, call |-> "resolve"] \in DueNow
  BY <1>1, <1>5 DEF DueNow, IsDue, Calls
<1>6. ASSUME runs[k].now >= s.resolutionTime, p.age > s.maxStaleness + EXTRA
      PROVE  [spec |-> s, call |-> "voidStale"] \in DueNow
  <2>1. Live(s) /\ HasReading(s.feed) /\ Age(s) > s.maxStaleness + EXTRA
    BY <1>1, <1>2, <1>3, <1>6
  <2>2. now + CLOCK_AHEAD >= s.resolutionTime
    BY <1>2, <1>4, <1>6
  <2> QED BY <2>1, <2>2 DEF DueNow, IsDue, Calls
<1> QED BY <1>5, <1>6

LEMMA PreviewDue ==
  ASSUME KeeperInv, NEW k \in Keepers, runs[k].at = "reading", UNCHANGED vars, Remember,
         runs'[k].at = "reading", SpecOf(k)' = SpecOf(k), runs'[k].now = runs[k].now,
         NEW p \in PreviewAnswer, p = Preview(SpecOf(k))
  PROVE  WasDue(k, p)'
<1>1. PICK s \in Specs : s = SpecOf(k)
  BY SpecOfSpecs DEF KeeperInv, KeeperTypes
<1>2. DueNow \subseteq due'[k]
  <2>1. \A tx : IsDue(tx)' <=> IsDue(tx)
    BY DEF IsDue, Ready, Live, Fresh, HasReading, Age, vars, resolverVars
  <2>2. Calls' = Calls
    BY DEF Calls
  <2>3. DueNow' = DueNow
    BY <2>1, <2>2 DEF DueNow
  <2> QED BY <2>3, Remembered
<1>3. /\ p.ready => [spec |-> s, call |-> "resolve"] \in DueNow
      /\ runs[k].now >= s.resolutionTime /\ p.age > s.maxStaleness + EXTRA =>
           [spec |-> s, call |-> "voidStale"] \in DueNow
  BY <1>1, CalledFor
<1> QED BY <1>1, <1>2, <1>3 DEF WasDue

(* A read fills in its own answer, and only that. *)
LEMMA ReadRun ==
  ASSUME KeeperTypes, NEW k \in Keepers,
         ReadPreview(k) \/ ReadSpec(k) \/ ReadSettled(k)
  PROVE  /\ runs[k].at = "reading" /\ runs' \in [Keepers -> Run]
         /\ \A j \in Keepers : j # k => runs'[j] = runs[j]
         /\ runs'[k].i = runs[k].i /\ SpecOf(k)' = SpecOf(k)
         /\ runs'[k].now = runs[k].now /\ runs'[k].at = "reading"
         /\ \/ runs'[k].snapshot.preview = runs[k].snapshot.preview
            \/ runs'[k].snapshot.preview = <<Preview(SpecOf(k))>>
<1>1. /\ runs \in [Keepers -> Run] /\ runs[k] \in Run /\ runs[k].at = "reading"
      /\ runs[k].i \in 1..Len(SpecIds) /\ runs[k].snapshot \in Snapshot
  BY DEF KeeperTypes, ReadPreview, ReadSpec, ReadSettled, Run
<1>2. ASSUME NEW snap \in Snapshot, runs' = [runs EXCEPT ![k].snapshot = snap]
      PROVE  /\ runs' \in [Keepers -> Run] /\ \A j \in Keepers : j # k => runs'[j] = runs[j]
             /\ runs'[k].i = runs[k].i /\ runs'[k].snapshot = snap /\ SpecOf(k)' = SpecOf(k)
             /\ runs'[k].now = runs[k].now /\ runs'[k].at = "reading"
  <2>1. [runs[k] EXCEPT !.snapshot = snap] \in Run
    BY <1>1 DEF Run
  <2>2. runs' = [runs EXCEPT ![k] = [runs[k] EXCEPT !.snapshot = snap]]
    BY <1>1, <1>2
  <2>3. /\ runs'[k].i = runs[k].i /\ runs'[k].snapshot = snap
        /\ runs'[k].now = runs[k].now /\ runs'[k].at = runs[k].at
    BY <1>1, <2>2 DEF Run
  <2> QED BY <1>1, <2>1, <2>2, <2>3 DEF SpecOf
<1>3. CASE ReadPreview(k)
  <2> DEFINE snap == [runs[k].snapshot EXCEPT !.preview = <<Preview(SpecOf(k))>>]
  <2>1. runs' = [runs EXCEPT ![k].snapshot = snap]
    BY <1>1, <1>3 DEF ReadPreview, ReadOne
  <2>2. snap \in Snapshot /\ snap.preview = <<Preview(SpecOf(k))>>
    BY <1>1, SpecOfSpecs, PreviewTyped DEF Snapshot, Answers
  <2> HIDE DEF snap
  <2> QED BY <1>1, <1>2, <2>1, <2>2
<1>4. CASE ReadSpec(k)
  <2>3. PICK b \in BOOLEAN : b = (SpecOf(k) \in registered)
    BY (SpecOf(k) \in registered) \in BOOLEAN
  <2> DEFINE snap == [runs[k].snapshot EXCEPT !.known = <<b>>]
  <2>1. runs' = [runs EXCEPT ![k].snapshot = snap]
    BY <1>1, <1>4, <2>3 DEF ReadSpec, ReadOne
  <2>2. snap \in Snapshot /\ snap.preview = runs[k].snapshot.preview
    BY <1>1 DEF Snapshot, Answers
  <2> HIDE DEF snap
  <2> QED BY <1>1, <1>2, <2>1, <2>2
<1>5. CASE ReadSettled(k)
  <2>3. PICK b \in BOOLEAN : b = (SpecOf(k) \in settled)
    BY (SpecOf(k) \in settled) \in BOOLEAN
  <2> DEFINE snap == [runs[k].snapshot EXCEPT !.settled = <<b>>]
  <2>1. runs' = [runs EXCEPT ![k].snapshot = snap]
    BY <1>1, <1>5, <2>3 DEF ReadSettled, ReadOne
  <2>2. snap \in Snapshot /\ snap.preview = runs[k].snapshot.preview
    BY <1>1 DEF Snapshot, Answers
  <2> HIDE DEF snap
  <2> QED BY <1>1, <1>2, <2>1, <2>2
<1> QED BY <1>3, <1>4, <1>5

(* The chain moves, by somebody's call or by one that was sent before. *)
LEMMA ChainMoves ==
  ASSUME KeeperInv, [ResolutionNext]_vars, runs' = runs, Remember \/ due' = due
  PROVE  KeeperInv'
<1>1. KeeperTypes' /\ now' \in Nat /\ now' >= now
  BY RoundsGrow DEF KeeperInv, KeeperTypes
<1>2. ASSUME NEW k \in Keepers, runs'[k].at = "reading"
      PROVE  /\ runs'[k].now <= now' + CLOCK_AHEAD
             /\ \A p \in PreviewAnswer : runs'[k].snapshot.preview = <<p>> => WasDue(k, p)'
  <2>1. SpecOf(k)' = SpecOf(k) /\ due[k] \subseteq due'[k]
    BY <1>2, Remembered DEF SpecOf
  <2>2. runs[k].now \in Nat /\ now \in Nat /\ CLOCK_AHEAD \in Nat
    BY KeeperAssumption DEF KeeperInv, KeeperTypes, Run
  <2>3. /\ runs[k].now <= now + CLOCK_AHEAD
        /\ \A p \in PreviewAnswer : runs[k].snapshot.preview = <<p>> => WasDue(k, p)
    BY <1>2 DEF KeeperInv, SeenOK
  <2>4. runs'[k].now <= now' + CLOCK_AHEAD
    BY <1>1, <2>2, <2>3
  <2> QED BY <2>1, <2>3, <2>4 DEF WasDue
<1> QED BY <1>1, <1>2 DEF KeeperInv, SeenOK

(* One run goes on, and what its preview calls for was due. *)
LEMMA RunMoves ==
  ASSUME KeeperInv, UNCHANGED vars, Remember, NEW k \in Keepers,
         runs' \in [Keepers -> Run], \A j \in Keepers : j # k => runs'[j] = runs[j],
         runs'[k].at = "reading" =>
           /\ runs'[k].i \in 1..Len(SpecIds) /\ runs'[k].now <= now + CLOCK_AHEAD
           /\ \A p \in PreviewAnswer : runs'[k].snapshot.preview = <<p>> => WasDue(k, p)'
  PROVE  KeeperInv'
<1>1. readings' = readings /\ now' = now
  BY DEF vars
<1>2. KeeperTypes'
  BY <1>1 DEF KeeperInv, KeeperTypes
<1>3. ASSUME NEW j \in Keepers, runs'[j].at = "reading"
      PROVE  /\ runs'[j].now <= now' + CLOCK_AHEAD
             /\ \A p \in PreviewAnswer : runs'[j].snapshot.preview = <<p>> => WasDue(j, p)'
  <2>1. CASE j = k
    BY <1>1, <1>3, <2>1
  <2>2. CASE j # k
    <3>1. SpecOf(j)' = SpecOf(j) /\ runs'[j] = runs[j] /\ due[j] \subseteq due'[j]
      BY <1>3, <2>2, Remembered DEF SpecOf
    <3>2. /\ runs[j].now <= now + CLOCK_AHEAD
          /\ \A p \in PreviewAnswer : runs[j].snapshot.preview = <<p>> => WasDue(j, p)
      BY <1>3, <3>1 DEF KeeperInv, SeenOK
    <3> QED BY <1>1, <3>1, <3>2 DEF WasDue
  <2> QED BY <2>1, <2>2
<1> QED BY <1>2, <1>3 DEF KeeperInv, SeenOK

(* On to the next spec, or the end of the pass: the clock of the run stays. *)
LEMMA AdvanceKeeps ==
  ASSUME KeeperInv, UNCHANGED vars, Remember, NEW k \in Keepers,
         runs[k].at = "reading", runs' = Advance(k)
  PROVE  KeeperInv'
<1>1. /\ runs' \in [Keepers -> Run]
      /\ \A j \in Keepers : j # k => runs'[j] = runs[j]
      /\ \/ runs'[k].at # "reading"
         \/ /\ runs'[k].i \in 1..Len(SpecIds) /\ runs'[k].snapshot.preview = <<>>
            /\ runs'[k].now = runs[k].now
  BY AdvanceRun DEF KeeperInv
<1>2. runs[k].now <= now + CLOCK_AHEAD
  BY DEF KeeperInv, SeenOK
<1>3. \A p : <<p>> # <<>>
  OBVIOUS
<1> QED BY <1>1, <1>2, <1>3, RunMoves

(* A run begins with its clock, and nothing read. *)
LEMMA StartKeeps ==
  ASSUME KeeperInv, Remember, NEW k \in Keepers,
         NEW ahead \in {0, CLOCK_AHEAD}, NEW allowVoid \in Flags, Start(k, ahead, allowVoid)
  PROVE  KeeperInv'
<1> DEFINE run == [at |-> "reading", i |-> 1, now |-> now + ahead,
                   allowVoid |-> allowVoid, snapshot |-> NoSnapshot]
<1>1. UNCHANGED vars /\ runs' = [runs EXCEPT ![k] = run]
  BY DEF Start
<1>2. run \in Run /\ now + ahead <= now + CLOCK_AHEAD
  <2>1. now + ahead \in Nat /\ allowVoid \in BOOLEAN /\ now + ahead <= now + CLOCK_AHEAD
    BY KeeperAssumption DEF KeeperInv, KeeperTypes
  <2> HIDE DEF NoSnapshot, Snapshot
  <2> QED BY <2>1, IdleRun DEF Run
<1>3. 1 \in 1..Len(SpecIds)
  BY KeeperAssumption
<1>4. run.i = 1 /\ run.now = now + ahead /\ run.snapshot.preview = <<>>
  BY DEF NoSnapshot, Unread
<1> HIDE DEF run
<1>5. /\ runs' \in [Keepers -> Run] /\ runs'[k] = run
      /\ \A j \in Keepers : j # k => runs'[j] = runs[j]
  BY <1>1, <1>2 DEF KeeperInv, KeeperTypes
<1>6. \A p : <<p>> # <<>>
  OBVIOUS
<1> QED BY <1>1, <1>2, <1>3, <1>4, <1>5, <1>6, RunMoves

LEMMA ReadKeeps ==
  ASSUME KeeperInv, Remember, NEW k \in Keepers, ReadPreview(k) \/ ReadSpec(k) \/ ReadSettled(k)
  PROVE  KeeperInv'
<1>1. /\ runs[k].at = "reading" /\ runs' \in [Keepers -> Run]
      /\ \A j \in Keepers : j # k => runs'[j] = runs[j]
      /\ runs'[k].i = runs[k].i /\ SpecOf(k)' = SpecOf(k)
      /\ runs'[k].now = runs[k].now /\ runs'[k].at = "reading"
      /\ \/ runs'[k].snapshot.preview = runs[k].snapshot.preview
         \/ runs'[k].snapshot.preview = <<Preview(SpecOf(k))>>
  BY ReadRun DEF KeeperInv
<1>2. UNCHANGED vars
  BY DEF ReadPreview, ReadSpec, ReadSettled, ReadOne
<1>3. runs[k].i \in 1..Len(SpecIds) /\ runs[k].now <= now + CLOCK_AHEAD
  BY <1>1 DEF KeeperInv, KeeperTypes, SeenOK
<1>4. ASSUME NEW p \in PreviewAnswer, runs'[k].snapshot.preview = <<p>>
      PROVE  WasDue(k, p)'
  <2>1. CASE runs'[k].snapshot.preview = runs[k].snapshot.preview
    <3>1. WasDue(k, p)
      BY <1>1, <1>4, <2>1 DEF KeeperInv, SeenOK
    <3>2. due[k] \subseteq due'[k]
      BY <1>1, Remembered
    <3> QED BY <1>1, <3>1, <3>2 DEF WasDue
  <2>2. CASE runs'[k].snapshot.preview = <<Preview(SpecOf(k))>>
    <3>1. p = Preview(SpecOf(k))
      BY <1>4, <2>2
    <3> QED BY <1>1, <1>2, <3>1, PreviewDue
  <2> QED BY <1>1, <2>1, <2>2
<1> QED BY <1>1, <1>2, <1>3, <1>4, RunMoves

LEMMA KeeperStepInv == KeeperInv /\ [KeeperNext]_allVars => KeeperInv'
<1> SUFFICES ASSUME KeeperInv, [KeeperNext]_allVars PROVE KeeperInv'
  OBVIOUS
<1>1. CASE UNCHANGED allVars
  BY <1>1, ChainMoves DEF allVars, keeperVars
<1>2. CASE Remember /\ ResolutionNext /\ UNCHANGED keeperVars
  BY <1>2, ChainMoves DEF keeperVars
<1>3. ASSUME Remember, NEW tx \in Calls, Land(tx) PROVE KeeperInv'
  <2>1. tx.spec \in Specs
    BY DEF Calls
  <2>2. [ResolutionNext]_vars
    BY <1>3, <2>1 DEF Land, Effect, ResolutionNext
  <2> QED BY <1>3, <2>2, ChainMoves DEF Land
<1>4. ASSUME Remember, NEW k \in Keepers, KeeperStep(k) PROVE KeeperInv'
  <2>1. CASE ReadFails(k) \/ Skip(k) \/ Send(k) \/ SendFails(k)
    BY <1>4, <2>1, AdvanceKeeps DEF ReadFails, Skip, Send, SendFails, Complete
  <2>2. CASE \E ahead \in {0, CLOCK_AHEAD}, allowVoid \in Flags : Start(k, ahead, allowVoid)
    BY <1>4, <2>2, StartKeeps
  <2>3. CASE ReadPreview(k) \/ ReadSpec(k) \/ ReadSettled(k)
    BY <1>4, <2>3, ReadKeeps
  <2> QED BY <1>4, <2>1, <2>2, <2>3 DEF KeeperStep
<1> QED BY <1>1, <1>2, <1>3, <1>4 DEF KeeperNext

LEMMA KeeperInitInv == KeeperInit => KeeperInv
<1> SUFFICES ASSUME KeeperInit PROVE KeeperInv
  OBVIOUS
<1>1. /\ now = 1 /\ readings = [f \in Feeds |-> NoReading]
      /\ runs = [k \in Keepers |-> Idle]
  BY DEF KeeperInit, ResolutionInit
<1>2. \A f \in Feeds : readings[f].updatedAt \in Nat
  BY <1>1 DEF NoReading
<1>3. \A k \in Keepers : runs[k].at # "reading"
  BY <1>1, IdleRun
<1>4. runs \in [Keepers -> Run]
  BY <1>1, IdleRun
<1> QED BY <1>1, <1>2, <1>3, <1>4 DEF KeeperInv, KeeperTypes, SeenOK

(* Whatever moved between its three reads, its clock and its decision, and whatever was
   sent before: each call a run decides on was due at one moment since the run began,
   a void with the feed quiet for the grace on top of the bound. *)
THEOREM CallsAreDue == KeeperSpec => []CallsWereDue
<1>1. KeeperInv => CallsWereDue
  <2> SUFFICES ASSUME KeeperInv, NEW k \in Keepers, Complete(k), CallFor(runs[k], SpecOf(k)) # "none"
               PROVE  Decision(k) \in due[k]
    BY DEF CallsWereDue
  <2> DEFINE p == runs[k].snapshot.preview[1]
  <2>1. runs[k].at = "reading" /\ runs[k].snapshot.preview \in Answers(PreviewAnswer) \ {<<>>}
    BY DEF Complete, Unread, KeeperInv, KeeperTypes, Run, Snapshot
  <2>2. p \in PreviewAnswer /\ runs[k].snapshot.preview = <<p>>
    <3>1. PICK x \in PreviewAnswer : runs[k].snapshot.preview = <<x>>
      BY <2>1 DEF Answers
    <3> QED BY <3>1
  <2>3. WasDue(k, p)
    BY <2>1, <2>2 DEF KeeperInv, SeenOK
  <2>4. runs[k].now >= SpecOf(k).resolutionTime
    <3>1. runs[k].now \in Nat /\ SpecOf(k).resolutionTime \in Nat
      BY <2>1, SpecOfSpecs, SpecFields DEF KeeperInv, KeeperTypes, Run
    <3> QED BY <3>1 DEF CallFor
  <2>5. CASE p.ready
    BY <2>3, <2>5 DEF WasDue, Decision, CallFor
  <2>6. CASE ~p.ready
    <3>1. /\ CallFor(runs[k], SpecOf(k)) = "voidStale"
          /\ p.age > SpecOf(k).maxStaleness + EXTRA
      BY <2>6 DEF CallFor, MayVoid
    <3> QED BY <2>3, <2>4, <3>1 DEF WasDue, Decision
  <2> QED BY <2>5, <2>6
<1> QED BY <1>1, KeeperInitInv, KeeperStepInv, PTL DEF KeeperSpec

-----------------------------------------------------------------------------
(* The page. *)

Stages == {"buffered", "ruled", "pulled"}
Kinds == {"approve", "enter", "finalizeVintage", "withdrawRefund"}
TxStages == {"switching", "ready", "signing", "refused", "mined", "seen"}
Tx == [hook: Hooks, kind: Kinds, net: Networks, target: Networks, item: Nat \cup {None},
       chain: Networks \cup {None}, stage: TxStages]

(* A transaction is for the chain it was pressed for; a pull names a position that
   is on it, and an entry that landed the position it became. *)
TxOK(t, m) ==
  /\ t.chain # None => t.chain = t.net
  /\ t.kind = "withdrawRefund" => t.target = t.net /\ t.item \in 1..Len(m[t.net])
  /\ t.kind = "enter" /\ t.item # None => t.item \in 1..Len(m[t.target])
  /\ t.stage = "signing" => t.chain = t.net

SendsOK(s, m) == \A k \in 1..Len(s) : TxOK(s[k], m)
PromisesOK(ps, m) == \A p \in ps : p.of \in Networks /\ p.id \in 1..Len(m[p.of])

(* The index of a chain never names a position the chain has not minted. *)
ChainOK(m, x) ==
  /\ m \in [Networks -> Seq(Stages)] /\ x \in [Networks -> Seq(Stages)]
  /\ \A n \in Networks : Len(x[n]) <= Len(m[n])

WInv ==
  /\ net \in Networks /\ rendered \in Networks
  /\ txs \in Seq(Tx) /\ op \in [Hooks -> 0..Len(txs)]
  /\ ChainOK(minted, index)
  /\ SendsOK(txs, minted)
  /\ PromisesOK(promised, minted)

-----------------------------------------------------------------------------
LEMMA StagesLen ==
  ASSUME NEW m \in [Networks -> Seq(Stages)], NEW n \in Networks
  PROVE  m[n] \in Seq(Stages) /\ Len(m[n]) \in Nat /\ DOMAIN m[n] = 1..Len(m[n])
OBVIOUS

LEMMA Unfollowed ==
  ASSUME NEW n \in Nat, NEW f \in [Hooks -> 0..n], NEW h
  PROVE  [f EXCEPT ![h] = 0] \in [Hooks -> 0..n]
<1>1. PICK S : S = 0..n
  OBVIOUS
<1>2. 0 \in S /\ f \in [Hooks -> S]
  BY <1>1
<1>3. [f EXCEPT ![h] = 0] \in [Hooks -> S]
  BY ONLY <1>2
<1> QED BY <1>1, <1>3

LEMMA TxsLen ==
  ASSUME NEW s \in Seq(Tx)
  PROVE  /\ Len(s) \in Nat /\ DOMAIN s = 1..Len(s) /\ s \in [1..Len(s) -> Tx]
         /\ \A k \in 1..Len(s) : s[k] \in Tx
OBVIOUS

(* Positions are never taken from a chain: what was well named stays so. *)
LEMMA StillNamed ==
  ASSUME NEW m \in [Networks -> Seq(Stages)], NEW m2 \in [Networks -> Seq(Stages)],
         \A n \in Networks : Len(m2[n]) >= Len(m[n])
  PROVE  /\ \A t \in Tx : TxOK(t, m) => TxOK(t, m2)
         /\ \A ps : PromisesOK(ps, m) => PromisesOK(ps, m2)
         /\ \A x : ChainOK(m, x) => ChainOK(m2, x)
<1>1. ASSUME NEW n \in Networks, NEW i \in 1..Len(m[n]) PROVE i \in 1..Len(m2[n])
  BY StagesLen
<1>2. ASSUME NEW t \in Tx, TxOK(t, m) PROVE TxOK(t, m2)
  BY <1>1, <1>2 DEF TxOK, Tx
<1>3. ASSUME NEW ps, PromisesOK(ps, m) PROVE PromisesOK(ps, m2)
  BY <1>1, <1>3 DEF PromisesOK
<1>4. ASSUME NEW x, ChainOK(m, x) PROVE ChainOK(m2, x)
  <2>1. ASSUME NEW n \in Networks PROVE Len(x[n]) <= Len(m2[n])
    <3>1. Len(x[n]) \in Nat /\ Len(m[n]) \in Nat /\ Len(m2[n]) \in Nat /\ Len(x[n]) <= Len(m[n])
      BY <1>4, StagesLen DEF ChainOK
    <3> QED BY <3>1
  <2> QED BY <1>4, <2>1 DEF ChainOK
<1> QED BY <1>2, <1>3, <1>4

LEMMA RuledType ==
  ASSUME NEW s \in Seq(Stages)
  PROVE  Ruled(s) \in Seq(Stages) /\ Len(Ruled(s)) = Len(s)
<1>1. Len(s) \in Nat /\ DOMAIN s = 1..Len(s) /\ \A i \in 1..Len(s) : s[i] \in Stages
  OBVIOUS
<1>2. Ruled(s) \in [1..Len(s) -> Stages]
  BY <1>1 DEF Ruled, Stages
<1> QED BY <1>1, <1>2

(* A step that sends nothing and mints nothing. *)
LEMMA Reading ==
  ASSUME WInv, net' \in Networks, rendered' \in Networks,
         txs' = txs, op' \in [Hooks -> 0..Len(txs)], minted' = minted,
         ChainOK(minted, index'), promised' \subseteq promised
  PROVE  WInv'
BY DEF WInv, PromisesOK

(* A step that moves one transaction on. *)
LEMMA TxMoves ==
  ASSUME WInv, NEW i \in DOMAIN txs, NEW t \in Tx,
         UNCHANGED <<net, rendered, index>>,
         txs' = [txs EXCEPT ![i] = t],
         op' \in [Hooks -> 0..Len(txs)],
         minted' \in [Networks -> Seq(Stages)],
         \A n \in Networks : Len(minted'[n]) >= Len(minted[n]),
         TxOK(t, minted'),
         PromisesOK(promised', minted')
  PROVE  WInv'
<1>1. /\ Len(txs) \in Nat /\ DOMAIN txs = 1..Len(txs) /\ txs \in [1..Len(txs) -> Tx]
      /\ txs \in Seq(Tx) /\ SendsOK(txs, minted) /\ ChainOK(minted, index)
  BY TxsLen DEF WInv
<1>2. txs' \in [1..Len(txs) -> Tx]
  BY <1>1
<1>3. txs' \in Seq(Tx) /\ Len(txs') = Len(txs)
  BY <1>1, <1>2
<1>4. ChainOK(minted', index')
  BY <1>1, StillNamed DEF ChainOK
<1>5. ASSUME NEW k \in 1..Len(txs) PROVE TxOK(txs'[k], minted')
  <2>1. CASE k = i
    BY <1>1, <2>1
  <2>2. CASE k # i
    <3>1. txs'[k] = txs[k] /\ txs[k] \in Tx /\ TxOK(txs[k], minted)
      BY <1>1, <2>2 DEF SendsOK
    <3> QED BY <1>1, <3>1, StillNamed DEF ChainOK
  <2> QED BY <2>1, <2>2
<1>6. SendsOK(txs', minted')
  BY <1>3, <1>5 DEF SendsOK
<1> QED BY <1>3, <1>4, <1>6 DEF WInv

LEMMA SameMinted ==
  ASSUME WInv
  PROVE  /\ minted \in [Networks -> Seq(Stages)]
         /\ \A n \in Networks : Len(minted[n]) \in Nat /\ Len(minted[n]) >= Len(minted[n])
BY StagesLen DEF WInv, ChainOK

(* What a transaction becomes when it is sent, pinned to its chain. *)
LEMMA SentType ==
  ASSUME NEW t \in Tx, NEW m, TxOK(t, m)
  PROVE  Sent(t) \in Tx /\ TxOK(Sent(t), m)
<1>1. CASE Pinned(t)
  <2>1. Sent(t) = [t EXCEPT !.stage = "signing", !.chain = walletChain] /\ walletChain = t.net
    BY <1>1 DEF Sent, Pinned
  <2>2. Sent(t) \in Tx
    BY <2>1 DEF Tx, TxStages
  <2>3. /\ Sent(t).chain = t.net /\ Sent(t).net = t.net /\ Sent(t).kind = t.kind
        /\ Sent(t).target = t.target /\ Sent(t).item = t.item
    BY <2>1 DEF Tx
  <2> QED BY <2>2, <2>3 DEF TxOK
<1>2. CASE ~Pinned(t)
  <2>1. Sent(t) = [t EXCEPT !.stage = "refused", !.chain = None]
    BY <1>2 DEF Sent
  <2>2. Sent(t) \in Tx
    BY <2>1 DEF Tx, TxStages
  <2>3. /\ Sent(t).chain = None /\ Sent(t).net = t.net /\ Sent(t).kind = t.kind
        /\ Sent(t).target = t.target /\ Sent(t).item = t.item /\ Sent(t).stage = "refused"
    BY <2>1 DEF Tx
  <2> QED BY <2>2, <2>3 DEF TxOK
<1> QED BY <1>1, <1>2

-----------------------------------------------------------------------------
(* The presses, and what the wallet and the chain make of them.              *)

LEMMA PressInv ==
  ASSUME WInv, NEW h \in Hooks, NEW kind \in Kinds, NEW target \in Networks,
         NEW item \in Nat \cup {None}, Press(h, kind, target, item),
         kind = "withdrawRefund" => target = net /\ item \in 1..Len(minted[net]),
         kind = "enter" => item = None
  PROVE  WInv'
<1> DEFINE t == [hook |-> h, kind |-> kind, net |-> net, target |-> target, item |-> item,
                 chain |-> None, stage |-> "switching"]
           s == IF account = net THEN Sent(t) ELSE t
<1>1. /\ txs' = Append(txs, s) /\ op' = [op EXCEPT ![h] = Len(txs')]
      /\ UNCHANGED <<viewerVars, chainVars, readVars>>
  BY DEF Press
<1>2. t \in Tx /\ TxOK(t, minted)
  <2>1. t \in Tx
    BY DEF Tx, TxStages, WInv
  <2> QED BY <2>1 DEF TxOK
<1> HIDE DEF t
<1>3. s \in Tx /\ TxOK(s, minted)
  BY <1>2, SentType
<1> HIDE DEF s
<1>4. txs \in Seq(Tx) /\ Len(txs) \in Nat /\ SendsOK(txs, minted) /\ op \in [Hooks -> 0..Len(txs)]
  BY TxsLen DEF WInv
<1>5. /\ txs' \in Seq(Tx) /\ Len(txs') = Len(txs) + 1
      /\ \A k \in 1..Len(txs) : txs'[k] = txs[k]
      /\ txs'[Len(txs) + 1] = s
  BY <1>1, <1>3, <1>4
<1>6. op' \in [Hooks -> 0..Len(txs')]
  BY <1>1, <1>4, <1>5
<1>7. SendsOK(txs', minted)
  <2>1. ASSUME NEW k \in 1..(Len(txs) + 1) PROVE TxOK(txs'[k], minted)
    <3>1. k \in 1..Len(txs) \/ k = Len(txs) + 1
      BY <1>4
    <3> QED BY <1>3, <1>4, <1>5, <3>1 DEF SendsOK
  <2> QED BY <1>5, <2>1 DEF SendsOK
<1> QED BY <1>1, <1>5, <1>6, <1>7 DEF WInv, viewerVars, chainVars, readVars

LEMMA PressEntryInv == ASSUME WInv, PressEntry PROVE WInv'
<1>1. PICK kind \in EntryButton : Press("entry", kind, rendered, None)
  BY DEF PressEntry
<1>2. kind \in {"enter", "approve"}
  BY DEF EntryButton
<1> QED BY <1>1, <1>2, PressInv DEF Hooks, Kinds, WInv

LEMMA PressCloseInv == ASSUME WInv, PressClose PROVE WInv'
BY PressInv DEF PressClose, Hooks, Kinds, WInv

LEMMA PressPullInv == ASSUME WInv, PressPull PROVE WInv'
<1>1. PICK i \in ClaimRows : Press("pull", "withdrawRefund", net, i)
  BY DEF PressPull
<1>2. i \in 1..Len(index[net]) /\ net \in Networks /\ ChainOK(minted, index)
  <2>1. net \in Networks /\ ChainOK(minted, index)
    BY DEF WInv
  <2>2. DOMAIN index[net] = 1..Len(index[net])
    BY <2>1, StagesLen DEF ChainOK
  <2> QED BY <1>1, <2>1, <2>2 DEF ClaimRows
<1>3. i \in Nat /\ i \in 1..Len(minted[net])
  BY <1>2, StagesLen DEF ChainOK
<1> QED BY <1>1, <1>2, <1>3, PressInv DEF Hooks, Kinds

LEMMA SwitchAnsweredInv ==
  ASSUME WInv, NEW i \in DOMAIN txs, SwitchAnswered(i)
  PROVE  WInv'
<1>1. /\ UNCHANGED <<net, rendered, chainVars, readVars>>
      /\ \/ txs' = [txs EXCEPT ![i].stage = "ready"]
            /\ op' = [op EXCEPT ![txs[i].hook] = IF @ = 0 THEN 0 ELSE i]
         \/ txs' = [txs EXCEPT ![i].stage = "refused"] /\ op' = op
  BY DEF SwitchAnswered
<1>2. /\ DOMAIN txs = 1..Len(txs) /\ Len(txs) \in Nat /\ txs[i] \in Tx /\ TxOK(txs[i], minted)
      /\ op \in [Hooks -> 0..Len(txs)] /\ PromisesOK(promised, minted)
  BY TxsLen DEF WInv, SendsOK
<1>3. op' \in [Hooks -> 0..Len(txs)]
  BY <1>1, <1>2
<1>4. PICK st \in {"ready", "refused"} : txs' = [txs EXCEPT ![i] = [txs[i] EXCEPT !.stage = st]]
  BY <1>1
<1>5. [txs[i] EXCEPT !.stage = st] \in Tx
  BY <1>2 DEF Tx, TxStages
<1>6. TxOK([txs[i] EXCEPT !.stage = st], minted)
  BY <1>2 DEF Tx, TxOK
<1> QED BY <1>1, <1>2, <1>3, <1>4, <1>5, <1>6, SameMinted, TxMoves DEF chainVars, readVars

LEMMA SendInv ==
  ASSUME WInv, NEW i \in DOMAIN txs, SendWrite(i)
  PROVE  WInv'
<1>1. /\ txs' = [txs EXCEPT ![i] = Sent(txs[i])]
      /\ UNCHANGED <<viewerVars, op, chainVars, readVars>>
  BY DEF SendWrite
<1>2. /\ DOMAIN txs = 1..Len(txs) /\ txs[i] \in Tx /\ TxOK(txs[i], minted)
      /\ op \in [Hooks -> 0..Len(txs)] /\ PromisesOK(promised, minted)
  BY TxsLen DEF WInv, SendsOK
<1>3. Sent(txs[i]) \in Tx /\ TxOK(Sent(txs[i]), minted)
  BY <1>2, SentType
<1> QED BY <1>1, <1>2, <1>3, SameMinted, TxMoves DEF viewerVars, chainVars, readVars

LEMMA RejectInv ==
  ASSUME WInv, NEW i \in DOMAIN txs, Reject(i)
  PROVE  WInv'
<1>1. /\ txs' = [txs EXCEPT ![i] = [txs[i] EXCEPT !.stage = "refused"]]
      /\ UNCHANGED <<viewerVars, op, chainVars, readVars>>
  BY DEF Reject
<1>2. /\ DOMAIN txs = 1..Len(txs) /\ txs[i] \in Tx /\ TxOK(txs[i], minted)
      /\ op \in [Hooks -> 0..Len(txs)] /\ PromisesOK(promised, minted)
  BY TxsLen DEF WInv, SendsOK
<1>3. /\ [txs[i] EXCEPT !.stage = "refused"] \in Tx
      /\ TxOK([txs[i] EXCEPT !.stage = "refused"], minted)
  BY <1>2 DEF Tx, TxStages, TxOK
<1> QED BY <1>1, <1>2, <1>3, SameMinted, TxMoves DEF viewerVars, chainVars, readVars

(* A transaction that was executed, and an entry that landed. *)
Executed(i, st) == txs' = [txs EXCEPT ![i] = [txs[i] EXCEPT !.stage = st]]
Landed(i, st) ==
  /\ txs[i].kind = "enter"
  /\ txs' = [txs EXCEPT ![i] = [txs[i] EXCEPT !.stage = st,
                                             !.item = Len(minted[txs[i].target]) + 1]]
  /\ Len(minted'[txs[i].target]) = Len(minted[txs[i].target]) + 1

(* What the chain mints when a transaction is executed: the entry's own position
   at the end, and none is ever removed. *)
LEMMA MineMints ==
  ASSUME WInv, NEW i \in DOMAIN txs, Mine(i)
  PROVE  /\ minted' \in [Networks -> Seq(Stages)]
         /\ \A n \in Networks : Len(minted'[n]) >= Len(minted[n])
         /\ \E st \in {"mined", "refused"} : Executed(i, st) \/ Landed(i, st)
<1> DEFINE t == txs[i]
           c == t.chain
           here == c = t.target
           takes == CASE ~here -> TRUE
                      [] t.kind = "enter" -> allowed[c]
                      [] t.kind = "withdrawRefund" -> minted[c][t.item] = "ruled"
                      [] OTHER -> TRUE
           entry == here /\ takes /\ t.kind = "enter"
<1>1. txs' = [txs EXCEPT ![i].stage = IF takes THEN "mined" ELSE "refused",
                         ![i].item = IF entry THEN Len(minted[c]) + 1 ELSE @]
  BY DEF Mine
<1>2. IF ~here \/ ~takes \/ t.kind = "approve" THEN UNCHANGED minted
      ELSE \E before \in {minted[c], Ruled(minted[c])} :
             minted' = [minted EXCEPT ![c] =
               CASE t.kind = "enter" -> Append(before, "buffered")
                 [] t.kind = "finalizeVintage" -> Ruled(minted[c])
                 [] t.kind = "withdrawRefund" -> [Ruled(minted[c]) EXCEPT ![t.item] = "pulled"]]
  BY DEF Mine
<1>3. /\ DOMAIN txs = 1..Len(txs) /\ txs \in [1..Len(txs) -> Tx] /\ t \in Tx
      /\ minted \in [Networks -> Seq(Stages)]
  BY TxsLen DEF WInv, ChainOK
<1> HIDE DEF takes
<1>4. PICK st \in {"mined", "refused"} : st = IF takes THEN "mined" ELSE "refused"
  OBVIOUS
<1>5. CASE ~here \/ ~takes \/ t.kind = "approve"
  <2>1. minted' = minted
    BY <1>2, <1>5
  <2>2. ~entry
    BY <1>5
  <2>3. Executed(i, st)
    BY <1>1, <1>3, <1>4, <2>2 DEF Tx, Executed
  <2> QED BY <1>3, <2>1, <2>3, StagesLen
<1>6. CASE here /\ takes /\ t.kind # "approve"
  <2>1. c \in Networks /\ c = t.target /\ t.kind \in Kinds
    BY <1>3, <1>6 DEF Tx
  <2>2. minted[c] \in Seq(Stages) /\ Len(minted[c]) \in Nat
    BY <1>3, <2>1, StagesLen
  <2>3. Ruled(minted[c]) \in Seq(Stages) /\ Len(Ruled(minted[c])) = Len(minted[c])
    BY <2>2, RuledType
  <2>4. PICK before \in {minted[c], Ruled(minted[c])} :
             minted' = [minted EXCEPT ![c] =
               CASE t.kind = "enter" -> Append(before, "buffered")
                 [] t.kind = "finalizeVintage" -> Ruled(minted[c])
                 [] t.kind = "withdrawRefund" -> [Ruled(minted[c]) EXCEPT ![t.item] = "pulled"]]
    BY <1>2, <1>6
  <2>5. before \in Seq(Stages) /\ Len(before) = Len(minted[c])
    BY <2>2, <2>3
  <2>6. CASE t.kind = "enter"
    <3>1. minted' = [minted EXCEPT ![c] = Append(before, "buffered")]
      BY <2>4, <2>6
    <3>2. "buffered" \in Stages
      BY DEF Stages
    <3>3. Append(before, "buffered") \in Seq(Stages)
          /\ Len(Append(before, "buffered")) = Len(minted[c]) + 1
      BY <2>2, <2>5, <3>2
    <3>4. minted' \in [Networks -> Seq(Stages)] /\ Len(minted'[c]) = Len(minted[c]) + 1
      BY <1>3, <2>1, <3>1, <3>3
    <3>5. \A n \in Networks : Len(minted'[n]) >= Len(minted[n])
      BY <1>3, <2>1, <2>2, <3>1, <3>4, StagesLen
    <3>6. txs' = [txs EXCEPT ![i] = [txs[i] EXCEPT !.stage = st, !.item = Len(minted[c]) + 1]]
      <4>1. entry
        BY <1>6, <2>6
      <4>2. txs' = [txs EXCEPT ![i].stage = st, ![i].item = Len(minted[c]) + 1]
        BY <1>1, <1>4, <4>1
      <4> QED BY <1>3, <4>2
    <3>7. Landed(i, st)
      BY ONLY <2>1, <2>6, <3>4, <3>6, Zenon DEF Landed
    <3> QED BY <3>4, <3>5, <3>7
  <2>7. CASE t.kind # "enter"
    <3>1. PICK after \in Seq(Stages) : /\ minted' = [minted EXCEPT ![c] = after]
                                       /\ Len(after) = Len(minted[c])
      <4>1. CASE t.kind = "finalizeVintage"
        BY <2>3, <2>4, <4>1
      <4>2. CASE t.kind = "withdrawRefund"
        <5> DEFINE r == Ruled(minted[c])
                   r2 == [r EXCEPT ![t.item] = "pulled"]
        <5>1. r \in Seq(Stages) /\ Len(r) = Len(minted[c])
          BY <2>3
        <5> HIDE DEF r
        <5>2. "pulled" \in Stages
          BY DEF Stages
        <5>3. r2 \in [1..Len(minted[c]) -> Stages]
          <6>1. r \in [1..Len(minted[c]) -> Stages]
            BY <5>1
          <6> QED BY <5>2, <6>1
        <5>4. r2 \in Seq(Stages) /\ Len(r2) = Len(minted[c])
          <6> HIDE DEF r2
          <6> QED BY <2>2, <5>3
        <5>5. minted' = [minted EXCEPT ![c] = r2]
          BY <2>4, <4>2 DEF r
        <5> HIDE DEF r2
        <5> QED BY <5>4, <5>5
      <4> QED BY <1>6, <2>1, <2>7, <4>1, <4>2 DEF Kinds
    <3>2. minted' \in [Networks -> Seq(Stages)]
      BY <1>3, <2>1, <3>1
    <3>3. \A n \in Networks : Len(minted'[n]) >= Len(minted[n])
      BY <1>3, <2>1, <2>2, <3>1, StagesLen
    <3>4. Executed(i, st)
      <4>1. ~entry
        BY <2>7
      <4> QED BY <1>1, <1>3, <1>4, <4>1 DEF Tx, Executed
    <3> QED BY <3>2, <3>3, <3>4
  <2> QED BY <2>6, <2>7
<1> QED BY <1>5, <1>6

LEMMA MineInv ==
  ASSUME WInv, NEW i \in DOMAIN txs, Mine(i)
  PROVE  WInv'
<1>1. UNCHANGED <<net, rendered, op, index, promised>>
  BY DEF Mine, viewerVars, readVars
<1>2. /\ DOMAIN txs = 1..Len(txs) /\ txs[i] \in Tx /\ TxOK(txs[i], minted)
      /\ op \in [Hooks -> 0..Len(txs)] /\ PromisesOK(promised, minted)
      /\ minted \in [Networks -> Seq(Stages)]
  BY TxsLen DEF WInv, SendsOK, ChainOK
<1>3. /\ minted' \in [Networks -> Seq(Stages)]
      /\ \A n \in Networks : Len(minted'[n]) >= Len(minted[n])
  BY MineMints
<1>4. PICK st \in {"mined", "refused"} : Executed(i, st) \/ Landed(i, st)
  BY MineMints
<1>5. PromisesOK(promised', minted') /\ TxOK(txs[i], minted')
  BY <1>1, <1>2, <1>3, StillNamed
<1>6. CASE Executed(i, st)
  <2>1. [txs[i] EXCEPT !.stage = st] \in Tx /\ TxOK([txs[i] EXCEPT !.stage = st], minted')
    BY <1>2, <1>5 DEF Tx, TxStages, TxOK
  <2> QED BY <1>1, <1>2, <1>3, <1>5, <1>6, <2>1, TxMoves DEF Executed
<1>7. CASE Landed(i, st)
  <2>1. PICK k \in Nat : k = Len(minted[txs[i].target]) + 1 /\ k \in 1..Len(minted'[txs[i].target])
    <3>1. txs[i].target \in Networks
      BY <1>2 DEF Tx
    <3>2. Len(minted[txs[i].target]) \in Nat
      BY <1>2, <3>1, StagesLen
    <3> QED BY <1>7, <3>2 DEF Landed
  <2> DEFINE t2 == [txs[i] EXCEPT !.stage = st, !.item = k]
  <2>2. t2 \in Tx
    BY <1>2 DEF Tx, TxStages
  <2>3. /\ t2.item = k /\ t2.stage = st /\ t2.kind = "enter" /\ t2.target = txs[i].target
        /\ t2.chain = txs[i].chain /\ t2.net = txs[i].net
    BY <1>2, <1>7 DEF Tx, Landed
  <2>4. txs' = [txs EXCEPT ![i] = t2]
    BY <1>7, <2>1 DEF Landed
  <2> HIDE DEF t2
  <2>5. TxOK(t2, minted')
    BY <1>5, <2>1, <2>3 DEF TxOK
  <2> QED BY <1>1, <1>2, <1>3, <1>5, <2>2, <2>4, <2>5, TxMoves
<1> QED BY <1>4, <1>6, <1>7

LEMMA ReceiptInv ==
  ASSUME WInv, NEW h \in Hooks, Receipt(h)
  PROVE  WInv'
<1> DEFINE t == txs[op[h]]
           e == IF t.kind = "enter" /\ t.item # None THEN Expectation(net, t) ELSE expected
<1>1. /\ op[h] # 0
      /\ txs' = [txs EXCEPT ![op[h]] = [t EXCEPT !.stage = "seen"]]
      /\ promised' = promised \cup
              IF connected /\ e # expected /\ t.target = net
              THEN {[of |-> net, id |-> t.item]} ELSE {}
      /\ UNCHANGED <<viewerVars, op, chainVars>>
  BY DEF Receipt
<1>2. /\ Len(txs) \in Nat /\ DOMAIN txs = 1..Len(txs) /\ op \in [Hooks -> 0..Len(txs)]
      /\ PromisesOK(promised, minted) /\ net \in Networks
      /\ \A k \in 1..Len(txs) : txs[k] \in Tx /\ TxOK(txs[k], minted)
  BY TxsLen DEF WInv, SendsOK
<1>3. op[h] \in DOMAIN txs /\ t \in Tx /\ TxOK(t, minted)
  BY <1>1, <1>2
<1>4. PromisesOK(promised', minted)
  <2>1. ASSUME e # expected, t.target = net
        PROVE  t.item \in 1..Len(minted[net])
    BY <1>3, <2>1 DEF TxOK
  <2> HIDE DEF e, t
  <2> QED BY <1>1, <1>2, <2>1 DEF PromisesOK
<1> HIDE DEF e, t
<1>5. [t EXCEPT !.stage = "seen"] \in Tx /\ TxOK([t EXCEPT !.stage = "seen"], minted)
  BY <1>3 DEF Tx, TxStages, TxOK
<1> QED BY <1>1, <1>2, <1>3, <1>4, <1>5, SameMinted, TxMoves DEF viewerVars, chainVars

LEMMA VintageInv ==
  ASSUME WInv, NEW n \in Networks, Vintage(n)
  PROVE  WInv'
<1>1. /\ minted' = [minted EXCEPT ![n] = Ruled(minted[n])]
      /\ UNCHANGED <<net, rendered, txs, op, index, promised>>
  BY DEF Vintage, viewerVars, sendVars, readVars
<1>2. minted \in [Networks -> Seq(Stages)] /\ ChainOK(minted, index)
  BY DEF WInv, ChainOK
<1>3. Ruled(minted[n]) \in Seq(Stages) /\ Len(Ruled(minted[n])) = Len(minted[n])
  BY <1>2, RuledType
<1>4. minted' \in [Networks -> Seq(Stages)]
  BY <1>1, <1>2, <1>3
<1>5. \A k \in Networks : Len(minted'[k]) >= Len(minted[k])
  BY <1>1, <1>2, <1>3, StagesLen
<1>6. SendsOK(txs, minted') /\ PromisesOK(promised, minted') /\ ChainOK(minted', index)
  <2>1. SendsOK(txs, minted) /\ PromisesOK(promised, minted) /\ \A k \in 1..Len(txs) : txs[k] \in Tx
    BY TxsLen DEF WInv
  <2> QED BY <1>2, <1>4, <1>5, <2>1, StillNamed DEF SendsOK
<1> QED BY <1>1, <1>6 DEF WInv

LEMMA IndexFollowsInv ==
  ASSUME WInv, NEW n \in Networks, IndexFollows(n)
  PROVE  WInv'
<1>1. /\ index' = [index EXCEPT ![n] = minted[n]]
      /\ UNCHANGED <<net, rendered, txs, op, minted, promised>>
  BY DEF IndexFollows, viewerVars, sendVars, readVars
<1>2. ChainOK(minted, index')
  <2>1. ChainOK(minted, index)
    BY DEF WInv
  <2> QED BY <1>1, <2>1, StagesLen DEF ChainOK
<1> QED BY <1>1, <1>2, Reading DEF WInv

-----------------------------------------------------------------------------
LEMMA WebInit == FlowInit => WInv
<1> SUFFICES ASSUME FlowInit PROVE WInv
  OBVIOUS
<1>1. net \in Networks /\ rendered \in Networks
  BY DefaultAssumption DEF FlowInit
<1>2. txs \in Seq(Tx) /\ Len(txs) = 0 /\ op \in [Hooks -> 0..Len(txs)]
  BY DEF FlowInit
<1>3. minted \in [Networks -> Seq(Stages)] /\ index = minted
  BY DEF FlowInit
<1>4. ChainOK(minted, index)
  BY <1>3, StagesLen DEF ChainOK
<1>5. SendsOK(txs, minted) /\ PromisesOK(promised, minted)
  BY <1>2 DEF SendsOK, PromisesOK, FlowInit
<1> QED BY <1>1, <1>2, <1>4, <1>5 DEF WInv

LEMMA WebStep == WInv /\ [FlowNext]_flowVars => WInv'
<1> SUFFICES ASSUME WInv, [FlowNext]_flowVars PROVE WInv'
  OBVIOUS
<1>0. /\ net \in Networks /\ rendered \in Networks /\ ChainOK(minted, index)
      /\ op \in [Hooks -> 0..Len(txs)] /\ Len(txs) \in Nat
  BY TxsLen DEF WInv
<1> USE DEF viewerVars, sendVars, chainVars, pollVars, readVars
<1>1. CASE Toggle
  <2>1. [op EXCEPT !["pull"] = 0] \in [Hooks -> 0..Len(txs)]
    BY <1>0, Unfollowed
  <2> QED BY <1>0, <1>1, <2>1, Reading DEF Toggle
<1>2. CASE Render
  <2>1. [op EXCEPT !["entry"] = 0, !["close"] = 0] \in [Hooks -> 0..Len(txs)]
    <3>1. [op EXCEPT !["entry"] = 0] \in [Hooks -> 0..Len(txs)]
      BY <1>0, Unfollowed
    <3> QED BY <1>0, <3>1, Unfollowed
  <2> QED BY <1>0, <1>2, <2>1, Reading DEF Render
<1>3. CASE Connect \/ Disconnect \/ WalletMoves \/ ChainChanged \/ Prompt
  BY <1>0, <1>3, Reading DEF Connect, Disconnect, WalletMoves, ChainChanged, Prompt
<1>4. CASE Revisit \/ Reload
  <2>1. [k \in Hooks |-> 0] \in [Hooks -> 0..Len(txs)]
    BY <1>0
  <2> QED BY <1>0, <1>4, <2>1, Reading DEF Revisit, Reload
<1>5. CASE PressEntry \/ PressClose \/ PressPull
  BY <1>5, PressEntryInv, PressCloseInv, PressPullInv
<1>6. ASSUME NEW i \in DOMAIN txs, SwitchAnswered(i) \/ SendWrite(i) \/ Reject(i) \/ Mine(i)
      PROVE  WInv'
  BY <1>6, SwitchAnsweredInv, SendInv, RejectInv, MineInv
<1>7. ASSUME NEW h \in Hooks, Receipt(h) PROVE WInv'
  BY <1>7, ReceiptInv
<1>8. ASSUME NEW n \in Networks, Vintage(n) \/ IndexFollows(n) PROVE WInv'
  BY <1>8, VintageInv, IndexFollowsInv
<1>9. ASSUME NEW n \in Networks, Serve(n) \/ Arrive(n) \/ Fail(n) PROVE WInv'
  BY <1>0, <1>9, Reading DEF Serve, Arrive, Fail
<1>10. CASE Poll
  BY <1>0, <1>10, Reading DEF Poll
<1>11. CASE UNCHANGED flowVars
  BY <1>0, <1>11, Reading DEF flowVars
<1> QED BY <1>1, <1>2, <1>3, <1>4, <1>5, <1>6, <1>7, <1>8, <1>9, <1>10, <1>11 DEF FlowNext

(* Whatever the viewer and the wallet do between a press and its transaction, the
   transaction reaches the network that was pressed for, a pull a position that is
   there, and an entry the page speaks of is on the chain it speaks of. *)
THEOREM WritesGoWherePressed == FlowSpec => []WritesAsChosen
<1>1. WInv => WritesAsChosen
  <2> SUFFICES ASSUME WInv PROVE WritesAsChosen
    OBVIOUS
  <2>1. /\ DOMAIN txs = 1..Len(txs) /\ minted \in [Networks -> Seq(Stages)]
        /\ \A k \in 1..Len(txs) : txs[k] \in Tx /\ TxOK(txs[k], minted)
    BY TxsLen DEF WInv, SendsOK, ChainOK
  <2>2. \A n \in Networks : DOMAIN minted[n] = 1..Len(minted[n])
    BY <2>1, StagesLen
  <2>3. ASSUME NEW k \in DOMAIN txs, txs[k].chain # None
        PROVE  /\ txs[k].chain = txs[k].net
               /\ txs[k].kind = "withdrawRefund" =>
                    txs[k].target = txs[k].chain /\ txs[k].item \in DOMAIN minted[txs[k].chain]
    BY <2>1, <2>2, <2>3 DEF TxOK, Tx
  <2>4. \A p \in promised : p.id \in DOMAIN minted[p.of]
    BY <2>2 DEF WInv, PromisesOK
  <2> QED BY <2>3, <2>4 DEF WritesAsChosen
<1>2. FlowInit => WInv
  BY WebInit
<1>3. WInv /\ [FlowNext]_flowVars => WInv'
  BY WebStep
<1> QED BY <1>1, <1>2, <1>3, PTL DEF FlowSpec

=============================================================================
