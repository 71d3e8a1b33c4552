------------------------------- MODULE Keeper -------------------------------
(***************************************************************************)
(* The keepers of agent/src/keeper beside the chain they settle: a cron    *)
(* run takes the clock once, then for each spec of its list reads preview, *)
(* specs and settled in parallel, decides (decide.ts), and sends at most   *)
(* one call, without waiting for it to be mined.  The three reads are      *)
(* separate RPC calls, so the chain may move between them, between the     *)
(* decision and the sending, and before the transaction lands; a read or a *)
(* send may fail, and runs of a cron may overlap.                          *)
(***************************************************************************)
EXTENDS Resolution, Sequences

CONSTANTS
  Keepers,          \* overlapping runs
  SpecIds,          \* the specs of a pass, in order
  EXTRA,            \* voidAfterExtraSeconds
  CLOCK_AHEAD,      \* how far the keeper's own clock may be ahead
  Flags,            \* the values operators give allowVoid
  MaxPending        \* bound: copies of one call under way at once

(* What cli.ts refuses to run without: specs to keep, and a grace that is a count
   of seconds. *)
ASSUME KeeperAssumption ==
  /\ SpecIds \in Seq(Specs) /\ SpecIds # <<>>
  /\ EXTRA \in Nat /\ CLOCK_AHEAD \in Nat /\ Flags \subseteq BOOLEAN

VARIABLES
  runs,             \* the state of every run
  mempool,          \* how many copies of each call are sent and not mined yet
  due               \* history: the calls that were due at some moment of each run

keeperVars == <<runs, mempool>>
allVars == <<vars, keeperVars, due>>

(* The transactions a keeper can send. *)
Calls == [spec : Specs, call : {"resolve", "voidStale"}]

(* A read that has not been answered is <<>>, one that has is <<answer>>. *)
Unread == <<>>

NoSnapshot == [preview |-> Unread, known |-> Unread, settled |-> Unread]
Idle == [at |-> "idle", i |-> 0, now |-> 0, allowVoid |-> FALSE, snapshot |-> NoSnapshot]

SpecOf(k) == SpecIds[runs[k].i]

(* Mutant of Advance: the pass ends with the first spec that is skipped. *)
AdvanceOnce(k) == [runs EXCEPT ![k] = Idle]

(* On to the next spec of the pass, or the end of the run. *)
Advance(k) ==
  IF runs[k].i = Len(SpecIds) THEN [runs EXCEPT ![k] = Idle]
  ELSE [runs EXCEPT ![k].at = "reading", ![k].i = @ + 1, ![k].snapshot = NoSnapshot]

-----------------------------------------------------------------------------
(* Reading.                                                                *)

(* The clock is taken once for the whole pass, and the operator's flag given. *)
Start(k, ahead, allowVoid) ==
  /\ runs[k].at = "idle"
  /\ runs' = [runs EXCEPT ![k] = [at |-> "reading", i |-> 1, now |-> now + ahead,
                                  allowVoid |-> allowVoid, snapshot |-> NoSnapshot]]
  /\ UNCHANGED <<vars, mempool>>

(* preview of an unknown or settled spec is all zeros; with no reading it reverts. *)
Preview(s) ==
  IF Live(s) /\ HasReading(s.feed)
  THEN [hasReading |-> TRUE, ready |-> Ready(s), age |-> Age(s)]
  ELSE [hasReading |-> ~Live(s), ready |-> FALSE, age |-> 0]

ReadOne(k, field, answer) ==
  /\ runs[k].at = "reading"
  /\ runs[k].snapshot[field] = Unread
  /\ runs' = [runs EXCEPT ![k].snapshot[field] = answer]
  /\ UNCHANGED <<vars, mempool>>

ReadPreview(k) == runs[k].at = "reading" /\ ReadOne(k, "preview", <<Preview(SpecOf(k))>>)
ReadSpec(k) == runs[k].at = "reading" /\ ReadOne(k, "known", <<SpecOf(k) \in registered>>)
ReadSettled(k) == runs[k].at = "reading" /\ ReadOne(k, "settled", <<SpecOf(k) \in settled>>)

(* A transport error fails the read, and the pass goes on without this spec. *)
ReadFails(k) ==
  /\ runs[k].at = "reading"
  /\ runs' = Advance(k)
  /\ UNCHANGED <<vars, mempool>>

-----------------------------------------------------------------------------
(* Deciding and sending.                                                   *)

(* Mutant of MayVoid: the instant the bound is passed. *)
MayVoidAtOnce(run, p, s) == run.allowVoid /\ p.age > s.maxStaleness

MayVoid(run, p, s) == run.allowVoid /\ p.age > s.maxStaleness + EXTRA

(* decide and callFor: what the run does about the spec it has read. *)
CallFor(run, s) ==
  LET snap == run.snapshot
      p == snap.preview[1]
  IN  IF ~snap.known[1] \/ snap.settled[1] \/ run.now < s.resolutionTime \/ ~p.hasReading
      THEN "none"
      ELSE IF p.ready THEN "resolve"
      ELSE IF MayVoid(run, p, s) THEN "voidStale" ELSE "none"

Complete(k) ==
  /\ runs[k].at = "reading"
  /\ \A field \in {"preview", "known", "settled"} : runs[k].snapshot[field] # Unread

(* The transaction a run with all its answers makes of them. *)
Decision(k) == [spec |-> SpecOf(k), call |-> CallFor(runs[k], SpecOf(k))]

(* Nothing to do about this spec. *)
Skip(k) ==
  /\ Complete(k)
  /\ CallFor(runs[k], SpecOf(k)) = "none"
  /\ runs' = Advance(k)
  /\ UNCHANGED <<vars, mempool>>

(* The call is broadcast; the run goes on with its hash, not with its receipt, and the
   next one may send the same call again. *)
Send(k) ==
  /\ Complete(k)
  /\ CallFor(runs[k], SpecOf(k)) # "none"
  /\ mempool[Decision(k)] < MaxPending
  /\ mempool' = [mempool EXCEPT ![Decision(k)] = @ + 1]
  /\ runs' = Advance(k)
  /\ UNCHANGED vars

SendFails(k) ==
  /\ Complete(k)
  /\ CallFor(runs[k], SpecOf(k)) # "none"
  /\ runs' = Advance(k)
  /\ UNCHANGED <<vars, mempool>>

(* A transaction lands: it does what the call does, or it reverts. *)
Effect(tx) == IF tx.call = "resolve" THEN Resolve(tx.spec) ELSE VoidStale(tx.spec)

Succeeds(tx) ==
  /\ status = "Open" /\ now >= FREEZE
  /\ Live(tx.spec) /\ now >= tx.spec.resolutionTime
  /\ IF tx.call = "resolve" THEN Fresh(tx.spec) ELSE Stale(tx.spec)

Land(tx) ==
  /\ mempool[tx] > 0
  /\ mempool' = [mempool EXCEPT ![tx] = @ - 1]
  /\ IF Succeeds(tx) THEN Effect(tx) ELSE UNCHANGED vars
  /\ UNCHANGED runs

-----------------------------------------------------------------------------
(* A call is due: a resolve when the chain would take it, a void when the feed has been
   quiet for the grace on top of the bound -- at a moment that the keeper's clock may
   be ahead of. *)
IsDue(tx) ==
  IF tx.call = "resolve" THEN Ready(tx.spec)
  ELSE /\ Live(tx.spec) /\ HasReading(tx.spec.feed)
       /\ now + CLOCK_AHEAD >= tx.spec.resolutionTime
       /\ Age(tx.spec) > tx.spec.maxStaleness + EXTRA

DueNow == {tx \in Calls : IsDue(tx)}

(* Every step adds what has become due to the memory of the runs under way. *)
Remember ==
  due' = [k \in Keepers |-> IF runs'[k].at = "idle" THEN {} ELSE due[k] \cup DueNow']

KeeperInit ==
  /\ ResolutionInit
  /\ runs = [k \in Keepers |-> Idle]
  /\ mempool = [tx \in Calls |-> 0]
  /\ due = [k \in Keepers |-> {}]

KeeperStep(k) ==
  \/ \E ahead \in {0, CLOCK_AHEAD}, allowVoid \in Flags : Start(k, ahead, allowVoid)
  \/ ReadPreview(k) \/ ReadSpec(k) \/ ReadSettled(k) \/ ReadFails(k)
  \/ Skip(k) \/ Send(k) \/ SendFails(k)

KeeperNext ==
  /\ \/ ResolutionNext /\ UNCHANGED keeperVars
     \/ \E k \in Keepers : KeeperStep(k)
     \/ \E tx \in Calls : Land(tx)
  /\ Remember

KeeperSpec == KeeperInit /\ [][KeeperNext]_allVars

(* The cron starts a run again and again, a run goes on, and what was sent is mined.
   Nobody else need act. *)
moving == <<vars, keeperVars>>
FairKeeperSpec ==
  /\ KeeperSpec
  /\ WF_moving(Clock /\ UNCHANGED keeperVars)
  /\ \A k \in Keepers :
       /\ WF_moving(\E ahead \in {0, CLOCK_AHEAD}, allowVoid \in Flags : Start(k, ahead, allowVoid))
       /\ WF_moving(ReadPreview(k) \/ ReadSpec(k) \/ ReadSettled(k) \/ ReadFails(k) \/ Skip(k)
                       \/ Send(k) \/ SendFails(k))
  /\ \A tx \in Calls : WF_moving(Land(tx))

-----------------------------------------------------------------------------
(* Properties.                                                             *)

(* decide.ts judges three answers of three moments by a clock read before any of them.
   Whatever the chain did in between, and however often the run before it sent the same
   call, what a run decides was due at one moment since it began: a resolve that the
   chain would have taken, or a void with the feed quiet for the whole grace. *)
CallsWereDue ==
  \A k \in Keepers :
    Complete(k) /\ CallFor(runs[k], SpecOf(k)) # "none" => Decision(k) \in due[k]

(* With the feed fresh and the market's own spec readable from some time on, a keeper
   alone settles the market, though other specs of its list can never be read or are
   never registered: one of them must not stop the pass. *)
FeedIsBack == \E s \in opened : Fresh(s) /\ now >= FREEZE
Fails(k) == (ReadFails(k) \/ SendFails(k)) /\ SpecOf(k) \in opened
KeeperSettles ==
  <>[]FeedIsBack /\ <>[][\A k \in Keepers : ~Fails(k)]_allVars =>
    <>(status \in {"Resolved", "Voided"})

=============================================================================
