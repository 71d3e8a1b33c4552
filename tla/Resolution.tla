----------------------------- MODULE Resolution -----------------------------
(***************************************************************************)
(* How one market is settled without a human: MarketFactory.open creates   *)
(* it and registers the spec it is opened with, anybody may register       *)
(* further specs that name it, and contracts/src/FeedResolver.sol reads    *)
(* the feed of a spec and settles the market, or voids it when the feed    *)
(* has gone quiet.  The settler's own voidMarket is open to anybody after  *)
(* the timeout, and does not tell the resolver.  The oracle is whatever    *)
(* IPriceOracle promises (PriceOracle; PriceRelay shows the CRE oracle     *)
(* keeps that promise), the settler what its status guards do.             *)
(* A transaction that reverts anywhere reverts everywhere, so a resolver   *)
(* call and the settler call inside it are one action.                     *)
(***************************************************************************)
EXTENDS PriceOracle, FiniteSets

CONSTANTS
  Specs,          \* specs that name this market: feed, strike, direction, resolutionTime, maxStaleness
  Prices,         \* prices the oracle may write
  FREEZE,         \* the market's resolutionTime
  VOID_TIMEOUT,   \* the market's voidTimeout
  Contested,      \* whether the settler settles, or voids for want of a second participant
  MaxTime         \* bound: block.timestamp

ASSUME SpecAssumption ==
  Specs \subseteq [feed: Feeds, strike: Int, direction: {0, 1}, resolutionTime: Nat,
                   maxStaleness: Nat]
ASSUME TimeAssumption == FREEZE \in Nat /\ VOID_TIMEOUT \in Nat

VARIABLES
  status,         \* the market's status at the settler
  winner,         \* its winner, 0 until resolved; outcome o of the code is o+1
  opened,         \* the specs MarketFactory.open registered: at most one
  registered,     \* the specs registered with the resolver
  settled         \* settled[specId]

marketVars == <<status, winner>>
resolverVars == <<opened, registered, settled>>
vars == <<now, readings, marketVars, resolverVars>>

-----------------------------------------------------------------------------
(* winnerFor: "above" is inclusive of the strike. *)
WinnerFor(price, s) ==
  IF (price >= s.strike) = (s.direction = 0) THEN 1 ELSE 2

(* A reading stamped in the future is fresh. *)
Age(s) == IF readings[s.feed].updatedAt >= now THEN 0 ELSE now - readings[s.feed].updatedAt

Fresh(s) == HasReading(s.feed) /\ Age(s) <= s.maxStaleness
Stale(s) == HasReading(s.feed) /\ Age(s) > s.maxStaleness

(* _live: known and not settled. *)
Live(s) == s \in registered \ settled

-----------------------------------------------------------------------------
(* The settler, seen from its resolver: it refuses whatever is not open, and
   everything before its own freeze. *)

SettlerResolve(w) ==
  /\ status = "Open"
  /\ now >= FREEZE
  /\ IF Contested THEN status' = "Resolved" /\ winner' = w
                  ELSE status' = "Voided" /\ UNCHANGED winner

(* Mutant of SettlerVoid: a market that was settled can still be voided. *)
SettlerVoidAlways ==
  /\ now >= FREEZE
  /\ status' = "Voided" /\ UNCHANGED winner

SettlerVoid ==
  /\ status = "Open"
  /\ now >= FREEZE
  /\ status' = "Voided" /\ UNCHANGED winner

(* Mutant of VoidMarket: not while no feed was ever written. *)
VoidMarketOnReading ==
  /\ status = "Open"
  /\ now >= FREEZE + VOID_TIMEOUT /\ \E f \in Feeds : HasReading(f)
  /\ status' = "Voided" /\ UNCHANGED winner
  /\ UNCHANGED <<now, readings, resolverVars>>

(* voidMarket called by anybody else. *)
VoidMarket ==
  /\ status = "Open"
  /\ now >= FREEZE + VOID_TIMEOUT
  /\ status' = "Voided" /\ UNCHANGED winner
  /\ UNCHANGED <<now, readings, resolverVars>>

-----------------------------------------------------------------------------
(* The factory and the resolver.                                           *)

(* create and register, together or not at all; both get the same freeze. *)
Open(s) ==
  /\ status = "None"
  /\ FREEZE > now
  /\ s.resolutionTime = FREEZE
  /\ s \notin registered
  /\ status' = "Open"
  /\ opened' = {s}
  /\ registered' = registered \cup {s}
  /\ UNCHANGED <<now, readings, winner, settled>>

Register(s) ==
  /\ s \notin registered
  /\ registered' = registered \cup {s}
  /\ UNCHANGED <<now, readings, marketVars, opened, settled>>

(* Anyone, at or after the freeze, on a reading inside its bound. *)
Resolve(s) ==
  /\ Live(s)
  /\ now >= s.resolutionTime
  /\ Fresh(s)
  /\ settled' = settled \cup {s}
  /\ SettlerResolve(WinnerFor(readings[s.feed].price8, s))
  /\ UNCHANGED <<now, readings, opened, registered>>

(* Anyone, at or after the freeze, on a reading beyond its bound. *)
VoidStale(s) ==
  /\ Live(s)
  /\ now >= s.resolutionTime
  /\ Stale(s)
  /\ settled' = settled \cup {s}
  /\ SettlerVoid
  /\ UNCHANGED <<now, readings, opened, registered>>

(* preview(s).ready: what resolve would do right now, without sending. *)
Ready(s) == Live(s) /\ now >= s.resolutionTime /\ Fresh(s)

(* The oracle writes a newer round of one feed. *)
WritePrice(f, p, t) ==
  /\ readings' = [readings EXCEPT ![f] = [price8 |-> p, updatedAt |-> t]]
  /\ Write
  /\ UNCHANGED <<marketVars, resolverVars>>

Clock ==
  /\ now < MaxTime
  /\ now' = now + 1
  /\ UNCHANGED <<readings, marketVars, resolverVars>>

-----------------------------------------------------------------------------
ResolutionInit ==
  /\ now = 1
  /\ readings = [f \in Feeds |-> NoReading]
  /\ status = "None" /\ winner = 0
  /\ opened = {} /\ registered = {} /\ settled = {}

ResolutionNext ==
  \/ \E s \in Specs : Open(s) \/ Register(s) \/ Resolve(s) \/ VoidStale(s)
  \/ VoidMarket
  \/ \E f \in Feeds, p \in Prices, t \in (now - 1)..(now + MAX_FUTURE_SKEW) : WritePrice(f, p, t)
  \/ Clock

ResolutionSpec == ResolutionInit /\ [][ResolutionNext]_vars

(* Time passes, and somebody calls the exits that are open to anybody. *)
FairResolutionSpec ==
  /\ ResolutionSpec
  /\ WF_vars(Clock)
  /\ WF_vars(VoidMarket)
  /\ \A s \in Specs : WF_vars(Resolve(s)) /\ WF_vars(VoidStale(s))

-----------------------------------------------------------------------------
(* Properties.                                                             *)

(* However many specs name a market and whoever calls, at most one of them settles
   it, and it settles it for good; the resolver never records a settlement that did
   not reach the settler. *)
OneSpecSettles ==
  /\ Cardinality(settled) <= 1
  /\ settled # {} => status \in {"Resolved", "Voided"}
  /\ status = "Resolved" => settled # {}

(* A settled market never changes again. *)
SettlementIsFinal ==
  [][(status \in {"Resolved", "Voided"}) => UNCHANGED marketVars]_vars

(* An open market is settled in the end, feed or no feed. *)
EventuallySettled == status = "Open" ~> status \in {"Resolved", "Voided"}

=============================================================================
