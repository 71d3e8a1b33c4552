---------------------------- MODULE PriceOracle ----------------------------
(***************************************************************************)
(* What contracts/src/interfaces/IPriceOracle.sol promises a reader: for   *)
(* every feed key a price and the time the provider last wrote it, which   *)
(* only moves forward and is at most a clock skew ahead of this chain.     *)
(* A feed that was never written has no value, and reading it reverts.     *)
(***************************************************************************)
EXTENDS Integers

CONSTANTS
  Feeds,              \* feed keys
  MAX_FUTURE_SKEW     \* how far ahead of this chain a provider's clock may be

VARIABLES
  now,                \* block.timestamp
  readings            \* what read(feedKey) returns; updatedAt 0: it reverts

NoReading == [price8 |-> 0, updatedAt |-> 0]

HasReading(f) == readings[f].updatedAt # 0

(* A newer round of one feed lands. *)
Written(old, new) ==
  /\ new.price8 \in Int
  /\ new.updatedAt > old.updatedAt
  /\ new.updatedAt <= now + MAX_FUTURE_SKEW

Write == /\ \A f \in Feeds : readings'[f] # readings[f] => Written(readings[f], readings'[f])
         /\ DOMAIN readings' = Feeds
         /\ UNCHANGED now

(* Time only moves forward. *)
Tick == now' > now /\ UNCHANGED readings

Init == now \in Nat /\ readings = [f \in Feeds |-> NoReading]

Spec == Init /\ [][Write \/ Tick]_<<now, readings>>

=============================================================================
