---------------------------- MODULE MCPriceRelay ----------------------------
(* Small instances of PriceRelay: constants that a .cfg cannot write. *)
EXTENDS PriceRelay

CONSTANTS eth, btc, zero, hunch, stranger, relay, other, dev, dao, keystone

(* One feed below the scale of IPriceOracle and one above it. *)
BothScales == [f \in {eth, btc} |-> IF f = eth THEN 0 ELSE 2]
(* A feed that is scaled up may overflow, one that is scaled down has a bad round. *)
AnswersOf == [f \in {eth, btc} |-> IF f = eth THEN {25, 100} ELSE {0, 25}]
OneAndTwoRounds == [f \in {eth, btc} |-> IF f = eth THEN 1 ELSE 2]
TheRelay == [author |-> hunch, workflowId |-> relay]
AnotherWorkflow == [author |-> stranger, workflowId |-> other]

=============================================================================
