------------------------------ MODULE MCKeeper ------------------------------
(* Small instances of Keeper: constants that a .cfg cannot write. *)
EXTENDS Keeper

CONSTANTS eth, k1

Above == [feed |-> eth, strike |-> 5, direction |-> 0, resolutionTime |-> FREEZE, maxStaleness |-> 1]
Rival == [feed |-> eth, strike |-> 9, direction |-> 0, resolutionTime |-> 1, maxStaleness |-> 0]
TwoSpecs == {Above, Rival}
RivalFirst == <<Rival, Above>>

=============================================================================
