---------------------------- MODULE MCResolution ----------------------------
(* Small instances of Resolution: constants that a .cfg cannot write. *)
EXTENDS Resolution

CONSTANTS eth, btc

(* Two specs the factory may open with, and one with other terms and an earlier
   freeze of its own. *)
Above == [feed |-> eth, strike |-> 5, direction |-> 0, resolutionTime |-> FREEZE, maxStaleness |-> 1]
Below == [feed |-> btc, strike |-> 5, direction |-> 1, resolutionTime |-> FREEZE, maxStaleness |-> 0]
Early == [feed |-> eth, strike |-> 9, direction |-> 0, resolutionTime |-> 1, maxStaleness |-> 2]
RivalSpecs == {Above, Below, Early}


=============================================================================
