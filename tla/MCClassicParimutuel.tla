------------------------ MODULE MCClassicParimutuel ------------------------
(* Small instances of ClassicParimutuel: constants that a .cfg cannot write. *)
EXTENDS ClassicIndex

CONSTANTS alice, bob, feed

(* Seeds that no pool divides evenly; a zero and an oversized leg are refused. *)
OddSeeds == {<<2, 3>>, <<0, 3>>, <<3, 90>>}

=============================================================================
