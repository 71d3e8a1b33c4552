CONSTANTS
  None = None
  N = 2
  MaxU128 = 50
  alice = alice
  bob = bob
  feed = feed
  Users = {alice, bob}
  Creator = alice
  Resolver = feed
  ResidueOwner = bob
  ResolutionTime = 1
  VoidTimeout = 1
  Seeds <- OddSeeds
  Amounts = {4}
  MaxPositions = 3
  MaxTime = 2
  MaxLogs = 2
SPECIFICATION IndexSpec
INVARIANTS HoldersMadeWhole
PROPERTIES ImplementsSettler EventuallyDrained
CHECK_DEADLOCK FALSE
