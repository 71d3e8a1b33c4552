CONSTANTS
  N = 3
  MAX_CLAMP_PASSES = 3
  SCALE = 4
  MaxU128 = 40
  MaxU256 = 10000
  alice = alice
  bob = bob
  feed = feed
  Users = {alice}
  Creator = alice
  Resolver = feed
  ResidueOwner = alice
  ResolutionTime = 1
  VoidTimeout = 1
  Seeds <- ThreeWaySeeds
  Kappas <- AllKappas
  Amounts = {1, 3}
  MaxPositions = 6
  MaxBlock = 4
  MaxTime = 0
  MaxSeed = 5
SPECIFICATION Spec
INVARIANTS ClampIsGreatest PayoutsCovered ResidueIsRounding VestsOnlyToEarlier
PROPERTIES ClaimsNeverDiluted VestsWithinCapacity
CHECK_DEADLOCK FALSE
