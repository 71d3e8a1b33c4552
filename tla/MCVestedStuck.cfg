CONSTANTS
  N = 2
  MAX_CLAMP_PASSES = 3
  SCALE = 4
  MaxU128 = 1000
  MaxU256 = 16000
  alice = alice
  bob = bob
  feed = feed
  Users = {alice, bob}
  Creator = alice
  Resolver = feed
  ResidueOwner = bob
  ResolutionTime = 1
  VoidTimeout = 1
  Seeds <- UnevenSeeds
  Kappas <- LargeKappa
  Amounts = {4}
  MaxPositions = 4
  MaxBlock = 4
  MaxTime = 2
  MaxSeed = 1
SPECIFICATION FairSpec
PROPERTY AnyoneMayVoid
CHECK_DEADLOCK FALSE
