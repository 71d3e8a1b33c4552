SPECIFICATION IndexSpec
CONSTANTS
  None = None
  N = 2
  MAX_CLAMP_PASSES = 3
  SCALE = 4
  MaxU128 = 1000
  MaxU256 = 10000
  factory = factory  alice = alice  bob = bob  feed = feed
  Users = {factory, alice, bob}
  Creator = factory
  Opener = alice
  Resolver = feed
  ResidueOwner = alice
  ResolutionTime = 1
  VoidTimeout = 0
  Seeds <- CutSeed
  Kappas <- Two
  Amounts = {4}
  OpeningSpec = "spec"
  MaxPositions = 4
  MaxBlock = 5
  MaxTime = 1
  MaxLogs = 3
  MaxSales = 1
  VINTAGE_ENTRY_LIMIT = 1
  MAX_PAGED_ENTITIES = 2
  Quotes = {1, 6}
  Failed = Failed
  MaxPositionLookups = 1
INVARIANTS FollowsTheSettler CountedOnce PreviewIsWhatClaimPays
  QuoteHolds ClaimablesAreExact ToolsAgree SurfaceAgrees
PROPERTIES ResidueIsEnough
CHECK_DEADLOCK FALSE
