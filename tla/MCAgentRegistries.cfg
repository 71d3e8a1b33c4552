SPECIFICATION Spec
CONSTANTS
  None = None
  Zero = Zero
  alice = alice  bob = bob  carol = carol
  MAX_VALUE_DECIMALS = 1
  DAY = 2
  PRECISION = 100
  TRIM <- Trimmed
  LOWER <- Lowered
  Agents = {1, 2}
  Users = {alice, bob}
  Raters = {carol}
  Stakers = {alice}
  Validators = {"auditor"}
  Hashes = {"h"}
  Values <- Scores
  Responses = {40, 90}
  Writes <- Keys
  StartBlocks <- Starts
  Markets <- TwoMarkets
  PPM = 1000
  MaxOps = 4
  MaxLogs = 3
  MaxBlock = 2
INVARIANTS AggregatesAreARecount IdentityFollowsRegistry ReputationIsTheHolders
CHECK_DEADLOCK FALSE
