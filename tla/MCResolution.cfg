CONSTANTS
  eth = eth
  btc = btc
  Feeds = {eth, btc}
  MAX_FUTURE_SKEW = 1
  Specs <- RivalSpecs
  Prices = {4, 5, 9}
  FREEZE = 3
  VOID_TIMEOUT = 2
  Contested = TRUE
  MaxTime = 6
SPECIFICATION FairResolutionSpec
INVARIANTS OneSpecSettles
PROPERTY EventuallySettled
CHECK_DEADLOCK FALSE
