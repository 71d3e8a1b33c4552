CONSTANTS
  eth = eth
  k1 = k1
  Feeds = {eth}
  MAX_FUTURE_SKEW = 0
  Specs <- TwoSpecs
  SpecIds <- RivalFirst
  Prices = {5}
  FREEZE = 2
  VOID_TIMEOUT = 9
  Contested = TRUE
  MaxTime = 3
  Keepers = {k1}
  EXTRA = 1
  CLOCK_AHEAD = 1
  Flags = {TRUE, FALSE}
  MaxPending = 2
SPECIFICATION FairKeeperSpec
 
PROPERTY KeeperSettles
CHECK_DEADLOCK FALSE
