CONSTANTS
  eth = eth
  btc = btc
  zero = zero
  hunch = hunch
  stranger = stranger
  relay = relay
  other = other
  dev = dev
  dao = dao
  keystone = keystone
  Feeds = {eth, btc}
  Described = {eth, btc}
  Decimals <- BothScales
  TARGET_DECIMALS = 1
  MAX_DECIMALS = 2
  MaxInt256 = 995
  MAX_FUTURE_SKEW = 0
  Answers <- AnswersOf
  Ahead = 1
  Zero = zero
  Owners = {dev, dao}
  Forwarders = {zero, keystone}
  Authors = {hunch}
  Workflows = {zero, relay}
  Relay <- TheRelay
  Foreign <- AnotherWorkflow
  MaxRounds <- OneAndTwoRounds
  MaxTime = 2
SPECIFICATION FairSpec
PROPERTIES LockedReadsTheSource ImplementsOracle RoundsArrive
CHECK_DEADLOCK FALSE
