SPECIFICATION Spec
CONSTANTS
    None = None
    m1 = m1  btc = btc
    Markets <- MCMarkets
    Terms <- MCTerms
    Quotes <- MCQuotes
    TrustReadings <- MCTrustReadings
    SETTLER = "settler"
    PLACEHOLDER_ADDRESS = "0x0"
    INTEL_URL = "intel"
    UNIT = 100
    SCORE_MAX = 50
    MIN_EDGE = 10
    EDGE_SATURATION = 20
    FREEZE_BUFFER = 1
    MIN_VESTING_OUTLOOK = 10
    TRUST_FLOOR = 50
    MAX_BANKROLL_FRACTION = 100
    HEADROOM_UTILISATION = 100
    MAX_TICKET = 2
    MIN_TICKET = 1
    OtherStakes = {2}
    ROUNDS = 2
    MAX_ATTEMPTS = 2
    KAPPA = 1
    BANKROLL = 3
    MaxTime = 1
    MaxMishaps = 1
    MaxArrivals = 1
    MaxRuns = 2
INVARIANTS EnteredOncePerRun
PROPERTIES RationedOnlyByMovement StakesComeBack
CHECK_DEADLOCK FALSE
