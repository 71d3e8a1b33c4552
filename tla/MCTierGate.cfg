SPECIFICATION Spec
CONSTANTS
    None = None
    s1 = s1  s2 = s2  w1 = w1  other = other  h1 = h1  n1 = n1  n2 = n2
    Slots <- MCSlots
    Wallets <- MCWallets
    Carriers <- MCCarriers
    HeaderValue <- MCHeaderValue
    IssuedAt <- MCIssuedAt
    ProofHeaders <- MCProofHeaders
    DOMAIN_NAME = "here"
    ACCEPTED_CHAINS = {480, 8453}
    MAX_LIFETIME = 2
    MAX_AGE = 1
    SKEW = 0
    REQUIRE_URI = FALSE
    BASE = 1
    MULTIPLIER = 1
    WINDOW = 2
    BUDGET = 2
    REJECT = FALSE
    COUNTING = TRUE
    REGISTERED_TTL = 1
    UNREGISTERED_TTL = 1
    MAX_ENTRIES = 1
    MaxTime = 2
    MaxRequests = 3
    MaxMishaps = 1
SYMMETRY SlotSymmetry
INVARIANTS SpentAgainOnlyAcrossExpiry StandingWasRecent RateLimitsHold
CHECK_DEADLOCK FALSE
