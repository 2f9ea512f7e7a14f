\* Two jobs that overlap: one clears tokens by ids it has read before.
SPECIFICATION Spec
CONSTANTS
    j1 = j1
    j2 = j2
    c1 = c1
    c2 = c2
    a1 = a1
    a2 = a2
    NoAddress = NoAddress
    NoEntry = NoEntry
    Jobs = {j1, j2}
    Chains = {c1, c2}
    TokenIDs <- OneToken
    Addresses = {a1}
    Feeds <- FeedsMove
    AbortsOnError = TRUE
    MaxFaults = 0
CHECK_DEADLOCK TRUE
INVARIANT SupportedChainsMirrorAFeed
