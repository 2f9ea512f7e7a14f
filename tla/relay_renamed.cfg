\* A database that keeps failed transactions: Relay renames a token.
SPECIFICATION Spec
CONSTANTS
    j1 = j1
    j2 = j2
    c1 = c1
    c2 = c2
    a1 = a1
    a2 = a2
    NoAddress = NoAddress
    NoEntry = NoEntry
    Jobs = {j1}
    Chains = {c1, c2}
    TokenIDs <- TwoTokens
    Addresses = {a1, a2}
    Feeds <- FeedsRenamed
    AbortsOnError = FALSE
    MaxFaults = 1
CHECK_DEADLOCK TRUE
INVARIANT ListedTokensSupported
