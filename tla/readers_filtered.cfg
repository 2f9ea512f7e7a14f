\* A counterexample: a walk filtered by supported skips a token that stays so.
SPECIFICATION ReadersSpec
CONSTANTS
    Chains = {1, 2, 3}
    TokenIDs = {1}
    Addresses = {a}
    NoAddress = NoAddress
    MaxInt = 7
    DefaultPageSize = 2
    Requests <- FilteredWalks
INVARIANT NoMatchSkipped
