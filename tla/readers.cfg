\* Walks over lists that grow while they are walked.
SPECIFICATION ReadersSpec
CONSTANTS
    Chains = {1, 2, 3}
    TokenIDs = {1}
    Addresses = {a}
    NoAddress = NoAddress
    MaxInt = 7
    DefaultPageSize = 2
    Requests <- Walks
INVARIANTS
    NoRowSkipped
    TotalIsKept
    StrangersAreNews
    SwitchIsTheOperators
