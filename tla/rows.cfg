\* One chain that is written from any element after any other, and another.
SPECIFICATION Spec
CONSTANTS
    Chains = {1, 2}
    TokenIDs = {1, 2}
    a = a
    b = b
    Addresses = {a, b}
    Native = {b}
    NoAddress = NoAddress
    eth = eth
    pol = pol
    svm = svm
    yes = yes
    frac = frac
    Evm = Evm
    Empty = Empty
    Words <- AllWords
    Truthy = {yes, 1}
    Unset = Unset
    Missing = Missing
    Gone = Gone
    Elements <- Variations
INVARIANTS
    RowsFollowTheFeed
    OffersStandTogether
    ClientsCanShow
PROPERTY CatalogSpec
