\* Up to two elements in the three lists.
SPECIFICATION FeedSpec
CONSTANTS
    usdc = usdc
    lower = lower
    UPPER = UPPER
    other = other
    Empty = Empty
    NoToken = NoToken
    Texts = {Empty, usdc, lower, UPPER, other}
    normalizeAddress <- Lower
    Elements <- Variations
    MaxElements = 2
\* The loop ends after the third list.
CHECK_DEADLOCK FALSE
INVARIANT OneTokenPerAddress
