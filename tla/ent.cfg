\* A column of every kind, two rows, a predicate; and two handles on a table
\* of three rows.
SPECIFICATION EntSpec
CONSTANTS
    Texts <- MCTexts
    Numbers = {0, 1, 2}
    Lower <- MCLower
    DefaultText <- MCText
    Now = 1
    Null = Null
    Gone = Gone
    Unset = Unset
    NoBuilder = NoBuilder
    RowIDs = {1, 2}
    Cols <- OneOfEach
    MaxWhere = 1
    None = None
    Handles = {query, countQuery}
    Contexts = {c1, c2}
    Column <- TokenName
    Cell <- Names
    Predicates <- SameFold
    Orders <- ByName
    Selected = {"cell"}
    Limits = {0, 2}
    Offsets = {1}
    MaxPredicates = 1
    MaxTold = 4
SYMMETRY Symmetry
INVARIANT AnswersAsAsked
PROPERTY LastWordCounts
