\* An empty expression keeps the process from starting.
SPECIFICATION FairSpec
CONSTANTS
    Patterns = {hello, relay}
    Payloads = {"p", "q"}
    Rows <- AllRows
    NoTask = NoTask
    Specs <- AllSpecs
    MaxErrors = 0
    MaxStops = 1
PROPERTY GetsUpAgain
