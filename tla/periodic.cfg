\* A failure, a stop and any expression: tasks run on time and keep running.
SPECIFICATION FairSpec
CONSTANTS
    Patterns = {hello, relay}
    Payloads = {"p", "q"}
    Rows <- AllRows
    NoTask = NoTask
    Specs <- AllSpecs
    MaxErrors = 1
    MaxStops = 1
INVARIANTS
    OneEntryPerPattern
    OnTime
PROPERTIES
    KeepsRunning
    StopsRunning
