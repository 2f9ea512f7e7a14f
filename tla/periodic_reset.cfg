\* Syncs that find the database failing start a timer anew, again and again.
SPECIFICATION FairSpec
CONSTANTS
    Patterns = {relay}
    Payloads = {"p", "q"}
    Rows <- GoodRows
    NoTask = NoTask
    Specs <- GoodSpecs
    MaxErrors = 1
    MaxStops = 0
PROPERTY RunsThroughFailures
