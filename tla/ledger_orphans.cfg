\* One thing the code says that does not hold: LogsHaveOwners.
SPECIFICATION Spec
CONSTANTS
    Callers = {x, y}
    Runs = {r, s}
    Hello = Hello
    Relay = Relay
    Other = Other
    NoTask = NoTask
    MaxID = 3
INVARIANT LogsHaveOwners
