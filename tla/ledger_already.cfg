\* One thing the code says that does not hold: AlreadyInitIsTrue.
SPECIFICATION Spec
CONSTANTS
    Callers = {x, y}
    Runs = {r, s}
    Hello = Hello
    Relay = Relay
    Other = Other
    NoTask = NoTask
    MaxID = 3
INVARIANT AlreadyInitIsTrue
