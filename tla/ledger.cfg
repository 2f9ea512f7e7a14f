\* Two callers, two overlapping runs, two task ids.
SPECIFICATION Spec
CONSTANTS
    Callers = {x, y}
    Runs = {r, s}
    Hello = Hello
    Relay = Relay
    Other = Other
    NoTask = NoTask
    MaxID = 2
SYMMETRY Symmetry
INVARIANTS
    NoMisattribution
PROPERTY LogsGoWithTasks
