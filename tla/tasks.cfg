\* Lists that shrink and grow while they are walked, and partial updates; and
\* two calls at a time, of every kind, on tables that earlier calls left.
\* The clients stop when they have made their calls.
CHECK_DEADLOCK FALSE
SPECIFICATION TasksSpec
CONSTANTS
    a = a
    b = b
    hello = hello
    relay = relay
    Texts = {a, b}
    Patterns = {hello, relay}
    Nil = Nil
    Gone = Gone
    Width = 4
    Normal = 1
    MaxInt = 7
    MaxID = 5
    MaxWrites = 2
    TaskInfos <- Infos
    Results = {1, 4}
    Lists <- Walks
    SeedTasks <- FirstTasks
    SeedLogs <- Logs
    Calls = {1, 2}
    Requests <- SomeRequests
    Hello = hello
    Relay = relay
    Other = Other
    MaxTaskID = 5
    MaxFirst = 2
    Nothing = Nil
INVARIANTS
    ColumnsAsAsked
    SkipsOnlyForDepartures
    RepeatsOnlyForArrivals
    CallsTypeOK
    AtMostOneLateChange
PROPERTIES
    ServiceSpec
    EveryCallEnds
