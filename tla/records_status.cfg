\* A status of 257 is stored as 1, and the task runs.
SPECIFICATION Spec
CONSTANTS
    a = a
    b = b
    hello = hello
    relay = relay
    Texts = {a, b}
    Patterns = {hello, relay}
    Nil = Nil
    Gone = Gone
    Width = 4
    Normal = 1
    MaxInt = 7
    MaxID = 5
    MaxWrites = 3
    TaskInfos <- Infos
    Results = {1, 4}
    Lists <- Walks
    SeedTasks <- FirstTasks
    SeedLogs <- Logs
INVARIANT RunsWhenAsked
