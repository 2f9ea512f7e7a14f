\* A filter on result 0 is none, and one on 256 asks for 0.
SPECIFICATION Spec
CONSTANTS
    a = a
    b = b
    hello = hello
    relay = relay
    Texts = {a, b}
    Patterns = {hello, relay}
    Nil = Nil
    Gone = Gone
    Width = 4
    Normal = 1
    MaxInt = 7
    MaxID = 5
    MaxWrites = 3
    TaskInfos <- Infos
    Results = {1, 4}
    Lists <- FilterWalks
    SeedTasks <- FirstTasks
    SeedLogs <- Logs
INVARIANT FiltersByResult
