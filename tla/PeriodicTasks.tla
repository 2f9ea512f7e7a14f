---------------------------- MODULE PeriodicTasks ----------------------------
(***************************************************************************)
(* When tasks run.  The service's periodic task manager asks               *)
(* EntConfigProvider.GetConfigs for the enabled tasks again and again,     *)
(* compares them with what it has registered, and registers and            *)
(* unregisters the difference; registered entries run on a timer.  Tasks   *)
(* come and go by RPC, the database fails, the process stops and starts.   *)
(*                                                                         *)
(* The manager and its cron are asynq's and external: it tells entries     *)
(* apart by pattern, expression and payload.  A task's cron expression is  *)
(* reduced to the number of ticks between two runs, as in "@every 24h"; a  *)
(* tick is the manager's sync interval.                                    *)
(***************************************************************************)
EXTENDS Integers

CONSTANTS
    Patterns,       \* the patterns tasks have
    Specs,          \* the cron expressions tasks may have
    Payloads,       \* the payloads tasks may have
    Rows,           \* the rows that requests make of tasks
    NoTask,         \* "no task row"
    MaxErrors,      \* bounds the syncs in a row that find the database failing
    MaxStops        \* bounds the stops of the process

Empty == 0          \* the empty expression
Bad == -1           \* an expression that the cron library cannot parse
Idle == -1          \* no timer

Delays == {s \in Specs : s > 0}
MaxDelay == CHOOSE d \in Delays : \A e \in Delays : e <= d

Row == [spec : Specs, payload : Payloads, normal : BOOLEAN]
Config == Patterns \X Delays \X Payloads    \* what can be registered

ASSUME SpecsAssumption ==
    /\ Specs \subseteq {Empty, Bad} \cup (Nat \ {0})
    /\ \E d \in Delays : \A e \in Delays : e <= d
ASSUME RowsAssumption == Rows \subseteq Row /\ NoTask \notin Row
ASSUME BoundsAssumption == MaxErrors \in Nat /\ MaxStops \in Nat

VARIABLES
    tasks,      \* sys_tasks by pattern, which is unique
    process,    \* "down", "starting" or "up"
    timer,      \* ticks until a registered entry runs, else Idle
    synced,     \* the manager has synced since the last tick
    since,      \* history: ticks since the task last ran or changed, or since
                \* the process started, a sync found the database failing or,
                \* for a task without an entry, a sync was refused; stops
                \* counting at MaxDelay + 2
    errors,     \* history: the last syncs in a row found the database failing
    stops       \* history: stops of the process

periodicVars == <<tasks, process, timer, synced, since, errors, stops>>

PeriodicTypeOK ==
    /\ tasks \in [Patterns -> Row \cup {NoTask}]
    /\ process \in {"down", "starting", "up"}
    /\ timer \in [Config -> Int]
    /\ \A c \in Config : timer[c] \in {Idle} \cup 0 .. c[2]
    /\ synced \in BOOLEAN
    /\ since \in [Patterns -> 0 .. MaxDelay + 2]
    /\ errors \in 0 .. MaxErrors
    /\ stops \in 0 .. MaxStops

-----------------------------------------------------------------------------
Registered == {c \in Config : timer[c] # Idle}

Enabled(p) == tasks[p] # NoTask /\ tasks[p].normal

(* The configuration that is made of a row. *)
ConfigOf(p) == <<p, tasks[p].spec, tasks[p].payload>>
HasEntry(p) == tasks[p] # NoTask /\ ConfigOf(p) \in Registered

GetConfigs_AnyStatus == {ConfigOf(p) : p \in {q \in Patterns : tasks[q] # NoTask}}

GetConfigs_Banned ==
    {ConfigOf(p) : p \in {q \in Patterns : tasks[q] # NoTask /\ ~tasks[q].normal}}

GetConfigs_Accumulates == Registered \cup {ConfigOf(p) : p \in {q \in Patterns : Enabled(q)}}

(* GetConfigs, when the database answers. *)
GetConfigs == {ConfigOf(p) : p \in {q \in Patterns : Enabled(q)}}

(* The manager checks all configs before it looks at any. *)
Valid(configs) == \A c \in configs : c[2] # Empty

(* Entries that are not among the configs are unregistered, new ones are   *)
(* registered, and those that stay keep their timers: an entry with        *)
(* another payload is a new one.  A config that the cron library refuses   *)
(* is logged and left out.                                                 *)
Reconcile(configs) ==
    timer' = [c \in Config |-> IF c \notin configs THEN Idle
                               ELSE IF timer[c] = Idle THEN c[2] ELSE timer[c]]

NoTimers == [c \in Config |-> Idle]

PeriodicInit ==
    /\ tasks = [p \in Patterns |-> NoTask]
    /\ process = "down"
    /\ timer = NoTimers
    /\ synced = FALSE
    /\ since = [p \in Patterns |-> 0]
    /\ errors = 0
    /\ stops = 0

(* The RPC server runs from the moment the service group is started. *)
WriteTask(written) ==
    /\ process # "down"
    /\ tasks' = written
    /\ since' = [p \in Patterns |-> IF written[p] = tasks[p] THEN since[p] ELSE 0]
    /\ UNCHANGED <<process, timer, synced, errors, stops>>

(* Neither ent nor the RPC looks at the cron expression or the payload. *)
CreateTask(p, row) ==
    /\ tasks[p] = NoTask
    /\ WriteTask([tasks EXCEPT ![p] = row])

(* The pattern may change too, to one that no other task has. *)
UpdateTask(p, q, row) ==
    /\ tasks[p] # NoTask
    /\ q = p \/ tasks[q] = NoTask
    /\ WriteTask([tasks EXCEPT ![p] = NoTask, ![q] = row])

DeleteTask(p) ==
    /\ tasks[p] # NoTask
    /\ WriteTask([tasks EXCEPT ![p] = NoTask])

(* main: the service group starts. *)
Boot ==
    /\ process = "down"
    /\ process' = "starting"
    /\ UNCHANGED <<tasks, timer, synced, since, errors, stops>>

(* DPTask.Start: the first sync.  An error of Run ends the process. *)
Started ==
    /\ process' = "up"
    /\ since' = [p \in Patterns |-> 0]
    /\ synced' = TRUE

Start ==
    /\ process = "starting"
    /\ Valid(GetConfigs)
    /\ Reconcile(GetConfigs)
    /\ Started
    /\ errors' = 0
    /\ UNCHANGED <<tasks, stops>>

StartFatal_GoesOn ==
    /\ process = "starting"
    /\ ~Valid(GetConfigs)
    /\ process' = "without manager"
    /\ UNCHANGED <<tasks, timer, synced, since, errors, stops>>

StartFatal ==
    /\ process = "starting"
    /\ ~Valid(GetConfigs)
    /\ process' = "down"
    /\ UNCHANGED <<tasks, timer, synced, since, errors, stops>>

(* A later sync. *)
Sync ==
    /\ process = "up"
    /\ ~synced
    /\ Valid(GetConfigs)
    /\ Reconcile(GetConfigs)
    /\ synced' = TRUE
    /\ errors' = 0
    /\ UNCHANGED <<tasks, process, since, stops>>

SyncRefused_Clears ==
    /\ process = "up"
    /\ ~synced
    /\ ~Valid(GetConfigs)
    /\ synced' = TRUE
    /\ timer' = NoTimers
    /\ since' = [p \in Patterns |-> IF HasEntry(p) THEN since[p] ELSE 0]
    /\ errors' = 0
    /\ UNCHANGED <<tasks, process, stops>>

(* One empty expression and nothing changes: what is registered runs on.   *)
SyncRefused ==
    /\ process = "up"
    /\ ~synced
    /\ ~Valid(GetConfigs)
    /\ synced' = TRUE
    /\ since' = [p \in Patterns |-> IF HasEntry(p) THEN since[p] ELSE 0]
    /\ errors' = 0
    /\ UNCHANGED <<tasks, process, timer, stops>>

(* GetConfigs answers a failing database with no configs and no error. *)
DatabaseFails ==
    /\ errors < MaxErrors
    /\ errors' = errors + 1
    /\ Reconcile({})

StartWithoutDatabase ==
    /\ process = "starting"
    /\ DatabaseFails
    /\ Started
    /\ UNCHANGED <<tasks, stops>>

SyncWithoutDatabase ==
    /\ process = "up"
    /\ ~synced
    /\ DatabaseFails
    /\ synced' = TRUE
    /\ since' = [p \in Patterns |-> 0]
    /\ UNCHANGED <<tasks, process, stops>>

(* The timer of an entry of p runs out: the task is put into the queue. *)
Run(p) ==
    /\ process = "up"
    /\ \E c \in Registered :
         /\ c[1] = p
         /\ timer[c] = 0
         /\ timer' = [timer EXCEPT ![c] = c[2]]
    /\ since' = [since EXCEPT ![p] = 0]
    /\ UNCHANGED <<tasks, process, synced, errors, stops>>

(* Time passes; the manager has synced, and what was due has run. *)
Tick ==
    /\ process = "up"
    /\ synced
    /\ \A c \in Config : timer[c] # 0
    /\ timer' = [c \in Config |-> IF timer[c] = Idle THEN Idle ELSE timer[c] - 1]
    /\ synced' = FALSE
    /\ since' = [p \in Patterns |-> IF since[p] = MaxDelay + 2 THEN since[p] ELSE since[p] + 1]
    /\ UNCHANGED <<tasks, process, errors, stops>>

(* A deployment or a crash; the entries are in memory. *)
Stop ==
    /\ process # "down"
    /\ stops < MaxStops
    /\ stops' = stops + 1
    /\ process' = "down"
    /\ timer' = NoTimers
    /\ UNCHANGED <<tasks, synced, since, errors>>

PeriodicNext ==
    \/ \E p \in Patterns, row \in Rows : CreateTask(p, row)
    \/ \E p, q \in Patterns, row \in Rows : UpdateTask(p, q, row)
    \/ \E p \in Patterns : DeleteTask(p) \/ Run(p)
    \/ Boot \/ Start \/ StartFatal \/ StartWithoutDatabase
    \/ Sync \/ SyncRefused \/ SyncWithoutDatabase
    \/ Tick
    \/ Stop

PeriodicSpec == PeriodicInit /\ [][PeriodicNext]_periodicVars

(* The machine restarts the process, its goroutines are scheduled and time *)
(* passes.  The RPCs, failures and stops are up to others.                 *)
FairSpec ==
    /\ PeriodicSpec
    /\ WF_periodicVars(Boot)
    /\ WF_periodicVars(Start \/ StartFatal)
    /\ WF_periodicVars(Sync \/ SyncRefused)
    /\ WF_periodicVars(Tick)
    /\ \A p \in Patterns : WF_periodicVars(Run(p))

-----------------------------------------------------------------------------
(* No pattern has two entries, whatever becomes of its expression and its  *)
(* payload: an old one does not go on running next to the new one.         *)
OneEntryPerPattern ==
    \A c, d \in Registered : c[1] = d[1] => c = d

(* An enabled task with a delay of d ticks runs within d ticks of its last *)
(* run, of its last change, of the start of the process or of the last     *)
(* sync that found the database failing, and one more that it may have to  *)
(* wait for the next sync ("@every 24h", init_database_logic.go:77).  An   *)
(* empty expression of another task delays it only where it has yet to be  *)
(* registered.                                                             *)
OnTime ==
    process = "up" => \A p \in Patterns :
        Enabled(p) /\ tasks[p].spec \in Delays => since[p] <= tasks[p].spec + 1

Blocked == \E p \in Patterns : Enabled(p) /\ tasks[p].spec = Empty
LeftAlone(c) == Enabled(c[1]) /\ ConfigOf(c[1]) = c

(* An enabled task whose expression and payload are left alone runs again  *)
(* and again once the database answers, in spite of failures and restarts  *)
(* before and malformed expressions of other tasks, empty ones excepted.   *)
KeepsRunning ==
    \A c \in Config :
        <>[](LeftAlone(c) /\ ~Blocked /\ errors = 0) => []<><<Run(c[1])>>_periodicVars

(* The same where the database fails now and then: it does not hold, for   *)
(* each failure starts the timers anew ("@every 24h",                      *)
(* init_database_logic.go:77).                                             *)
RunsThroughFailures ==
    \A c \in Config : <>[](LeftAlone(c) /\ ~Blocked) => []<><<Run(c[1])>>_periodicVars

(* A task that has been disabled or deleted stops running, unless an empty *)
(* expression stops the syncs ("Status 1: normal 2: ban").                 *)
StopsRunning ==
    \A p \in Patterns :
        <>[](~Enabled(p) /\ ~Blocked) => <>[](\A c \in Registered : c[1] # p)

(* The service gets up again after it has stopped, so that tasks can be    *)
(* managed through gRPC (README.md:8).                                     *)
GetsUpAgain == []<>(process = "up")
=============================================================================
