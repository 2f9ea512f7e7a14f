----------------------------- MODULE TaskLedger -----------------------------
(***************************************************************************)
(* Who owns the rows of sys_task_logs.  Tasks are created, changed and     *)
(* deleted by RPCs and seeded by InitDatabase, whose two inserts are not   *)
(* in a transaction; the handlers of the two patterns keep the id of their *)
(* task in memory, hello_world from the moment the process starts,         *)
(* relay_chains from its first run that finds the task.  The tables have   *)
(* no foreign keys (InitDatabase passes WithForeignKeys(false)).           *)
(*                                                                         *)
(* logs has <<p, id>> where at least one row written by the handler of     *)
(* pattern p has id as its owner.  One service process, one DeleteTask at  *)
(* a time.                                                                 *)
(***************************************************************************)
EXTENDS Integers

CONSTANTS
    Callers,    \* clients that call InitDatabase
    Runs,       \* relay_chains runs that may overlap
    Hello,      \* pattern.RecordHelloWorld
    Relay,      \* pattern.RelayChains
    Other,      \* any pattern without a handler
    NoTask,     \* "no task row"
    MaxID       \* bounds the task ids handed out

Patterns == {Hello, Relay, Other}
TaskIDs == 1 .. MaxID
None == 0       \* the id of no task

VARIABLES
    tables,     \* Schema.Create has been done
    tasks,      \* the pattern of each task row
    nextID,     \* the next value of the id sequence
    logs,       \* see above
    del,        \* the DeleteTask transaction under way
    slipped,    \* history: the logs written meanwhile for the tasks it deletes
    seeding,    \* where each InitDatabase call stands
    hello,      \* HelloWorldHandler.taskId, None when the handler is nil
    relayID,    \* Handler.taskID
    run,        \* the task id each relay_chains run works for
    seeded,     \* history: some InitDatabase call has succeeded
    refused,    \* history: some InitDatabase call was told AlreadyInit
    panicked,   \* history: a run of hello_world dereferenced nil
    repatterned \* history: the tasks whose pattern UpdateTask has changed

rowVars == <<tables, tasks, nextID, logs, del, slipped>>
memVars == <<hello, relayID, run>>
history == <<seeded, refused, panicked, repatterned>>
vars == <<rowVars, seeding, memVars, history>>

ASSUME MaxIDAssumption == MaxID \in Nat
ASSUME PatternsAssumption ==
    /\ Hello # Relay /\ Hello # Other /\ Relay # Other
    /\ NoTask \notin Patterns

Log == {Hello, Relay} \X TaskIDs
NoDelete == [ids |-> {}, doomed |-> {}]

TypeOK ==
    /\ tables \in BOOLEAN
    /\ tasks \in [TaskIDs -> Patterns \cup {NoTask}]
    /\ nextID \in 1 .. MaxID + 1
    /\ logs \subseteq Log
    /\ del \in [ids : SUBSET TaskIDs, doomed : SUBSET Log]
    /\ slipped \subseteq Log
    /\ seeding \in [Callers -> {"idle", "hello", "relay"}]
    /\ hello \in TaskIDs \cup {None}
    /\ relayID \in TaskIDs \cup {None}
    /\ run \in [Runs -> TaskIDs \cup {None}]
    /\ seeded \in BOOLEAN /\ refused \in BOOLEAN /\ panicked \in BOOLEAN
    /\ repatterned \subseteq TaskIDs

Exists(id) == tasks[id] # NoTask
Existing == {id \in TaskIDs : Exists(id)}
WithPattern(p) == {id \in TaskIDs : tasks[id] = p}

-----------------------------------------------------------------------------
Init ==
    /\ tables = FALSE
    /\ tasks = [id \in TaskIDs |-> NoTask]
    /\ nextID = 1
    /\ logs = {}
    /\ del = NoDelete
    /\ slipped = {}
    /\ seeding = [c \in Callers |-> "idle"]
    /\ hello = None
    /\ relayID = None
    /\ run = [r \in Runs |-> None]
    /\ seeded = FALSE /\ refused = FALSE /\ panicked = FALSE
    /\ repatterned = {}

(* An INSERT into sys_tasks: the unique index on pattern, the id sequence. *)
Insert_ReusesIDs(p) ==
    /\ nextID \in TaskIDs
    /\ WithPattern(p) = {}
    /\ \E id \in TaskIDs \ Existing :
         /\ \A i \in TaskIDs \ Existing : id <= i
         /\ tasks' = [tasks EXCEPT ![id] = p]
    /\ nextID' = nextID + 1
    /\ UNCHANGED <<tables, logs, del, slipped>>

Insert(p) ==
    /\ nextID \in TaskIDs
    /\ WithPattern(p) = {}
    /\ tasks' = [tasks EXCEPT ![nextID] = p]
    /\ nextID' = nextID + 1
    /\ UNCHANGED <<tables, logs, del, slipped>>

(* InitDatabase creates the tables and counts the tasks. *)
InitDatabase(c) ==
    /\ seeding[c] = "idle"
    /\ tables' = TRUE
    /\ IF Existing = {}
       THEN seeding' = [seeding EXCEPT ![c] = "hello"] /\ UNCHANGED refused
       ELSE refused' = TRUE /\ UNCHANGED seeding
    /\ UNCHANGED <<tasks, nextID, logs, del, slipped, memVars, seeded, panicked, repatterned>>

(* insertTaskData, two statements that commit on their own. *)
InsertHelloTask(c) ==
    /\ seeding[c] = "hello"
    /\ Insert(Hello)
    /\ seeding' = [seeding EXCEPT ![c] = "relay"]
    /\ UNCHANGED <<memVars, history>>

InsertRelayTask(c) ==
    /\ seeding[c] = "relay"
    /\ Insert(Relay)
    /\ seeding' = [seeding EXCEPT ![c] = "idle"]
    /\ seeded' = TRUE
    /\ UNCHANGED <<memVars, refused, panicked, repatterned>>

(* An insert fails, on the unique index or for any other reason; the call  *)
(* returns an error and undoes nothing.                                    *)
InitDatabaseFails(c) ==
    /\ seeding[c] # "idle"
    /\ seeding' = [seeding EXCEPT ![c] = "idle"]
    /\ UNCHANGED <<rowVars, memVars, history>>

CreateTask(p) ==
    /\ tables
    /\ Insert(p)
    /\ UNCHANGED <<seeding, memVars, history>>

(* UpdateTask, when it changes the pattern. *)
UpdateTask(id, p) ==
    /\ Exists(id)
    /\ WithPattern(p) = {}
    /\ tasks' = [tasks EXCEPT ![id] = p]
    /\ repatterned' = repatterned \cup {id}
    /\ UNCHANGED <<tables, nextID, logs, del, slipped, seeding, memVars, seeded, refused, panicked>>

(* DeleteTask's transaction: the first statement finds the logs through    *)
(* the tasks they belong to (HasTasksWith), the second deletes the tasks.  *)
(* Nobody else sees either before the commit, and logs written in between  *)
(* are not among the doomed.                                               *)
DeleteTask_TasksFirst(S) ==
    /\ del = NoDelete
    /\ S \subseteq Existing
    /\ del' = [ids |-> S, doomed |-> {}]
    /\ UNCHANGED <<tables, tasks, nextID, logs, slipped, seeding, memVars, history>>

DeleteTask(S) ==
    /\ del = NoDelete
    /\ S \subseteq Existing
    /\ del' = [ids |-> S, doomed |-> {l \in logs : l[2] \in S}]
    /\ UNCHANGED <<tables, tasks, nextID, logs, slipped, seeding, memVars, history>>

CommitDeleteTask ==
    /\ del # NoDelete
    /\ tasks' = [id \in TaskIDs |-> IF id \in del.ids THEN NoTask ELSE tasks[id]]
    /\ logs' = logs \ del.doomed
    /\ del' = NoDelete /\ slipped' = {}
    /\ UNCHANGED <<tables, nextID, seeding, memVars, history>>

RollbackDeleteTask ==
    /\ del # NoDelete
    /\ del' = NoDelete /\ slipped' = {}
    /\ UNCHANGED <<tables, tasks, nextID, logs, seeding, memVars, history>>

(* DeleteTaskLog deletes some rows, perhaps the last ones of their kind. *)
DeleteTaskLog(l) ==
    /\ l \in logs
    /\ logs' = logs \ {l}
    /\ del' = [del EXCEPT !.doomed = @ \ {l}]
    /\ slipped' = slipped \ {l}
    /\ UNCHANGED <<tables, tasks, nextID, seeding, memVars, history>>

(* A handler writes a log for the id it holds; nothing checks the id. *)
WriteLog(p, id) ==
    /\ logs' = logs \cup {<<p, id>>}
    /\ del' = [del EXCEPT !.doomed = @ \ {<<p, id>>}]
    /\ slipped' = IF id \in del.ids THEN slipped \cup {<<p, id>>} ELSE slipped
    /\ UNCHANGED <<tables, tasks, nextID>>

(* The process starts again: NewHelloWorldHandler, whose query finds the   *)
(* task, finds none or fails, and NewHandler.  The calls and the           *)
(* transaction that were under way are gone.                               *)
Restart ==
    /\ hello' \in {None} \cup WithPattern(Hello)
    /\ relayID' = None
    /\ run' = [r \in Runs |-> None]
    /\ seeding' = [c \in Callers |-> "idle"]
    /\ del' = NoDelete /\ slipped' = {}
    /\ UNCHANGED <<tables, tasks, nextID, logs, history>>

RunHelloWorld_Unguarded ==
    /\ WriteLog(Hello, hello)
    /\ UNCHANGED <<seeding, memVars, history>>

(* HelloWorldHandler.ProcessTask; the guard l.taskId == 0 is no use to a   *)
(* handler that is nil itself.                                             *)
RunHelloWorld ==
    \/ /\ hello # None
       /\ WriteLog(Hello, hello)
       /\ UNCHANGED <<seeding, memVars, history>>
    \/ /\ hello = None
       /\ panicked' = TRUE
       /\ UNCHANGED <<rowVars, seeding, memVars, seeded, refused, repatterned>>

(* Handler.ensureTaskID, when it finds an id.  A failed run changes nothing. *)
StartRelayChains(r) ==
    /\ run[r] = None
    /\ \E id \in IF relayID = None THEN WithPattern(Relay) ELSE {relayID} :
         /\ run' = [run EXCEPT ![r] = id]
         /\ relayID' = id
    /\ UNCHANGED <<rowVars, seeding, hello, history>>

(* The run ends: its log is written, or cannot be. *)
FinishRelayChains(r) ==
    /\ run[r] # None
    /\ WriteLog(Relay, run[r]) \/ UNCHANGED rowVars
    /\ run' = [run EXCEPT ![r] = None]
    /\ UNCHANGED <<seeding, hello, relayID, history>>

Next ==
    \/ \E c \in Callers : \/ InitDatabase(c) \/ InsertHelloTask(c)
                          \/ InsertRelayTask(c) \/ InitDatabaseFails(c)
    \/ \E p \in Patterns : CreateTask(p)
    \/ \E id \in TaskIDs, p \in Patterns : UpdateTask(id, p)
    \/ \E S \in (SUBSET TaskIDs) \ {{}} : DeleteTask(S)
    \/ CommitDeleteTask
    \/ RollbackDeleteTask
    \/ \E l \in Log : DeleteTaskLog(l)
    \/ Restart
    \/ RunHelloWorld
    \/ \E r \in Runs : StartRelayChains(r) \/ FinishRelayChains(r)

Spec == Init /\ [][Next]_vars

-----------------------------------------------------------------------------
(* A log row never tells of a task that another handler serves, however    *)
(* stale the id that the handler kept: after deletions and re-creations    *)
(* the owner is the handler's own task or a task that is gone, unless      *)
(* UpdateTask has given the task another pattern.                          *)
NoMisattribution ==
    \A l \in logs : tasks[l[2]] \in {l[1], NoTask} \/ l[2] \in repatterned

(* DeleteTask takes the logs of a task along and no others.  The last      *)
(* log of a task that stays goes only by DeleteTaskLog; and a task that    *)
(* goes leaves no log behind, but for those that a handler wrote between   *)
(* the statement that deletes the logs and the commit.                     *)
LogsGoWithTasks ==
    [][/\ (\E l \in Log : DeleteTaskLog(l)) \/ \A l \in logs \ logs' : ~Exists(l[2])'
       /\ \A l \in logs' \ slipped : Exists(l[2]) => Exists(l[2])']_vars

(* Deleting a task leaves no log that names it (schema.go:138, OnDelete:   *)
(* schema.SetNull on the edge from sys_task_logs to sys_tasks).            *)
LogsHaveOwners == \A l \in logs : Exists(l[2])

(* AlreadyInit (init_database_logic.go:48) is the answer of a database     *)
(* that some call has initialised.                                         *)
AlreadyInitIsTrue == refused => seeded

(* A run of hello_world without task info fails with an error the queue    *)
(* can retry (hello_world.go:44-47).                                       *)
MissingTaskIsReported == ~panicked
=============================================================================
