-------------------------- MODULE TaskLedgerProofs --------------------------
(***************************************************************************)
(* Theorems about TaskLedger, for any callers, runs and number of ids.     *)
(* The argument for attribution: ids come from a sequence, so an id that   *)
(* is remembered in memory or in a log is behind the sequence, no row is   *)
(* ahead of it, and an INSERT cannot give a remembered id to another       *)
(* pattern.                                                                *)
(***************************************************************************)
EXTENDS TaskLedger, TLAPS

USE DEF rowVars, memVars, history, vars, Patterns, TaskIDs, None, Log,
        Exists, WithPattern

(* Id was, when last heard of, the task that pattern p's handler serves. *)
Serves(p, id) ==
    /\ id < nextID
    /\ tasks[id] \in {p, NoTask} \/ id \in repatterned

Attributed ==
    /\ \A id \in TaskIDs : id >= nextID => tasks[id] = NoTask
    /\ hello # None => Serves(Hello, hello)
    /\ relayID # None => Serves(Relay, relayID)
    /\ \A r \in Runs : run[r] # None => Serves(Relay, run[r])
    /\ \A l \in logs : Serves(l[1], l[2])

(* What a DeleteTask is about to delete are the logs of the tasks that it  *)
(* deletes, all of them that have not slipped in.                          *)
DoomedOwned ==
    /\ \A l \in del.doomed : l[2] \in del.ids
    /\ \A l \in logs \ slipped : l[2] \in del.ids => l \in del.doomed

Inv == TypeOK /\ Attributed /\ DoomedOwned

-----------------------------------------------------------------------------
LEMMA NoDeleteType ==
    /\ NoDelete \in [ids : SUBSET TaskIDs, doomed : SUBSET Log]
    /\ NoDelete.doomed = {} /\ NoDelete.ids = {}
  BY DEF NoDelete

LEMMA InsertType ==
  ASSUME TypeOK, NEW p \in Patterns, Insert(p)
  PROVE  /\ tasks' \in [TaskIDs -> Patterns \cup {NoTask}]
         /\ nextID' \in 1 .. MaxID + 1
         /\ UNCHANGED <<tables, logs, del, slipped>>
  BY MaxIDAssumption DEF Insert, TypeOK

LEMMA WriteLogType ==
  ASSUME TypeOK, NEW p \in {Hello, Relay}, NEW id \in TaskIDs, WriteLog(p, id)
  PROVE  /\ logs' \subseteq Log
         /\ del' \in [ids : SUBSET TaskIDs, doomed : SUBSET Log] /\ slipped' \subseteq Log
         /\ UNCHANGED <<tables, tasks, nextID>>
  BY DEF WriteLog, TypeOK

LEMMA InitInv == Init => Inv
<1> SUFFICES ASSUME Init PROVE Inv
  OBVIOUS
<1> USE DEF Init
<1>1. tasks \in [TaskIDs -> Patterns \cup {NoTask}] /\ run \in [Runs -> TaskIDs \cup {None}]
  OBVIOUS
<1>2. seeding \in [Callers -> {"idle", "hello", "relay"}]
  OBVIOUS
<1>3. /\ nextID \in 1 .. MaxID + 1 /\ logs \subseteq Log /\ repatterned \subseteq TaskIDs
      /\ del \in [ids : SUBSET TaskIDs, doomed : SUBSET Log] /\ slipped \subseteq Log
  BY MaxIDAssumption, NoDeleteType
<1>4. TypeOK
  BY <1>1, <1>2, <1>3 DEF TypeOK
<1>5. Attributed /\ DoomedOwned
  BY NoDeleteType DEF Attributed, DoomedOwned
<1> QED
  BY <1>4, <1>5 DEF Inv

LEMMA StepType == TypeOK /\ [Next]_vars => TypeOK'
<1> SUFFICES ASSUME TypeOK, [Next]_vars PROVE TypeOK'
  OBVIOUS
<1> USE MaxIDAssumption DEF TypeOK
<1>1. CASE UNCHANGED vars
  BY <1>1
<1>2. ASSUME NEW c \in Callers, InitDatabase(c) \/ InitDatabaseFails(c) PROVE TypeOK'
  BY <1>2 DEF InitDatabase, InitDatabaseFails
<1>3. ASSUME NEW c \in Callers, InsertHelloTask(c) \/ InsertRelayTask(c) PROVE TypeOK'
  <2>1. PICK p \in Patterns : Insert(p)
    BY <1>3 DEF InsertHelloTask, InsertRelayTask
  <2> QED
    BY <1>3, <2>1, InsertType DEF InsertHelloTask, InsertRelayTask
<1>4. ASSUME NEW p \in Patterns, CreateTask(p) PROVE TypeOK'
  BY <1>4, InsertType DEF CreateTask
<1>5. ASSUME NEW id \in TaskIDs, NEW p \in Patterns, UpdateTask(id, p) PROVE TypeOK'
  BY <1>5 DEF UpdateTask
<1>6. ASSUME NEW S \in SUBSET TaskIDs, DeleteTask(S) PROVE TypeOK'
  BY <1>6 DEF DeleteTask
<1>7. CASE CommitDeleteTask \/ RollbackDeleteTask
  <2>1. CASE CommitDeleteTask
    <3>1. tasks' \in [TaskIDs -> Patterns \cup {NoTask}]
      BY <2>1 DEF CommitDeleteTask
    <3>2. logs' \subseteq Log /\ del' \in [ids : SUBSET TaskIDs, doomed : SUBSET Log]
      BY <2>1, NoDeleteType, Zenon DEF CommitDeleteTask
    <3> QED
      BY <2>1, <3>1, <3>2 DEF CommitDeleteTask
  <2>2. CASE RollbackDeleteTask
    <3>1. del' \in [ids : SUBSET TaskIDs, doomed : SUBSET Log]
      BY <2>2, NoDeleteType, Zenon DEF RollbackDeleteTask
    <3> QED
      BY <2>2, <3>1 DEF RollbackDeleteTask
  <2> QED
    BY <1>7, <2>1, <2>2
<1>8. ASSUME NEW l \in Log, DeleteTaskLog(l) PROVE TypeOK'
  BY <1>8 DEF DeleteTaskLog
<1>9. CASE Restart
  BY <1>9, NoDeleteType DEF Restart
<1>10. CASE RunHelloWorld
  <2>1. CASE hello # None /\ WriteLog(Hello, hello) /\ UNCHANGED <<seeding, memVars, history>>
    BY <2>1, WriteLogType
  <2>2. CASE panicked' = TRUE /\ UNCHANGED <<rowVars, seeding, memVars, seeded, refused, repatterned>>
    BY <2>2
  <2> QED
    BY <1>10, <2>1, <2>2 DEF RunHelloWorld
<1>11. ASSUME NEW r \in Runs, StartRelayChains(r) PROVE TypeOK'
  BY <1>11 DEF StartRelayChains
<1>12. ASSUME NEW r \in Runs, FinishRelayChains(r) PROVE TypeOK'
  <2>1. UNCHANGED <<seeding, hello, relayID, history>> /\ run' = [run EXCEPT ![r] = None]
    BY <1>12 DEF FinishRelayChains
  <2>2. CASE WriteLog(Relay, run[r]) /\ run[r] # None
    BY <2>1, <2>2, WriteLogType
  <2>3. CASE UNCHANGED rowVars
    BY <2>1, <2>3
  <2> QED
    BY <1>12, <2>2, <2>3 DEF FinishRelayChains
<1> QED
  BY <1>1, <1>2, <1>3, <1>4, <1>5, <1>6, <1>7, <1>8, <1>9, <1>10, <1>11, <1>12 DEF Next

(* An INSERT disturbs no id that is behind the sequence. *)
LEMMA InsertKeeps ==
  ASSUME TypeOK, Attributed, NEW p \in Patterns, Insert(p),
         UNCHANGED <<memVars, repatterned>>
  PROVE  Attributed'
<1>1. /\ nextID \in TaskIDs /\ nextID' = nextID + 1 /\ logs' = logs
      /\ \A id \in TaskIDs : id # nextID => tasks'[id] = tasks[id]
  BY DEF Insert, TypeOK
<1>2. ASSUME NEW q, NEW id \in TaskIDs, Serves(q, id) PROVE Serves(q, id)'
  BY <1>1, <1>2, MaxIDAssumption DEF Serves, TypeOK
<1>3. \A id \in TaskIDs : id >= nextID' => tasks'[id] = NoTask
  BY <1>1, MaxIDAssumption DEF Attributed, TypeOK
<1> QED
  BY <1>1, <1>2, <1>3 DEF Attributed, TypeOK

(* Steps after which what an id serves is what it served, and which bring  *)
(* no id to memory or to the logs.                                         *)
LEMMA KeepingStep ==
  ASSUME TypeOK, Attributed, UNCHANGED <<nextID, memVars>>, logs' \subseteq logs,
         repatterned \subseteq repatterned',
         \A id \in TaskIDs : tasks'[id] \in {tasks[id], NoTask} \/
                             (id < nextID /\ id \in repatterned')
  PROVE  Attributed'
<1>1. ASSUME NEW q, NEW id \in TaskIDs, Serves(q, id) PROVE Serves(q, id)'
  BY <1>1 DEF Serves
<1>2. \A id \in TaskIDs : id >= nextID' => tasks'[id] = NoTask
  BY MaxIDAssumption DEF Attributed, TypeOK
<1> QED
  BY <1>1, <1>2 DEF Attributed, TypeOK

LEMMA StepInv == Inv /\ [Next]_vars => Inv'
<1> SUFFICES ASSUME Inv, [Next]_vars PROVE Inv'
  OBVIOUS
<1>0. TypeOK /\ TypeOK' /\ Attributed /\ DoomedOwned
  BY StepType DEF Inv
<1> USE <1>0
<1>1. CASE UNCHANGED vars
  BY <1>1 DEF Inv, Attributed, Serves, DoomedOwned
<1>2. ASSUME NEW c \in Callers, InitDatabase(c) \/ InitDatabaseFails(c) PROVE Inv'
  BY <1>2, KeepingStep DEF InitDatabase, InitDatabaseFails, Inv, DoomedOwned
<1>3. ASSUME NEW c \in Callers, InsertHelloTask(c) \/ InsertRelayTask(c) PROVE Inv'
  BY <1>3, InsertKeeps DEF InsertHelloTask, InsertRelayTask, Insert, Inv, DoomedOwned
<1>4. ASSUME NEW p \in Patterns, CreateTask(p) PROVE Inv'
  BY <1>4, InsertKeeps DEF CreateTask, Insert, Inv, DoomedOwned
<1>5. ASSUME NEW id \in TaskIDs, NEW p \in Patterns, UpdateTask(id, p) PROVE Inv'
  <2>1. id < nextID
    BY <1>5, MaxIDAssumption DEF UpdateTask, Attributed, TypeOK
  <2>2. Attributed'
    BY <1>5, <2>1, KeepingStep DEF UpdateTask, TypeOK
  <2> QED
    BY <1>5, <2>2 DEF UpdateTask, Inv, DoomedOwned
<1>6. ASSUME NEW S \in SUBSET TaskIDs, DeleteTask(S) PROVE Inv'
  BY <1>6, KeepingStep DEF DeleteTask, Inv, DoomedOwned
<1>7. CASE CommitDeleteTask \/ RollbackDeleteTask
  <2>1. Attributed'
    BY <1>7, KeepingStep DEF CommitDeleteTask, RollbackDeleteTask
  <2>2. DoomedOwned'
    BY <1>7, NoDeleteType DEF CommitDeleteTask, RollbackDeleteTask, DoomedOwned
  <2> QED
    BY <2>1, <2>2 DEF Inv
<1>8. ASSUME NEW l \in Log, DeleteTaskLog(l) PROVE Inv'
  BY <1>8, KeepingStep DEF DeleteTaskLog, Inv, DoomedOwned, TypeOK
<1>9. CASE Restart
  <2>1. Attributed'
    BY <1>9, MaxIDAssumption, PatternsAssumption DEF Restart, Attributed, Serves, TypeOK
  <2> QED
    BY <1>9, <2>1, NoDeleteType DEF Restart, Inv, DoomedOwned
<1>10. CASE RunHelloWorld
  BY <1>10 DEF RunHelloWorld, WriteLog, Inv, Attributed, Serves, DoomedOwned, TypeOK
<1>11. ASSUME NEW r \in Runs, StartRelayChains(r) PROVE Inv'
  <2>1. PICK id \in TaskIDs : /\ run' = [run EXCEPT ![r] = id]
                              /\ relayID' = id
                              /\ relayID = None => tasks[id] = Relay
                              /\ relayID # None => id = relayID
    BY <1>11 DEF StartRelayChains, TypeOK
  <2>2. UNCHANGED <<rowVars, hello, history>>
    BY <1>11 DEF StartRelayChains
  <2>3. Serves(Relay, id)
    BY <2>1, MaxIDAssumption, PatternsAssumption DEF Attributed, Serves, TypeOK
  <2> QED
    BY <2>1, <2>2, <2>3 DEF Inv, Attributed, Serves, DoomedOwned, TypeOK
<1>12. ASSUME NEW r \in Runs, FinishRelayChains(r) PROVE Inv'
  BY <1>12 DEF FinishRelayChains, WriteLog, Inv, Attributed, Serves, DoomedOwned, TypeOK
<1> QED
  BY <1>1, <1>2, <1>3, <1>4, <1>5, <1>6, <1>7, <1>8, <1>9, <1>10, <1>11, <1>12 DEF Next

(* Every id in the ledger and in the handlers is a task id or none. *)
THEOREM TypeCorrect == Spec => []TypeOK
<1>1. Inv => TypeOK
  BY DEF Inv
<1> QED
  BY <1>1, InitInv, StepInv, PTL DEF Spec


(* However stale a handler's id is, its logs are never those of another    *)
(* handler's task.                                                         *)
THEOREM Attribution == Spec => []NoMisattribution
<1>1. Inv => NoMisattribution
  BY DEF Inv, Attributed, Serves, NoMisattribution
<1> QED
  BY <1>1, InitInv, StepInv, PTL DEF Spec

LEMMA StepLogs ==
  Inv /\ [Next]_vars =>
    [/\ (\E l \in Log : DeleteTaskLog(l)) \/ \A l \in logs \ logs' : ~Exists(l[2])'
     /\ \A l \in logs' \ slipped : Exists(l[2]) => Exists(l[2])']_vars
<1> SUFFICES ASSUME Inv, Next
             PROVE  /\ (\E l \in Log : DeleteTaskLog(l)) \/ \A l \in logs \ logs' : ~Exists(l[2])'
                    /\ \A l \in logs' \ slipped : Exists(l[2]) => Exists(l[2])'
  OBVIOUS
<1>0. /\ TypeOK /\ DoomedOwned
      /\ \A l \in Log : l[2] \in TaskIDs
  BY DEF Inv
<1>1. CASE CommitDeleteTask
  <2>1. /\ logs' = logs \ del.doomed
        /\ \A id \in TaskIDs : tasks'[id] = IF id \in del.ids THEN NoTask ELSE tasks[id]
    BY <1>1 DEF CommitDeleteTask
  <2>2. ASSUME NEW l \in logs, l \notin logs' PROVE ~Exists(l[2])'
    BY <1>0, <2>1, <2>2 DEF DoomedOwned, TypeOK
  <2>3. ASSUME NEW l \in logs', l \notin slipped, Exists(l[2]) PROVE Exists(l[2])'
    BY <1>0, <2>1, <2>3 DEF DoomedOwned, TypeOK
  <2> QED
    BY <2>2, <2>3
<1>2. CASE ~CommitDeleteTask
  <2>1. \A id \in TaskIDs : tasks[id] # NoTask => tasks'[id] # NoTask
    BY <1>0, <1>2, PatternsAssumption DEF Next, InitDatabase, InitDatabaseFails, InsertHelloTask,
       InsertRelayTask, Insert, CreateTask, UpdateTask, DeleteTask, RollbackDeleteTask, DeleteTaskLog,
       Restart, RunHelloWorld, WriteLog, StartRelayChains, FinishRelayChains, TypeOK
  <2>2. (\E l \in Log : DeleteTaskLog(l)) \/ logs \subseteq logs'
    BY <1>2 DEF Next, InitDatabase, InitDatabaseFails, InsertHelloTask, InsertRelayTask, Insert,
       CreateTask, UpdateTask, DeleteTask, RollbackDeleteTask, Restart, RunHelloWorld, WriteLog,
       StartRelayChains, FinishRelayChains
  <2>3. \A l \in logs' : l[2] \in TaskIDs
    BY StepType, <1>0 DEF TypeOK
  <2> QED
    BY <2>1, <2>2, <2>3
<1> QED
  BY <1>1, <1>2

(* A task that stays keeps its logs, whatever becomes of the DeleteTask,   *)
(* and one that goes takes all with it that a handler did not slip in.     *)
THEOREM LogsFollowTasks == Spec => LogsGoWithTasks
  BY InitInv, StepInv, StepLogs, PTL DEF Spec, LogsGoWithTasks
=============================================================================
