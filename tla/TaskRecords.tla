----------------------------- MODULE TaskRecords -----------------------------
(***************************************************************************)
(* The columns of sys_tasks and sys_task_logs under the task and task log  *)
(* RPCs, and a client that walks GetTaskList or GetTaskLogList, newest     *)
(* rows first, while others create, change and delete rows and handlers    *)
(* write logs.  TaskLedger is about which handler owns which log; here a   *)
(* handler may own any task that ever was.                                 *)
(*                                                                         *)
(* A request leaves out what it does not give (Nil), and the builders'     *)
(* SetNotNil methods then leave the column alone.  Calls that are refused  *)
(* (not found, validation, constraint) change nothing and are no steps.    *)
(***************************************************************************)
EXTENDS Paging, FiniteSets

CONSTANTS
    Texts, Patterns,  \* values of the text columns and of pattern
    Nil, Gone,        \* a field not given; an id without a row
    Width,            \* 256, for status and result are uint8
    Normal,           \* the default status, of a task that is scheduled
    MaxID,            \* bounds the ids of either table
    MaxWrites,        \* bounds the writes
    TaskInfos,        \* the requests of CreateTask and UpdateTask
    Results,          \* the results logs are written with, uint32
    Lists,            \* the requests of the client that walks
    SeedTasks, SeedLogs   \* the rows there are to begin with

IDs == 1 .. MaxID
None == 0   \* a log without a task

Columns == {"status", "name", "task_group", "cron_expression", "pattern", "payload"}
UInt8 == 0 .. Width - 1
Value(c) == CASE c = "status"  -> UInt8
              [] c = "pattern" -> Patterns
              [] OTHER         -> Texts
Given(c) == IF c = "status" THEN Nat ELSE Value(c)

Task == {t \in [Columns -> UInt8 \cup Patterns \cup Texts] :
            \A c \in Columns : t[c] \in Value(c)}
Asked == [Columns -> Nat \cup Patterns \cup Texts]
TaskLog == [task : IDs \cup {None}, result : UInt8]

(* A request of Lists names the list and its filters, which are admitted   *)
(* names (NameContains), the task of a log and its result, and the page.   *)
ASSUME RecordsAssumption ==
    /\ MaxID \in Nat /\ MaxWrites \in Nat /\ MaxID <= MaxInt
    /\ Width \in Nat \ {0} /\ Normal \in UInt8 /\ Results \subseteq Nat
    /\ Nil \notin Nat \cup Patterns \cup Texts
    /\ \A in \in TaskInfos : DOMAIN in = Columns /\
         \A c \in Columns : in[c] = Nil \/ in[c] \in Given(c)
    /\ \A q \in Lists :
         /\ q.of \in {"tasks", "logs"}
         /\ q.names \subseteq Texts
         /\ q.task \in IDs \cup {Nil}
         /\ q.result \in Nat \cup {Nil}
         /\ q.page \in UInt /\ q.size \in UInt

ASSUME SeedsAssumption ==
    /\ \E n \in 0 .. MaxID : SeedTasks \in [1 .. n -> Task]
    /\ \E n \in 0 .. MaxID : SeedLogs \in [1 .. n -> TaskLog]
    /\ Nil # Gone /\ Gone \notin Task \cup TaskLog \cup Asked

VARIABLES
    tasks, taskSeq,   \* the rows of sys_tasks by id, and the next id
    logs, logSeq,     \* those of sys_task_logs
    asked,            \* history: for each column, what was last asked of it
    writes,           \* for the bound
    at, req, page,    \* the walk: where it is, its request, the page it is on
    got,              \* the rows the page had
    owed,             \* history: rows that matched since the walk began and
                      \* were not shown
    shown,            \* history: rows that were
    repeats,          \* history: how many were shown again
    left, came        \* history: how many rows left and joined those that match

taskVars == <<tasks, taskSeq, asked>>
logVars == <<logs, logSeq>>
walkVars == <<at, req, page, got, owed, shown, repeats, left, came>>
vars == <<taskVars, logVars, writes, walkVars>>

TypeOK ==
    /\ tasks \in [IDs -> Task \cup {Gone}] /\ taskSeq \in 1 .. MaxID + 1
    /\ logs \in [IDs -> TaskLog \cup {Gone}] /\ logSeq \in 1 .. MaxID + 1
    /\ \A id \in IDs : (id >= taskSeq => tasks[id] = Gone) /\ (id >= logSeq => logs[id] = Gone)
    /\ asked \in [IDs -> Asked \cup {Gone}]
    /\ \A id \in IDs : tasks[id] # Gone => asked[id] # Gone
    /\ writes \in 0 .. MaxWrites
    /\ at \in {"idle", "list", "answered", "done"} /\ req \in Lists
    /\ page \in Nat /\ got \in 0 .. MaxID
    /\ owed \subseteq IDs /\ shown \subseteq IDs
    /\ repeats \in Nat /\ left \in Nat /\ came \in Nat

TaskRows == {id \in IDs : tasks[id] # Gone}
LogRows == {id \in IDs : logs[id] # Gone}

Init ==
    /\ tasks = [id \in IDs |-> IF id \in DOMAIN SeedTasks THEN SeedTasks[id] ELSE Gone]
    /\ taskSeq = Cardinality(DOMAIN SeedTasks) + 1
    /\ logs = [id \in IDs |-> IF id \in DOMAIN SeedLogs THEN SeedLogs[id] ELSE Gone]
    /\ logSeq = Cardinality(DOMAIN SeedLogs) + 1
    /\ asked = tasks
    /\ writes = 0
    /\ at = "idle" /\ req \in Lists /\ page = 1 /\ got = 0
    /\ owed = {} /\ shown = {} /\ repeats = 0 /\ left = 0 /\ came = 0

-----------------------------------------------------------------------------
(* The lists. *)

(* HasTasksWith: the log's task is still there. *)
HasTasksWith(log, id) == log.task = id /\ tasks[id] # Gone

(* A result of 0 is not filtered on; ResultEQ gets the rest as uint8. *)
ResultAdmits(q, log) == q.result \in {Nil, 0} \/ log.result = q.result % Width

GetTaskList(q) == {id \in TaskRows : tasks[id]["name"] \in q.names}
GetTaskLogList(q) == {id \in LogRows :
    /\ q.task # Nil => HasTasksWith(logs[id], q.task)
    /\ ResultAdmits(q, logs[id])}

Rows(q) == IF q.of = "tasks" THEN GetTaskList(q) ELSE GetTaskLogList(q)

(* ORDER BY id DESC *)
Position(id, R) == Cardinality({i \in R : i > id})

Page(R) == {id \in R : OnPage(Position(id, R), page, req.size)}

(* The walk's history when a write may change the rows that match. *)
Observe ==
    /\ writes < MaxWrites
    /\ writes' = writes + 1
    /\ UNCHANGED <<at, req, page, got, shown, repeats>>
    /\ owed' = owed \cap Rows(req)'
    /\ IF at \in {"list", "answered"}
       THEN /\ left' = left + Cardinality(Rows(req) \ Rows(req)')
            /\ came' = came + Cardinality(Rows(req)' \ Rows(req))
       ELSE UNCHANGED <<left, came>>

-----------------------------------------------------------------------------
(* The tasks. *)

(* pointy.GetStatusPointer: uint8 of what was given. *)
GetStatusPointer(n) == IF n = Nil THEN Nil ELSE n % Width
Stored(c, v) == IF c = "status" THEN GetStatusPointer(v) ELSE v

defaults(in) == [in EXCEPT !["status"] = IF @ = Nil THEN Normal ELSE @]

check_PayloadOptional(in) == \A c \in Columns \ {"payload"} : in[c] # Nil

(* Every column without a default has to be given. *)
check(in) == \A c \in Columns : in[c] # Nil

(* The unique index on pattern. *)
Free(pattern, id) == \A i \in TaskRows \ {id} : tasks[i]["pattern"] # pattern

CreateTask(in) ==
    /\ taskSeq \in IDs
    /\ check(defaults(in))
    /\ Free(in["pattern"], None)
    /\ tasks' = [tasks EXCEPT ![taskSeq] = [c \in Columns |-> Stored(c, defaults(in)[c])]]
    /\ asked' = [asked EXCEPT ![taskSeq] = defaults(in)]
    /\ taskSeq' = taskSeq + 1
    /\ UNCHANGED logVars
    /\ Observe

(* SetNotNilStatus to SetNotNilPayload: a field not given leaves the column. *)
SetNotNil(task, in) == [c \in Columns |-> IF in[c] = Nil THEN task[c] ELSE Stored(c, in[c])]

UpdateTask_Defaults(id, in) ==
    /\ tasks[id] # Gone
    /\ in["pattern"] # Nil => Free(in["pattern"], id)
    /\ tasks' = [tasks EXCEPT ![id] = SetNotNil(@, defaults(in))]
    /\ asked' = [asked EXCEPT ![id] =
           [c \in Columns |-> IF in[c] = Nil THEN @[c] ELSE in[c]]]
    /\ UNCHANGED <<taskSeq, logVars>>
    /\ Observe

(* UPDATE of the columns that are given, then the row is read again, in a  *)
(* transaction of its own.                                                 *)
UpdateTask(id, in) ==
    /\ tasks[id] # Gone
    /\ in["pattern"] # Nil => Free(in["pattern"], id)
    /\ tasks' = [tasks EXCEPT ![id] = SetNotNil(@, in)]
    /\ asked' = [asked EXCEPT ![id] =
           [c \in Columns |-> IF in[c] = Nil THEN @[c] ELSE in[c]]]
    /\ UNCHANGED <<taskSeq, logVars>>
    /\ Observe

(* The transaction's commit; a log that a handler writes between its two   *)
(* statements is one that it writes just after it here.                    *)
DeleteTask(ids) ==
    /\ tasks' = [id \in IDs |-> IF id \in ids THEN Gone ELSE tasks[id]]
    /\ logs' = [l \in IDs |->
           IF logs[l] # Gone /\ \E id \in ids : HasTasksWith(logs[l], id) THEN Gone ELSE logs[l]]
    /\ UNCHANGED <<taskSeq, asked, logSeq>>
    /\ Observe

-----------------------------------------------------------------------------
(* The logs. *)

InsertLog(log) ==
    /\ logSeq \in IDs
    /\ logs' = [logs EXCEPT ![logSeq] = log]
    /\ logSeq' = logSeq + 1
    /\ UNCHANGED taskVars
    /\ Observe

(* The RPC gives no task: nothing but DeleteTaskLog removes such a log. *)
CreateTaskLog(result) == InsertLog([task |-> None, result |-> GetStatusPointer(result)])

(* A handler writes the log of a run, for a task that may be gone. *)
WriteTaskLog(id, result) ==
    /\ id < taskSeq
    /\ InsertLog([task |-> id, result |-> result % Width])

UpdateTaskLog(l, result) ==
    /\ logs[l] # Gone
    /\ logs' = [logs EXCEPT ![l].result = GetStatusPointer(result)]
    /\ UNCHANGED <<taskVars, logSeq>>
    /\ Observe

DeleteTaskLog(ids) ==
    /\ logs' = [l \in IDs |-> IF l \in ids THEN Gone ELSE logs[l]]
    /\ UNCHANGED <<taskVars, logSeq>>
    /\ Observe

-----------------------------------------------------------------------------
(* The walk.  The total that comes with each page is the subject of        *)
(* RelayReaders, whose RPCs count in the same way.                         *)

Ask(q) ==
    /\ at \in {"idle", "done"}
    /\ at' = "list" /\ req' = q /\ page' = q.page /\ got' = 0
    /\ owed' = Rows(q)
    /\ shown' = {} /\ repeats' = 0 /\ left' = 0 /\ came' = 0
    /\ UNCHANGED <<taskVars, logVars, writes>>

ListPage ==
    /\ at = "list"
    /\ ~Refused(page, req.size)
    /\ LET rows == Page(Rows(req)) IN
         /\ got' = Cardinality(rows)
         /\ owed' = owed \ rows
         /\ shown' = shown \cup rows
         /\ repeats' = repeats + Cardinality(rows \cap shown)
    /\ at' = "answered"
    /\ UNCHANGED <<taskVars, logVars, writes, req, page, left, came>>

(* The page is refused, or the database fails. *)
ListFails ==
    /\ at = "list"
    /\ at' = "idle" /\ got' = 0
    /\ owed' = {} /\ shown' = {} /\ repeats' = 0 /\ left' = 0 /\ came' = 0
    /\ UNCHANGED <<taskVars, logVars, writes, req, page>>

(* The client goes on while pages are full; a page of size 0 has all rows. *)
NextPage ==
    /\ at = "answered"
    /\ req.size # 0 /\ got >= req.size
    /\ at' = "list" /\ page' = page + 1 /\ got' = 0
    /\ UNCHANGED <<taskVars, logVars, writes, req, owed, shown, repeats, left, came>>

Finish ==
    /\ at = "answered"
    /\ req.size = 0 \/ got < req.size
    /\ at' = "done" /\ got' = 0
    /\ UNCHANGED <<taskVars, logVars, writes, req, page, owed, shown, repeats, left, came>>

Next ==
    \/ \E in \in TaskInfos : CreateTask(in)
    \/ \E id \in IDs, in \in TaskInfos : UpdateTask(id, in)
    \/ \E id \in IDs : DeleteTask({id})
    \/ \E r \in Results : CreateTaskLog(r)
    \/ \E id \in IDs, r \in Results : WriteTaskLog(id, r)
    \/ \E l \in IDs, r \in Results : UpdateTaskLog(l, r)
    \/ \E l \in IDs : DeleteTaskLog({l})
    \/ \E q \in Lists : Ask(q)
    \/ ListPage
    \/ ListFails
    \/ NextPage
    \/ Finish

Spec == Init /\ [][Next]_vars

-----------------------------------------------------------------------------
(* Calls of several clients that each give some columns lose nothing of    *)
(* one another: every column has what the last call that gave it asked     *)
(* for, as far as its type holds it.                                       *)
ColumnsAsAsked ==
    \A id \in TaskRows : \A c \in Columns : tasks[id][c] = Stored(c, asked[id][c])

(* A walk that has come to its end has missed at most as many rows as left *)
(* the list while it went on: one departure moves one row onto a page that *)
(* the walk has passed, and arrivals, which are newest, never do.          *)
SkipsOnlyForDepartures ==
    at = "done" /\ req.page = 1 => Cardinality(owed) <= left

(* And it has shown at most as many rows twice as joined the list. *)
RepeatsOnlyForArrivals == at # "idle" /\ req.page = 1 => repeats <= came

(* A task runs only if its status was asked to be the normal one.  It does *)
(* not hold: 257 is stored as 1.                                           *)
RunsWhenAsked ==
    \A id \in TaskRows : tasks[id]["status"] = Normal => asked[id]["status"] = Normal

(* A list filtered by result shows logs with that result.  It does not     *)
(* hold: a filter on 0 is none, and one on 256 asks for 0.                 *)
FiltersByResult ==
    at = "answered" /\ req.of = "logs" /\ req.result # Nil =>
        \A l \in Page(Rows(req)) : logs[l].result = req.result
=============================================================================
