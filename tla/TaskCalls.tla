----------------------------- MODULE TaskCalls -----------------------------
(***************************************************************************)
(* The calls of the task RPCs, from the client's stub through the server's *)
(* interceptors, JobServer, the logic and its statements to the code of    *)
(* the answer, with deadlines, lost answers, failing statements and the    *)
(* loss of the process.  Which log belongs to which task is TaskLedger's;  *)
(* which column is written, TaskRecords'.                                  *)
(*                                                                         *)
(* A statement is one step.  When a call's deadline has passed its client  *)
(* has an answer; the handler goes on, but each statement gets the         *)
(* context's error.  The database may execute a statement and the error    *)
(* be reported all the same (Unanswered).                                  *)
(***************************************************************************)
EXTENDS Integers

CONSTANTS
    Calls,      \* the calls that clients make, by number; a repeat is another
    Requests,   \* what they may ask
    Hello,      \* pattern.RecordHelloWorld
    Relay,      \* pattern.RelayChains
    Other,      \* any other pattern
    MaxTaskID,  \* bounds the task ids handed out
    MaxFirst,   \* bounds those that were used before
    Nothing     \* no task, request, outcome, answer, value or pattern

AllPatterns == {Hello, Relay, Other}
Seeds == {Hello, Relay}
TaskIDs == 1 .. MaxTaskID

VARIABLES
    patterns,   \* the pattern of each row of sys_tasks
    nextID,     \* the next value of the id sequence
    message,    \* the message of each call
    pc,         \* where the call is
    locks,      \* the rows that its transaction has locked
    seeds,      \* history: the tasks that it has inserted as InitDatabase
    outcome,    \* the error and value its logic returns
    answer,     \* the code and value its client has
    late        \* history: what it changed after its client had an answer

rows == <<patterns, nextID>>
callVars == <<rows, message, pc, locks, seeds, outcome, answer, late>>

TaskInfo == [op : {"create"}, pattern : AllPatterns \cup {Nothing}] \cup
            [op : {"update"}, id : TaskIDs \cup {Nothing}, pattern : AllPatterns \cup {Nothing}]
Request == TaskInfo \cup [op : {"get"}, id : TaskIDs] \cup
           [op : {"delete"}, ids : SUBSET TaskIDs] \cup [op : {"init"}]

Statements == {"save", "begin", "logs", "tasks", "commit", "count", "hello", "relay"}
EntErrors == {"nil", "notfound", "constraint", "validation", "other"}
Codes == {"Success", "TargetNotFound", "ConstraintError", "ValidationError", "AlreadyInit",
          "DatabaseError", "Unknown", "DeadlineExceeded", "Unavailable"}
Pair(err, value) == [err |-> err, value |-> value]
Outcomes ==
    [err : EntErrors \cup {"already", "raw"}, value : TaskIDs \cup AllPatterns \cup {Nothing}]
Answers == [err : Codes, value : TaskIDs \cup AllPatterns \cup {Nothing}]

(* What the constants are. *)
ASSUME CallsAssumption ==
    /\ Calls \subseteq Nat /\ MaxTaskID \in Nat /\ MaxFirst \in 0 .. MaxTaskID
    /\ Requests \subseteq Request
    /\ Nothing \notin AllPatterns \cup TaskIDs \cup Request \cup Outcomes \cup Answers
    /\ Hello # Relay /\ Hello # Other /\ Relay # Other

CallsTypeOK ==
    /\ patterns \in [TaskIDs -> AllPatterns \cup {Nothing}]
    /\ nextID \in 1 .. MaxTaskID + 1
    /\ message \in [Calls -> Requests \cup {Nothing}]
    /\ pc \in [Calls -> Statements \cup {"idle", "sent", "reply", "over"}]
    /\ locks \in [Calls -> SUBSET TaskIDs]
    /\ seeds \in [Calls -> SUBSET Seeds]
    /\ outcome \in [Calls -> Outcomes \cup {Nothing}]
    /\ answer \in [Calls -> Answers \cup {Nothing}]
    /\ late \in [Calls -> Nat]
    /\ \A k \in Calls :
         /\ pc[k] = "idle" <=> message[k] = Nothing
         /\ pc[k] \in {"reply", "over"} <=> outcome[k] # Nothing
         /\ pc[k] = "over" => answer[k] # Nothing
         /\ locks[k] # {} => pc[k] = "commit"

Exists(id) == patterns[id] # Nothing
Holders(p) == {id \in TaskIDs : patterns[id] = p}

(* Rows that were written and deleted before, under the unique index.      *)
CallsInit ==
    /\ nextID \in 1 .. MaxFirst + 1
    /\ patterns \in [TaskIDs -> AllPatterns \cup {Nothing}]
    /\ \A id \in TaskIDs : Exists(id) => id < nextID /\ Holders(patterns[id]) = {id}
    /\ message = [k \in Calls |-> Nothing]
    /\ pc = [k \in Calls |-> "idle"]
    /\ locks = [k \in Calls |-> {}]
    /\ seeds = [k \in Calls |-> {}]
    /\ outcome = [k \in Calls |-> Nothing]
    /\ answer = [k \in Calls |-> Nothing]
    /\ late = [k \in Calls |-> 0]

-----------------------------------------------------------------------------
(* A client names ids of which it was told; the stub sends the message.    *)
(* Calls are numbered in the order in which they are made.                 *)
Invoke(k, r) ==
    /\ message[k] = Nothing /\ \A j \in Calls : j < k => message[j] # Nothing
    /\ r.op = "delete" => \A id \in r.ids : id < nextID
    /\ message' = [message EXCEPT ![k] = r]
    /\ pc' = [pc EXCEPT ![k] = "sent"]
    /\ UNCHANGED <<rows, locks, seeds, outcome, answer, late>>

Returns(k, err, value) ==
    /\ outcome' = [outcome EXCEPT ![k] = Pair(err, value)]
    /\ pc' = [pc EXCEPT ![k] = "reply"]

First == [create |-> "save", update |-> "save", get |-> "save", delete |-> "begin", init |-> "count"]

(* The message arrives and JobServer calls the logic of its kind.  Without *)
(* an id, UpdateTask dereferences nil; the server recovers.                *)
Dispatch(k) ==
    /\ pc[k] = "sent"
    /\ IF message[k].op = "update" /\ message[k].id = Nothing
       THEN Returns(k, "raw", Nothing)
       ELSE pc' = [pc EXCEPT ![k] = First[message[k].op]] /\ UNCHANGED outcome
    /\ UNCHANGED <<rows, message, locks, seeds, answer, late>>

Alive_Always(k) == answer[k] = answer[k]
(* The context of the call, which every statement is given. *)
Alive(k) == answer[k] = Nothing

At(k, where, op) == pc[k] = where /\ message[k].op = op

LockedByOther(k, ids) == \E j \in Calls \ {k} : locks[j] \cap ids # {}

(* An INSERT waits for the transaction that deletes the pattern's holder.  *)
Insert(k, p) ==
    /\ Holders(p) = {}
    /\ nextID \in TaskIDs
    /\ patterns' = [patterns EXCEPT ![nextID] = p]
    /\ nextID' = nextID + 1

Changes(k) == late' = [late EXCEPT ![k] = IF answer[k] = Nothing THEN @ ELSE @ + 1]

CreateTaskLogic(k) ==
    /\ At(k, "save", "create") /\ Alive(k)
    /\ LET p == message[k].pattern IN
       \/ p = Nothing /\ Returns(k, "validation", Nothing) /\ UNCHANGED <<rows, late>>
       \/ /\ p # Nothing /\ Insert(k, p)
          /\ Returns(k, "nil", nextID)
          /\ Changes(k)
       \/ /\ p # Nothing /\ Holders(p) # {} /\ ~LockedByOther(k, Holders(p))
          /\ Returns(k, "constraint", Nothing)
          /\ UNCHANGED <<rows, late>>
    /\ UNCHANGED <<message, locks, seeds, answer>>

(* UPDATE ... WHERE id, of which pattern may be a column. *)
Replace(k, id, p) ==
    /\ Exists(id)
    /\ p # Nothing => Holders(p) \subseteq {id}
    /\ patterns' = [patterns EXCEPT ![id] = IF p = Nothing THEN @ ELSE p]
    /\ UNCHANGED nextID

UpdateTaskLogic(k) ==
    /\ At(k, "save", "update") /\ Alive(k)
    /\ LET id == message[k].id
           p == message[k].pattern
       IN
       /\ ~LockedByOther(k, {id})
       /\ \/ ~Exists(id) /\ Returns(k, "notfound", Nothing) /\ UNCHANGED <<rows, late>>
          \/ Replace(k, id, p) /\ Returns(k, "nil", Nothing) /\ Changes(k)
          \/ /\ Exists(id) /\ p # Nothing
             /\ Holders(p) \ {id} # {} /\ ~LockedByOther(k, Holders(p))
             /\ Returns(k, "constraint", Nothing)
             /\ UNCHANGED <<rows, late>>
    /\ UNCHANGED <<message, locks, seeds, answer>>

GetTaskById(k) ==
    /\ At(k, "save", "get") /\ Alive(k)
    /\ IF Exists(message[k].id) THEN Returns(k, "nil", patterns[message[k].id])
       ELSE Returns(k, "notfound", Nothing)
    /\ UNCHANGED <<rows, message, locks, seeds, answer, late>>

(* DeleteTask: a transaction begins, deletes logs, locks the tasks that it *)
(* deletes, and commits.                                                   *)
BeginTx(k) ==
    /\ pc[k] = "begin" /\ Alive(k)
    /\ pc' = [pc EXCEPT ![k] = "logs"]
    /\ UNCHANGED <<rows, message, locks, seeds, outcome, answer, late>>

DeleteLogs(k) ==
    /\ pc[k] = "logs" /\ Alive(k)
    /\ pc' = [pc EXCEPT ![k] = "tasks"]
    /\ UNCHANGED <<rows, message, locks, seeds, outcome, answer, late>>

DeleteTasks(k) ==
    /\ pc[k] = "tasks" /\ Alive(k)
    /\ ~LockedByOther(k, message[k].ids)
    /\ locks' = [locks EXCEPT ![k] = {id \in message[k].ids : Exists(id)}]
    /\ pc' = [pc EXCEPT ![k] = "commit"]
    /\ UNCHANGED <<rows, message, seeds, outcome, answer, late>>

Removed(k) == patterns' = [id \in TaskIDs |-> IF id \in locks[k] THEN Nothing ELSE patterns[id]]

CommitTx(k) ==
    /\ pc[k] = "commit" /\ Alive(k)
    /\ Removed(k)
    /\ locks' = [locks EXCEPT ![k] = {}]
    /\ Returns(k, "nil", Nothing)
    /\ Changes(k)
    /\ UNCHANGED <<nextID, message, seeds, answer>>

(* InitDatabase: the tables are there already, or are made; a count, and   *)
(* two inserts that commit on their own and whose errors are not mapped.   *)
CountTasks(k) ==
    /\ pc[k] = "count" /\ Alive(k)
    /\ IF \E id \in TaskIDs : Exists(id) THEN Returns(k, "already", Nothing)
       ELSE pc' = [pc EXCEPT ![k] = "hello"] /\ UNCHANGED outcome
    /\ UNCHANGED <<rows, message, locks, seeds, answer, late>>

Seed(k, p) == Insert(k, p) /\ seeds' = [seeds EXCEPT ![k] = @ \cup {p}] /\ Changes(k)

InsertHelloTask(k) ==
    /\ pc[k] = "hello" /\ Alive(k)
    /\ \/ Seed(k, Hello) /\ pc' = [pc EXCEPT ![k] = "relay"] /\ UNCHANGED outcome
       \/ /\ Holders(Hello) # {} /\ ~LockedByOther(k, Holders(Hello))
          /\ Returns(k, "raw", Nothing)
          /\ UNCHANGED <<rows, seeds, late>>
    /\ UNCHANGED <<message, locks, answer>>

InsertRelayTask(k) ==
    /\ pc[k] = "relay" /\ Alive(k)
    /\ \/ Seed(k, Relay) /\ Returns(k, "nil", Nothing)
       \/ /\ Holders(Relay) # {} /\ ~LockedByOther(k, Holders(Relay))
          /\ Returns(k, "raw", Nothing)
          /\ UNCHANGED <<rows, seeds, late>>
    /\ UNCHANGED <<message, locks, answer>>

-----------------------------------------------------------------------------
(* What the logic makes of it: the inserts of InitDatabase, and making the *)
(* tables, report it as it is.                                             *)
Failures(k) == CASE pc[k] \in {"hello", "relay"} -> {"raw"}
                 [] pc[k] = "count" -> {"other", "raw"}
                 [] OTHER -> {"other"}

Rollback_Forgotten(k) == UNCHANGED locks
(* WithTx rolls back, and so does the driver when the context is done. *)
Rollback(k) == locks' = [locks EXCEPT ![k] = {}]

(* A statement fails. *)
Fails(k) ==
    /\ pc[k] \in Statements
    /\ \E e \in Failures(k) : Returns(k, e, Nothing)
    /\ Rollback(k)
    /\ UNCHANGED <<rows, message, seeds, answer, late>>

(* The deadline has passed before a statement, which fails for that.       *)
Cancelled(k) == ~Alive(k) /\ Fails(k)

(* A statement is executed, and the error of the connection or of the      *)
(* context is what the logic gets.                                         *)
Unanswered(k) ==
    /\ \/ /\ At(k, "save", "create") /\ message[k].pattern # Nothing
          /\ Insert(k, message[k].pattern)
          /\ UNCHANGED seeds
       \/ /\ At(k, "save", "update") /\ ~LockedByOther(k, {message[k].id})
          /\ Replace(k, message[k].id, message[k].pattern)
          /\ UNCHANGED seeds
       \/ pc[k] = "commit" /\ Removed(k) /\ UNCHANGED <<nextID, seeds>>
       \/ pc[k] = "hello" /\ Insert(k, Hello) /\ seeds' = [seeds EXCEPT ![k] = {Hello}]
       \/ pc[k] = "relay" /\ Insert(k, Relay) /\ seeds' = [seeds EXCEPT ![k] = Seeds]
    /\ locks' = [locks EXCEPT ![k] = {}]
    /\ \E e \in Failures(k) : Returns(k, e, Nothing)
    /\ Changes(k)
    /\ UNCHANGED <<message, answer>>

(* Anything that is neither a missing row nor a missing field. *)
DefaultEntError_Constraint(err) ==
    CASE err = "nil" -> "Success"
      [] err = "notfound" -> "TargetNotFound"
      [] err = "validation" -> "ValidationError"
      [] OTHER -> "ConstraintError"

(* Ids are unique, so that no error is NotSingular. *)
DefaultEntError(err) ==
    CASE err = "nil" -> "Success"
      [] err = "notfound" -> "TargetNotFound"
      [] err = "constraint" -> "ConstraintError"
      [] err = "validation" -> "ValidationError"
      [] OTHER -> "DatabaseError"

(* "Unknown" stands for the codes of errors that no rule maps. *)
Code(err) == CASE err = "already" -> "AlreadyInit"
               [] err = "raw" -> "Unknown"
               [] OTHER -> DefaultEntError(err)

(* The logic returns; the answer reaches a client that still waits. *)
Respond(k) ==
    /\ pc[k] = "reply"
    /\ pc' = [pc EXCEPT ![k] = "over"]
    /\ answer' = [answer EXCEPT ![k] =
           IF @ = Nothing THEN Pair(Code(outcome[k].err), outcome[k].value) ELSE @]
    /\ UNCHANGED <<rows, message, locks, seeds, outcome, late>>

(* The deadline passes, in the server's interceptor or at the client. *)
Expire(k) ==
    /\ pc[k] \notin {"idle", "over"}
    /\ answer[k] = Nothing
    /\ answer' = [answer EXCEPT ![k] = Pair("DeadlineExceeded", Nothing)]
    /\ UNCHANGED <<rows, message, pc, locks, seeds, outcome, late>>

(* The process is lost with the calls and transactions in it. *)
Crash ==
    LET lost == {k \in Calls : pc[k] \notin {"idle", "over"}} IN
    /\ lost # {}
    /\ pc' = [k \in Calls |-> IF k \in lost THEN "over" ELSE pc[k]]
    /\ locks' = [k \in Calls |-> {}]
    /\ outcome' = [k \in Calls |->
           IF k \in lost /\ outcome[k] = Nothing THEN Pair("other", Nothing) ELSE outcome[k]]
    /\ answer' = [k \in Calls |->
           IF k \in lost /\ answer[k] = Nothing THEN Pair("Unavailable", Nothing) ELSE answer[k]]
    /\ UNCHANGED <<rows, message, seeds, late>>

Logic(k) ==
    \/ CreateTaskLogic(k) \/ UpdateTaskLogic(k) \/ GetTaskById(k)
    \/ BeginTx(k) \/ DeleteLogs(k) \/ DeleteTasks(k) \/ CommitTx(k)
    \/ CountTasks(k) \/ InsertHelloTask(k) \/ InsertRelayTask(k)

CallsNext ==
    \/ \E k \in Calls : \/ \E r \in Requests : Invoke(k, r)
                        \/ Dispatch(k) \/ Logic(k) \/ Respond(k)
                        \/ Fails(k) \/ Unanswered(k) \/ Expire(k)
    \/ Crash

CallsSpec == CallsInit /\ [][CallsNext]_callVars

(* The server's goroutines run, and the database serves those who wait for *)
(* a row in turn.  Nothing has to expire, to fail or to be lost.           *)
Progress(k) == Dispatch(k) \/ Logic(k) \/ Cancelled(k) \/ Respond(k)
Fairness == \A k \in Calls : WF_callVars(Progress(k))
CallsFairSpec == CallsSpec /\ Fairness

-----------------------------------------------------------------------------
(* The calls implement TaskService: an effect at one moment, true answers, *)
(* and refusals that mean nothing was done.                                *)
Service == INSTANCE TaskService WITH
    Patterns <- AllPatterns, MaxID <- MaxTaskID, None <- Nothing,
    tasks <- patterns, req <- message
ServiceSpec == Service!Spec

(* Once its client has an answer a call changes the tables at most once    *)
(* more, by the statement that was under way: its context ends the rest,   *)
(* so that a repeat does not meet a handler that is still at work.         *)
AtMostOneLateChange ==
    \A k \in Calls : late[k] > 0 => late[k] = 1 /\ answer[k].err = "DeadlineExceeded"

(* Every call ends, and its client hears of it, without a deadline: no     *)
(* transaction that failed keeps the rows for which the others wait.       *)
EveryCallEnds == \A k \in Calls : (pc[k] = "sent") ~> (pc[k] = "over")
=============================================================================
