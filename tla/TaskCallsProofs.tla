--------------------------- MODULE TaskCallsProofs ---------------------------
(***************************************************************************)
(* Theorems about the task RPCs, for any number of calls, ids and          *)
(* requests.                                                               *)
(*                                                                         *)
(* The invariant says what one call is about (CallInv), that no id is used *)
(* or named before the sequence has handed it out (Behind), and whose rows *)
(* a waiting DELETE holds (Locked).  With it each step of a call is the    *)
(* one moment of TaskService, a clear answer there, or nothing there.      *)
(***************************************************************************)
EXTENDS TaskCalls, TLAPS

USE DEF rows, callVars

(* A call that is at a statement is of the kind whose statement it is.     *)
Kind(k) ==
    /\ pc[k] = "save" => /\ message[k].op \in {"create", "update", "get"}
                         /\ message[k].op = "update" => message[k].id # Nothing
    /\ pc[k] \in {"begin", "logs", "tasks", "commit"} => message[k].op = "delete"
    /\ pc[k] \in {"count", "hello", "relay"} => message[k].op = "init"

(* What InitDatabase has inserted before a statement of its.               *)
Seeded(k) ==
    /\ pc[k] \in {"idle", "sent", "count", "hello"} => seeds[k] = {}
    /\ pc[k] = "relay" => seeds[k] = {Hello}

(* An error has no value.                                                  *)
Blank(k) == outcome[k] # Nothing /\ outcome[k].err # "nil" => outcome[k].value = Nothing

(* Only a call that is under way is given up, and a statement that is then *)
(* executed is its last.                                                   *)
Late(k) ==
    /\ answer[k] # Nothing /\ pc[k] # "over" => answer[k].err = "DeadlineExceeded"
    /\ late[k] \in {0, 1}
    /\ late[k] = 1 => /\ pc[k] \in {"reply", "over"} /\ answer[k] # Nothing
                      /\ answer[k].err = "DeadlineExceeded"

CallInv(k) == Kind(k) /\ Seeded(k) /\ Blank(k) /\ Late(k)

(* Ids come from a sequence, and clients name those they were told.        *)
Behind ==
    /\ \A id \in TaskIDs : Exists(id) => id < nextID
    /\ \A k \in Calls : message[k] # Nothing /\ message[k].op = "delete" =>
           \A id \in message[k].ids : id < nextID

(* A DELETE that waits for its commit has locked all that is there of what *)
(* it names, and nobody else has.                                          *)
Locked ==
    \A k \in Calls :
        /\ pc[k] = "commit" => locks[k] = {id \in message[k].ids : Exists(id)}
        /\ \A j \in Calls : j # k => locks[j] \cap locks[k] = {}

Inv == CallsTypeOK /\ (\A k \in Calls : CallInv(k)) /\ Behind /\ Locked

-----------------------------------------------------------------------------
(* Types. *)

Values == TaskIDs \cup AllPatterns \cup {Nothing}
Errs == EntErrors \cup {"already", "raw"}

LEMMA RequestTypes ==
  ASSUME NEW r \in Requests
  PROVE  /\ r # Nothing
         /\ r.op \in {"create", "update", "get", "delete", "init"}
         /\ r.op = "create" => r.pattern \in AllPatterns \cup {Nothing}
         /\ r.op = "update" => /\ r.id \in TaskIDs \cup {Nothing}
                               /\ r.pattern \in AllPatterns \cup {Nothing}
         /\ r.op = "get" => r.id \in TaskIDs
         /\ r.op = "delete" => r.ids \subseteq TaskIDs
  BY CallsAssumption DEF Request, TaskInfo

LEMMA PairTypes ==
  ASSUME NEW v \in Values
  PROVE  /\ \A e \in Errs : Pair(e, v) \in Outcomes /\ Pair(e, v) # Nothing
         /\ \A c \in Codes : Pair(c, v) \in Answers /\ Pair(c, v) # Nothing
  BY CallsAssumption DEF Pair, Values, Errs, Outcomes, Answers

(* What a call is asked is not None once it has been made.                 *)
LEMMA Asked ==
  ASSUME CallsTypeOK, NEW k \in Calls, pc[k] # "idle"
  PROVE  message[k] \in Requests
  BY DEF CallsTypeOK

(* The clauses of CallsTypeOK that relate the variables of one call.       *)
Coherent(k) ==
    /\ pc[k] = "idle" <=> message[k] = Nothing
    /\ pc[k] \in {"reply", "over"} <=> outcome[k] # Nothing
    /\ pc[k] = "over" => answer[k] # Nothing
    /\ locks[k] # {} => pc[k] = "commit"

LEMMA ReturnsType ==
  ASSUME CallsTypeOK, NEW k \in Calls, NEW e \in Errs, NEW v \in Values,
         Returns(k, e, v)
  PROVE  /\ pc' \in [Calls -> Statements \cup {"idle", "sent", "reply", "over"}]
         /\ outcome' \in [Calls -> Outcomes \cup {Nothing}]
         /\ pc'[k] = "reply" /\ outcome'[k] = Pair(e, v) /\ outcome'[k] # Nothing
         /\ \A j \in Calls \ {k} : pc'[j] = pc[j] /\ outcome'[j] = outcome[j]
  BY PairTypes DEF Returns, CallsTypeOK

LEMMA InsertType ==
  ASSUME CallsTypeOK, NEW k \in Calls, NEW p \in AllPatterns, Insert(k, p)
  PROVE  /\ patterns' \in [TaskIDs -> AllPatterns \cup {Nothing}]
         /\ nextID' \in 1 .. MaxTaskID + 1
         /\ nextID \in TaskIDs /\ nextID' = nextID + 1
         /\ patterns'[nextID] = p /\ p # Nothing
         /\ \A id \in TaskIDs \ {nextID} : patterns'[id] = patterns[id]
  BY CallsAssumption DEF Insert, CallsTypeOK, TaskIDs

LEMMA ReplaceType ==
  ASSUME CallsTypeOK, NEW k \in Calls, NEW id \in TaskIDs,
         NEW p \in AllPatterns \cup {Nothing}, Replace(k, id, p)
  PROVE  /\ patterns' \in [TaskIDs -> AllPatterns \cup {Nothing}] /\ UNCHANGED nextID
         /\ patterns'[id] = IF p = Nothing THEN patterns[id] ELSE p
         /\ \A i \in TaskIDs \ {id} : patterns'[i] = patterns[i]
         /\ \A i \in TaskIDs : Exists(i)' <=> Exists(i)
  BY CallsAssumption DEF Replace, CallsTypeOK, Exists

LEMMA RemovedType ==
  ASSUME CallsTypeOK, NEW k \in Calls, Removed(k)
  PROVE  /\ patterns' \in [TaskIDs -> AllPatterns \cup {Nothing}]
         /\ \A i \in TaskIDs : Exists(i)' <=> Exists(i) /\ i \notin locks[k]
  BY CallsAssumption DEF Removed, CallsTypeOK, Exists

LEMMA ChangesType ==
  ASSUME CallsTypeOK, NEW k \in Calls, Changes(k)
  PROVE  /\ late' \in [Calls -> Nat]
         /\ answer[k] = Nothing => late' = late
         /\ answer[k] # Nothing => late'[k] = late[k] + 1
         /\ \A j \in Calls \ {k} : late'[j] = late[j]
<1>1. answer[k] = Nothing => late' = late
  BY DEF Changes, CallsTypeOK
<1> QED
  BY <1>1 DEF Changes, CallsTypeOK

LEMMA InitInv == CallsInit => Inv
<1> SUFFICES ASSUME CallsInit PROVE Inv
  OBVIOUS
<1> USE DEF CallsInit
<1>1. CallsTypeOK
  <2>1. nextID \in 1 .. MaxTaskID + 1
    BY CallsAssumption
  <2>2. locks \in [Calls -> SUBSET TaskIDs] /\ seeds \in [Calls -> SUBSET Seeds]
    OBVIOUS
  <2> QED
    BY <2>1, <2>2 DEF CallsTypeOK, Statements
<1>2. ASSUME NEW k \in Calls PROVE CallInv(k)
  <2>1. /\ pc[k] = "idle" /\ seeds[k] = {} /\ outcome[k] = Nothing /\ answer[k] = Nothing
        /\ late[k] = 0
    OBVIOUS
  <2> QED
    BY <2>1 DEF CallInv, Kind, Seeded, Blank, Late
<1>3. Behind /\ Locked
  BY DEF Behind, Locked
<1> QED
  BY <1>1, <1>2, <1>3 DEF Inv

(* A call returns, and has no locks then. *)
LEMMA ReturningStep ==
  ASSUME CallsTypeOK, NEW k \in Calls, NEW e \in Errs, NEW v \in Values,
         Returns(k, e, v), pc[k] # "idle",
         patterns' \in [TaskIDs -> AllPatterns \cup {Nothing}], nextID' \in 1 .. MaxTaskID + 1,
         seeds' \in [Calls -> SUBSET Seeds], late' \in [Calls -> Nat],
         locks' \in [Calls -> SUBSET TaskIDs], locks'[k] = {},
         \A j \in Calls \ {k} : locks'[j] = locks[j],
         UNCHANGED <<message, answer>>
  PROVE  CallsTypeOK'
<1>1. /\ pc' \in [Calls -> Statements \cup {"idle", "sent", "reply", "over"}]
      /\ outcome' \in [Calls -> Outcomes \cup {Nothing}]
      /\ pc'[k] = "reply" /\ outcome'[k] # Nothing
      /\ \A j \in Calls \ {k} : pc'[j] = pc[j] /\ outcome'[j] = outcome[j]
  BY ReturnsType
<1> QED
  BY <1>1 DEF CallsTypeOK

(* A call goes on to its next statement. *)
LEMMA GoingStep ==
  ASSUME CallsTypeOK, NEW k \in Calls, NEW s \in Statements,
         pc[k] \in Statements \cup {"sent"}, pc' = [pc EXCEPT ![k] = s],
         patterns' \in [TaskIDs -> AllPatterns \cup {Nothing}], nextID' \in 1 .. MaxTaskID + 1,
         seeds' \in [Calls -> SUBSET Seeds], late' \in [Calls -> Nat],
         locks' \in [Calls -> SUBSET TaskIDs], locks'[k] = {} \/ s = "commit",
         \A j \in Calls \ {k} : locks'[j] = locks[j],
         UNCHANGED <<message, outcome, answer>>
  PROVE  CallsTypeOK'
<1>1. /\ pc' \in [Calls -> Statements \cup {"idle", "sent", "reply", "over"}]
      /\ pc'[k] = s /\ \A j \in Calls \ {k} : pc'[j] = pc[j]
  BY DEF CallsTypeOK
<1>2. s \notin {"idle", "sent", "reply", "over"} /\ pc[k] \notin {"idle", "reply", "over"}
  BY DEF Statements
<1> QED
  BY <1>1, <1>2 DEF CallsTypeOK

LEMMA NoLocks ==
  ASSUME CallsTypeOK, NEW k \in Calls, pc[k] # "commit"
  PROVE  locks[k] = {}
  BY DEF CallsTypeOK

(* What Returns is told by the logic. *)
LEMMA ValueTypes ==
  ASSUME CallsTypeOK
  PROVE  /\ Nothing \in Values /\ TaskIDs \subseteq Values
         /\ \A id \in TaskIDs : patterns[id] \in Values
         /\ {"nil", "notfound", "constraint", "validation", "other", "already", "raw"} = Errs
         /\ \A k \in Calls : Failures(k) \subseteq Errs
  BY DEF Values, Errs, EntErrors, CallsTypeOK, Failures

LEMMA StepType ==
  CallsTypeOK /\ (\A k \in Calls : Kind(k)) /\ [CallsNext]_callVars
      => CallsTypeOK'
<1> SUFFICES ASSUME CallsTypeOK, \A k \in Calls : Kind(k), [CallsNext]_callVars
             PROVE  CallsTypeOK'
  OBVIOUS
<1> USE ValueTypes
<1>0. /\ patterns \in [TaskIDs -> AllPatterns \cup {Nothing}] /\ nextID \in 1 .. MaxTaskID + 1
      /\ seeds \in [Calls -> SUBSET Seeds] /\ late \in [Calls -> Nat]
      /\ locks \in [Calls -> SUBSET TaskIDs]
  BY DEF CallsTypeOK
<1>1. CASE UNCHANGED callVars
  BY <1>1 DEF CallsTypeOK
<1>2. ASSUME NEW k \in Calls, NEW r \in Requests, Invoke(k, r) PROVE CallsTypeOK'
  <2>1. pc[k] = "idle" /\ r # Nothing
    BY <1>2, RequestTypes DEF Invoke, CallsTypeOK
  <2> QED
    BY <1>2, <2>1 DEF Invoke, CallsTypeOK
<1>3. ASSUME NEW k \in Calls, Dispatch(k) PROVE CallsTypeOK'
  <2>1. locks[k] = {} /\ message[k] \in Requests /\ pc[k] = "sent"
    BY <1>3, NoLocks, Asked DEF Dispatch
  <2>2. CASE Returns(k, "raw", Nothing)
    BY <1>0, <1>3, <2>1, <2>2, ReturningStep DEF Dispatch
  <2>3. CASE pc' = [pc EXCEPT ![k] = First[message[k].op]] /\ UNCHANGED outcome
    <3>1. First[message[k].op] \in Statements
      BY <2>1, RequestTypes DEF First, Statements
    <3> QED
      BY <1>0, <1>3, <2>1, <2>3, <3>1, GoingStep DEF Dispatch
  <2> QED
    BY <1>3, <2>2, <2>3 DEF Dispatch
<1>4. ASSUME NEW k \in Calls, CreateTaskLogic(k) PROVE CallsTypeOK'
  <2>1. locks[k] = {} /\ message[k] \in Requests /\ pc[k] = "save" /\ message[k].op = "create"
    BY <1>4, NoLocks, Asked DEF CreateTaskLogic, At
  <2>2. message[k].pattern \in AllPatterns \cup {Nothing}
    BY <2>1, RequestTypes
  <2>3. CASE Returns(k, "validation", Nothing) /\ UNCHANGED <<rows, late>>
    BY <1>0, <1>4, <2>1, <2>3, ReturningStep DEF CreateTaskLogic
  <2>4. CASE /\ message[k].pattern # Nothing /\ Insert(k, message[k].pattern)
             /\ Returns(k, "nil", nextID) /\ Changes(k)
    <3>1. /\ patterns' \in [TaskIDs -> AllPatterns \cup {Nothing}]
          /\ nextID' \in 1 .. MaxTaskID + 1
          /\ nextID \in TaskIDs
      BY <2>2, <2>4, InsertType
    <3>2. late' \in [Calls -> Nat]
      BY <2>4, ChangesType
    <3> QED
      BY <1>0, <1>4, <2>1, <2>4, <3>1, <3>2, ReturningStep DEF CreateTaskLogic
  <2>5. CASE Returns(k, "constraint", Nothing) /\ UNCHANGED <<rows, late>>
    BY <1>0, <1>4, <2>1, <2>5, ReturningStep DEF CreateTaskLogic
  <2> QED
    BY <1>4, <2>3, <2>4, <2>5 DEF CreateTaskLogic
<1>5. ASSUME NEW k \in Calls, UpdateTaskLogic(k) PROVE CallsTypeOK'
  <2>1. locks[k] = {} /\ message[k] \in Requests /\ pc[k] = "save" /\ message[k].op = "update"
    BY <1>5, NoLocks, Asked DEF UpdateTaskLogic, At
  <2>2. message[k].id \in TaskIDs /\ message[k].pattern \in AllPatterns \cup {Nothing}
    BY <2>1, RequestTypes DEF Kind
  <2>3. CASE Returns(k, "notfound", Nothing) /\ UNCHANGED <<rows, late>>
    BY <1>0, <1>5, <2>1, <2>3, ReturningStep DEF UpdateTaskLogic
  <2>4. CASE /\ Replace(k, message[k].id, message[k].pattern)
             /\ Returns(k, "nil", Nothing) /\ Changes(k)
    <3>1. patterns' \in [TaskIDs -> AllPatterns \cup {Nothing}] /\ UNCHANGED nextID
      BY <2>2, <2>4, ReplaceType
    <3>2. late' \in [Calls -> Nat]
      BY <2>4, ChangesType
    <3> QED
      BY <1>0, <1>5, <2>1, <2>4, <3>1, <3>2, ReturningStep DEF UpdateTaskLogic
  <2>5. CASE Returns(k, "constraint", Nothing) /\ UNCHANGED <<rows, late>>
    BY <1>0, <1>5, <2>1, <2>5, ReturningStep DEF UpdateTaskLogic
  <2> QED
    BY <1>5, <2>3, <2>4, <2>5 DEF UpdateTaskLogic
<1>6. ASSUME NEW k \in Calls, GetTaskById(k) PROVE CallsTypeOK'
  <2>1. locks[k] = {} /\ message[k] \in Requests /\ pc[k] = "save" /\ message[k].op = "get"
    BY <1>6, NoLocks, Asked DEF GetTaskById, At
  <2>2. message[k].id \in TaskIDs
    BY <2>1, RequestTypes
  <2>3. CASE Returns(k, "nil", patterns[message[k].id])
    BY <1>0, <1>6, <2>1, <2>2, <2>3, ReturningStep DEF GetTaskById
  <2>4. CASE Returns(k, "notfound", Nothing)
    BY <1>0, <1>6, <2>1, <2>4, ReturningStep DEF GetTaskById
  <2> QED
    BY <1>6, <2>3, <2>4 DEF GetTaskById
<1>7. ASSUME NEW k \in Calls, BeginTx(k) \/ DeleteLogs(k) PROVE CallsTypeOK'
  <2>1. locks[k] = {}
    BY <1>7, NoLocks DEF BeginTx, DeleteLogs
  <2>2. CASE BeginTx(k)
    BY <1>0, <2>1, <2>2, GoingStep DEF BeginTx, Statements
  <2>3. CASE DeleteLogs(k)
    BY <1>0, <2>1, <2>3, GoingStep DEF DeleteLogs, Statements
  <2> QED
    BY <1>7, <2>2, <2>3
<1>8. ASSUME NEW k \in Calls, DeleteTasks(k) PROVE CallsTypeOK'
  <2>1. /\ locks' \in [Calls -> SUBSET TaskIDs]
        /\ \A j \in Calls \ {k} : locks'[j] = locks[j]
    <3>1. {id \in message[k].ids : Exists(id)} \in SUBSET TaskIDs
      BY <1>8, Asked, RequestTypes DEF DeleteTasks, Kind
    <3> QED
      BY <1>0, <1>8, <3>1 DEF DeleteTasks
  <2> QED
    BY <1>0, <1>8, <2>1, GoingStep DEF DeleteTasks, Statements
<1>9. ASSUME NEW k \in Calls, CommitTx(k) PROVE CallsTypeOK'
  <2>1. patterns' \in [TaskIDs -> AllPatterns \cup {Nothing}] /\ late' \in [Calls -> Nat]
    BY <1>9, RemovedType, ChangesType DEF CommitTx
  <2> QED
    BY <1>0, <1>9, <2>1, ReturningStep DEF CommitTx
<1>10. ASSUME NEW k \in Calls, CountTasks(k) PROVE CallsTypeOK'
  <2>1. locks[k] = {}
    BY <1>10, NoLocks DEF CountTasks
  <2>2. CASE Returns(k, "already", Nothing)
    BY <1>0, <1>10, <2>1, <2>2, ReturningStep DEF CountTasks
  <2>3. CASE pc' = [pc EXCEPT ![k] = "hello"] /\ UNCHANGED outcome
    BY <1>0, <1>10, <2>1, <2>3, GoingStep DEF CountTasks, Statements
  <2> QED
    BY <1>10, <2>2, <2>3 DEF CountTasks
<1>11. ASSUME NEW k \in Calls, NEW p \in Seeds, Seed(k, p)
      PROVE  /\ patterns' \in [TaskIDs -> AllPatterns \cup {Nothing}]
             /\ nextID' \in 1 .. MaxTaskID + 1
             /\ seeds' \in [Calls -> SUBSET Seeds] /\ late' \in [Calls -> Nat]
  BY <1>0, <1>11, InsertType, ChangesType DEF Seed, Seeds, AllPatterns
<1>12. ASSUME NEW k \in Calls, InsertHelloTask(k) PROVE CallsTypeOK'
  <2>1. locks[k] = {}
    BY <1>12, NoLocks DEF InsertHelloTask
  <2>2. CASE Seed(k, Hello) /\ pc' = [pc EXCEPT ![k] = "relay"] /\ UNCHANGED outcome
    BY <1>0, <1>11, <1>12, <2>1, <2>2, GoingStep DEF InsertHelloTask, Statements, Seeds
  <2>3. CASE Returns(k, "raw", Nothing) /\ UNCHANGED <<rows, seeds, late>>
    BY <1>0, <1>12, <2>1, <2>3, ReturningStep DEF InsertHelloTask
  <2> QED
    BY <1>12, <2>2, <2>3 DEF InsertHelloTask
<1>13. ASSUME NEW k \in Calls, InsertRelayTask(k) PROVE CallsTypeOK'
  <2>1. locks[k] = {}
    BY <1>13, NoLocks DEF InsertRelayTask
  <2>2. CASE Seed(k, Relay) /\ Returns(k, "nil", Nothing)
    BY <1>0, <1>11, <1>13, <2>1, <2>2, ReturningStep DEF InsertRelayTask, Seeds
  <2>3. CASE Returns(k, "raw", Nothing) /\ UNCHANGED <<rows, seeds, late>>
    BY <1>0, <1>13, <2>1, <2>3, ReturningStep DEF InsertRelayTask
  <2> QED
    BY <1>13, <2>2, <2>3 DEF InsertRelayTask
<1>14. ASSUME NEW k \in Calls, Respond(k) PROVE CallsTypeOK'
  <2>1. outcome[k] \in Outcomes /\ pc[k] = "reply"
    BY <1>14 DEF Respond, CallsTypeOK
  <2>2. Code(outcome[k].err) \in Codes /\ outcome[k].value \in Values
    BY <2>1 DEF Outcomes, EntErrors, Code, DefaultEntError, Codes, Values
  <2>3. Pair(Code(outcome[k].err), outcome[k].value) \in Answers \ {Nothing}
    BY <2>2, PairTypes
  <2>4. answer' \in [Calls -> Answers \cup {Nothing}] /\ answer'[k] # Nothing
        /\ \A j \in Calls \ {k} : answer'[j] = answer[j]
    BY <1>14, <2>3 DEF Respond, CallsTypeOK
  <2> QED
    BY <1>14, <2>1, <2>4 DEF Respond, CallsTypeOK
<1>15. ASSUME NEW k \in Calls, Fails(k) PROVE CallsTypeOK'
  <2>1. PICK e \in Failures(k) : Returns(k, e, Nothing)
    BY <1>15 DEF Fails
  <2> QED
    BY <1>0, <1>15, <2>1, ReturningStep DEF Fails, Rollback, Statements
<1>16. ASSUME NEW k \in Calls, Unanswered(k) PROVE CallsTypeOK'
  <2>1. PICK e \in Failures(k) : Returns(k, e, Nothing)
    BY <1>16 DEF Unanswered
  <2>2. late' \in [Calls -> Nat]
    BY <1>16, ChangesType DEF Unanswered
  <2>3. /\ patterns' \in [TaskIDs -> AllPatterns \cup {Nothing}] /\ nextID' \in 1 .. MaxTaskID + 1
        /\ seeds' \in [Calls -> SUBSET Seeds] /\ pc[k] # "idle"
    <3>1. CASE /\ At(k, "save", "create") /\ message[k].pattern # Nothing
               /\ Insert(k, message[k].pattern) /\ UNCHANGED seeds
      BY <1>0, <3>1, Asked, RequestTypes, InsertType DEF At
    <3>2. CASE /\ At(k, "save", "update") /\ UNCHANGED seeds
               /\ Replace(k, message[k].id, message[k].pattern)
      BY <1>0, <3>2, Asked, RequestTypes, ReplaceType DEF At, Kind
    <3>3. CASE pc[k] = "commit" /\ Removed(k) /\ UNCHANGED <<nextID, seeds>>
      BY <1>0, <3>3, RemovedType
    <3>4. CASE pc[k] = "hello" /\ Insert(k, Hello) /\ seeds' = [seeds EXCEPT ![k] = {Hello}]
      BY <1>0, <3>4, InsertType DEF Seeds, AllPatterns
    <3>5. CASE pc[k] = "relay" /\ Insert(k, Relay) /\ seeds' = [seeds EXCEPT ![k] = Seeds]
      BY <1>0, <3>5, InsertType DEF Seeds, AllPatterns
    <3> QED
      BY <1>16, <3>1, <3>2, <3>3, <3>4, <3>5 DEF Unanswered
  <2> QED
    BY <1>0, <1>16, <2>1, <2>2, <2>3, ReturningStep DEF Unanswered
<1>17. ASSUME NEW k \in Calls, Expire(k) PROVE CallsTypeOK'
  <2>1. Pair("DeadlineExceeded", Nothing) \in Answers \ {Nothing}
    BY PairTypes DEF Codes
  <2> QED
    BY <1>17, <2>1 DEF Expire, CallsTypeOK
<1>18. CASE Crash
  <2>1. /\ Pair("Unavailable", Nothing) \in Answers \ {Nothing}
        /\ Pair("other", Nothing) \in Outcomes \ {Nothing}
    BY PairTypes DEF Codes
  <2>2. /\ pc' \in [Calls -> Statements \cup {"idle", "sent", "reply", "over"}]
        /\ outcome' \in [Calls -> Outcomes \cup {Nothing}]
        /\ answer' \in [Calls -> Answers \cup {Nothing}]
    BY <1>18, <2>1 DEF Crash, CallsTypeOK
  <2>3. ASSUME NEW k \in Calls PROVE Coherent(k)'
    BY <1>18, <2>1 DEF Crash, CallsTypeOK, Coherent
  <2> QED
    BY <1>18, <2>2, <2>3 DEF Crash, CallsTypeOK, Coherent
<1> QED
  BY <1>1, <1>2, <1>3, <1>4, <1>5, <1>6, <1>7, <1>8, <1>9, <1>10, <1>12, <1>13, <1>14,
     <1>15, <1>16, <1>17, <1>18 DEF CallsNext, Logic

-----------------------------------------------------------------------------
(* The inductive invariant. *)

(* What a step of one call leaves of the others. *)
Apart(k) ==
    \A j \in Calls \ {k} :
        /\ pc'[j] = pc[j] /\ message'[j] = message[j]
        /\ seeds'[j] = seeds[j] /\ locks'[j] = locks[j]
        /\ outcome'[j] = outcome[j] /\ answer'[j] = answer[j] /\ late'[j] = late[j]

(* A step of a call that does not take a lock or name new ids. *)
LEMMA CallStep ==
  ASSUME Inv, CallsTypeOK', NEW k \in Calls, Apart(k), CallInv(k)',
         message'[k] = message[k], pc'[k] # "commit", locks'[k] = {}, nextID' >= nextID,
         \A id \in TaskIDs : Exists(id)' => Exists(id) \/ id < nextID',
         \A id \in TaskIDs \ locks[k] : id < nextID => (Exists(id)' <=> Exists(id))
  PROVE  Inv'
<1>1. ASSUME NEW j \in Calls PROVE CallInv(j)'
  BY DEF Inv, Apart, CallInv, Kind, Seeded, Blank, Late
<1>2. Behind'
  <2>1. ASSUME NEW j \in Calls, message[j] # Nothing, message[j].op = "delete"
        PROVE  message[j].ids \subseteq TaskIDs
    BY <2>1, RequestTypes DEF Inv, CallsTypeOK
  <2>2. nextID \in Nat /\ nextID' \in Nat /\ TaskIDs \subseteq Nat
    BY CallsAssumption DEF Inv, CallsTypeOK, TaskIDs
  <2>3. \A id \in TaskIDs : Exists(id)' => id < nextID'
    <3>1. \A id \in TaskIDs : Exists(id) => id < nextID
      BY DEF Inv, Behind
    <3>2. ASSUME NEW id \in TaskIDs, Exists(id)' PROVE id < nextID'
      <4>1. Exists(id) \/ id < nextID'
        BY <3>2
      <4>2. CASE Exists(id)
        <5>1. id < nextID
          BY <3>1, <4>2
        <5> QED
          BY <2>2, <5>1
      <4> QED
        BY <4>1, <4>2
    <3> QED
      BY <3>2
  <2>4. ASSUME NEW j \in Calls, message'[j] # Nothing, message'[j].op = "delete",
               NEW id \in message'[j].ids
        PROVE  id < nextID'
    <3>1. message'[j] = message[j]
      BY DEF Apart
    <3>2. id \in Nat
      BY <2>1, <2>2, <2>4, <3>1
    <3>3. id < nextID
      BY <2>4, <3>1 DEF Inv, Behind
    <3>4. nextID \in Nat /\ nextID' \in Nat /\ nextID <= nextID'
      BY <2>2
    <3> QED
      BY <3>2, <3>3, <3>4
  <2> QED
    BY <2>3, <2>4 DEF Behind
<1>3. Locked'
  <2>1. ASSUME NEW j \in Calls, pc'[j] = "commit"
        PROVE  locks'[j] = {id \in message'[j].ids : Exists(id)'}
    <3>1. j # k /\ pc[j] = "commit" /\ message'[j] = message[j] /\ locks'[j] = locks[j]
      BY <2>1 DEF Apart
    <3>2. /\ locks[j] = {id \in message[j].ids : Exists(id)} /\ locks[j] \cap locks[k] = {}
          /\ pc[k] = "commit" => locks[k] = {id \in message[k].ids : Exists(id)}
          /\ pc[k] # "commit" => locks[k] = {}
      BY <3>1 DEF Inv, Locked, CallsTypeOK
    <3>3. message[j] \in Requests /\ message[j].op = "delete"
      BY <3>1, Asked DEF Inv, CallInv, Kind
    <3>4. message[j] # Nothing /\ message[j].ids \subseteq TaskIDs
      BY <3>3, RequestTypes
    <3>5. \A id \in message[j].ids : id < nextID
      BY <3>3, <3>4 DEF Inv, Behind
    <3>6. \A id \in message[j].ids : Exists(id)' <=> Exists(id)
      BY <3>2, <3>4, <3>5
    <3> QED
      BY <3>1, <3>2, <3>6
  <2>2. ASSUME NEW i \in Calls, NEW j \in Calls, j # i PROVE locks'[j] \cap locks'[i] = {}
    BY <2>2 DEF Inv, Locked, Apart
  <2> QED
    BY <2>1, <2>2 DEF Locked
<1> QED
  BY <1>1, <1>2, <1>3 DEF Inv

LEMMA ReturningInv ==
  ASSUME Inv, CallsTypeOK', NEW k \in Calls, NEW e \in Errs, NEW v \in Values,
         Returns(k, e, v), e = "nil" \/ v = Nothing, pc[k] \in Statements \cup {"sent"},
         late' = late \/ Changes(k), locks'[k] = {}, nextID' >= nextID,
         \A j \in Calls \ {k} : locks'[j] = locks[j] /\ seeds'[j] = seeds[j],
         UNCHANGED <<message, answer>>,
         \A id \in TaskIDs : Exists(id)' => Exists(id) \/ id < nextID',
         \A id \in TaskIDs \ locks[k] : id < nextID => (Exists(id)' <=> Exists(id))
  PROVE  Inv'
<1>1. /\ pc'[k] = "reply" /\ outcome'[k] = Pair(e, v)
      /\ \A j \in Calls \ {k} : pc'[j] = pc[j] /\ outcome'[j] = outcome[j]
  BY ReturnsType DEF Inv
<1>2. /\ \A j \in Calls \ {k} : late'[j] = late[j]
      /\ late'[k] = late[k] \/ (answer[k] # Nothing /\ late'[k] = late[k] + 1)
  BY ChangesType DEF Inv
<1>3. Apart(k)
  BY <1>1, <1>2 DEF Apart
<1>4. CallInv(k)'
  <2>1. late[k] = 0 /\ (answer[k] # Nothing => answer[k].err = "DeadlineExceeded")
    BY DEF Inv, CallInv, Late, Statements
  <2>2. Late(k)'
    BY <1>1, <1>2, <2>1 DEF Late
  <2>3. Kind(k)' /\ Seeded(k)' /\ Blank(k)'
    BY <1>1 DEF Kind, Seeded, Blank, Pair
  <2> QED
    BY <2>2, <2>3 DEF CallInv
<1> QED
  BY <1>1, <1>3, <1>4, CallStep

(* Nothing of the tables changes when a call goes on. *)
LEMMA GoingInv ==
  ASSUME Inv, CallsTypeOK', NEW k \in Calls, NEW s \in Statements \ {"commit"},
         pc[k] \in Statements \cup {"sent"}, pc' = [pc EXCEPT ![k] = s],
         Kind(k)', Seeded(k)', locks'[k] = {},
         UNCHANGED <<rows, message, locks, seeds, outcome, answer, late>>
  PROVE  Inv'
<1>1. pc'[k] = s /\ \A j \in Calls \ {k} : pc'[j] = pc[j]
  BY DEF Inv, CallsTypeOK
<1>2. Apart(k)
  BY <1>1 DEF Apart
<1>3. late[k] = 0
  BY DEF Inv, CallInv, Late, Statements
<1>4. CallInv(k)'
  BY <1>1, <1>3 DEF Inv, CallInv, Blank, Late, Statements
<1>5. nextID' >= nextID /\ \A id \in TaskIDs : Exists(id)' <=> Exists(id)
  BY DEF Inv, CallsTypeOK, Exists
<1> QED
  BY <1>1, <1>2, <1>4, <1>5, CallStep

LEMMA RowsKept ==
  ASSUME Inv, UNCHANGED rows
  PROVE  nextID' >= nextID /\ \A id \in TaskIDs : Exists(id)' <=> Exists(id)
  BY DEF Inv, CallsTypeOK, Exists

LEMMA RowInserted ==
  ASSUME Inv, NEW k \in Calls, NEW p \in AllPatterns, Insert(k, p)
  PROVE  /\ nextID' >= nextID
         /\ \A id \in TaskIDs : Exists(id)' => Exists(id) \/ id < nextID'
         /\ \A id \in TaskIDs : id < nextID => (Exists(id)' <=> Exists(id))
<1>1. /\ nextID \in TaskIDs /\ nextID' = nextID + 1 /\ TaskIDs \subseteq Nat
      /\ \A id \in TaskIDs \ {nextID} : patterns'[id] = patterns[id]
  BY InsertType DEF Inv, TaskIDs
<1> QED
  BY <1>1 DEF Exists

LEMMA RowReplaced ==
  ASSUME Inv, NEW k \in Calls, NEW id \in TaskIDs,
         NEW p \in AllPatterns \cup {Nothing}, Replace(k, id, p)
  PROVE  nextID' >= nextID /\ \A i \in TaskIDs : Exists(i)' <=> Exists(i)
  BY ReplaceType DEF Inv, CallsTypeOK

LEMMA RowsRemoved ==
  ASSUME Inv, NEW k \in Calls, Removed(k), UNCHANGED nextID
  PROVE  /\ nextID' >= nextID
         /\ \A i \in TaskIDs : Exists(i)' => Exists(i)
         /\ \A i \in TaskIDs \ locks[k] : Exists(i)' <=> Exists(i)
  BY RemovedType DEF Inv, CallsTypeOK

LEMMA SeededRow ==
  ASSUME Inv, NEW k \in Calls, NEW p \in Seeds, Seed(k, p)
  PROVE  /\ p \in AllPatterns /\ Insert(k, p) /\ Changes(k)
         /\ seeds'[k] = seeds[k] \cup {p}
         /\ \A j \in Calls \ {k} : seeds'[j] = seeds[j]
  BY DEF Seed, Seeds, AllPatterns, Inv, CallsTypeOK

LEMMA StepInv == Inv /\ [CallsNext]_callVars => Inv'
<1> SUFFICES ASSUME Inv, [CallsNext]_callVars PROVE Inv'
  OBVIOUS
<1> USE ValueTypes
<1>0. /\ CallsTypeOK /\ CallsTypeOK' /\ Nothing \in Values /\ TaskIDs \subseteq Values
      /\ \A k \in Calls : Kind(k) /\ Seeded(k)
      /\ \A k \in Calls : pc[k] # "commit" => locks[k] = {}
      /\ \A k \in Calls : pc[k] # "idle" => message[k] \in Requests
  BY StepType, NoLocks, Asked DEF Inv, CallInv
<1>1. CASE UNCHANGED callVars
  BY <1>0, <1>1 DEF Inv, CallInv, Kind, Seeded, Blank, Late, Behind, Locked, Exists
<1>2. ASSUME NEW k \in Calls, NEW r \in Requests, Invoke(k, r) PROVE Inv'
  <2>1. /\ pc[k] = "idle" /\ pc'[k] = "sent" /\ message'[k] = r /\ seeds[k] = {}
        /\ UNCHANGED <<rows, locks, seeds, outcome, answer, late>>
        /\ \A j \in Calls \ {k} : pc'[j] = pc[j] /\ message'[j] = message[j]
    BY <1>0, <1>2 DEF Invoke, CallsTypeOK, Seeded
  <2>2. ASSUME NEW j \in Calls PROVE CallInv(j)'
    <3>1. CASE j = k
      BY <2>1, <3>1 DEF Inv, CallInv, Kind, Seeded, Blank, Late
    <3>2. CASE j # k
      BY <2>1, <3>2 DEF Inv, CallInv, Kind, Seeded, Blank, Late
    <3> QED
      BY <3>1, <3>2
  <2>3. Behind'
    <3>1. \A id \in TaskIDs : Exists(id)' => id < nextID'
      BY <2>1 DEF Inv, Behind, Exists
    <3>2. r.op = "delete" => \A id \in r.ids : id < nextID'
      BY <1>2, <2>1 DEF Invoke
    <3> QED
      BY <2>1, <3>1, <3>2 DEF Inv, Behind
  <2>4. Locked'
    BY <2>1 DEF Inv, Locked, Exists
  <2> QED
    BY <1>0, <2>2, <2>3, <2>4 DEF Inv
<1>3. ASSUME NEW k \in Calls, Dispatch(k) PROVE Inv'
  <2>1. pc[k] = "sent" /\ locks[k] = {} /\ message[k] \in Requests
    BY <1>0, <1>3 DEF Dispatch
  <2>2. CASE Returns(k, "raw", Nothing)
    BY <1>0, <1>3, <2>1, <2>2, ReturningInv, RowsKept DEF Dispatch
  <2>3. CASE /\ ~(message[k].op = "update" /\ message[k].id = Nothing)
             /\ pc' = [pc EXCEPT ![k] = First[message[k].op]] /\ UNCHANGED outcome
    <3>1. First[message[k].op] \in Statements \ {"commit"}
      BY <2>1, RequestTypes DEF First, Statements
    <3>2. pc'[k] = First[message[k].op]
      BY <1>0, <2>3 DEF CallsTypeOK
    <3>3. Kind(k)' /\ Seeded(k)'
      BY <1>0, <1>3, <2>1, <2>3, <3>2, RequestTypes DEF Dispatch, First, Kind, Seeded
    <3> QED
      BY <1>0, <1>3, <2>1, <2>3, <3>1, <3>3, GoingInv DEF Dispatch
  <2> QED
    BY <1>3, <2>2, <2>3 DEF Dispatch
<1>4. ASSUME NEW k \in Calls, CreateTaskLogic(k) PROVE Inv'
  <2>1. /\ pc[k] = "save" /\ pc[k] \in Statements /\ locks[k] = {}
        /\ message[k].pattern \in AllPatterns \cup {Nothing}
    BY <1>0, <1>4, RequestTypes DEF CreateTaskLogic, At, Statements
  <2>2. CASE Returns(k, "validation", Nothing) /\ UNCHANGED <<rows, late>>
    BY <1>0, <1>4, <2>1, <2>2, ReturningInv, RowsKept DEF CreateTaskLogic
  <2>3. CASE /\ message[k].pattern # Nothing /\ Insert(k, message[k].pattern)
             /\ Returns(k, "nil", nextID) /\ Changes(k)
    <3>1. nextID \in Values
      BY <1>0, <2>3 DEF Insert
    <3> QED
      BY <1>0, <1>4, <2>1, <2>3, <3>1, ReturningInv, RowInserted DEF CreateTaskLogic
  <2>4. CASE Returns(k, "constraint", Nothing) /\ UNCHANGED <<rows, late>>
    BY <1>0, <1>4, <2>1, <2>4, ReturningInv, RowsKept DEF CreateTaskLogic
  <2> QED
    BY <1>4, <2>2, <2>3, <2>4 DEF CreateTaskLogic
<1>5. ASSUME NEW k \in Calls, UpdateTaskLogic(k) PROVE Inv'
  <2>1. /\ pc[k] = "save" /\ pc[k] \in Statements /\ locks[k] = {}
        /\ message[k].id \in TaskIDs /\ message[k].pattern \in AllPatterns \cup {Nothing}
    BY <1>0, <1>5, RequestTypes DEF UpdateTaskLogic, At, Statements, Kind
  <2>2. CASE Returns(k, "notfound", Nothing) /\ UNCHANGED <<rows, late>>
    BY <1>0, <1>5, <2>1, <2>2, ReturningInv, RowsKept DEF UpdateTaskLogic
  <2>3. CASE /\ Replace(k, message[k].id, message[k].pattern)
             /\ Returns(k, "nil", Nothing) /\ Changes(k)
    BY <1>0, <1>5, <2>1, <2>3, ReturningInv, RowReplaced DEF UpdateTaskLogic
  <2>4. CASE Returns(k, "constraint", Nothing) /\ UNCHANGED <<rows, late>>
    BY <1>0, <1>5, <2>1, <2>4, ReturningInv, RowsKept DEF UpdateTaskLogic
  <2> QED
    BY <1>5, <2>2, <2>3, <2>4 DEF UpdateTaskLogic
<1>6. ASSUME NEW k \in Calls, GetTaskById(k) PROVE Inv'
  <2>1. /\ pc[k] = "save" /\ pc[k] \in Statements /\ locks[k] = {}
        /\ patterns[message[k].id] \in Values
    BY <1>0, <1>6, RequestTypes DEF GetTaskById, At, Statements
  <2>2. CASE Returns(k, "nil", patterns[message[k].id])
    BY <1>0, <1>6, <2>1, <2>2, ReturningInv, RowsKept DEF GetTaskById
  <2>3. CASE Returns(k, "notfound", Nothing)
    BY <1>0, <1>6, <2>1, <2>3, ReturningInv, RowsKept DEF GetTaskById
  <2> QED
    BY <1>6, <2>2, <2>3 DEF GetTaskById
<1>7. ASSUME NEW k \in Calls, BeginTx(k) \/ DeleteLogs(k) PROVE Inv'
  <2>1. PICK s \in {"logs", "tasks"} : pc' = [pc EXCEPT ![k] = s]
    BY <1>7 DEF BeginTx, DeleteLogs
  <2>2. pc'[k] = s /\ s \in Statements \ {"commit"} /\ message[k].op = "delete" /\ locks[k] = {}
    BY <1>0, <1>7, <2>1 DEF BeginTx, DeleteLogs, CallsTypeOK, Statements, Kind
  <2>3. Kind(k)' /\ Seeded(k)'
    BY <1>7, <2>1, <2>2 DEF BeginTx, DeleteLogs, Kind, Seeded
  <2> QED
    BY <1>0, <1>7, <2>1, <2>2, <2>3, GoingInv DEF BeginTx, DeleteLogs, Statements
<1>8. ASSUME NEW k \in Calls, DeleteTasks(k) PROVE Inv'
  <2>1. /\ pc[k] = "tasks" /\ pc'[k] = "commit" /\ message[k].op = "delete"
        /\ message[k] \in Requests /\ message[k].ids \subseteq TaskIDs
        /\ locks'[k] = {id \in message[k].ids : Exists(id)}
        /\ \A j \in Calls \ {k} : pc'[j] = pc[j] /\ locks'[j] = locks[j]
        /\ UNCHANGED <<rows, message, seeds, outcome, answer, late>>
    BY <1>0, <1>8, RequestTypes DEF DeleteTasks, CallsTypeOK, Kind
  <2>2. ASSUME NEW j \in Calls PROVE CallInv(j)'
    <3>1. CASE j = k
      BY <2>1, <3>1 DEF Inv, CallInv, Kind, Seeded, Blank, Late
    <3>2. CASE j # k
      BY <2>1, <3>2 DEF Inv, CallInv, Kind, Seeded, Blank, Late
    <3> QED
      BY <3>1, <3>2
  <2>3. Behind'
    BY <2>1 DEF Inv, Behind, Exists
  <2>4. Locked'
    <3>1. \A id \in TaskIDs : Exists(id)' <=> Exists(id)
      BY <2>1 DEF Exists
    <3>2. \A j \in Calls \ {k} : locks[j] \cap locks'[k] = {}
      BY <1>8, <2>1 DEF DeleteTasks, LockedByOther
    <3>3. ASSUME NEW j \in Calls, pc'[j] = "commit"
          PROVE  locks'[j] = {id \in message'[j].ids : Exists(id)'}
      BY <2>1, <3>3 DEF Inv, Locked, Exists
    <3>4. ASSUME NEW i \in Calls, NEW j \in Calls, j # i PROVE locks'[j] \cap locks'[i] = {}
      BY <2>1, <3>2, <3>4 DEF Inv, Locked
    <3> QED
      BY <3>3, <3>4 DEF Locked
  <2> QED
    BY <1>0, <2>2, <2>3, <2>4 DEF Inv
<1>9. ASSUME NEW k \in Calls, CommitTx(k) PROVE Inv'
  <2>1. locks'[k] = {} /\ \A j \in Calls \ {k} : locks'[j] = locks[j]
    BY <1>0, <1>9 DEF CommitTx, CallsTypeOK
  <2> QED
    BY <1>0, <1>9, <2>1, ReturningInv, RowsRemoved DEF CommitTx, Statements
<1>10. ASSUME NEW k \in Calls, CountTasks(k) PROVE Inv'
  <2>1. pc[k] = "count" /\ pc[k] \in Statements /\ locks[k] = {} /\ message[k].op = "init"
        /\ seeds[k] = {}
    BY <1>0, <1>10 DEF CountTasks, Statements, Kind, Seeded
  <2>2. CASE Returns(k, "already", Nothing)
    BY <1>0, <1>10, <2>1, <2>2, ReturningInv, RowsKept DEF CountTasks
  <2>3. CASE pc' = [pc EXCEPT ![k] = "hello"] /\ UNCHANGED outcome
    <3>1. pc'[k] = "hello" /\ "hello" \in Statements \ {"commit"}
      BY <1>0, <2>3 DEF CallsTypeOK, Statements
    <3>2. Kind(k)' /\ Seeded(k)'
      BY <1>10, <2>1, <3>1 DEF CountTasks, Kind, Seeded
    <3> QED
      BY <1>0, <1>10, <2>1, <2>3, <3>1, <3>2, GoingInv DEF CountTasks
  <2> QED
    BY <1>10, <2>2, <2>3 DEF CountTasks
<1>11. ASSUME NEW k \in Calls, InsertHelloTask(k) PROVE Inv'
  <2>1. pc[k] = "hello" /\ pc[k] \in Statements /\ locks[k] = {} /\ message[k].op = "init"
        /\ seeds[k] = {} /\ Hello \in Seeds
    BY <1>0, <1>11 DEF InsertHelloTask, Statements, Kind, Seeded, Seeds
  <2>2. CASE Seed(k, Hello) /\ pc' = [pc EXCEPT ![k] = "relay"] /\ UNCHANGED outcome
    <3>1. /\ Insert(k, Hello) /\ Changes(k) /\ seeds'[k] = {Hello} /\ Hello \in AllPatterns
          /\ \A j \in Calls \ {k} : seeds'[j] = seeds[j]
      BY <2>1, <2>2, SeededRow
    <3>2. pc'[k] = "relay" /\ \A j \in Calls \ {k} : pc'[j] = pc[j]
      BY <1>0, <2>2 DEF CallsTypeOK
    <3>3. late' = late /\ late[k] = 0
      <4>1. answer[k] = Nothing /\ late[k] = 0
        BY <1>11 DEF InsertHelloTask, Alive, Inv, CallInv, Late
      <4> QED
        BY <1>0, <3>1, <4>1, ChangesType
    <3>4. Apart(k)
      BY <1>11, <2>2, <3>1, <3>2, <3>3 DEF Apart, InsertHelloTask
    <3>5. CallInv(k)'
      BY <1>11, <2>1, <2>2, <3>1, <3>2, <3>3
         DEF Inv, CallInv, Kind, Seeded, Blank, Late, InsertHelloTask, Alive
    <3> QED
      BY <1>0, <1>11, <2>1, <3>1, <3>2, <3>4, <3>5, CallStep, RowInserted DEF InsertHelloTask
  <2>3. CASE Returns(k, "raw", Nothing) /\ UNCHANGED <<rows, seeds, late>>
    BY <1>0, <1>11, <2>1, <2>3, ReturningInv, RowsKept DEF InsertHelloTask
  <2> QED
    BY <1>11, <2>2, <2>3 DEF InsertHelloTask
<1>12. ASSUME NEW k \in Calls, InsertRelayTask(k) PROVE Inv'
  <2>1. pc[k] = "relay" /\ pc[k] \in Statements /\ locks[k] = {} /\ Relay \in Seeds
    BY <1>0, <1>12 DEF InsertRelayTask, Statements, Seeds
  <2>2. CASE Seed(k, Relay) /\ Returns(k, "nil", Nothing)
    <3>1. /\ Insert(k, Relay) /\ Changes(k) /\ Relay \in AllPatterns
          /\ \A j \in Calls \ {k} : seeds'[j] = seeds[j]
      BY <2>1, <2>2, SeededRow
    <3> QED
      BY <1>0, <1>12, <2>1, <2>2, <3>1, ReturningInv, RowInserted DEF InsertRelayTask
  <2>3. CASE Returns(k, "raw", Nothing) /\ UNCHANGED <<rows, seeds, late>>
    BY <1>0, <1>12, <2>1, <2>3, ReturningInv, RowsKept DEF InsertRelayTask
  <2> QED
    BY <1>12, <2>2, <2>3 DEF InsertRelayTask
<1>13. ASSUME NEW k \in Calls, Respond(k) PROVE Inv'
  <2>1. /\ pc[k] = "reply" /\ pc'[k] = "over" /\ answer'[k] # Nothing
        /\ answer[k] # Nothing => answer'[k] = answer[k]
        /\ \A j \in Calls \ {k} : pc'[j] = pc[j] /\ answer'[j] = answer[j]
        /\ UNCHANGED <<rows, message, locks, seeds, outcome, late>>
    BY <1>0, <1>13 DEF Respond, CallsTypeOK
  <2>2. Apart(k) /\ locks'[k] = {}
    BY <1>0, <2>1 DEF Apart
  <2>3. CallInv(k)'
    BY <2>1 DEF Inv, CallInv, Kind, Seeded, Blank, Late
  <2> QED
    BY <1>0, <2>1, <2>2, <2>3, CallStep, RowsKept
<1>14. ASSUME NEW k \in Calls, Fails(k) PROVE Inv'
  <2>1. PICK e \in Failures(k) : Returns(k, e, Nothing)
    BY <1>14 DEF Fails
  <2>2. locks'[k] = {} /\ \A j \in Calls \ {k} : locks'[j] = locks[j]
    BY <1>0, <1>14 DEF Fails, Rollback, CallsTypeOK
  <2> QED
    BY <1>0, <1>14, <2>1, <2>2, ReturningInv, RowsKept DEF Fails
<1>15. ASSUME NEW k \in Calls, Unanswered(k) PROVE Inv'
  <2>1. PICK e \in Failures(k) : Returns(k, e, Nothing)
    BY <1>15 DEF Unanswered
  <2>2. /\ locks'[k] = {} /\ \A j \in Calls \ {k} : locks'[j] = locks[j]
        /\ Changes(k) /\ UNCHANGED <<message, answer>>
    BY <1>0, <1>15 DEF Unanswered, CallsTypeOK
  <2>3. /\ pc[k] \in Statements /\ nextID' >= nextID
        /\ \A j \in Calls \ {k} : seeds'[j] = seeds[j]
        /\ \A id \in TaskIDs : Exists(id)' => Exists(id) \/ id < nextID'
        /\ \A id \in TaskIDs \ locks[k] : id < nextID => (Exists(id)' <=> Exists(id))
    <3>1. CASE /\ At(k, "save", "create") /\ message[k].pattern # Nothing
               /\ Insert(k, message[k].pattern) /\ UNCHANGED seeds
      <4>1. message[k].pattern \in AllPatterns
        BY <1>0, <3>1, RequestTypes DEF At
      <4> QED
        BY <3>1, <4>1, RowInserted DEF At, Statements
    <3>2. CASE /\ At(k, "save", "update") /\ UNCHANGED seeds
               /\ Replace(k, message[k].id, message[k].pattern)
      <4>1. message[k].id \in TaskIDs /\ message[k].pattern \in AllPatterns \cup {Nothing}
        BY <1>0, <3>2, RequestTypes DEF At, Kind
      <4> QED
        BY <3>2, <4>1, RowReplaced DEF At, Statements
    <3>3. CASE pc[k] = "commit" /\ Removed(k) /\ UNCHANGED <<nextID, seeds>>
      BY <3>3, RowsRemoved DEF Statements
    <3>4. CASE pc[k] = "hello" /\ Insert(k, Hello) /\ seeds' = [seeds EXCEPT ![k] = {Hello}]
      BY <1>0, <3>4, RowInserted DEF Statements, AllPatterns, CallsTypeOK
    <3>5. CASE pc[k] = "relay" /\ Insert(k, Relay) /\ seeds' = [seeds EXCEPT ![k] = Seeds]
      BY <1>0, <3>5, RowInserted DEF Statements, AllPatterns, CallsTypeOK
    <3> QED
      BY <1>15, <3>1, <3>2, <3>3, <3>4, <3>5 DEF Unanswered
  <2> QED
    BY <1>0, <2>1, <2>2, <2>3, ReturningInv
<1>16. ASSUME NEW k \in Calls, Expire(k) PROVE Inv'
  <2>1. /\ answer[k] = Nothing /\ answer'[k] = Pair("DeadlineExceeded", Nothing)
        /\ \A j \in Calls \ {k} : answer'[j] = answer[j]
        /\ UNCHANGED <<rows, message, pc, locks, seeds, outcome, late>>
    BY <1>0, <1>16 DEF Expire, CallsTypeOK
  <2>2. answer'[k] # Nothing /\ answer'[k].err = "DeadlineExceeded"
    <3>1. Pair("DeadlineExceeded", Nothing) # Nothing
      BY <1>0, PairTypes DEF Codes
    <3> QED
      BY <2>1, <3>1 DEF Pair
  <2>3. ASSUME NEW j \in Calls PROVE CallInv(j)'
    <3>1. CASE j = k
      BY <2>1, <2>2, <3>1 DEF Inv, CallInv, Kind, Seeded, Blank, Late
    <3>2. CASE j # k
      BY <2>1, <3>2 DEF Inv, CallInv, Kind, Seeded, Blank, Late
    <3> QED
      BY <3>1, <3>2
  <2>4. Behind'
    BY <2>1 DEF Inv, Behind, Exists
  <2>5. Locked'
    BY <2>1 DEF Inv, Locked, Exists
  <2> QED
    BY <1>0, <2>3, <2>4, <2>5 DEF Inv
<1>17. CASE Crash
  <2>1. /\ \A k \in Calls :
             /\ pc[k] \in {"idle", "over"} => pc'[k] = pc[k] /\ outcome'[k] = outcome[k]
                                              /\ answer'[k] = answer[k]
             /\ pc[k] \notin {"idle", "over"} =>
                  /\ pc'[k] = "over"
                  /\ outcome'[k] = IF outcome[k] = Nothing THEN Pair("other", Nothing)
                                   ELSE outcome[k]
                  /\ answer[k] # Nothing => answer'[k] = answer[k]
             /\ locks'[k] = {}
        /\ UNCHANGED <<rows, message, seeds, late>>
    BY <1>0, <1>17 DEF Crash, CallsTypeOK
  <2>2. ASSUME NEW k \in Calls PROVE CallInv(k)'
    <3>1. late[k] = 1 => pc'[k] \in {"reply", "over"} /\ answer'[k] = answer[k]
      BY <2>1 DEF Inv, CallInv, Late
    <3>2. Late(k)'
      BY <2>1, <3>1 DEF Inv, CallInv, Late
    <3>3. Kind(k)' /\ Seeded(k)' /\ Blank(k)'
      BY <2>1 DEF Inv, CallInv, Kind, Seeded, Blank, Pair
    <3> QED
      BY <3>2, <3>3 DEF CallInv
  <2>3. Behind' /\ Locked'
    <3>1. Behind'
      BY <2>1 DEF Inv, Behind, Exists
    <3>2. \A k \in Calls : pc'[k] # "commit"
      BY <2>1
    <3> QED
      BY <2>1, <3>1, <3>2 DEF Locked
  <2> QED
    BY <1>0, <2>2, <2>3 DEF Inv
<1> QED
  BY <1>1, <1>2, <1>3, <1>4, <1>5, <1>6, <1>7, <1>8, <1>9, <1>10, <1>11, <1>12, <1>13, <1>14,
     <1>15, <1>16, <1>17 DEF CallsNext, Logic

(* What a call, the rows and the answers are. *)
THEOREM TypeCorrect == CallsSpec => []CallsTypeOK
<1>1. CallsInit => Inv
  BY InitInv
<1>2. Inv /\ [CallsNext]_callVars => Inv'
  BY StepInv
<1>3. Inv => CallsTypeOK
  BY DEF Inv
<1> QED
  BY <1>1, <1>2, <1>3, PTL DEF CallsSpec

(* A call that has been given up changes the tables at most once more. *)
THEOREM LateOnce == CallsSpec => []AtMostOneLateChange
<1>1. CallsInit => Inv
  BY InitInv
<1>2. Inv /\ [CallsNext]_callVars => Inv'
  BY StepInv
<1>3. Inv => AtMostOneLateChange
  BY DEF Inv, CallInv, Late, AtMostOneLateChange
<1> QED
  BY <1>1, <1>2, <1>3, PTL DEF CallsSpec

-----------------------------------------------------------------------------
(* The calls implement TaskService. *)

USE DEF Service!vars, Service!Errors, Service!Outcome, Pair

LEMMA InitRefines == CallsInit => Service!Init
<1> SUFFICES ASSUME CallsInit PROVE Service!Init
  OBVIOUS
<1>1. nextID \in 1 .. MaxTaskID + 1
  BY CallsAssumption DEF CallsInit
<1> QED
  BY <1>1 DEF CallsInit, Service!Init, TaskIDs, Service!TaskIDs


LEMMA StepRefines ==
  Inv /\ [CallsNext]_callVars => [Service!Next]_(Service!vars)
<1> SUFFICES ASSUME Inv, [CallsNext]_callVars
             PROVE  Service!Next \/ UNCHANGED Service!vars
  OBVIOUS
<1> USE ValueTypes
<1>0. /\ CallsTypeOK /\ Nothing \in Values
      /\ \A k \in Calls : Kind(k) /\ Seeded(k) /\ Blank(k)
      /\ \A k \in Calls : pc[k] # "idle" => message[k] \in Requests /\ message[k] # Nothing
      /\ \A k \in Calls : pc[k] \notin {"reply", "over"} => outcome[k] = Nothing
      /\ TaskIDs = Service!TaskIDs /\ \A id \in TaskIDs : Exists(id) <=> Service!Exists(id)
  BY Asked, RequestTypes DEF Inv, CallInv, CallsTypeOK, TaskIDs, Service!TaskIDs, Exists,
     Service!Exists
<1>1. CASE UNCHANGED callVars
  BY <1>1
<1>2. ASSUME NEW k \in Calls, NEW r \in Requests, Invoke(k, r) PROVE Service!Next
  <2>1. Service!Ask(k, r)
    BY <1>2 DEF Invoke, Service!Ask
  <2> QED
    BY <2>1 DEF Service!Next
<1>3. ASSUME NEW k \in Calls, NEW e \in {"other", "raw"}, Returns(k, e, Nothing),
             pc[k] \notin {"idle", "reply", "over"},
             UNCHANGED <<patterns, nextID, message, seeds, answer>>
      PROVE  Service!Next
  <2>1. Service!Fail(k)
    BY <1>0, <1>3 DEF Returns, Service!Fail
  <2> QED
    BY <2>1 DEF Service!Next
<1>4. ASSUME NEW k \in Calls, NEW e \in Service!Refusals, Returns(k, e, Nothing),
             pc[k] \notin {"idle", "reply", "over"}, Service!Reason(k, e),
             UNCHANGED <<patterns, nextID, message, seeds, answer>>
      PROVE  Service!Next
  <2>1. Service!Refuse(k)
    BY <1>0, <1>4 DEF Returns, Service!Refuse
  <2> QED
    BY <2>1 DEF Service!Next
<1>5. ASSUME NEW k \in Calls, NEW p \in AllPatterns, Insert(k, p)
      PROVE  nextID \in Service!TaskIDs /\ Service!Insert(nextID, p)
  <2>1. ~Service!Held(p)
    BY <1>0, <1>5 DEF Insert, Holders, Service!Held
  <2>2. nextID \in TaskIDs /\ nextID >= nextID
    BY <1>5 DEF Insert, TaskIDs
  <2> QED
    BY <1>0, <1>5, <2>1, <2>2 DEF Insert, Service!Insert
<1>6. ASSUME NEW k \in Calls, Dispatch(k) PROVE Service!Next \/ UNCHANGED Service!vars
  BY <1>3, <1>6 DEF Dispatch
<1>7. ASSUME NEW k \in Calls, NEW e \in {"nil", "other", "raw"},
             At(k, "save", "create"), message[k].pattern # Nothing, Insert(k, message[k].pattern),
             Returns(k, e, IF e = "nil" THEN nextID ELSE Nothing),
             UNCHANGED <<message, seeds, answer>>
      PROVE  Service!Next
  <2>1. message[k].pattern \in AllPatterns
    BY <1>0, <1>7, RequestTypes DEF At
  <2>2. Service!Create(k)
    BY <1>0, <1>5, <1>7, <2>1 DEF At, Returns, Service!Create, Service!Open, Service!Ends
  <2> QED
    BY <2>2 DEF Service!Next
<1>8. ASSUME NEW k \in Calls, CreateTaskLogic(k) PROVE Service!Next
  <2>1. /\ pc[k] = "save" /\ message[k].op = "create"
        /\ message[k].pattern \in AllPatterns \cup {Nothing}
    BY <1>0, <1>8, RequestTypes DEF CreateTaskLogic, At
  <2>2. CASE message[k].pattern = Nothing /\ Returns(k, "validation", Nothing) /\ UNCHANGED rows
    BY <1>4, <1>8, <2>1, <2>2 DEF CreateTaskLogic, Service!Refusals, Service!Reason
  <2>3. CASE /\ message[k].pattern # Nothing /\ Insert(k, message[k].pattern)
             /\ Returns(k, "nil", nextID)
    BY <1>7, <1>8, <2>3 DEF CreateTaskLogic
  <2>4. CASE /\ message[k].pattern # Nothing /\ Holders(message[k].pattern) # {}
             /\ Returns(k, "constraint", Nothing) /\ UNCHANGED rows
    <3>1. Service!Held(message[k].pattern)
      BY <1>0, <2>4 DEF Holders, Service!Held
    <3> QED
      BY <1>4, <1>8, <2>1, <2>4, <3>1 DEF CreateTaskLogic, Service!Refusals, Service!Reason
  <2> QED
    BY <1>8, <2>2, <2>3, <2>4 DEF CreateTaskLogic
<1>9. ASSUME NEW k \in Calls, NEW e \in {"nil", "other", "raw"},
             At(k, "save", "update"), Replace(k, message[k].id, message[k].pattern),
             Returns(k, e, Nothing), UNCHANGED <<message, seeds, answer>>
      PROVE  Service!Next
  <2>1. /\ message[k].id \in TaskIDs /\ message[k].id # Nothing
        /\ message[k].pattern \in AllPatterns \cup {Nothing}
    BY <1>0, <1>9, RequestTypes DEF At, Kind
  <2>2. Service!Exists(message[k].id) /\ UNCHANGED nextID
    BY <1>0, <1>9, <2>1 DEF Replace
  <2>3. IF message[k].pattern = Nothing THEN UNCHANGED patterns
        ELSE /\ ~Service!HeldByOther(message[k].pattern, message[k].id)
             /\ patterns' = [patterns EXCEPT ![message[k].id] = message[k].pattern]
    <3>1. CASE message[k].pattern = Nothing
      BY <1>0, <1>9, <2>1, <3>1 DEF Replace, CallsTypeOK
    <3>2. CASE message[k].pattern # Nothing
      BY <1>0, <1>9, <2>1, <3>2 DEF Replace, Holders, Service!HeldByOther
    <3> QED
      BY <3>1, <3>2
  <2>4. Service!Update(k)
    BY <1>0, <1>9, <2>1, <2>2, <2>3
       DEF At, Returns, Service!Update, Service!Open, Service!Ends
  <2> QED
    BY <2>4 DEF Service!Next
<1>10. ASSUME NEW k \in Calls, UpdateTaskLogic(k) PROVE Service!Next
  <2>1. /\ pc[k] = "save" /\ message[k].op = "update"
        /\ message[k].id \in TaskIDs /\ message[k].id # Nothing
    BY <1>0, <1>10, RequestTypes DEF UpdateTaskLogic, At, Kind
  <2>2. CASE ~Exists(message[k].id) /\ Returns(k, "notfound", Nothing) /\ UNCHANGED rows
    BY <1>0, <1>4, <1>10, <2>1, <2>2 DEF UpdateTaskLogic, Service!Refusals, Service!Reason
  <2>3. CASE Replace(k, message[k].id, message[k].pattern) /\ Returns(k, "nil", Nothing)
    BY <1>9, <1>10, <2>3 DEF UpdateTaskLogic
  <2>4. CASE /\ message[k].pattern # Nothing /\ Holders(message[k].pattern) \ {message[k].id} # {}
             /\ Returns(k, "constraint", Nothing) /\ UNCHANGED rows
    <3>1. Service!HeldByOther(message[k].pattern, message[k].id)
      BY <1>0, <2>4 DEF Holders, Service!HeldByOther
    <3> QED
      BY <1>4, <1>10, <2>1, <2>4, <3>1 DEF UpdateTaskLogic, Service!Refusals, Service!Reason
  <2> QED
    BY <1>10, <2>2, <2>3, <2>4 DEF UpdateTaskLogic
<1>11. ASSUME NEW k \in Calls, GetTaskById(k) PROVE Service!Next
  <2>1. /\ pc[k] = "save" /\ message[k].op = "get"
        /\ message[k].id \in TaskIDs /\ message[k].id # Nothing
    <3>1. message[k].id \in TaskIDs
      BY <1>0, <1>11, RequestTypes DEF GetTaskById, At
    <3> QED
      BY <1>11, <3>1, CallsAssumption DEF GetTaskById, At
  <2>2. CASE Exists(message[k].id) /\ Returns(k, "nil", patterns[message[k].id])
    <3>1. Service!Get(k)
      BY <1>0, <1>11, <2>1, <2>2
         DEF GetTaskById, Returns, Service!Get, Service!Open, Service!Ends
    <3> QED
      BY <3>1 DEF Service!Next
  <2>3. CASE ~Exists(message[k].id) /\ Returns(k, "notfound", Nothing)
    BY <1>0, <1>4, <1>11, <2>1, <2>3 DEF GetTaskById, Service!Refusals, Service!Reason
  <2> QED
    BY <1>11, <2>2, <2>3 DEF GetTaskById
<1>12. ASSUME NEW k \in Calls, NEW e \in {"nil", "other", "raw"}, pc[k] = "commit", Removed(k),
              Returns(k, e, Nothing), UNCHANGED <<nextID, message, seeds, answer>>
      PROVE  Service!Next
  <2>1. /\ locks[k] = {id \in message[k].ids : Exists(id)} /\ message[k].op = "delete"
    BY <1>0, <1>12 DEF Inv, Locked, Kind
  <2>2. patterns' = [id \in TaskIDs |-> IF id \in message[k].ids THEN Nothing ELSE patterns[id]]
    BY <1>12, <2>1 DEF Removed, Exists
  <2>3. Service!Delete(k)
    BY <1>0, <1>12, <2>1, <2>2 DEF Returns, Service!Delete, Service!Open, Service!Ends
  <2> QED
    BY <2>3 DEF Service!Next
<1>13. ASSUME NEW k \in Calls, CommitTx(k) PROVE Service!Next
  BY <1>12, <1>13 DEF CommitTx
<1>14. ASSUME NEW k \in Calls, CountTasks(k) PROVE Service!Next \/ UNCHANGED Service!vars
  <2>1. pc[k] = "count" /\ message[k].op = "init" /\ seeds[k] = {}
    BY <1>0, <1>14 DEF CountTasks, Kind, Seeded
  <2>2. CASE (\E id \in TaskIDs : Exists(id)) /\ Returns(k, "already", Nothing)
    BY <1>0, <1>4, <1>14, <2>1, <2>2 DEF CountTasks, Service!Refusals, Service!Reason
  <2> QED
    BY <1>14, <2>2 DEF CountTasks
<1>15. ASSUME NEW k \in Calls, pc[k] = "hello", Insert(k, Hello), UNCHANGED <<message, answer>>,
              seeds' = [seeds EXCEPT ![k] = {Hello}],
              outcome' = outcome \/ \E e \in {"other", "raw"} : Returns(k, e, Nothing)
      PROVE  Service!Next
  <2>1. /\ Hello \in Seeds \ seeds[k] /\ message[k].op = "init"
        /\ seeds' = [seeds EXCEPT ![k] = @ \cup {Hello}]
        /\ seeds'[k] = {Hello} /\ {Hello} # Seeds
    <3>1. seeds[k] = {} /\ message[k].op = "init"
      BY <1>0, <1>15 DEF Kind, Seeded
    <3>2. {Hello} = seeds[k] \cup {Hello} /\ {Hello} # Seeds /\ Hello \in Seeds \ seeds[k]
      BY <3>1, CallsAssumption DEF Seeds
    <3> QED
      BY <1>0, <1>15, <3>1, <3>2 DEF CallsTypeOK
  <2>2. Service!Insert(nextID, Hello) /\ nextID \in Service!TaskIDs
    BY <1>5, <1>15 DEF AllPatterns
  <2>3. Service!Seed(k)
    <3>1. Service!Open(k, "init")
      BY <1>0, <1>15, <2>1 DEF Service!Open
    <3>2. CASE outcome' = outcome
      BY <1>15, <2>1, <2>2, <3>1, <3>2 DEF Service!Seed
    <3>3. CASE \E e \in {"other", "raw"} : Returns(k, e, Nothing)
      BY <1>15, <2>1, <2>2, <3>1, <3>3 DEF Service!Seed, Returns
    <3> QED
      BY <1>15, <3>2, <3>3
  <2> QED
    BY <2>3 DEF Service!Next
<1>16. ASSUME NEW k \in Calls, pc[k] = "relay", Insert(k, Relay), UNCHANGED <<message, answer>>,
              seeds' = [seeds EXCEPT ![k] = Seeds],
              NEW e \in {"nil", "other", "raw"}, Returns(k, e, Nothing)
      PROVE  Service!Next
  <2>1. /\ Relay \in Seeds \ seeds[k] /\ message[k].op = "init"
        /\ seeds' = [seeds EXCEPT ![k] = @ \cup {Relay}] /\ seeds'[k] = Seeds
    <3>1. seeds[k] = {Hello} /\ message[k].op = "init"
      BY <1>0, <1>16 DEF Kind, Seeded
    <3>2. Seeds = seeds[k] \cup {Relay} /\ Relay \in Seeds \ seeds[k]
      BY <3>1, CallsAssumption DEF Seeds
    <3> QED
      BY <1>0, <1>16, <3>1, <3>2 DEF CallsTypeOK
  <2>2. Service!Insert(nextID, Relay) /\ nextID \in Service!TaskIDs
    BY <1>5, <1>16 DEF AllPatterns
  <2>3. Service!Seed(k)
    <3>1. Service!Open(k, "init")
      BY <1>0, <1>16, <2>1 DEF Service!Open
    <3>2. Service!Ends(k, Nothing)
      BY <1>16 DEF Returns, Service!Ends
    <3> QED
      BY <1>16, <2>1, <2>2, <3>1, <3>2 DEF Service!Seed
  <2> QED
    BY <2>3 DEF Service!Next
<1>17. ASSUME NEW k \in Calls, InsertHelloTask(k) PROVE Service!Next
  <2>1. CASE Seed(k, Hello) /\ UNCHANGED outcome
    <3>1. seeds' = [seeds EXCEPT ![k] = {Hello}]
      BY <1>0, <1>17, <2>1 DEF InsertHelloTask, Seed, Seeded, CallsTypeOK
    <3> QED
      BY <1>15, <1>17, <2>1, <3>1 DEF InsertHelloTask, Seed
  <2>2. CASE Returns(k, "raw", Nothing) /\ UNCHANGED <<rows, seeds>>
    BY <1>3, <1>17, <2>2 DEF InsertHelloTask
  <2> QED
    BY <1>17, <2>1, <2>2 DEF InsertHelloTask
<1>18. ASSUME NEW k \in Calls, InsertRelayTask(k) PROVE Service!Next
  <2>1. CASE Seed(k, Relay) /\ Returns(k, "nil", Nothing)
    <3>1. seeds' = [seeds EXCEPT ![k] = Seeds]
      BY <1>0, <1>18, <2>1 DEF InsertRelayTask, Seed, Seeded, Seeds, CallsTypeOK
    <3> QED
      BY <1>16, <1>18, <2>1, <3>1 DEF InsertRelayTask, Seed
  <2>2. CASE Returns(k, "raw", Nothing) /\ UNCHANGED <<rows, seeds>>
    BY <1>3, <1>18, <2>2 DEF InsertRelayTask
  <2> QED
    BY <1>18, <2>1, <2>2 DEF InsertRelayTask
<1>19. ASSUME NEW k \in Calls, BeginTx(k) \/ DeleteLogs(k) \/ DeleteTasks(k)
       PROVE  UNCHANGED Service!vars
  BY <1>19 DEF BeginTx, DeleteLogs, DeleteTasks
<1>20. \A k \in Calls : Failures(k) \subseteq {"other", "raw"}
  BY DEF Failures
<1>21. ASSUME NEW k \in Calls, Fails(k) PROVE Service!Next
  <2>1. PICK e \in {"other", "raw"} : Returns(k, e, Nothing)
    BY <1>20, <1>21 DEF Fails
  <2> QED
    BY <1>3, <1>21, <2>1 DEF Fails, Statements
<1>22. ASSUME NEW k \in Calls, Unanswered(k) PROVE Service!Next
  <2>1. PICK e \in {"other", "raw"} : Returns(k, e, Nothing)
    BY <1>20, <1>22 DEF Unanswered
  <2>2. UNCHANGED <<message, answer>>
    BY <1>22 DEF Unanswered
  <2>3. CASE /\ At(k, "save", "create") /\ message[k].pattern # Nothing
             /\ Insert(k, message[k].pattern) /\ UNCHANGED seeds
    BY <1>7, <2>1, <2>2, <2>3
  <2>4. CASE /\ At(k, "save", "update") /\ UNCHANGED seeds
             /\ Replace(k, message[k].id, message[k].pattern)
    BY <1>9, <2>1, <2>2, <2>4
  <2>5. CASE pc[k] = "commit" /\ Removed(k) /\ UNCHANGED <<nextID, seeds>>
    BY <1>12, <2>1, <2>2, <2>5
  <2>6. CASE pc[k] = "hello" /\ Insert(k, Hello) /\ seeds' = [seeds EXCEPT ![k] = {Hello}]
    BY <1>15, <2>1, <2>2, <2>6
  <2>7. CASE pc[k] = "relay" /\ Insert(k, Relay) /\ seeds' = [seeds EXCEPT ![k] = Seeds]
    BY <1>16, <2>1, <2>2, <2>7
  <2> QED
    BY <1>22, <2>3, <2>4, <2>5, <2>6, <2>7 DEF Unanswered
<1>23. ASSUME NEW k \in Calls, Respond(k) PROVE Service!Next \/ UNCHANGED Service!vars
  <2>1. /\ message[k] # Nothing /\ outcome[k] # Nothing /\ outcome[k] \in Outcomes
        /\ UNCHANGED <<patterns, nextID, message, seeds, outcome>>
    BY <1>0, <1>23 DEF Respond, CallsTypeOK
  <2>2. CASE answer[k] # Nothing
    BY <1>0, <1>23, <2>1, <2>2 DEF Respond, CallsTypeOK
  <2>3. CASE answer[k] = Nothing /\ outcome[k].err \in {"other", "raw"}
    <3>1. outcome[k].value = Nothing
      BY <1>0, <2>1, <2>3 DEF Blank
    <3>2. Code(outcome[k].err) \in Service!Unclear
      BY <2>3 DEF Code, DefaultEntError, Service!Unclear
    <3>3. Service!Answer(k)
      BY <1>23, <2>1, <2>3, <3>1, <3>2 DEF Respond, Service!Answer
    <3> QED
      BY <3>3 DEF Service!Next
  <2>4. CASE answer[k] = Nothing /\ outcome[k].err \notin {"other", "raw"}
    <3>1. Code(outcome[k].err) = Service!Code(outcome[k].err)
      BY <2>1, <2>4 DEF Outcomes, EntErrors, Code, DefaultEntError, Service!Code
    <3>2. Service!Answer(k)
      BY <1>23, <2>1, <2>4, <3>1 DEF Respond, Service!Answer
    <3> QED
      BY <3>2 DEF Service!Next
  <2> QED
    BY <2>2, <2>3, <2>4
<1>24. ASSUME NEW k \in Calls, Expire(k) PROVE Service!Next
  <2>1. Service!Answer(k)
    BY <1>0, <1>24 DEF Expire, Service!Answer, Service!Unclear
  <2> QED
    BY <2>1 DEF Service!Next
<1>25. CASE Crash
  <2> DEFINE lost == {k \in Calls : pc[k] \notin {"idle", "over"}}
  <2>1. \A k \in lost : message[k] # Nothing
    BY <1>0
  <2>2. Service!Lose
    BY <1>25, <2>1 DEF Crash, Service!Lose
  <2> QED
    BY <2>2 DEF Service!Next
<1> QED
  BY <1>1, <1>2, <1>6, <1>8, <1>10, <1>11, <1>14, <1>17, <1>18, <1>19, <1>21, <1>22, <1>23,
     <1>24, <1>25, <1>13 DEF CallsNext, Logic

(* Whatever becomes of messages, statements and the process, the calls are *)
(* those of TaskService: they take effect at one moment or not at all,     *)
(* clear answers are true, and a refusal means that nothing was done.      *)
THEOREM ImplementsService == CallsSpec => ServiceSpec
<1>1. CallsInit => Inv /\ Service!Init
  BY InitInv, InitRefines
<1>2. Inv /\ [CallsNext]_callVars => Inv'
  BY StepInv
<1>3. Inv /\ [CallsNext]_callVars => [Service!Next]_(Service!vars)
  BY StepRefines
<1> QED
  BY <1>1, <1>2, <1>3, PTL DEF CallsSpec, ServiceSpec, Service!Spec
=============================================================================
