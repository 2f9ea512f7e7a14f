-------------------------- MODULE TaskRecordsProofs --------------------------
(***************************************************************************)
(* Theorems about TaskRecords, for tables of any size, any requests, any   *)
(* number of writes and any width of a status.                             *)
(***************************************************************************)
EXTENDS TaskRecords, FiniteSetTheorems, TLAPS

-----------------------------------------------------------------------------
(* Sets of rows. *)

LEMMA RowsFinite ==
  /\ IsFiniteSet(IDs)
  /\ \A R \in SUBSET IDs : IsFiniteSet(R) /\ Cardinality(R) \in 0 .. MaxID
<1>1. IsFiniteSet(IDs) /\ Cardinality(IDs) = MaxID
  <2>1. 1 \in Int /\ MaxID \in Int /\ MaxID >= 0
    BY RecordsAssumption
  <2>2. /\ IsFiniteSet(1 .. MaxID)
        /\ Cardinality(1 .. MaxID) = IF 1 > MaxID THEN 0 ELSE MaxID - 1 + 1
    BY <2>1, FS_Interval
  <2> QED
    BY <2>1, <2>2 DEF IDs
<1>2. ASSUME NEW R \in SUBSET IDs
      PROVE  IsFiniteSet(R) /\ Cardinality(R) \in 0 .. MaxID
  <2>1. IsFiniteSet(R) /\ Cardinality(R) <= Cardinality(IDs) /\ Cardinality(R) \in Nat
    BY <1>1, FS_Subset, FS_CardinalityType
  <2> QED
    BY <1>1, <2>1, RecordsAssumption
<1> QED
  BY <1>1, <1>2

LEMMA IDsAreNumbers == IDs \subseteq Nat
  BY RecordsAssumption DEF IDs

LEMMA IDsOrdered == \A x, y \in IDs : x = y \/ x > y \/ y > x
  BY IDsAreNumbers

LEMMA RowsAreIDs == \A q : Rows(q) \in SUBSET IDs
  BY DEF Rows, GetTaskList, GetTaskLogList, TaskRows, LogRows

LEMMA PageOfRows == Page(Rows(req)) \in SUBSET IDs /\ Page(Rows(req)) \subseteq Rows(req)
  BY RowsAreIDs DEF Page

-----------------------------------------------------------------------------
(* Types. *)

LEMMA StoredType ==
  ASSUME NEW c \in Columns, NEW v, v \in Given(c)
  PROVE  Stored(c, v) \in Value(c) /\ Stored(c, v) \in UInt8 \cup Patterns \cup Texts
<1>1. CASE c = "status"
  <2>1. v \in Nat /\ v # Nil
    BY <1>1, RecordsAssumption DEF Given
  <2>2. v % Width \in UInt8
    BY <2>1, RecordsAssumption DEF UInt8
  <2> QED
    BY <1>1, <2>1, <2>2 DEF Stored, GetStatusPointer, Value
<1>2. CASE c # "status"
  BY <1>2 DEF Stored, Given, Value, Columns
<1> QED
  BY <1>1, <1>2

LEMMA RequestType ==
  ASSUME NEW in \in TaskInfos, NEW c \in Columns
  PROVE  in[c] = Nil \/ in[c] \in Given(c)
  BY RecordsAssumption

LEMMA GivenAsked ==
  ASSUME NEW c \in Columns, NEW v \in Given(c)
  PROVE  v \in Nat \cup Patterns \cup Texts
<1>1. CASE c = "status"
  BY <1>1 DEF Given
<1>2. CASE c # "status"
  BY <1>2, RecordsAssumption DEF Given, Value, Columns
<1> QED
  BY <1>1, <1>2

LEMMA DefaultsType ==
  ASSUME NEW in \in TaskInfos, NEW c \in Columns, check(defaults(in))
  PROVE  defaults(in)[c] \in Given(c) /\ DOMAIN defaults(in) = Columns
<1>1. DOMAIN in = Columns /\ defaults(in)[c] # Nil
  BY RecordsAssumption DEF check
<1>2. defaults(in)[c] = IF c = "status" /\ in[c] = Nil THEN Normal ELSE in[c]
  BY <1>1 DEF defaults
<1>3. Normal \in Given("status")
  BY RecordsAssumption DEF Given, UInt8
<1>4. DOMAIN defaults(in) = Columns
  BY <1>1 DEF defaults
<1> QED
  BY <1>1, <1>2, <1>3, <1>4, RequestType

LEMMA CreatedRow ==
  ASSUME NEW in \in TaskInfos, check(defaults(in))
  PROVE  [c \in Columns |-> Stored(c, defaults(in)[c])] \in Task
  BY DefaultsType, StoredType DEF Task

LEMMA CreatedAsked ==
  ASSUME NEW in \in TaskInfos, check(defaults(in))
  PROVE  defaults(in) \in Asked
<1>1. DOMAIN in = Columns
  BY RecordsAssumption
<1>2. defaults(in) = [c \in Columns |-> defaults(in)[c]]
  BY <1>1 DEF defaults
<1>3. \A c \in Columns : defaults(in)[c] \in Nat \cup Patterns \cup Texts
  BY DefaultsType, GivenAsked
<1> QED
  BY <1>2, <1>3 DEF Asked

LEMMA UpdatedAsked ==
  ASSUME NEW in \in TaskInfos, NEW r \in Asked
  PROVE  [c \in Columns |-> IF in[c] = Nil THEN r[c] ELSE in[c]] \in Asked
<1>1. \A c \in Columns : in[c] # Nil => in[c] \in Nat \cup Patterns \cup Texts
  BY RequestType, GivenAsked
<1> QED
  BY <1>1 DEF Asked

LEMMA UpdatedRow ==
  ASSUME NEW in \in TaskInfos, NEW t \in Task
  PROVE  [c \in Columns |-> IF in[c] = Nil THEN t[c] ELSE Stored(c, in[c])] \in Task
<1>1. ASSUME NEW c \in Columns, in[c] # Nil
      PROVE  Stored(c, in[c]) \in Value(c) /\ Stored(c, in[c]) \in UInt8 \cup Patterns \cup Texts
  BY <1>1, RequestType, StoredType
<1> QED
  BY <1>1 DEF Task

(* What a write does to the walk's history. *)
LEMMA ObserveType ==
  ASSUME TypeOK, Observe
  PROVE  /\ writes' \in 0 .. MaxWrites
         /\ at' \in {"idle", "list", "answered", "done"} /\ req' \in Lists
         /\ page' \in Nat /\ got' \in 0 .. MaxID
         /\ owed' \subseteq IDs /\ shown' \subseteq IDs
         /\ repeats' \in Nat /\ left' \in Nat /\ came' \in Nat
<1>1. writes \in 0 .. MaxWrites /\ writes < MaxWrites /\ writes' = writes + 1 /\ MaxWrites \in Nat
  BY RecordsAssumption DEF TypeOK, Observe
<1>2. Rows(req) \in SUBSET IDs /\ Rows(req)' \in SUBSET IDs
  <2>1. Rows(req)' \subseteq IDs
    BY DEF Rows, GetTaskList, GetTaskLogList, TaskRows, LogRows
  <2> QED
    BY <2>1, RowsAreIDs
<1> DEFINE gone == Rows(req) \ Rows(req)'
           new == Rows(req)' \ Rows(req)
<1>3. Cardinality(gone) \in 0 .. MaxID /\ Cardinality(new) \in 0 .. MaxID
  <2>1. gone \in SUBSET IDs /\ new \in SUBSET IDs
    BY <1>2
  <2> HIDE DEF gone, new
  <2> QED
    BY <2>1, RowsFinite
<1>4. left' \in {left, left + Cardinality(gone)} /\ came' \in {came, came + Cardinality(new)}
  BY DEF Observe
<1>5. left' \in Nat /\ came' \in Nat
  <2> HIDE DEF gone, new
  <2>1. left \in Nat /\ came \in Nat /\ MaxID \in Nat
    BY RecordsAssumption DEF TypeOK
  <2> QED
    BY <1>3, <1>4, <2>1
<1>6. owed' \subseteq IDs /\ shown' \subseteq IDs /\ repeats' \in Nat
  BY <1>2 DEF Observe, TypeOK
<1>7. at' = at /\ req' = req /\ page' = page /\ got' = got
  BY DEF Observe
<1> QED
  BY <1>1, <1>5, <1>6, <1>7 DEF TypeOK

LEMMA InsertType ==
  ASSUME TypeOK, NEW log \in TaskLog, InsertLog(log)
  PROVE  TypeOK'
<1>1. /\ logSeq \in IDs /\ logs' = [logs EXCEPT ![logSeq] = log] /\ logSeq' = logSeq + 1
      /\ UNCHANGED taskVars /\ Observe
  BY DEF InsertLog
<1>2. logSeq' \in 1 .. MaxID + 1
  BY <1>1, RecordsAssumption DEF IDs
<1>3. /\ logs' \in [IDs -> TaskLog \cup {Gone}]
      /\ \A id \in IDs : id >= logSeq' => logs'[id] = Gone
  BY <1>1, RecordsAssumption DEF TypeOK, IDs
<1> QED
  BY <1>1, <1>2, <1>3, ObserveType DEF TypeOK, taskVars

(* Every table row, the walk and its history keep their types. *)
LEMMA StepType == TypeOK /\ [Next]_vars => TypeOK'
<1> SUFFICES ASSUME TypeOK, [Next]_vars PROVE TypeOK'
  OBVIOUS
<1>0. MaxID \in Nat /\ IDs = 1 .. MaxID
  BY RecordsAssumption DEF IDs
<1>1. ASSUME NEW in \in TaskInfos, CreateTask(in) PROVE TypeOK'
  <2>1. /\ taskSeq \in IDs /\ taskSeq' = taskSeq + 1 /\ UNCHANGED logVars /\ Observe
        /\ tasks' = [tasks EXCEPT ![taskSeq] = [c \in Columns |-> Stored(c, defaults(in)[c])]]
    BY <1>1 DEF CreateTask
  <2>2. [c \in Columns |-> Stored(c, defaults(in)[c])] \in Task
    BY <1>1, CreatedRow DEF CreateTask
  <2>3. taskSeq' \in 1 .. MaxID + 1
    BY <1>0, <2>1
  <2>4. /\ tasks' \in [IDs -> Task \cup {Gone}]
        /\ \A id \in IDs : id >= taskSeq' => tasks'[id] = Gone
    BY <1>0, <2>1, <2>2 DEF TypeOK
  <2>5. defaults(in) \in Asked /\ asked' = [asked EXCEPT ![taskSeq] = defaults(in)]
    BY <1>1, CreatedAsked DEF CreateTask
  <2>6. /\ asked' \in [IDs -> Asked \cup {Gone}]
        /\ \A id \in IDs : tasks'[id] # Gone => asked'[id] # Gone
    BY <2>1, <2>5, SeedsAssumption DEF TypeOK
  <2> QED
    BY <2>1, <2>3, <2>4, <2>6, ObserveType DEF TypeOK, logVars
<1>2. ASSUME NEW id \in IDs, NEW in \in TaskInfos, UpdateTask(id, in) PROVE TypeOK'
  <2>1. /\ tasks[id] # Gone /\ UNCHANGED <<taskSeq, logVars>> /\ Observe
        /\ tasks' = [tasks EXCEPT ![id] =
             [c \in Columns |-> IF in[c] = Nil THEN tasks[id][c] ELSE Stored(c, in[c])]]
    BY <1>2 DEF UpdateTask, SetNotNil, TypeOK
  <2>2. [c \in Columns |-> IF in[c] = Nil THEN tasks[id][c] ELSE Stored(c, in[c])] \in Task
    <3>1. tasks[id] \in Task
      BY <2>1 DEF TypeOK
    <3> QED
      BY <3>1, UpdatedRow
  <2>3. /\ tasks' \in [IDs -> Task \cup {Gone}]
        /\ \A i \in IDs : i >= taskSeq' => tasks'[i] = Gone
    BY <2>1, <2>2 DEF TypeOK
  <2>4. [c \in Columns |-> IF in[c] = Nil THEN asked[id][c] ELSE in[c]] \in Asked
    <3>1. asked[id] \in Asked
      BY <2>1 DEF TypeOK
    <3> QED
      BY <3>1, UpdatedAsked
  <2>5. asked' = [asked EXCEPT ![id] =
           [c \in Columns |-> IF in[c] = Nil THEN asked[id][c] ELSE in[c]]]
    BY <1>2 DEF UpdateTask, TypeOK
  <2>6. /\ asked' \in [IDs -> Asked \cup {Gone}]
        /\ \A i \in IDs : tasks'[i] # Gone => asked'[i] # Gone
    BY <2>1, <2>4, <2>5, SeedsAssumption DEF TypeOK
  <2> QED
    BY <2>1, <2>3, <2>6, ObserveType DEF TypeOK, logVars
<1>3. ASSUME NEW id \in IDs, DeleteTask({id}) PROVE TypeOK'
  <2>1. /\ tasks' \in [IDs -> Task \cup {Gone}] /\ logs' \in [IDs -> TaskLog \cup {Gone}]
        /\ \A i \in IDs : (i >= taskSeq => tasks'[i] = Gone) /\ (i >= logSeq => logs'[i] = Gone)
    BY <1>3 DEF DeleteTask, TypeOK
  <2>2. UNCHANGED <<taskSeq, logSeq, asked>> /\ Observe
        /\ \A i \in IDs : tasks'[i] # Gone => asked'[i] # Gone
    BY <1>3 DEF DeleteTask, TypeOK
  <2> QED
    BY <2>1, <2>2, ObserveType DEF TypeOK
<1>4. ASSUME NEW r \in Results, CreateTaskLog(r) PROVE TypeOK'
  <2>1. r \in Nat /\ r # Nil /\ r % Width \in UInt8
    BY RecordsAssumption DEF UInt8
  <2>2. [task |-> None, result |-> GetStatusPointer(r)] \in TaskLog
    BY <2>1 DEF TaskLog, GetStatusPointer
  <2> QED
    BY <1>4, <2>2, InsertType DEF CreateTaskLog
<1>5. ASSUME NEW id \in IDs, NEW r \in Results, WriteTaskLog(id, r) PROVE TypeOK'
  <2>1. r % Width \in UInt8
    BY RecordsAssumption DEF UInt8
  <2>2. [task |-> id, result |-> r % Width] \in TaskLog
    BY <2>1 DEF TaskLog
  <2> QED
    BY <1>5, <2>2, InsertType DEF WriteTaskLog
<1>6. ASSUME NEW l \in IDs, NEW r \in Results, UpdateTaskLog(l, r) PROVE TypeOK'
  <2>1. r \in Nat /\ r # Nil /\ r % Width \in UInt8
    BY RecordsAssumption DEF UInt8
  <2>2. GetStatusPointer(r) \in UInt8
    BY <2>1 DEF GetStatusPointer
  <2>3. /\ logs[l] # Gone /\ UNCHANGED <<taskVars, logSeq>> /\ Observe
        /\ logs' = [logs EXCEPT ![l].result = GetStatusPointer(r)]
    BY <1>6 DEF UpdateTaskLog
  <2>4. [logs[l] EXCEPT !.result = GetStatusPointer(r)] \in TaskLog
    BY <2>2, <2>3 DEF TypeOK, TaskLog
  <2>5. /\ logs' \in [IDs -> TaskLog \cup {Gone}]
        /\ \A i \in IDs : i >= logSeq => logs'[i] = Gone
    BY <2>3, <2>4 DEF TypeOK
  <2> QED
    BY <2>3, <2>5, ObserveType DEF TypeOK, taskVars
<1>7. ASSUME NEW l \in IDs, DeleteTaskLog({l}) PROVE TypeOK'
  <2>1. /\ logs' \in [IDs -> TaskLog \cup {Gone}]
        /\ \A i \in IDs : i >= logSeq => logs'[i] = Gone
    BY <1>7 DEF DeleteTaskLog, TypeOK
  <2>2. UNCHANGED <<taskVars, logSeq>> /\ Observe
    BY <1>7 DEF DeleteTaskLog
  <2> QED
    BY <2>1, <2>2, ObserveType DEF TypeOK, taskVars
<1>8. ASSUME NEW q \in Lists, Ask(q) PROVE TypeOK'
  <2>1. q.page \in Nat /\ Rows(q) \subseteq IDs
    BY RecordsAssumption, IntAssumption, RowsAreIDs DEF UInt
  <2>2. UNCHANGED <<taskVars, logVars, writes>> /\ at' = "list" /\ req' = q /\ page' = q.page
        /\ got' = 0 /\ owed' = Rows(q) /\ shown' = {} /\ repeats' = 0 /\ left' = 0 /\ came' = 0
    BY <1>8 DEF Ask
  <2> QED
    BY <1>0, <2>1, <2>2 DEF TypeOK, taskVars, logVars
<1>9. CASE ListPage
  <2> DEFINE rows == Page(Rows(req))
  <2>1. /\ at' = "answered" /\ UNCHANGED <<taskVars, logVars, writes, req, page, left, came>>
        /\ got' = Cardinality(rows) /\ owed' = owed \ rows /\ shown' = shown \cup rows
        /\ repeats' = repeats + Cardinality(rows \cap shown)
    BY <1>9 DEF ListPage
  <2>2. rows \in SUBSET IDs /\ rows \cap shown \in SUBSET IDs
    BY PageOfRows
  <2>3. Cardinality(rows) \in 0 .. MaxID /\ Cardinality(rows \cap shown) \in Nat
    <3> HIDE DEF rows
    <3> QED
      BY <1>0, <2>2, RowsFinite
  <2>4. owed' \subseteq IDs /\ shown' \subseteq IDs /\ repeats' \in Nat
    <3> HIDE DEF rows
    <3> QED
      BY <2>1, <2>2, <2>3 DEF TypeOK
  <2> QED
    BY <2>1, <2>3, <2>4 DEF TypeOK, taskVars, logVars
<1>10. CASE ListFails
  BY <1>0, <1>10 DEF ListFails, TypeOK, taskVars, logVars
<1>11. CASE NextPage
  BY <1>0, <1>11 DEF NextPage, TypeOK, taskVars, logVars
<1>12. CASE Finish
  BY <1>0, <1>12 DEF Finish, TypeOK, taskVars, logVars
<1>13. CASE UNCHANGED vars
  BY <1>13 DEF TypeOK, vars, taskVars, logVars, walkVars
<1> QED
  BY <1>1, <1>2, <1>3, <1>4, <1>5, <1>6, <1>7, <1>8, <1>9, <1>10, <1>11, <1>12, <1>13 DEF Next

LEMMA InitType == Init => TypeOK
<1> SUFFICES ASSUME Init PROVE TypeOK
  OBVIOUS
<1>0. MaxID \in Nat /\ IDs = 1 .. MaxID
  BY RecordsAssumption DEF IDs
<1>1. PICK n \in 0 .. MaxID : SeedTasks \in [1 .. n -> Task]
  BY SeedsAssumption
<1>2. PICK m \in 0 .. MaxID : SeedLogs \in [1 .. m -> TaskLog]
  BY SeedsAssumption
<1>3. DOMAIN SeedTasks = 1 .. n /\ Cardinality(DOMAIN SeedTasks) = n
  <2>1. n \in Int /\ n >= 0 /\ 1 \in Int
    BY <1>0
  <2> QED
    BY <1>1, <2>1, FS_Interval
<1>4. DOMAIN SeedLogs = 1 .. m /\ Cardinality(DOMAIN SeedLogs) = m
  <2>1. m \in Int /\ m >= 0 /\ 1 \in Int
    BY <1>0
  <2> QED
    BY <1>2, <2>1, FS_Interval
<1>5. taskSeq = n + 1 /\ logSeq = m + 1
  BY <1>3, <1>4 DEF Init
<1>6. /\ tasks \in [IDs -> Task \cup {Gone}]
      /\ \A id \in IDs : id >= taskSeq => tasks[id] = Gone
  BY <1>0, <1>1, <1>3, <1>5 DEF Init
<1>7. /\ logs \in [IDs -> TaskLog \cup {Gone}]
      /\ \A id \in IDs : id >= logSeq => logs[id] = Gone
  <2>1. logSeq = m + 1 /\ logs = [id \in IDs |-> IF id \in DOMAIN SeedLogs THEN SeedLogs[id] ELSE Gone]
    BY <1>5 DEF Init
  <2> QED
    BY <1>0, <1>2, <1>4, <2>1
<1>8. 0 \in 0 .. MaxWrites /\ 0 \in 0 .. MaxID
  BY RecordsAssumption
<1>9. /\ asked \in [IDs -> Asked \cup {Gone}]
      /\ \A id \in IDs : tasks[id] # Gone => asked[id] # Gone
  <2>1. Task \subseteq Asked
    BY RecordsAssumption DEF Task, Asked, UInt8
  <2> QED
    BY <1>6, <2>1 DEF Init
<1>10. taskSeq \in 1 .. MaxID + 1 /\ logSeq \in 1 .. MaxID + 1
  BY <1>0, <1>5
<1>11. /\ writes \in 0 .. MaxWrites /\ at \in {"idle", "list", "answered", "done"} /\ req \in Lists
       /\ page \in Nat /\ got \in 0 .. MaxID /\ owed \subseteq IDs /\ shown \subseteq IDs
       /\ repeats \in Nat /\ left \in Nat /\ came \in Nat
  BY <1>8 DEF Init
<1> QED
  BY <1>6, <1>7, <1>9, <1>10, <1>11 DEF TypeOK

(* Rows, ids and the walk keep their types for any requests: in particular *)
(* no INSERT or UPDATE leaves a row without a column.                      *)
THEOREM TypeCorrect == Spec => []TypeOK
<1>1. Init => TypeOK
  BY InitType
<1>2. TypeOK /\ [Next]_vars => TypeOK'
  BY StepType
<1> QED
  BY <1>1, <1>2, PTL DEF Spec

-----------------------------------------------------------------------------
(* Columns. *)

LEMMA ColumnsInit == Init => ColumnsAsAsked
<1> SUFFICES ASSUME Init, NEW id \in TaskRows, NEW c \in Columns
             PROVE  tasks[id][c] = Stored(c, tasks[id][c])
  BY DEF ColumnsAsAsked, Init
<1>1. tasks[id] \in Task
  BY InitType DEF TypeOK, TaskRows
<1>2. CASE c = "status"
  <2>1. tasks[id][c] \in UInt8 /\ UInt8 \subseteq Nat
    BY <1>1, <1>2, RecordsAssumption DEF Task, Value, UInt8
  <2>2. tasks[id][c] % Width = tasks[id][c] /\ tasks[id][c] # Nil
    BY <2>1, RecordsAssumption DEF UInt8
  <2> QED
    BY <1>2, <2>2 DEF Stored, GetStatusPointer
<1> QED
  BY <1>2 DEF Stored

(* Only the two steps that write a row of tasks matter, and both write     *)
(* what was asked as it is stored.                                         *)
LEMMA ColumnsStep == TypeOK /\ ColumnsAsAsked /\ [Next]_vars => ColumnsAsAsked'
<1> SUFFICES ASSUME TypeOK, ColumnsAsAsked, [Next]_vars
             PROVE  ColumnsAsAsked'
  OBVIOUS
<1> USE DEF ColumnsAsAsked, TaskRows
<1>1. ASSUME NEW in \in TaskInfos, CreateTask(in) PROVE ColumnsAsAsked'
  <2>1. /\ taskSeq \in IDs /\ asked' = [asked EXCEPT ![taskSeq] = defaults(in)]
        /\ tasks' = [tasks EXCEPT ![taskSeq] = [c \in Columns |-> Stored(c, defaults(in)[c])]]
    BY <1>1 DEF CreateTask
  <2> QED
    BY <2>1 DEF TypeOK
<1>2. ASSUME NEW id \in IDs, NEW in \in TaskInfos, UpdateTask(id, in) PROVE ColumnsAsAsked'
  <2>1. /\ tasks[id] # Gone
        /\ asked' = [asked EXCEPT ![id] =
             [c \in Columns |-> IF in[c] = Nil THEN asked[id][c] ELSE in[c]]]
        /\ tasks' = [tasks EXCEPT ![id] =
             [c \in Columns |-> IF in[c] = Nil THEN tasks[id][c] ELSE Stored(c, in[c])]]
    BY <1>2 DEF UpdateTask, SetNotNil, TypeOK
  <2> QED
    BY <2>1 DEF TypeOK
<1>3. ASSUME NEW id \in IDs, DeleteTask({id}) PROVE ColumnsAsAsked'
  BY <1>3 DEF DeleteTask
<1>4. ASSUME UNCHANGED taskVars PROVE ColumnsAsAsked'
  BY <1>4 DEF taskVars
<1>5. CASE UNCHANGED vars
  BY <1>4, <1>5 DEF vars
<1> QED
  BY <1>1, <1>2, <1>3, <1>4, <1>5 DEF Next, CreateTaskLog, WriteTaskLog, InsertLog,
     UpdateTaskLog, DeleteTaskLog, Ask, ListPage, ListFails, NextPage, Finish

(* Calls that give some of the columns lose nothing of one another, for    *)
(* any requests.                                                           *)
THEOREM ColumnsKept == Spec => []ColumnsAsAsked
<1>1. Init => TypeOK /\ ColumnsAsAsked
  BY InitType, ColumnsInit
<1>2. TypeOK /\ ColumnsAsAsked /\ [Next]_vars => (TypeOK /\ ColumnsAsAsked)'
  BY StepType, ColumnsStep
<1> QED
  BY <1>1, <1>2, PTL DEF Spec

-----------------------------------------------------------------------------
(* Positions in a list that is ordered by descending id. *)

LEMMA PositionType ==
  ASSUME NEW R \in SUBSET IDs, NEW x \in R
  PROVE  Position(x, R) \in 0 .. Cardinality(R) - 1
<1> DEFINE P == {i \in R : i > x}
<1>1. P \in SUBSET (R \ {x})
  BY IDsAreNumbers
<1>2. IsFiniteSet(R) /\ Cardinality(R) \in Nat
  BY RowsFinite
<1>3. IsFiniteSet(R \ {x}) /\ Cardinality(R \ {x}) = Cardinality(R) - 1
  BY <1>2, FS_RemoveElement
<1>4. IsFiniteSet(P) /\ Cardinality(P) <= Cardinality(R \ {x}) /\ Cardinality(P) \in Nat
  BY <1>1, <1>3, FS_Subset, FS_CardinalityType
<1> QED
  BY <1>2, <1>3, <1>4 DEF Position

LEMMA PositionNat ==
  ASSUME NEW R \in SUBSET IDs, NEW x \in R
  PROVE  Position(x, R) \in Nat
<1>1. Position(x, R) \in 0 .. Cardinality(R) - 1 /\ Cardinality(R) \in Nat
  BY PositionType, RowsFinite
<1> QED
  BY <1>1

LEMMA PositionOrders ==
  ASSUME NEW R \in SUBSET IDs, NEW x \in R, NEW y \in R, x > y
  PROVE  Position(x, R) < Position(y, R)
<1> DEFINE P == {i \in R : i > x}
           Q == {i \in R : i > y}
<1>1. P \cup {x} \in SUBSET Q /\ x \notin P
  <2>1. x \in Nat /\ y \in Nat /\ \A i \in R : i \in Nat
    BY IDsAreNumbers
  <2>2. \A i \in P \cup {x} : i \in R /\ i > y
    BY <2>1
  <2>3. ~(x > x)
    BY <2>1
  <2> QED
    BY <2>2, <2>3
<1>2. IsFiniteSet(P) /\ IsFiniteSet(Q) /\ Cardinality(P) \in Nat /\ Cardinality(Q) \in Nat
  <2>1. P \in SUBSET IDs /\ Q \in SUBSET IDs
    OBVIOUS
  <2> HIDE DEF P, Q
  <2> QED
    BY <2>1, RowsFinite
<1>3. IsFiniteSet(P \cup {x}) /\ Cardinality(P \cup {x}) = Cardinality(P) + 1
  <2> HIDE DEF P
  <2> QED
    BY <1>1, <1>2, FS_AddElement
<1>4. Cardinality(P \cup {x}) <= Cardinality(Q)
  BY <1>1, <1>2, FS_Subset
<1> QED
  BY <1>2, <1>3, <1>4 DEF Position

Window(R, lo, hi) == {x \in R : lo <= Position(x, R) /\ Position(x, R) < hi}

(* No two rows have one position, so a window has at most its width. *)
LEMMA WindowFits ==
  ASSUME NEW R \in SUBSET IDs, NEW lo \in Nat, NEW hi \in Nat, lo <= hi
  PROVE  /\ IsFiniteSet(Window(R, lo, hi))
         /\ Cardinality(Window(R, lo, hi)) \in 0 .. hi - lo
<1> DEFINE W == Window(R, lo, hi)
           T == lo .. hi - 1
           f == [x \in W |-> Position(x, R)]
<1>1. W \in SUBSET R /\ W \in SUBSET IDs
  BY DEF Window
<1>2. IsFiniteSet(W) /\ Cardinality(W) \in Nat
  <2> HIDE DEF W
  <2> QED
    BY <1>1, RowsFinite
<1>3. IsFiniteSet(T) /\ Cardinality(T) = hi - lo
  <2>1. lo \in Int /\ hi - 1 \in Int
    OBVIOUS
  <2>2. /\ IsFiniteSet(lo .. hi - 1)
        /\ Cardinality(lo .. hi - 1) = IF lo > hi - 1 THEN 0 ELSE (hi - 1) - lo + 1
    BY <2>1, FS_Interval
  <2> QED
    BY <2>2
<1>4. \A x \in R : Position(x, R) \in Nat
  BY PositionType, RowsFinite
<1>5. f \in [W -> T]
  BY <1>1, <1>4 DEF Window
<1>6. \A x, y \in W : f[x] = f[y] => x = y
  <2> SUFFICES ASSUME NEW x \in W, NEW y \in W, x # y PROVE f[x] # f[y]
    OBVIOUS
  <2>1. x > y \/ y > x
    BY <1>1, IDsOrdered
  <2>2. Position(x, R) \in Nat /\ Position(y, R) \in Nat
    BY <1>1, <1>4
  <2> QED
    BY <1>1, <2>1, <2>2, PositionOrders
<1>7. f \in Injection(W, T)
  BY <1>5, <1>6 DEF Injection, IsInjective
<1>8. Cardinality(W) <= Cardinality(T)
  <2> HIDE DEF W, T, f
  <2> QED
    BY <1>3, <1>7, FS_Injection
<1> QED
  BY <1>2, <1>3, <1>8

(* The positions number the rows from 0. *)
LEMMA NumberingCovers ==
  ASSUME NEW R \in SUBSET IDs
  PROVE  \A i \in 0 .. Cardinality(R) - 1 : \E x \in R : Position(x, R) = i
<1> DEFINE n == Cardinality(R)
           f == [x \in R |-> Position(x, R)]
           T == 0 .. n - 1
<1>1. n \in Nat /\ IsFiniteSet(R)
  BY RowsFinite
<1>2. IsFiniteSet(T) /\ Cardinality(T) = n
  <2>1. 0 \in Int /\ n - 1 \in Int
    BY <1>1
  <2>2. IsFiniteSet(0 .. n - 1) /\ Cardinality(0 .. n - 1) = IF 0 > n - 1 THEN 0 ELSE n - 1 - 0 + 1
    BY <2>1, FS_Interval
  <2> QED
    BY <1>1, <2>2
<1>3. f \in [R -> T]
  BY PositionType
<1>4. \A x, y \in R : f[x] = f[y] => x = y
  <2> SUFFICES ASSUME NEW x \in R, NEW y \in R, x # y PROVE f[x] # f[y]
    OBVIOUS
  <2>1. x > y \/ y > x
    BY IDsOrdered
  <2>2. Position(x, R) \in Int /\ Position(y, R) \in Int
    BY PositionType, <1>1
  <2> QED
    BY <2>1, <2>2, PositionOrders
<1>5. f \in Injection(R, T)
  BY <1>3, <1>4 DEF Injection, IsInjective
<1>6. f \in Surjection(R, T)
  <2> HIDE DEF f, T
  <2> QED
    BY <1>1, <1>2, <1>5, FS_Injection
<1> QED
  BY <1>6 DEF Surjection

(* A window that lies within the list is full. *)
LEMMA WindowIsFull ==
  ASSUME NEW R \in SUBSET IDs, NEW lo \in Nat, NEW hi \in Nat, lo <= hi, hi <= Cardinality(R)
  PROVE  Cardinality(Window(R, lo, hi)) >= hi - lo
<1> DEFINE W == Window(R, lo, hi)
           T == lo .. hi - 1
           f == [x \in W |-> Position(x, R)]
<1>1. IsFiniteSet(T) /\ Cardinality(T) = hi - lo
  <2>1. lo \in Int /\ hi - 1 \in Int
    OBVIOUS
  <2>2. /\ IsFiniteSet(lo .. hi - 1)
        /\ Cardinality(lo .. hi - 1) = IF lo > hi - 1 THEN 0 ELSE (hi - 1) - lo + 1
    BY <2>1, FS_Interval
  <2> QED
    BY <2>2
<1>2. \A x \in R : Position(x, R) \in Nat
  BY PositionType, RowsFinite
<1>3. \A i \in T : \E x \in W : f[x] = i
  <2> SUFFICES ASSUME NEW i \in T PROVE \E x \in W : f[x] = i
    OBVIOUS
  <2>1. i \in 0 .. Cardinality(R) - 1
    BY RowsFinite
  <2>2. PICK x \in R : Position(x, R) = i
    BY <2>1, NumberingCovers
  <2>3. x \in W
    BY <2>2 DEF Window
  <2> QED
    BY <2>2, <2>3
<1>4. f \in Surjection(W, T)
  BY <1>2, <1>3 DEF Surjection, Window
<1>5. IsFiniteSet(W)
  BY WindowFits
<1>6. Cardinality(T) <= Cardinality(W)
  <2> HIDE DEF W, T, f
  <2> QED
    BY <1>4, <1>5, FS_Surjection
<1> QED
  BY <1>1, <1>6

-----------------------------------------------------------------------------
(* What a write does to positions. *)

(* A row moves up by no more than the rows that went. *)
LEMMA PositionShifts ==
  ASSUME NEW R \in SUBSET IDs, NEW S \in SUBSET IDs, NEW x \in R \cap S
  PROVE  Position(x, R) <= Position(x, S) + Cardinality(R \ S)
<1> DEFINE P == {i \in R : i > x}
           Q == {i \in S : i > x}
           D == R \ S
<1>1. P \in SUBSET IDs /\ Q \in SUBSET IDs /\ D \in SUBSET IDs /\ Q \cap D \in SUBSET IDs
  OBVIOUS
<1>2. P \in SUBSET (Q \cup D)
  OBVIOUS
<1> HIDE DEF P, Q, D
<1>3. /\ IsFiniteSet(Q) /\ IsFiniteSet(D)
      /\ Cardinality(P) \in Nat /\ Cardinality(Q) \in Nat /\ Cardinality(D) \in Nat
      /\ Cardinality(Q \cap D) \in Nat
  BY <1>1, RowsFinite
<1>4. IsFiniteSet(Q \cup D)
      /\ Cardinality(Q \cup D) = Cardinality(Q) + Cardinality(D) - Cardinality(Q \cap D)
  BY <1>3, FS_Union
<1>5. Cardinality(P) <= Cardinality(Q \cup D)
  BY <1>2, <1>4, FS_Subset
<1>6. Cardinality(P) <= Cardinality(Q) + Cardinality(D)
  BY <1>3, <1>4, <1>5
<1> QED
  BY <1>6 DEF Position, P, Q, D

(* The rows of O that a walk which has read n rows of R has passed. *)
Passed(O, R, n) == {x \in O : Position(x, R) < n}

LEMMA SubsetCounts ==
  ASSUME NEW R \in SUBSET IDs, NEW O \in SUBSET R
  PROVE  Cardinality(O) \in Nat /\ Cardinality(R) \in Nat /\ Cardinality(O) <= Cardinality(R)
<1>1. IsFiniteSet(R) /\ Cardinality(R) \in Nat /\ Cardinality(O) \in Nat
  BY RowsFinite
<1> QED
  BY <1>1, FS_Subset

(* Each row that goes lets at most one more be passed: those that are      *)
(* passed now and were not had the next positions.                         *)
LEMMA PassedGrows ==
  ASSUME NEW R \in SUBSET IDs, NEW S \in SUBSET IDs, NEW O \in SUBSET R, NEW n \in Nat
  PROVE  Cardinality(Passed(O \cap S, S, n)) <= Cardinality(Passed(O, R, n)) + Cardinality(R \ S)
<1> DEFINE d == Cardinality(R \ S)
           P == Passed(O, R, n)
           W == Window(R, n, n + d)
           Q == Passed(O \cap S, S, n)
<1>1. d \in Nat
  <2>1. R \ S \in SUBSET IDs
    OBVIOUS
  <2> QED
    BY <2>1, RowsFinite
<1>2. Q \in SUBSET (P \cup W)
  <2> SUFFICES ASSUME NEW x \in Q, x \notin P PROVE x \in W
    OBVIOUS
  <2>1. x \in O /\ x \in R /\ x \in S /\ Position(x, S) < n
    BY DEF Passed
  <2>2. Position(x, R) \in Nat /\ Position(x, S) \in Nat
    BY <2>1, PositionNat
  <2>3. ~(Position(x, R) < n)
    BY <2>1 DEF Passed
  <2>4. Position(x, R) <= Position(x, S) + d
    BY <2>1, PositionShifts
  <2>5. n <= Position(x, R) /\ Position(x, R) < n + d
    <3> HIDE DEF d
    <3> QED
      BY <1>1, <2>1, <2>2, <2>3, <2>4
  <2> QED
    BY <2>1, <2>5 DEF Window
<1>3. P \in SUBSET IDs /\ W \in SUBSET IDs /\ Q \in SUBSET IDs /\ P \cap W \in SUBSET IDs
  BY DEF Passed, Window
<1>4. Cardinality(W) \in 0 .. d
  <2> HIDE DEF d
  <2>1. n + d \in Nat /\ n <= n + d /\ (n + d) - n = d
    BY <1>1
  <2> QED
    BY <2>1, WindowFits
<1> HIDE DEF P, W, Q, d
<1>5. /\ IsFiniteSet(P) /\ IsFiniteSet(W) /\ Cardinality(P) \in Nat /\ Cardinality(W) \in Nat
      /\ Cardinality(Q) \in Nat /\ Cardinality(P \cap W) \in Nat
  BY <1>3, RowsFinite
<1>6. IsFiniteSet(P \cup W)
      /\ Cardinality(P \cup W) = Cardinality(P) + Cardinality(W) - Cardinality(P \cap W)
  BY <1>5, FS_Union
<1>7. Cardinality(Q) <= Cardinality(P \cup W)
  BY <1>2, <1>6, FS_Subset
<1>8. Cardinality(Q) <= Cardinality(P) + d
  BY <1>1, <1>4, <1>5, <1>6, <1>7
<1> QED
  BY <1>8 DEF P, Q, d

-----------------------------------------------------------------------------
(* The walk. *)

LEMMA NextOffset ==
  ASSUME NEW p \in Nat \ {0}, NEW n \in Nat
  PROVE  (p - 1) * n \in Nat /\ p * n \in Nat /\ (p - 1) * n + n = p * n /\ ((p + 1) - 1) * n = p * n
  OBVIOUS

(* The page arithmetic, where the offset is within the table. *)
LEMMA PageIsAWindow ==
  ASSUME TypeOK, page \in Nat \ {0}, req.size # 0, (page - 1) * req.size \in 0 .. MaxID,
         ~Refused(page, req.size)
  PROVE  /\ req.size \in Nat \ {0}
         /\ Page(Rows(req)) = Window(Rows(req), (page - 1) * req.size,
                                     (page - 1) * req.size + req.size)
<1> DEFINE b == (page - 1) * req.size
           M == 2 * MaxInt + 2
<1>1. req.size \in 1 .. 2 * MaxInt + 1 /\ MaxInt \in Nat /\ b \in Nat /\ b <= MaxInt
  BY RecordsAssumption, IntAssumption DEF TypeOK, UInt
<1>2. b % M = b
  <2> HIDE DEF b
  <2> QED
    BY <1>1
<1>3. Skip(page, req.size) = b
  <2>1. Skip(page, req.size) = ToInt(b % M)
    BY DEF Skip
  <2> HIDE DEF b, M
  <2> QED
    BY <1>1, <1>2, <2>1 DEF ToInt
<1>4. ToInt(req.size) = req.size
  BY <1>1 DEF Refused, ToInt
<1>5. \A x \in Rows(req) : OnPage(Position(x, Rows(req)), page, req.size)
        <=> b <= Position(x, Rows(req)) /\ Position(x, Rows(req)) < b + req.size
  <2> SUFFICES ASSUME NEW x \in Rows(req)
               PROVE  OnPage(Position(x, Rows(req)), page, req.size)
                      <=> b <= Position(x, Rows(req)) /\ Position(x, Rows(req)) < b + req.size
    OBVIOUS
  <2>1. Position(x, Rows(req)) \in Nat
    BY PositionNat, RowsAreIDs
  <2> HIDE DEF b
  <2> QED
    BY <1>1, <1>3, <1>4, <2>1 DEF OnPage
<1> QED
  BY <1>1, <1>5 DEF Page, Window

(* A page that is full lies within the list. *)
LEMMA FullPage ==
  ASSUME TypeOK, page \in Nat \ {0}, req.size # 0, (page - 1) * req.size \in 0 .. MaxID,
         ~Refused(page, req.size), Cardinality(Page(Rows(req))) >= req.size
  PROVE  page * req.size \in 0 .. MaxID
<1> DEFINE R == Rows(req)
           z == req.size
           b == (page - 1) * z
           h == IF Cardinality(R) < b THEN b ELSE Cardinality(R)
<1>1. R \in SUBSET IDs /\ MaxID \in Nat
  BY RowsAreIDs, RecordsAssumption
<1>2. z \in Nat \ {0} /\ Page(R) = Window(R, b, b + z)
  BY PageIsAWindow
<1>3. b \in Nat /\ b + z = page * z
  BY <1>1, <1>2, NextOffset
<1>4. Cardinality(R) \in 0 .. MaxID
  BY <1>1, RowsFinite
<1>5. ~(Cardinality(R) < b + z)
  <2> SUFFICES ASSUME Cardinality(R) < b + z PROVE FALSE
    OBVIOUS
  <2>1. h \in Nat /\ b <= h /\ h - b < z /\ Cardinality(R) <= h
    BY <1>2, <1>3, <1>4
  <2>2. Page(R) \in SUBSET Window(R, b, h)
    <3> SUFFICES ASSUME NEW x \in Page(R) PROVE x \in Window(R, b, h)
      OBVIOUS
    <3>1. x \in R /\ b <= Position(x, R)
      BY <1>2 DEF Window
    <3>2. Position(x, R) \in 0 .. Cardinality(R) - 1
      BY <1>1, <3>1, PositionType
    <3>3. Position(x, R) < h
      <4> HIDE DEF h, R
      <4> QED
        BY <1>4, <2>1, <3>2
    <3> QED
      BY <3>1, <3>3 DEF Window
  <2> HIDE DEF h, b
  <2>3. Cardinality(Window(R, b, h)) \in 0 .. h - b
    BY <1>1, <1>3, <2>1, WindowFits
  <2>4. Window(R, b, h) \in SUBSET IDs
    BY <1>1 DEF Window
  <2>5. Cardinality(Page(R)) \in Nat /\ Cardinality(Page(R)) <= Cardinality(Window(R, b, h))
    BY <2>2, <2>4, SubsetCounts
  <2> QED
    BY <1>2, <1>3, <2>1, <2>3, <2>5
<1>6. b + z \in 0 .. MaxID
  <2> HIDE DEF b, R, z
  <2> QED
    BY <1>1, <1>2, <1>3, <1>4, <1>5
<1> QED
  BY <1>3, <1>6

Fewer(O) == Cardinality(O) <= left

(* What a walk from the first page knows of the rows it has not shown.     *)
SkipInv ==
  /\ at \in {"list", "answered"} => owed \subseteq Rows(req)
  /\ req.page = 1 =>
       /\ at = "list" /\ req.size = 0 => page = 1
       /\ at = "list" /\ req.size # 0 =>
            /\ page \in Nat \ {0} /\ (page - 1) * req.size \in 0 .. MaxID
            /\ Fewer(Passed(owed, Rows(req), (page - 1) * req.size))
       /\ at = "answered" /\ req.size # 0 /\ got >= req.size =>
            /\ page \in Nat \ {0} /\ page * req.size \in 0 .. MaxID
            /\ Fewer(Passed(owed, Rows(req), page * req.size))
       /\ at = "answered" /\ (req.size = 0 \/ got < req.size) => Fewer(owed)
       /\ at = "done" => Fewer(owed)

LEMMA SkipInit == Init => SkipInv
  BY DEF Init, SkipInv

LEMMA SkipObserve == TypeOK /\ SkipInv /\ Observe => SkipInv'
<1> SUFFICES ASSUME TypeOK, SkipInv, Observe PROVE SkipInv'
  OBVIOUS
<1> DEFINE R == Rows(req)
           S == Rows(req)'
           d == Cardinality(R \ S)
<1>1. UNCHANGED <<at, req, page, got>> /\ owed' = owed \cap S
  BY DEF Observe
<1>2. R \in SUBSET IDs /\ S \in SUBSET IDs /\ R \ S \in SUBSET IDs
  <2>1. S \subseteq IDs
    BY DEF Rows, GetTaskList, GetTaskLogList, TaskRows, LogRows
  <2> QED
    BY <2>1, RowsAreIDs
<1>3. d \in Nat /\ left \in Nat /\ owed \in SUBSET IDs /\ owed' \in SUBSET owed
  <2> HIDE DEF R, S
  <2> QED
    BY <1>1, <1>2, RowsFinite DEF TypeOK
<1>4. Cardinality(owed') <= Cardinality(owed) /\ Cardinality(owed') \in Nat /\ Cardinality(owed) \in Nat
  BY <1>3, SubsetCounts
<1>5. ASSUME at \in {"list", "answered"} PROVE left' = left + d
  BY <1>5 DEF Observe
<1>6. ASSUME at \in {"list", "answered"}, NEW n \in Nat, Fewer(Passed(owed, R, n))
      PROVE  Cardinality(Passed(owed', S, n)) <= left'
  <2>1. owed \in SUBSET R
    BY <1>6 DEF SkipInv
  <2>2. Cardinality(Passed(owed \cap S, S, n)) <= Cardinality(Passed(owed, R, n)) + d
    <3> HIDE DEF R, S
    <3> QED
      BY <1>2, <2>1, PassedGrows
  <2>3. Cardinality(Passed(owed, R, n)) \in Nat /\ Cardinality(Passed(owed \cap S, S, n)) \in Nat
    <3>1. Passed(owed, R, n) \in SUBSET IDs /\ Passed(owed \cap S, S, n) \in SUBSET IDs
      BY <1>3 DEF Passed
    <3> QED
      BY <3>1, RowsFinite
  <2> QED
    BY <1>1, <1>3, <1>5, <1>6, <2>2, <2>3 DEF Fewer
<1>7. ASSUME at \in {"list", "answered"} PROVE owed' \subseteq S
  BY <1>1
<1>8. ASSUME req.page = 1, at = "list", req.size # 0
      PROVE  /\ page \in Nat \ {0} /\ (page - 1) * req.size \in 0 .. MaxID
             /\ Cardinality(Passed(owed', S, (page - 1) * req.size)) <= left'
  <2>1. /\ page \in Nat \ {0} /\ (page - 1) * req.size \in 0 .. MaxID
        /\ Fewer(Passed(owed, R, (page - 1) * req.size))
    BY <1>8 DEF SkipInv
  <2>2. (page - 1) * req.size \in Nat
    BY <2>1, RecordsAssumption
  <2> QED
    BY <1>6, <1>8, <2>1, <2>2
<1>9. ASSUME req.page = 1, at = "answered", req.size # 0, got >= req.size
      PROVE  /\ page \in Nat \ {0} /\ page * req.size \in 0 .. MaxID
             /\ Cardinality(Passed(owed', S, page * req.size)) <= left'
  <2>1. /\ page \in Nat \ {0} /\ page * req.size \in 0 .. MaxID
        /\ Fewer(Passed(owed, R, page * req.size))
    BY <1>9 DEF SkipInv
  <2>2. page * req.size \in Nat
    BY <2>1, RecordsAssumption
  <2> QED
    BY <1>6, <1>9, <2>1, <2>2
<1>10. ASSUME req.page = 1, at = "answered", req.size = 0 \/ got < req.size
       PROVE  Cardinality(owed') <= left'
  <2>1. Cardinality(owed) <= left
    BY <1>10 DEF SkipInv, Fewer
  <2>2. left' = left + d
    BY <1>5, <1>10
  <2> HIDE DEF d
  <2> QED
    BY <1>3, <1>4, <2>1, <2>2
<1>11. ASSUME req.page = 1, at = "done" PROVE Cardinality(owed') <= left'
  <2>1. Cardinality(owed) <= left
    BY <1>11 DEF SkipInv, Fewer
  <2>2. left' = left
    BY <1>11 DEF Observe
  <2> HIDE DEF d
  <2> QED
    BY <1>3, <1>4, <2>1, <2>2
<1>12. at = "list" /\ req.page = 1 /\ req.size = 0 => page = 1
  BY DEF SkipInv
<1> HIDE DEF R, d
<1> QED
  BY <1>1, <1>7, <1>8, <1>9, <1>10, <1>11, <1>12 DEF SkipInv, Fewer

LEMMA SkipList == TypeOK /\ SkipInv /\ ListPage => SkipInv'
<1> SUFFICES ASSUME TypeOK, SkipInv, ListPage PROVE SkipInv'
  OBVIOUS
<1> SUFFICES ASSUME req.page = 1
             PROVE  IF req.size # 0 /\ got' >= req.size
                    THEN /\ page \in Nat \ {0} /\ page * req.size \in 0 .. MaxID
                         /\ Cardinality(Passed(owed', Rows(req), page * req.size)) <= left
                    ELSE Cardinality(owed') <= left
  <2>1. /\ at = "list" /\ at' = "answered" /\ owed' \subseteq owed /\ UNCHANGED <<req, page, left>>
        /\ Rows(req)' = Rows(req)
    BY DEF ListPage, taskVars, logVars, Rows, GetTaskList, GetTaskLogList, TaskRows, LogRows,
           ResultAdmits, HasTasksWith
  <2>2. owed' \subseteq Rows(req)'
    BY <2>1 DEF SkipInv
  <2>3. got' \in Int /\ (req.size # 0 => req.size \in Nat)
    <3>1. got' = Cardinality(Page(Rows(req)))
      BY DEF ListPage
    <3>2. got' \in 0 .. MaxID
      BY <3>1, PageOfRows, RowsFinite
    <3> QED
      BY <3>2, RecordsAssumption, IntAssumption DEF TypeOK, UInt
  <2> QED
    BY <2>1, <2>2, <2>3 DEF SkipInv, Fewer
<1> DEFINE R == Rows(req)
           z == req.size
           b == (page - 1) * z
           rows == Page(R)
<1>1. /\ at = "list" /\ ~Refused(page, z) /\ got' = Cardinality(rows) /\ owed' = owed \ rows
  BY DEF ListPage
<1>2. R \in SUBSET IDs /\ owed \in SUBSET R /\ left \in Nat /\ MaxID \in Nat
  BY <1>1, RowsAreIDs, RecordsAssumption DEF SkipInv, TypeOK
<1>3. CASE z = 0
  <2>1. page = 1
    BY <1>1, <1>3 DEF SkipInv
  <2>2. Skip(page, z) = 0
    BY <1>3, <2>1, IntAssumption DEF Skip, ToInt
  <2>3. rows = R
    <3>1. \A x \in R : Position(x, R) \in Nat
      BY <1>2, PositionNat
    <3> QED
      BY <1>3, <2>2, <3>1 DEF Page, OnPage
  <2>4. owed' = {}
    BY <1>1, <1>2, <2>3
  <2> QED
    BY <1>2, <1>3, <2>4, FS_EmptySet
<1>4. CASE z # 0
  <2>1. /\ page \in Nat \ {0} /\ b \in 0 .. MaxID /\ Fewer(Passed(owed, R, b))
    BY <1>1, <1>4 DEF SkipInv
  <2>2. z \in Nat \ {0} /\ rows = Window(R, b, b + z)
    BY <1>1, <1>4, <2>1, PageIsAWindow
  <2>3. b \in Nat /\ b + z = page * z
    BY <1>2, <2>1, <2>2, NextOffset
  <2>4. Cardinality(R) \in 0 .. MaxID
    BY <1>2, RowsFinite
  <2>5. Cardinality(Passed(owed, R, b)) \in Nat /\ Cardinality(Passed(owed, R, b)) <= left
    <3>1. Passed(owed, R, b) \in SUBSET IDs
      BY <1>2 DEF Passed
    <3> QED
      BY <2>1, <3>1, RowsFinite DEF Fewer
  <2>6. ASSUME NEW O \in SUBSET Passed(owed, R, b) PROVE Cardinality(O) <= left
    <3>1. Passed(owed, R, b) \in SUBSET IDs
      BY <1>2 DEF Passed
    <3>2. Cardinality(O) \in Nat /\ Cardinality(O) <= Cardinality(Passed(owed, R, b))
      BY <3>1, SubsetCounts
    <3> QED
      BY <1>2, <2>5, <3>2
  <2>7. CASE got' >= z
    <3>2. Passed(owed', R, b + z) \in SUBSET Passed(owed, R, b)
      <4> SUFFICES ASSUME NEW x \in Passed(owed', R, b + z) PROVE x \in Passed(owed, R, b)
        OBVIOUS
      <4>1. x \in owed /\ x \notin rows /\ Position(x, R) < b + z
        BY <1>1 DEF Passed
      <4>2. x \in R /\ Position(x, R) \in Nat
        BY <1>2, <4>1, PositionNat
      <4>3. ~(b <= Position(x, R))
        BY <2>2, <4>1, <4>2 DEF Window
      <4>4. Position(x, R) < b
        <5> HIDE DEF b, R
        <5> QED
          BY <2>3, <4>2, <4>3
      <4> QED
        BY <4>1, <4>4 DEF Passed
    <3>3. Cardinality(Passed(owed', R, page * z)) <= left
      BY <2>3, <2>6, <3>2
    <3>4. page * z \in 0 .. MaxID
      BY <1>1, <1>4, <2>1, <2>7, FullPage
    <3> QED
      BY <1>4, <2>1, <2>7, <3>3, <3>4
  <2>8. CASE ~(got' >= z)
    <3>1. owed' \in SUBSET Passed(owed, R, b)
      <4> SUFFICES ASSUME NEW x \in owed' PROVE x \in Passed(owed, R, b)
        OBVIOUS
      <4>1. x \in owed /\ x \notin rows /\ x \in R
        BY <1>1, <1>2
      <4>2. Position(x, R) \in 0 .. Cardinality(R) - 1 /\ Position(x, R) \in Nat
        BY <1>2, <4>1, PositionType, PositionNat
      <4>3. Position(x, R) < b + z
        <5> SUFFICES ASSUME ~(Position(x, R) < b + z) PROVE FALSE
          OBVIOUS
        <5>1. b + z \in Nat /\ b <= b + z /\ b + z <= Cardinality(R)
          <6> HIDE DEF b, R, z
          <6> QED
            BY <2>2, <2>3, <2>4, <4>2
        <5>2. Cardinality(Window(R, b, b + z)) >= (b + z) - b
          <6> HIDE DEF b, R, z
          <6> QED
            BY <1>2, <2>3, <5>1, WindowIsFull
        <5>3. (b + z) - b = z
          <6> HIDE DEF b
          <6> QED
            BY <2>2, <2>3
        <5> QED
          BY <1>1, <2>2, <2>8, <5>2, <5>3
      <4>4. Position(x, R) < b
        <5>1. ~(b <= Position(x, R))
          BY <2>2, <4>1, <4>3 DEF Window
        <5> HIDE DEF b, R
        <5> QED
          BY <2>3, <4>2, <5>1
      <4> QED
        BY <4>1, <4>4 DEF Passed
    <3> QED
      BY <2>6, <2>8, <3>1
  <2> QED
    BY <2>7, <2>8
<1> QED
  BY <1>3, <1>4

LEMMA SkipNext == TypeOK /\ SkipInv /\ NextPage => SkipInv'
<1> SUFFICES ASSUME TypeOK, SkipInv, NextPage PROVE SkipInv'
  OBVIOUS
<1>1. /\ at = "answered" /\ at' = "list" /\ req.size # 0 /\ got >= req.size
      /\ page' = page + 1 /\ UNCHANGED <<req, owed, left>> /\ Rows(req)' = Rows(req)
  BY DEF NextPage, taskVars, logVars, Rows, GetTaskList, GetTaskLogList, TaskRows, LogRows,
         ResultAdmits, HasTasksWith
<1>2. owed' \subseteq Rows(req)'
  BY <1>1 DEF SkipInv
<1>3. ASSUME req.page = 1
      PROVE  /\ page' \in Nat \ {0} /\ (page' - 1) * req.size \in 0 .. MaxID
             /\ Cardinality(Passed(owed, Rows(req), (page' - 1) * req.size)) <= left
  <2>1. /\ page \in Nat \ {0} /\ page * req.size \in 0 .. MaxID
        /\ Cardinality(Passed(owed, Rows(req), page * req.size)) <= left
    BY <1>1, <1>3 DEF SkipInv, Fewer
  <2>2. page' - 1 = page /\ page' \in Nat \ {0}
    BY <1>1, <2>1
  <2> QED
    BY <2>1, <2>2
<1> QED
  BY <1>1, <1>2, <1>3 DEF SkipInv, Fewer

LEMMA SkipAsk ==
  ASSUME TypeOK, NEW q \in Lists, Ask(q)
  PROVE  SkipInv'
<1>1. /\ at' = "list" /\ req' = q /\ page' = q.page /\ owed' = Rows(q) /\ left' = 0
      /\ Rows(req)' = Rows(q)
  BY DEF Ask, taskVars, logVars, Rows, GetTaskList, GetTaskLogList, TaskRows, LogRows,
         ResultAdmits, HasTasksWith
<1>2. ASSUME q.page = 1, q.size # 0
      PROVE  /\ page' \in Nat \ {0} /\ (page' - 1) * q.size \in 0 .. MaxID
             /\ Cardinality(Passed(Rows(q), Rows(q), (page' - 1) * q.size)) <= 0
  <2>1. q.size \in Nat /\ MaxID \in Nat
    BY RecordsAssumption, IntAssumption DEF UInt
  <2>2. page' = 1 /\ (page' - 1) * q.size = 0
    BY <1>1, <1>2, <2>1
  <2>3. \A x \in Rows(q) : Position(x, Rows(q)) \in Nat
    BY RowsAreIDs, PositionNat
  <2>4. Passed(Rows(q), Rows(q), 0) = {}
    BY <2>3 DEF Passed
  <2> QED
    BY <2>1, <2>2, <2>4, FS_EmptySet
<1> QED
  BY <1>1, <1>2 DEF SkipInv, Fewer

LEMMA SkipStep == TypeOK /\ SkipInv /\ [Next]_vars => SkipInv'
<1> SUFFICES ASSUME TypeOK, SkipInv, [Next]_vars PROVE SkipInv'
  OBVIOUS
<1>1. CASE Observe
  BY <1>1, SkipObserve
<1>2. ASSUME NEW q \in Lists, Ask(q) PROVE SkipInv'
  BY <1>2, SkipAsk
<1>3. CASE ListPage
  BY <1>3, SkipList
<1>4. CASE ListFails
  BY <1>4 DEF ListFails, SkipInv
<1>5. CASE NextPage
  BY <1>5, SkipNext
<1>6. CASE Finish
  BY <1>6 DEF Finish, SkipInv, Fewer
<1>7. CASE UNCHANGED vars
  <2>1. UNCHANGED <<at, req, page, got, owed, left>> /\ Rows(req)' = Rows(req)
    BY <1>7 DEF vars, walkVars, taskVars, logVars, Rows, GetTaskList, GetTaskLogList,
       TaskRows, LogRows, ResultAdmits, HasTasksWith
  <2> QED
    BY <2>1 DEF SkipInv, Fewer
<1> QED
  BY <1>1, <1>2, <1>3, <1>4, <1>5, <1>6, <1>7 DEF Next, CreateTask, UpdateTask, DeleteTask,
     CreateTaskLog, WriteTaskLog, InsertLog, UpdateTaskLog, DeleteTaskLog

(* A walk over a list of any length, in pages of any size, beside any      *)
(* writes, has missed at most as many rows as left the list meanwhile.     *)
THEOREM DeparturesOnly == Spec => []SkipsOnlyForDepartures
<1>1. Init => TypeOK /\ SkipInv
  BY InitType, SkipInit
<1>2. TypeOK /\ SkipInv /\ [Next]_vars => (TypeOK /\ SkipInv)'
  BY StepType, SkipStep
<1>3. SkipInv => SkipsOnlyForDepartures
  BY DEF SkipInv, SkipsOnlyForDepartures, Fewer
<1> QED
  BY <1>1, <1>2, <1>3, PTL DEF Spec

-----------------------------------------------------------------------------
(* Rows that are shown twice. *)

(* The rows of H that a walk which has read n rows of R has yet to come to. *)
Ahead(H, R, n) == {x \in H \cap R : ~(Position(x, R) < n)}

LEMMA TwoParts ==
  ASSUME NEW A \in SUBSET IDs, NEW B \in SUBSET IDs, A \cap B = {}
  PROVE  /\ Cardinality(A) \in Nat /\ Cardinality(B) \in Nat
         /\ Cardinality(A \cup B) = Cardinality(A) + Cardinality(B)
<1>1. IsFiniteSet(A) /\ IsFiniteSet(B) /\ Cardinality(A) \in Nat /\ Cardinality(B) \in Nat
  BY RowsFinite
<1>2. Cardinality(A \cup B) = Cardinality(A) + Cardinality(B) - Cardinality(A \cap B)
  BY <1>1, FS_Union
<1>3. Cardinality(A \cap B) = 0
  BY FS_EmptySet
<1> QED
  BY <1>1, <1>2, <1>3

(* Rows that were among the first n and are no longer have made room for   *)
(* as many that came.                                                      *)
LEMMA Displaced ==
  ASSUME NEW R \in SUBSET IDs, NEW S \in SUBSET IDs, NEW n \in Nat,
         NEW K \in SUBSET (R \cap S),
         \A x \in K : Position(x, R) < n /\ ~(Position(x, S) < n)
  PROVE  Cardinality(K) <= Cardinality({x \in S \ R : Position(x, S) < n})
<1> DEFINE A == {x \in S \ R : Position(x, S) < n}
           T == Window(S, 0, n)
           U == Window(R, 0, n)
           V == T \cap R
<1>1. \A x \in R : Position(x, R) \in Nat
  BY PositionNat
<1>2. \A x \in S : Position(x, S) \in Nat
  BY PositionNat
<1>3. A \in SUBSET IDs /\ V \in SUBSET IDs /\ K \in SUBSET IDs /\ T \in SUBSET IDs /\ U \in SUBSET IDs
  BY DEF Window
<1>4. Cardinality(K) \in Nat /\ Cardinality(A) \in Nat /\ Cardinality(V) \in Nat
  <2> HIDE DEF A, V
  <2> QED
    BY <1>3, RowsFinite
<1>5. CASE K = {}
  <2>1. Cardinality(K) = 0
    BY <1>5, FS_EmptySet
  <2> HIDE DEF A
  <2> QED
    BY <1>4, <2>1 DEF A
<1>6. CASE K # {}
  <2>1. PICK k \in K : TRUE
    BY <1>6
  <2>2. /\ k \in R /\ k \in S /\ Position(k, R) \in Nat /\ Position(k, S) \in Nat
        /\ Position(k, R) < n /\ n <= Position(k, S)
    BY <1>1, <1>2, <2>1
  <2>3. n <= Cardinality(S)
    <3>1. Position(k, S) \in 0 .. Cardinality(S) - 1 /\ Cardinality(S) \in Nat
      BY <2>2, PositionType, RowsFinite
    <3> QED
      BY <2>2, <3>1
  <2>4. Cardinality(T) >= n
    <3>1. Cardinality(T) >= n - 0
      BY <2>3, WindowIsFull
    <3> QED
      BY <3>1
  <2>5. Cardinality(U) \in Nat /\ Cardinality(U) <= n
    <3>1. Cardinality(U) \in 0 .. n - 0
      BY WindowFits
    <3> QED
      BY <3>1
  <2>6. V \in SUBSET U
    <3> SUFFICES ASSUME NEW y \in V PROVE y \in U
      OBVIOUS
    <3>1. y \in R /\ y \in S /\ Position(y, S) < n /\ Position(y, R) \in Nat /\ Position(y, S) \in Nat
      BY <1>1, <1>2 DEF Window
    <3>2. ~(k > y)
      <4> SUFFICES ASSUME k > y PROVE FALSE
        OBVIOUS
      <4>1. Position(k, S) < Position(y, S)
        BY <2>2, <3>1, PositionOrders
      <4> QED
        BY <2>2, <3>1, <4>1
    <3>3. y # k
      BY <2>2, <3>1
    <3>4. y > k
      BY <2>2, <3>1, <3>2, <3>3, IDsOrdered
    <3>5. Position(y, R) < Position(k, R)
      BY <2>2, <3>1, <3>4, PositionOrders
    <3>6. Position(y, R) < n
      BY <2>2, <3>1, <3>5
    <3> QED
      BY <3>1, <3>6 DEF Window
  <2>7. K \in SUBSET U /\ K \cap V = {}
    BY <1>1 DEF Window
  <2>8. Cardinality(K) + Cardinality(V) <= n
    <3>1. K \cup V \in SUBSET U
      BY <2>6, <2>7
    <3> HIDE DEF U, V
    <3>2. Cardinality(K \cup V) <= Cardinality(U) /\ Cardinality(K \cup V) \in Nat
      BY <1>3, <3>1, SubsetCounts
    <3>3. Cardinality(K \cup V) = Cardinality(K) + Cardinality(V)
      BY <1>3, <2>7, TwoParts
    <3> QED
      BY <1>4, <2>5, <3>2, <3>3
  <2>9. Cardinality(T) = Cardinality(V) + Cardinality(A)
    <3>1. T = V \cup A /\ V \cap A = {}
      BY <1>2 DEF Window
    <3> HIDE DEF T, V, A
    <3> QED
      BY <1>3, <3>1, TwoParts
  <2> HIDE DEF A, T, V, U
  <2>10. Cardinality(K) <= Cardinality(A)
    BY <1>4, <2>4, <2>8, <2>9
  <2> QED
    BY <2>10 DEF A
<1> QED
  BY <1>5, <1>6

LEMMA AheadGrows ==
  ASSUME NEW R \in SUBSET IDs, NEW S \in SUBSET IDs, NEW H \in SUBSET IDs, NEW n \in Nat
  PROVE  Cardinality(Ahead(H, S, n)) <= Cardinality(Ahead(H, R, n)) + Cardinality(S \ R)
<1> DEFINE X == Ahead(H, S, n)
           Y == Ahead(H, R, n)
           K == {x \in X : x \in R /\ Position(x, R) < n}
           B == {x \in S \ R : ~(Position(x, S) < n)}
           A == {x \in S \ R : Position(x, S) < n}
           D == S \ R
<1>1. X \in SUBSET ((Y \cup K) \cup B)
  BY DEF Ahead
<1>2. /\ X \in SUBSET IDs /\ Y \in SUBSET IDs /\ K \in SUBSET IDs /\ A \in SUBSET IDs
      /\ B \in SUBSET IDs /\ D \in SUBSET IDs
  BY DEF Ahead
<1>3. Y \cap K = {} /\ (Y \cup K) \cap B = {}
  BY DEF Ahead
<1>4. D = A \cup B /\ A \cap B = {}
  OBVIOUS
<1>5. Cardinality(K) <= Cardinality(A)
  <2>1. K \in SUBSET (R \cap S) /\ \A x \in K : Position(x, R) < n /\ ~(Position(x, S) < n)
    BY DEF Ahead
  <2> HIDE DEF K
  <2> QED
    BY <2>1, Displaced
<1> HIDE DEF X, Y, K, A, B, D
<1>6. /\ Cardinality(X) \in Nat /\ Cardinality(Y) \in Nat /\ Cardinality(K) \in Nat
      /\ Cardinality(A) \in Nat /\ Cardinality(B) \in Nat
  BY <1>2, RowsFinite
<1>7. Cardinality(D) = Cardinality(A) + Cardinality(B)
  BY <1>2, <1>4, TwoParts
<1>8. Cardinality(Y \cup K) = Cardinality(Y) + Cardinality(K)
  BY <1>2, <1>3, TwoParts
<1>9. Y \cup K \in SUBSET IDs /\ (Y \cup K) \cup B \in SUBSET IDs
  BY <1>2
<1>10. Cardinality((Y \cup K) \cup B) = Cardinality(Y) + Cardinality(K) + Cardinality(B)
  <2> DEFINE Z == Y \cup K
  <2>1. Z \in SUBSET IDs /\ Z \cap B = {} /\ Cardinality(Z) = Cardinality(Y) + Cardinality(K)
    BY <1>3, <1>8, <1>9
  <2> HIDE DEF Z
  <2>2. Cardinality(Z \cup B) = Cardinality(Z) + Cardinality(B)
    BY <1>2, <2>1, TwoParts
  <2>3. Cardinality(Z \cup B) = Cardinality(Y) + Cardinality(K) + Cardinality(B)
    BY <2>1, <2>2
  <2> QED
    BY <2>3 DEF Z
<1>11. Cardinality(X) <= Cardinality((Y \cup K) \cup B)
  BY <1>1, <1>9, SubsetCounts
<1>12. Cardinality(X) <= Cardinality(Y) + Cardinality(D)
  BY <1>5, <1>6, <1>7, <1>10, <1>11
<1> QED
  BY <1>12 DEF X, Y, D

(* What is still ahead and was shown will be shown again; that and what    *)
(* was shown again already is not more than what came.                     *)
RepeatInv ==
  req.page = 1 =>
    /\ at = "list" /\ req.size = 0 => page = 1 /\ shown = {} /\ repeats = 0
    /\ at = "list" /\ req.size # 0 =>
         /\ page \in Nat \ {0} /\ (page - 1) * req.size \in 0 .. MaxID
         /\ Cardinality(Ahead(shown, Rows(req), (page - 1) * req.size)) + repeats <= came
    /\ at = "answered" /\ req.size # 0 /\ got >= req.size =>
         /\ page \in Nat \ {0} /\ page * req.size \in 0 .. MaxID
         /\ Cardinality(Ahead(shown, Rows(req), page * req.size)) + repeats <= came
    /\ at # "idle" => repeats <= came

LEMMA RepeatInit == Init => RepeatInv
  BY DEF Init, RepeatInv

LEMMA RepeatObserve == TypeOK /\ RepeatInv /\ Observe => RepeatInv'
<1> SUFFICES ASSUME TypeOK, RepeatInv, Observe PROVE RepeatInv'
  OBVIOUS
<1> DEFINE R == Rows(req)
           S == Rows(req)'
           d == Cardinality(S \ R)
<1>1. UNCHANGED <<at, req, page, got, shown, repeats>>
  BY DEF Observe
<1>2. R \in SUBSET IDs /\ S \in SUBSET IDs /\ S \ R \in SUBSET IDs
  <2>1. S \subseteq IDs
    BY DEF Rows, GetTaskList, GetTaskLogList, TaskRows, LogRows
  <2> QED
    BY <2>1, RowsAreIDs
<1>3. d \in Nat /\ came \in Nat /\ repeats \in Nat /\ shown \in SUBSET IDs
  <2> HIDE DEF R, S
  <2> QED
    BY <1>2, RowsFinite DEF TypeOK
<1>4. came' \in Nat /\ came <= came' /\ (at \in {"list", "answered"} => came' = came + d)
  <2>1. came' = came + d \/ came' = came
    BY DEF Observe
  <2>2. at \in {"list", "answered"} => came' = came + d
    BY DEF Observe
  <2> HIDE DEF d
  <2> QED
    BY <1>3, <2>1, <2>2
<1>5. ASSUME at \in {"list", "answered"}, NEW n \in Nat,
             Cardinality(Ahead(shown, R, n)) + repeats <= came
      PROVE  Cardinality(Ahead(shown, S, n)) + repeats <= came'
  <2>1. Cardinality(Ahead(shown, S, n)) <= Cardinality(Ahead(shown, R, n)) + d
    <3> HIDE DEF R, S
    <3> QED
      BY <1>2, <1>3, AheadGrows
  <2>2. Cardinality(Ahead(shown, R, n)) \in Nat /\ Cardinality(Ahead(shown, S, n)) \in Nat
    <3>1. Ahead(shown, R, n) \in SUBSET IDs /\ Ahead(shown, S, n) \in SUBSET IDs
      BY <1>3 DEF Ahead
    <3> QED
      BY <3>1, RowsFinite
  <2> HIDE DEF R, S, d
  <2> QED
    BY <1>3, <1>4, <1>5, <2>1, <2>2
<1>6. ASSUME req.page = 1, at = "list", req.size # 0
      PROVE  /\ page \in Nat \ {0} /\ (page - 1) * req.size \in 0 .. MaxID
             /\ Cardinality(Ahead(shown, S, (page - 1) * req.size)) + repeats <= came'
  <2>1. /\ page \in Nat \ {0} /\ (page - 1) * req.size \in 0 .. MaxID
        /\ Cardinality(Ahead(shown, R, (page - 1) * req.size)) + repeats <= came
    BY <1>6 DEF RepeatInv
  <2>2. (page - 1) * req.size \in Nat
    BY <2>1, RecordsAssumption
  <2> QED
    BY <1>5, <1>6, <2>1, <2>2
<1>7. ASSUME req.page = 1, at = "answered", req.size # 0, got >= req.size
      PROVE  /\ page \in Nat \ {0} /\ page * req.size \in 0 .. MaxID
             /\ Cardinality(Ahead(shown, S, page * req.size)) + repeats <= came'
  <2>1. /\ page \in Nat \ {0} /\ page * req.size \in 0 .. MaxID
        /\ Cardinality(Ahead(shown, R, page * req.size)) + repeats <= came
    BY <1>7 DEF RepeatInv
  <2>2. page * req.size \in Nat
    BY <2>1, RecordsAssumption
  <2> QED
    BY <1>5, <1>7, <2>1, <2>2
<1>8. ASSUME req.page = 1, at # "idle" PROVE repeats <= came'
  <2>1. repeats <= came
    BY <1>8 DEF RepeatInv
  <2> QED
    BY <1>3, <1>4, <2>1
<1>9. req.page = 1 /\ at = "list" /\ req.size = 0 => page = 1 /\ shown = {} /\ repeats = 0
  BY DEF RepeatInv
<1> HIDE DEF R, d
<1> QED
  BY <1>1, <1>6, <1>7, <1>8, <1>9 DEF RepeatInv

LEMMA RepeatList == TypeOK /\ RepeatInv /\ ListPage => RepeatInv'
<1> SUFFICES ASSUME TypeOK, RepeatInv, ListPage PROVE RepeatInv'
  OBVIOUS
<1> DEFINE R == Rows(req)
           z == req.size
           b == (page - 1) * z
           rows == Page(R)
<1>1. /\ at = "list" /\ at' = "answered" /\ ~Refused(page, z) /\ UNCHANGED <<req, page, came>>
      /\ got' = Cardinality(rows) /\ shown' = shown \cup rows
      /\ repeats' = repeats + Cardinality(rows \cap shown)
  BY DEF ListPage
<1>2. Rows(req)' = R
  BY DEF ListPage, taskVars, logVars, Rows, GetTaskList, GetTaskLogList, TaskRows, LogRows,
         ResultAdmits, HasTasksWith
<1>3. /\ R \in SUBSET IDs /\ rows \in SUBSET IDs /\ shown \in SUBSET IDs
      /\ repeats \in Nat /\ came \in Nat /\ MaxID \in Nat
  BY RowsAreIDs, PageOfRows, RecordsAssumption DEF TypeOK
<1> SUFFICES ASSUME req.page = 1
             PROVE  /\ z # 0 /\ got' >= z =>
                         /\ page \in Nat \ {0} /\ page * z \in 0 .. MaxID
                         /\ Cardinality(Ahead(shown', R, page * z)) + repeats' <= came
                    /\ repeats' <= came
  BY <1>1, <1>2 DEF RepeatInv
<1>4. CASE z = 0
  <2>1. shown = {} /\ repeats = 0 /\ 0 <= came
    BY <1>1, <1>3, <1>4 DEF RepeatInv
  <2>2. repeats' = 0
    <3>1. rows \cap shown = {}
      BY <2>1
    <3> QED
      BY <1>1, <2>1, <3>1, FS_EmptySet
  <2> QED
    BY <1>4, <2>1, <2>2
<1>5. CASE z # 0
  <2>1. /\ page \in Nat \ {0} /\ b \in 0 .. MaxID
        /\ Cardinality(Ahead(shown, R, b)) + repeats <= came
    BY <1>1, <1>5 DEF RepeatInv
  <2>2. z \in Nat \ {0} /\ rows = Window(R, b, b + z)
    BY <1>1, <1>5, <2>1, PageIsAWindow
  <2>3. b \in Nat /\ b + z = page * z
    BY <1>3, <2>1, <2>2, NextOffset
  <2> DEFINE A == Ahead(shown, R, b)
             N == Ahead(shown', R, b + z)
             T == rows \cap shown
  <2>4. \A x \in R : Position(x, R) \in Nat
    BY <1>3, PositionNat
  <2>5. N \cup T \in SUBSET A /\ N \cap T = {}
    <3>1. \A x \in rows : x \in R /\ b <= Position(x, R) /\ Position(x, R) < b + z
      BY <2>2 DEF Window
    <3>2. \A x \in N : x \in shown /\ x \in R /\ ~(Position(x, R) < b + z)
      BY <1>1, <3>1 DEF Ahead
    <3>3. \A x \in N : ~(Position(x, R) < b)
      <4> SUFFICES ASSUME NEW x \in N PROVE ~(Position(x, R) < b)
        OBVIOUS
      <4>1. Position(x, R) \in Nat /\ ~(Position(x, R) < b + z)
        BY <2>4, <3>2
      <4> HIDE DEF b, z, N, R
      <4> QED
        BY <2>2, <2>3, <4>1
    <3>4. \A x \in T : ~(Position(x, R) < b)
      <4> SUFFICES ASSUME NEW x \in T PROVE ~(Position(x, R) < b)
        OBVIOUS
      <4>1. Position(x, R) \in Nat /\ b <= Position(x, R)
        BY <2>4, <3>1
      <4> HIDE DEF b, z, R
      <4> QED
        BY <2>3, <4>1
    <3>5. T \subseteq shown \cap R
      BY <3>1
    <3>6. N \subseteq A
      BY <3>2, <3>3 DEF Ahead
    <3>7. T \subseteq A
      BY <3>4, <3>5 DEF Ahead
    <3>8. N \cap T = {}
      BY <3>1, <3>2
    <3> QED
      BY <3>6, <3>7, <3>8
  <2>6. A \in SUBSET IDs /\ N \in SUBSET IDs /\ T \in SUBSET IDs
    BY <1>3, <2>5 DEF Ahead
  <2> HIDE DEF A, N, T
  <2>7. /\ Cardinality(N) \in Nat /\ Cardinality(T) \in Nat /\ Cardinality(A) \in Nat
        /\ Cardinality(N \cup T) = Cardinality(N) + Cardinality(T)
        /\ Cardinality(N \cup T) <= Cardinality(A)
    BY <2>5, <2>6, TwoParts, SubsetCounts
  <2>8. Cardinality(A) + repeats <= came /\ repeats' = repeats + Cardinality(T)
    BY <1>1, <2>1 DEF A, T
  <2>9. Cardinality(N) + repeats' <= came /\ repeats' <= came
    BY <1>3, <2>7, <2>8
  <2>10. ASSUME got' >= z PROVE page * z \in 0 .. MaxID
    BY <1>1, <1>5, <2>1, <2>10, FullPage
  <2>11. Cardinality(Ahead(shown', R, page * z)) + repeats' <= came
    BY <2>3, <2>9 DEF N
  <2> QED
    BY <2>1, <2>9, <2>10, <2>11
<1> QED
  BY <1>4, <1>5

LEMMA RepeatNext == TypeOK /\ RepeatInv /\ NextPage => RepeatInv'
<1> SUFFICES ASSUME TypeOK, RepeatInv, NextPage PROVE RepeatInv'
  OBVIOUS
<1>1. /\ at = "answered" /\ at' = "list" /\ req.size # 0 /\ got >= req.size
      /\ page' = page + 1 /\ UNCHANGED <<req, shown, repeats, came>> /\ Rows(req)' = Rows(req)
  BY DEF NextPage, taskVars, logVars, Rows, GetTaskList, GetTaskLogList, TaskRows, LogRows,
         ResultAdmits, HasTasksWith
<1>2. ASSUME req.page = 1
      PROVE  /\ page' \in Nat \ {0} /\ (page' - 1) * req.size \in 0 .. MaxID
             /\ Cardinality(Ahead(shown, Rows(req), (page' - 1) * req.size)) + repeats <= came
             /\ repeats <= came
  <2>1. /\ page \in Nat \ {0} /\ page * req.size \in 0 .. MaxID
        /\ Cardinality(Ahead(shown, Rows(req), page * req.size)) + repeats <= came
        /\ repeats <= came
    BY <1>1, <1>2 DEF RepeatInv
  <2>2. page' - 1 = page /\ page' \in Nat \ {0}
    BY <1>1, <2>1
  <2> QED
    BY <2>1, <2>2
<1> QED
  BY <1>1, <1>2 DEF RepeatInv

LEMMA RepeatAsk ==
  ASSUME TypeOK, NEW q \in Lists, Ask(q)
  PROVE  RepeatInv'
<1>1. at' = "list" /\ req' = q /\ page' = q.page /\ shown' = {} /\ repeats' = 0 /\ came' = 0
  BY DEF Ask
<1>2. ASSUME q.page = 1, q.size # 0
      PROVE  page' \in Nat \ {0} /\ (page' - 1) * q.size \in 0 .. MaxID
  <2>1. q.size \in Nat /\ MaxID \in Nat
    BY RecordsAssumption, IntAssumption DEF UInt
  <2>2. page' = 1 /\ (page' - 1) * q.size = 0
    BY <1>1, <1>2, <2>1
  <2> QED
    BY <2>1, <2>2
<1>3. \A R, n : Cardinality(Ahead({}, R, n)) = 0
  BY FS_EmptySet DEF Ahead
<1> QED
  BY <1>1, <1>2, <1>3 DEF RepeatInv

LEMMA RepeatStep == TypeOK /\ RepeatInv /\ [Next]_vars => RepeatInv'
<1> SUFFICES ASSUME TypeOK, RepeatInv, [Next]_vars PROVE RepeatInv'
  OBVIOUS
<1>1. CASE Observe
  BY <1>1, RepeatObserve
<1>2. ASSUME NEW q \in Lists, Ask(q) PROVE RepeatInv'
  BY <1>2, RepeatAsk
<1>3. CASE ListPage
  BY <1>3, RepeatList
<1>4. CASE ListFails
  BY <1>4 DEF ListFails, RepeatInv
<1>5. CASE NextPage
  BY <1>5, RepeatNext
<1>6. CASE Finish
  BY <1>6 DEF Finish, RepeatInv
<1>7. CASE UNCHANGED vars
  <2>1. UNCHANGED <<at, req, page, got, shown, repeats, came>> /\ Rows(req)' = Rows(req)
    BY <1>7 DEF vars, walkVars, taskVars, logVars, Rows, GetTaskList, GetTaskLogList,
       TaskRows, LogRows, ResultAdmits, HasTasksWith
  <2> QED
    BY <2>1 DEF RepeatInv
<1> QED
  BY <1>1, <1>2, <1>3, <1>4, <1>5, <1>6, <1>7 DEF Next, CreateTask, UpdateTask, DeleteTask,
     CreateTaskLog, WriteTaskLog, InsertLog, UpdateTaskLog, DeleteTaskLog

(* And it has shown at most as many rows twice as joined the list: those   *)
(* the newest push onto the next page.                                     *)
THEOREM ArrivalsOnly == Spec => []RepeatsOnlyForArrivals
<1>1. Init => TypeOK /\ RepeatInv
  BY InitType, RepeatInit
<1>2. TypeOK /\ RepeatInv /\ [Next]_vars => (TypeOK /\ RepeatInv)'
  BY StepType, RepeatStep
<1>3. RepeatInv => RepeatsOnlyForArrivals
  BY DEF RepeatInv, RepeatsOnlyForArrivals
<1> QED
  BY <1>1, <1>2, <1>3, PTL DEF Spec
=============================================================================
