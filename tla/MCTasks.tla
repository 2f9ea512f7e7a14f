------------------------------- MODULE MCTasks -------------------------------
(***************************************************************************)
(* The task RPCs for TLC, from both sides: their columns and lists         *)
(* (TaskRecords, as in MCTaskRecords) and their calls (TaskCalls).  Each   *)
(* has tables of its own, as detailed as its properties need, and is       *)
(* looked at while the other stands still (turn).                          *)
(***************************************************************************)
EXTENDS MCTaskRecords, TaskCalls

VARIABLE turn

(* At most two rows were there before, and two calls insert at most two    *)
(* each, so that MaxTaskID is never in the way.                            *)
SomeRequests == {
    [op |-> "create", pattern |-> hello],
    [op |-> "create", pattern |-> Nil],
    [op |-> "update", id |-> 1, pattern |-> hello],
    [op |-> "update", id |-> 2, pattern |-> Nil],
    [op |-> "update", id |-> Nil, pattern |-> Other],
    [op |-> "get", id |-> 1],
    [op |-> "delete", ids |-> {1, 2}],
    [op |-> "delete", ids |-> {1}],
    [op |-> "init"]}

TasksInit ==
    /\ Init /\ CallsInit
    /\ turn \in {"records", "calls"}
    /\ turn = "records" => nextID = 1
    /\ turn = "calls" => req = AllLogs

InRecords == turn = "records" /\ Next /\ UNCHANGED <<turn, callVars>>
InCalls == turn = "calls" /\ CallsNext /\ UNCHANGED <<turn, vars>>

TasksSpec == TasksInit /\ [][InRecords \/ InCalls]_<<turn, vars, callVars>> /\ Fairness
=============================================================================
