---------------------------- MODULE TaskService ----------------------------
(***************************************************************************)
(* What the task RPCs promise a client, whatever happens to messages,      *)
(* statements and the process: a call takes effect at one moment or not at *)
(* all, an answer that is clear is true of that moment, and a refusal      *)
(* means that nothing was or will be changed.  Only InitDatabase works in  *)
(* two steps.  An unclear answer says nothing: the call may have taken     *)
(* effect, and may still do so.                                            *)
(***************************************************************************)
EXTENDS Integers

CONSTANTS
    Calls,      \* the calls that clients make, each once; a repeat is another
    Requests,   \* what they may ask
    Patterns,   \* the patterns of tasks
    Seeds,      \* those of the tasks that InitDatabase inserts
    MaxID,      \* bounds the task ids handed out
    None        \* no task, request, outcome, answer, value or pattern

TaskIDs == 1 .. MaxID

VARIABLES
    tasks,      \* the pattern of each row of sys_tasks
    nextID,     \* the ids below are used up
    req,        \* what each call asks
    seeds,      \* the patterns of the tasks that it has inserted as InitDatabase
    outcome,    \* what came of it
    answer      \* what the client was told
vars == <<tasks, nextID, req, seeds, outcome, answer>>

Exists(id) == tasks[id] # None
Held(p) == \E id \in TaskIDs : tasks[id] = p
HeldByOther(p, id) == \E i \in TaskIDs \ {id} : tasks[i] = p

Insert(id, p) ==
    /\ id >= nextID /\ ~Held(p)
    /\ tasks' = [tasks EXCEPT ![id] = p]
    /\ nextID' = id + 1

Outcome(err, value) == [err |-> err, value |-> value]
Refusals == {"notfound", "constraint", "validation", "already"}
Errors == {"other", "raw"}
Unclear == {"DatabaseError", "Unknown", "DeadlineExceeded", "Unavailable"}

-----------------------------------------------------------------------------
Init ==
    /\ tasks \in [TaskIDs -> Patterns \cup {None}]
    /\ nextID \in 1 .. MaxID + 1
    /\ req = [k \in Calls |-> None]
    /\ seeds = [k \in Calls |-> {}]
    /\ outcome = [k \in Calls |-> None]
    /\ answer = [k \in Calls |-> None]

Ask(k, r) ==
    /\ req[k] = None
    /\ req' = [req EXCEPT ![k] = r]
    /\ UNCHANGED <<tasks, nextID, seeds, outcome, answer>>

Open(k, op) == req[k] # None /\ req[k].op = op /\ outcome[k] = None

(* What was done succeeds for the service, or it does not learn of it. *)
Ends(k, value) ==
    /\ \E o \in {Outcome("nil", value)} \cup {Outcome(e, None) : e \in Errors} :
           outcome' = [outcome EXCEPT ![k] = o]
    /\ UNCHANGED <<req, answer>>

Create(k) ==
    /\ Open(k, "create") /\ req[k].pattern # None
    /\ \E id \in TaskIDs : Insert(id, req[k].pattern) /\ Ends(k, id)
    /\ UNCHANGED seeds

Update(k) ==
    /\ Open(k, "update") /\ req[k].id # None /\ Exists(req[k].id)
    /\ IF req[k].pattern = None THEN UNCHANGED tasks
       ELSE /\ ~HeldByOther(req[k].pattern, req[k].id)
            /\ tasks' = [tasks EXCEPT ![req[k].id] = req[k].pattern]
    /\ Ends(k, None)
    /\ UNCHANGED <<nextID, seeds>>

Delete(k) ==
    /\ Open(k, "delete")
    /\ tasks' = [id \in TaskIDs |-> IF id \in req[k].ids THEN None ELSE tasks[id]]
    /\ Ends(k, None)
    /\ UNCHANGED <<nextID, seeds>>

Get(k) ==
    /\ Open(k, "get") /\ Exists(req[k].id)
    /\ Ends(k, tasks[req[k].id])
    /\ UNCHANGED <<tasks, nextID, seeds>>

Seed(k) ==
    /\ Open(k, "init")
    /\ \E p \in Seeds \ seeds[k], id \in TaskIDs :
         /\ Insert(id, p)
         /\ seeds' = [seeds EXCEPT ![k] = @ \cup {p}]
         /\ \/ seeds'[k] = Seeds /\ Ends(k, None)
            \/ seeds'[k] # Seeds /\ UNCHANGED <<req, outcome, answer>>
            \/ seeds'[k] # Seeds /\ \E e \in Errors :
                   /\ outcome' = [outcome EXCEPT ![k] = Outcome(e, None)]
                   /\ UNCHANGED <<req, answer>>

(* A refusal is right at the moment of the outcome. *)
Reason(k, e) ==
    LET r == req[k] IN
    CASE e = "notfound" -> /\ r.op \in {"update", "get"} /\ r.id # None /\ ~Exists(r.id)
      [] e = "constraint" -> \/ r.op = "create" /\ r.pattern # None /\ Held(r.pattern)
                             \/ /\ r.op = "update" /\ r.id # None /\ r.pattern # None
                                /\ HeldByOther(r.pattern, r.id)
      [] e = "validation" -> r.op = "create" /\ r.pattern = None
      [] e = "already" -> r.op = "init" /\ seeds[k] = {} /\ \E id \in TaskIDs : Exists(id)

Refuse(k) ==
    /\ req[k] # None /\ outcome[k] = None
    /\ \E e \in Refusals :
         /\ Reason(k, e)
         /\ outcome' = [outcome EXCEPT ![k] = Outcome(e, None)]
    /\ UNCHANGED <<tasks, nextID, req, seeds, answer>>

Fail(k) ==
    /\ req[k] # None /\ outcome[k] = None
    /\ \E e \in Errors : outcome' = [outcome EXCEPT ![k] = Outcome(e, None)]
    /\ UNCHANGED <<tasks, nextID, req, seeds, answer>>

Code(err) == CASE err = "nil" -> "Success" [] err = "notfound" -> "TargetNotFound"
               [] err = "constraint" -> "ConstraintError" [] err = "validation" -> "ValidationError"
               [] err = "already" -> "AlreadyInit"

Answer(k) ==
    /\ req[k] # None /\ answer[k] = None
    /\ \/ \E c \in Unclear : answer' = [answer EXCEPT ![k] = Outcome(c, None)]
       \/ /\ outcome[k] # None /\ outcome[k].err \notin Errors
          /\ answer' = [answer EXCEPT ![k] = Outcome(Code(outcome[k].err), outcome[k].value)]
    /\ UNCHANGED <<tasks, nextID, req, seeds, outcome>>

(* The process goes away: whoever waits for an answer has an unclear one,  *)
(* and what was in hand has failed.                                        *)
Lose ==
    /\ \E S \in SUBSET Calls :
         /\ \A k \in S : req[k] # None
         /\ outcome' = [k \in Calls |->
                IF k \in S /\ outcome[k] = None THEN Outcome("other", None) ELSE outcome[k]]
         /\ answer' = [k \in Calls |->
                IF k \in S /\ answer[k] = None THEN Outcome("Unavailable", None) ELSE answer[k]]
    /\ UNCHANGED <<tasks, nextID, req, seeds>>

Next ==
    \/ \E k \in Calls : \/ \E r \in Requests : Ask(k, r)
                        \/ Create(k) \/ Update(k) \/ Delete(k) \/ Get(k) \/ Seed(k)
                        \/ Refuse(k) \/ Fail(k) \/ Answer(k)
    \/ Lose

Spec == Init /\ [][Next]_vars
=============================================================================
