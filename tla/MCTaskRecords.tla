---------------------------- MODULE MCTaskRecords ----------------------------
(***************************************************************************)
(* Instances of TaskRecords for TLC: both tasks InitDatabase seeds, with   *)
(* logs, statuses of two bits, and a few writes beside a walk.             *)
(***************************************************************************)
EXTENDS TaskRecords, TLC

CONSTANTS a, b, hello, relay

Unasked == [c \in Columns |-> Nil]
Full == [status |-> Nil, name |-> a, task_group |-> a, cron_expression |-> a,
         pattern |-> hello, payload |-> a]

\* A whole task without and with a status, one without a payload, changes of
\* single columns, among them a status beyond a uint8 and a pattern that
\* may be taken.
Infos == {Full,
          [Full EXCEPT !.payload = Nil],
          [Unasked EXCEPT !["name"] = b],
          [Unasked EXCEPT !["status"] = 5],
          [Unasked EXCEPT !["pattern"] = relay]}

FirstTasks == << [Full EXCEPT !.status = 2], [Full EXCEPT !.status = 1, !.pattern = relay] >>
Logs == << [task |-> 1, result |-> 1], [task |-> 2, result |-> 1], [task |-> 1, result |-> 0] >>

AllLogs == [of |-> "logs", names |-> {}, task |-> Nil, result |-> Nil, page |-> 1, size |-> 1]
Walks == {AllLogs,
          [AllLogs EXCEPT !.size = 2],
          [AllLogs EXCEPT !.result = 1],
          [AllLogs EXCEPT !.task = 1],
          [AllLogs EXCEPT !.size = 0, !.page = 0],
          [AllLogs EXCEPT !.page = 0],
          [AllLogs EXCEPT !.of = "tasks", !.names = {a}]}

\* Filters on results that the conversion to uint8 changes the meaning of.
FilterWalks == {[AllLogs EXCEPT !.result = r] : r \in {0, 5}}
=============================================================================
