--------------------------- MODULE MCPeriodicTasks ---------------------------
(* Instances of PeriodicTasks for TLC. *)
EXTENDS PeriodicTasks

GoodSpecs == {1, 2}
AllSpecs == {Bad, Empty, 1, 2}

(* Each expression, and a payload that changes under one of them.          *)
AllRows == [spec : AllSpecs, payload : {"p"}, normal : BOOLEAN]
           \cup [spec : {2}, payload : {"q"}, normal : {TRUE}]
GoodRows == [spec : GoodSpecs, payload : {"p"}, normal : BOOLEAN]
=============================================================================
