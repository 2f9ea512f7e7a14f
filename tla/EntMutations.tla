---------------------------- MODULE EntMutations ----------------------------
(***************************************************************************)
(* ent's builders for writing: one is made, told what to do by calls that  *)
(* may follow each other in any order, and saved.  They are followed on    *)
(* one column at a time, for a mutation keeps each column for itself, and  *)
(* every column of the four tables gets its turn.                          *)
(*                                                                         *)
(* said is history: what the calls mean to who makes them.  The database   *)
(* is PostgreSQL; edges, hooks, bulk builders and old values are left out. *)
(***************************************************************************)
EXTENDS EntColumns, FiniteSets

CONSTANTS
    RowIDs,    \* the ids of a table's rows, a bound
    Cols,      \* the columns to follow
    MaxWhere,  \* bound on the predicates of a builder
    Gone, Unset, NoBuilder

(* Predicates of a column, and what a builder may hold of it.              *)
Predicate(c) == UNION {[op : {op}, arg : Argument(c, op), not : BOOLEAN] : op \in Ops(c)}
Updates == {"update", "updateOne"}
Builders(c) ==
    [op : Updates \cup {"create", "delete"}, id : RowIDs \cup {Unset}, where : Seq(Predicate(c)),
     set : Values(c) \cup {Unset}, added : Numbers \cup {Unset}, cleared : BOOLEAN]

ASSUME MutationsAssumption ==
    /\ RowIDs \subseteq Numbers \ {0} /\ Cols \subseteq Columns
    /\ \A none \in {Gone, Unset} :
           none \notin Texts /\ none \notin Numbers /\ none \notin BOOLEAN /\ none # Null
    /\ Gone # Unset /\ MaxWhere \in Nat
    /\ \A c \in Cols : NoBuilder \notin Builders(c)

VARIABLES
    col,   \* the column followed
    rows,  \* what each row has in it, or Gone
    b,     \* the builder in use
    done,  \* what became of the builder before it
    said   \* what it was told: a value, what to add, or neither

vars == <<col, rows, b, done, said>>

Builder(op, id) ==
    [op |-> op, id |-> id, where |-> <<>>, set |-> Unset, added |-> Unset, cleared |-> FALSE]
Keep == [kind |-> "keep", v |-> Unset, mixed |-> FALSE]
Said(kind, v) == [kind |-> kind, v |-> v, mixed |-> said # Keep]

Isid == col[2] = "id"
Cells == {r \in RowIDs : rows[r] # Gone}

Init ==
    /\ col \in Cols
    /\ rows = [r \in RowIDs |-> Gone]
    /\ b = NoBuilder /\ done = "no"
    /\ said = Keep

-----------------------------------------------------------------------------
(* RowIDs bounds the rows that are inserted.                                  *)
New(op, id) ==
    /\ b = NoBuilder
    /\ op = "create" => Cells # RowIDs
    /\ b' = Builder(op, id) /\ said' = Keep
    /\ done' = "no"
    /\ UNCHANGED <<col, rows>>

Where(p) ==
    /\ b # NoBuilder /\ b.op # "create" /\ Len(b.where) < MaxWhere
    /\ b' = [b EXCEPT !.where = Append(@, p)]
    /\ UNCHANGED <<col, rows, done, said>>

(* A column may be written: by a create, or by an update that has the      *)
(* setter.                                                                 *)
Settable ==
    /\ b # NoBuilder
    /\ ~Isid
    /\ \/ b.op = "create"
       \/ b.op \in Updates /\ ~Immutable(col)

(* The setter of a numeric column drops what was to be added; the one of   *)
(* an update resets it first, which a text's does not.                     *)
Set(v) ==
    /\ Settable
    /\ b' = [b EXCEPT !.set = v,
                      !.added = IF Numeric(col) THEN Unset ELSE @,
                      !.cleared = @ /\ ~(Numeric(col) /\ b.op \in Updates)]
    /\ said' = Said("value", v)
    /\ UNCHANGED <<col, rows, done>>

SetNillable(v) == IF v = Null THEN Settable /\ UNCHANGED vars ELSE Set(v)

Clear ==
    /\ Settable /\ b.op \in Updates /\ Nillable(col)
    /\ b' = [b EXCEPT !.set = Unset, !.added = Unset, !.cleared = TRUE]
    /\ said' = Said("value", Null)
    /\ UNCHANGED <<col, rows, done>>

(* NULL counts as 0 in a sum.                                              *)
Sum(v, n) == IF v = Null THEN n ELSE v + n

Add(n) ==
    /\ Settable /\ b.op \in Updates /\ Numeric(col)
    /\ b.added # Unset => b.added + n \in Numbers
    /\ b' = [b EXCEPT !.added = IF @ = Unset THEN n ELSE @ + n]
    /\ said' = IF said.kind = "value" THEN Said("value", Sum(said.v, n))
               ELSE Said("plus", IF said = Keep THEN n ELSE said.v + n)
    /\ UNCHANGED <<col, rows, done>>

(* A mutant of Reset: it forgets the mark that Clear made.                 *)
ResetKeepsTheMark ==
    /\ Settable
    /\ b' = [b EXCEPT !.set = Unset, !.added = Unset]
    /\ said' = Keep
    /\ UNCHANGED <<col, rows, done>>

(* ResetField, on the builder's mutation.                                  *)
Reset ==
    /\ Settable
    /\ b' = [b EXCEPT !.set = Unset, !.added = Unset, !.cleared = FALSE]
    /\ said' = Keep
    /\ UNCHANGED <<col, rows, done>>

-----------------------------------------------------------------------------
(* Saving.                                                                 *)
Defaulted ==
    IF b.set = Unset /\ col[2] \in DOMAIN Defaults(col) THEN Defaults(col)[col[2]] ELSE b.set

Checked(v) == v = Unset \/ Valid(col, v)

Complete == (Required(col) => Defaulted # Unset) /\ Checked(Defaulted)

Insert ==
    /\ b # NoBuilder /\ b.op = "create"
    /\ b' = NoBuilder
    /\ \/ ~Complete /\ done' = "refused" /\ UNCHANGED rows
       \/ /\ Complete /\ done' = "saved"
          /\ \E r \in RowIDs \ Cells :
                 rows' = [rows EXCEPT ![r] =
                     IF Isid THEN r ELSE IF Defaulted = Unset THEN Null ELSE Defaulted]
    /\ UNCHANGED <<col, said>>

(* The rows that the statement is about; UpdateOne's has the id beside the *)
(* predicates.                                                             *)
Matched == {r \in Cells : (b.op = "updateOne" => r = b.id) /\ And(col, b.where, rows[r])}

(* updated_at gets the time where it was told nothing.                     *)
Assigned ==
    IF b.set = Unset /\ col[2] = "updated_at" THEN Now ELSE b.set

(* A column that is assigned twice: PostgreSQL refuses the statement.      *)
Twice == Cardinality({x \in {"set", "added"} : b[x] # Unset}) + (IF b.cleared THEN 1 ELSE 0) > 1

Written(v) ==
    IF b.cleared THEN Null
    ELSE IF b.added # Unset THEN Sum(v, b.added)
    ELSE IF Assigned # Unset THEN Assigned ELSE v

(* A sum that leaves Numbers is cut off: the bound of the instance.        *)
Update ==
    /\ b # NoBuilder /\ b.op \in Updates
    /\ b' = NoBuilder
    /\ IF ~Checked(b.set) \/ Twice \/ (b.op = "updateOne" /\ Matched = {})
       THEN done' = "refused" /\ UNCHANGED rows
       ELSE /\ done' = "saved"
            /\ \A r \in Matched : b.added # Unset => Sum(rows[r], b.added) \in Numbers
            /\ rows' = [r \in RowIDs |-> IF r \in Matched THEN Written(rows[r]) ELSE rows[r]]
    /\ UNCHANGED <<col, said>>

Delete ==
    /\ b # NoBuilder /\ b.op = "delete"
    /\ b' = NoBuilder
    /\ done' = "saved"
    /\ rows' = [r \in RowIDs |-> IF r \in Matched THEN Gone ELSE rows[r]]
    /\ UNCHANGED <<col, said>>

Next ==
    \/ \E op \in {"create", "update", "delete"} : New(op, Unset)
    \/ \E r \in RowIDs : New("updateOne", r)
    \/ \E p \in Predicate(col) : Where(p)
    \/ ~Isid /\ \E v \in Values(col) \cup {Null} : SetNillable(v)
    \/ Clear
    \/ Add(1)
    \/ Reset
    \/ Insert
    \/ Update
    \/ Delete

Spec == Init /\ [][Next]_vars

-----------------------------------------------------------------------------
Saves == b # NoBuilder /\ b' = NoBuilder

(* The values that a predicate means, without the logic of three values:   *)
(* its Not means the others of those it says anything of, which are the    *)
(* ones that are there, or all where it asks for NULL or names no value.   *)
Speaks(p) ==
    Values(col) \cup (IF p.op \in Nil \/ (p.op \in {"In", "NotIn"} /\ p.arg = {}) THEN {Null} ELSE {})
Means(p) ==
    LET plain == {v \in Speaks(p) :
                     CASE p.op = "IsNil" -> v = Null [] p.op = "NotNil" -> v # Null
                       [] p.op \notin Nil /\ v = Null -> p.op = "NotIn"
                       [] OTHER -> Compares(col, p.op, v, p.arg)}
    IN  IF p.not THEN Speaks(p) \ plain ELSE plain
Named == {r \in Cells : /\ b.op = "updateOne" => r = b.id
                        /\ \A i \in DOMAIN b.where : rows[r] \in Means(b.where[i])}

Told(v) == CASE said.kind = "keep" -> IF col[2] = "updated_at" THEN Now ELSE v
             [] said.kind = "plus" -> Sum(v, said.v)
             [] said.kind = "value" -> said.v

(* In whatever order a builder's calls came, the rows that it saves hold   *)
(* what they came to, the last one counting most.  A builder that was told *)
(* no more than one thing is refused only for a value that a validator     *)
(* refuses, a column that a new row must have, or an UpdateOne without its *)
(* row; what is refused changes nothing.                                   *)
LastWordCounts ==
    [][Saves => IF done' = "refused"
                THEN /\ rows' = rows
                     /\ \/ said.mixed
                        \/ said.kind = "value" /\ said.v # Null /\ ~Valid(col, said.v)
                        \/ b.op = "updateOne" /\ Named = {}
                        \/ b.op = "create" /\ said.kind = "keep" /\ Required(col)
                                            /\ col[2] \notin DOMAIN Defaults(col)
                ELSE CASE b.op \in Updates -> \A r \in Named : rows'[r] = Told(rows[r])
                       [] b.op = "create" -> \A r \in RowIDs \ Cells :
                              rows'[r] \in {Gone, IF Isid THEN r
                                                  ELSE IF said.kind = "value" THEN said.v
                                                  ELSE IF col[2] \in DOMAIN Defaults(col)
                                                  THEN Defaults(col)[col[2]] ELSE Null}
                       [] b.op = "delete" -> TRUE]_vars
=============================================================================
