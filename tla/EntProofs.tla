----------------------------- MODULE EntProofs -----------------------------
(***************************************************************************)
(* Theorems about ent's builders, for every column of the four tables, any *)
(* values and any calls in any order: EntMutations gives the rows it saves *)
(* what its calls came to, and EntQueries answers each builder by what     *)
(* that builder was told.                                                  *)
(***************************************************************************)
EXTENDS EntMutations, EntQueries, FiniteSetTheorems, TLAPS

-----------------------------------------------------------------------------
(* Columns: a column is of one of the four tables. *)
LEMMA ColumnOfTable ==
  ASSUME NEW c \in Columns
  PROVE  \/ c[1] = "relaychain" /\ c[2] \in DOMAIN relaychain
         \/ c[1] = "relaytoken" /\ c[2] \in DOMAIN relaytoken
         \/ c[1] = "task" /\ c[2] \in DOMAIN task
         \/ c[1] = "tasklog" /\ c[2] \in DOMAIN tasklog
<1>1. PICK t \in DOMAIN Tables : \E f \in DOMAIN Tables[t] : c = <<t, f>>
  BY DEF Columns
<1>2. t \in {"relaychain", "relaytoken", "task", "tasklog"}
  BY DEF Tables
<1> QED
  BY <1>1, <1>2 DEF Tables

(* What is added to, an id and updated_at are numbers. *)
LEMMA NumbersOnly ==
  ASSUME NEW c \in Columns, Numeric(c) \/ c[2] \in {"id", "updated_at"}
  PROVE  Values(c) = Numbers
<1>1. ~Is("string", c) /\ ~Is("bool", c)
  <2>1. CASE c[1] = "relaychain"
    BY <2>1 DEF Numeric, AddField, relaychain_AddField, Is, SetField, relaychain_SetField
  <2>2. CASE c[1] = "relaytoken"
    BY <2>2 DEF Numeric, AddField, relaytoken_AddField, Is, SetField, relaytoken_SetField
  <2>3. CASE c[1] = "task"
    BY <2>3 DEF Numeric, AddField, task_AddField, Is, SetField, task_SetField
  <2>4. CASE c[1] = "tasklog"
    BY <2>4 DEF Numeric, AddField, tasklog_AddField, Is, SetField, tasklog_SetField
  <2> QED
    BY ColumnOfTable, <2>1, <2>2, <2>3, <2>4
<1> QED
  BY <1>1 DEF Values

(* Nothing is added to updated_at, and nobody adds to an id. *)
LEMMA NumericIsTold ==
  ASSUME NEW c \in Columns, Numeric(c)
  PROVE  c[2] # "updated_at" /\ c[2] # "id"
<1>1. CASE c[1] = "relaychain"
  BY <1>1 DEF Numeric, AddField, relaychain_AddField
<1>2. CASE c[1] = "relaytoken"
  BY <1>2 DEF Numeric, AddField, relaytoken_AddField
<1>3. CASE c[1] = "task"
  BY <1>3 DEF Numeric, AddField, task_AddField
<1>4. CASE c[1] = "tasklog"
  BY <1>4 DEF Numeric, AddField, tasklog_AddField
<1> QED
  BY ColumnOfTable, <1>1, <1>2, <1>3, <1>4

(* A default is a value of its column, which the validator takes. *)
LEMMA DefaultsAreValid ==
  ASSUME NEW c \in Columns, c[2] \in DOMAIN Defaults(c)
  PROVE  Defaults(c)[c[2]] \in Values(c) /\ Valid(c, Defaults(c)[c[2]])
<1>0. DefaultText \in Texts /\ {0, 1, Now} \subseteq Numbers
  BY ColumnsAssumption
<1>1. CASE c[1] = "relaychain"
  <2>1. Defaults(c) = relaychain_defaults
    BY <1>1 DEF Defaults, defaults
  <2>2. c[2] \in DOMAIN relaychain_defaults
    BY <2>1
  <2>3. Defaults(c)[c[2]] \in Values(c)
    <3>1. CASE c[2] \in {"type"}
      BY <1>0, <1>1, <2>1, <3>1
      DEF relaychain_defaults, Values, Is, SetField, relaychain_SetField
    <3>2. CASE c[2] \in {"native_decimals", "created_at", "updated_at"}
      BY <1>0, <1>1, <2>1, <3>2
      DEF relaychain_defaults, Values, Is, SetField, relaychain_SetField
    <3>3. CASE c[2] \in {"deposit_enabled", "disabled", "supported", "enabled"}
      <4>1. /\ relaychain_defaults.deposit_enabled \in BOOLEAN
            /\ relaychain_defaults.disabled \in BOOLEAN
            /\ relaychain_defaults.supported \in BOOLEAN
            /\ relaychain_defaults.enabled \in BOOLEAN
        BY DEF relaychain_defaults
      <4>2. Values(c) = BOOLEAN
        BY <1>1, <3>3 DEF Values, Is, SetField, relaychain_SetField
      <4>3. relaychain_defaults[c[2]] \in BOOLEAN
        BY <3>3, <4>1
      <4> QED
        BY <2>1, <4>2, <4>3
    <3> QED
      BY <2>2, <3>1, <3>2, <3>3 DEF relaychain_defaults
  <2>4. Valid(c, Defaults(c)[c[2]])
    BY <1>1, <2>2 DEF relaychain_defaults, Valid
  <2> QED
    BY <2>3, <2>4
<1>2. CASE c[1] = "relaytoken"
  <2>1. Defaults(c) = relaytoken_defaults
    BY <1>2 DEF Defaults, defaults
  <2>2. c[2] \in DOMAIN relaytoken_defaults
    BY <2>1
  <2>3. Defaults(c)[c[2]] \in Values(c)
    <3>1. CASE c[2] \in {"created_at", "updated_at"}
      BY <1>0, <1>2, <2>1, <3>1
      DEF relaytoken_defaults, Values, Is, SetField, relaytoken_SetField
    <3>2. CASE c[2] \in {"native", "stablecoin", "supports_bridging", "supports_permit",
                     "is_featured", "is_solver", "is_erc20", "supported"}
      <4>1. /\ relaytoken_defaults.native \in BOOLEAN
            /\ relaytoken_defaults.stablecoin \in BOOLEAN
            /\ relaytoken_defaults.supports_bridging \in BOOLEAN
            /\ relaytoken_defaults.supports_permit \in BOOLEAN
            /\ relaytoken_defaults.is_featured \in BOOLEAN
            /\ relaytoken_defaults.is_solver \in BOOLEAN
            /\ relaytoken_defaults.is_erc20 \in BOOLEAN
            /\ relaytoken_defaults.supported \in BOOLEAN
        BY DEF relaytoken_defaults
      <4>2. Values(c) = BOOLEAN
        BY <1>2, <3>2 DEF Values, Is, SetField, relaytoken_SetField
      <4>3. relaytoken_defaults[c[2]] \in BOOLEAN
        BY <3>2, <4>1
      <4> QED
        BY <2>1, <4>2, <4>3
    <3> QED
      BY <2>2, <3>1, <3>2 DEF relaytoken_defaults
  <2>4. Valid(c, Defaults(c)[c[2]])
    BY <1>2, <2>2 DEF relaytoken_defaults, Valid
  <2> QED
    BY <2>3, <2>4
<1>3. CASE c[1] = "task"
  <2>1. Defaults(c) = task_defaults
    BY <1>3 DEF Defaults, defaults
  <2>2. c[2] \in DOMAIN task_defaults
    BY <2>1
  <2>3. Defaults(c)[c[2]] \in Values(c)
    BY <1>0, <1>3, <2>1, <2>2
    DEF task_defaults, Values, Is, SetField, task_SetField
  <2>4. Valid(c, Defaults(c)[c[2]])
    BY <1>3, <2>2 DEF task_defaults, Valid
  <2> QED
    BY <2>3, <2>4
<1>4. CASE c[1] = "tasklog"
  <2>1. Defaults(c) = tasklog_defaults
    BY <1>4 DEF Defaults, defaults
  <2>2. c[2] \in DOMAIN tasklog_defaults
    BY <2>1
  <2>3. Defaults(c)[c[2]] \in Values(c)
    BY <1>0, <1>4, <2>1, <2>2
    DEF tasklog_defaults, Values, Is, SetField, tasklog_SetField
  <2>4. Valid(c, Defaults(c)[c[2]])
    BY <1>4, <2>2 DEF tasklog_defaults, Valid
  <2> QED
    BY <2>3, <2>4
<1> QED
  BY ColumnOfTable, <1>1, <1>2, <1>3, <1>4

(* The marks for what is not there are no values. *)
LEMMA NoMarks ==
  ASSUME NEW c \in Columns
  PROVE  /\ Null \notin Values(c) /\ Gone \notin Values(c) /\ Unset \notin Values(c)
         /\ Gone # Null /\ Unset # Null /\ Gone # Unset
         /\ Gone \notin Numbers /\ Unset \notin Numbers /\ Null \notin Numbers
         /\ Numbers \subseteq Int /\ 1 \in Numbers /\ Now \in Numbers
<1>1. Values(c) \in {Texts, BOOLEAN, Numbers}
  BY DEF Values
<1> QED
  BY <1>1, ColumnsAssumption, MutationsAssumption

-----------------------------------------------------------------------------
(* Saving. *)
WritesOK ==
    /\ col \in Cols
    /\ rows \in [RowIDs -> Values(col) \cup {Null, Gone}]
    /\ b \in Builders(col) \cup {NoBuilder}
    /\ b # NoBuilder /\ b.added # Unset => Numeric(col)

(* What a builder holds of what it was told. *)
Keeps == b.set = Unset /\ b.added = Unset /\ ~b.cleared
Adds == b.set = Unset /\ ~b.cleared /\ b.added # Unset /\ b.added = said.v /\ b.op \in Updates
Writes ==
    /\ b.set # Unset \/ b.cleared
    /\ ~b.cleared /\ b.added = Unset => said.v = b.set
    /\ b.set = Unset /\ b.added = Unset => said.v = Null
    /\ ~said.mixed => b.added = Unset /\ ~(b.set # Unset /\ b.cleared)
    /\ b.op \notin Updates => b.added = Unset /\ ~b.cleared

WordKept ==
    b # NoBuilder =>
        \/ said = Keep /\ Keeps
        \/ said.kind = "plus" /\ Adds
        \/ said.kind = "value" /\ Writes

WritesInv == WritesOK /\ WordKept

(* In SQL's logic a row is met by a predicate, or by its Not, if and only  *)
(* if it has a value that the predicate means.                             *)
LEMMA PredicateMeans ==
  ASSUME NEW p, NEW v \in Values(col) \cup {Null}, col \in Columns
  PROVE  ((IF p.not THEN Not(Evaluate(col, p, v)) ELSE Evaluate(col, p, v)) = "true")
            <=> v \in Means(p)
<1>1. Null \notin Values(col)
  BY NoMarks
<1>2. /\ Not("true") = "false" /\ Not("false") = "true" /\ Not("unknown") = "unknown"
      /\ Truth(TRUE) = "true" /\ Truth(FALSE) = "false"
  BY DEF Not, Truth
<1> DEFINE says == CASE p.op = "IsNil" -> v = Null [] p.op = "NotNil" -> v # Null
                     [] p.op \notin Nil /\ v = Null -> p.op = "NotIn"
                     [] OTHER -> Compares(col, p.op, v, p.arg)
<1>3. v \in Means(p) <=> v \in Speaks(p) /\ (IF p.not THEN ~says ELSE says)
  BY DEF Means
<1>4. CASE p.op = "IsNil"
  BY <1>2, <1>3, <1>4 DEF Evaluate, Speaks, Nil
<1>5. CASE p.op = "NotNil"
  BY <1>2, <1>3, <1>5 DEF Evaluate, Speaks, Nil
<1>6. CASE p.op = "In" /\ p.arg = {}
  BY <1>1, <1>2, <1>3, <1>6 DEF Evaluate, Speaks, Compares, Nil
<1>7. CASE p.op = "NotIn" /\ p.arg = {}
  BY <1>1, <1>2, <1>3, <1>7 DEF Evaluate, Speaks, Compares, Nil
<1>8. CASE p.op \notin Nil /\ ~(p.op \in {"In", "NotIn"} /\ p.arg = {})
  <2>1. Evaluate(col, p, v) =
          IF v = Null THEN "unknown" ELSE Truth(Compares(col, p.op, v, p.arg))
    BY <1>8 DEF Evaluate, Nil
  <2>2. v \in Speaks(p) <=> v # Null
    BY <1>1, <1>8 DEF Speaks
  <2>3. v # Null => says = Compares(col, p.op, v, p.arg)
    BY <1>8 DEF Nil
  <2> HIDE DEF says
  <2>4. CASE Compares(col, p.op, v, p.arg)
    BY <1>2, <1>3, <2>1, <2>2, <2>3, <2>4
  <2>5. CASE ~Compares(col, p.op, v, p.arg)
    <3>1. Truth(Compares(col, p.op, v, p.arg)) = "false"
      BY <2>5 DEF Truth
    <3> QED
      BY <1>2, <1>3, <2>1, <2>2, <2>3, <2>5, <3>1
  <2> QED
    BY <2>4, <2>5
<1> QED
  BY <1>4, <1>5, <1>6, <1>7, <1>8 DEF Nil

LEMMA MatchedIsNamed ==
  ASSUME WritesOK
  PROVE  Matched = Named
<1>1. ASSUME NEW r \in Cells
      PROVE  And(col, b.where, rows[r]) <=>
                 \A i \in DOMAIN b.where : rows[r] \in Means(b.where[i])
  <2>1. rows[r] \in Values(col) \cup {Null} /\ col \in Columns
    BY MutationsAssumption DEF WritesOK, Cells
  <2> QED
    BY <2>1, PredicateMeans DEF And
<1> QED
  BY <1>1 DEF Matched, Named

LEMMA WritesInit == Init => WritesInv
<1> SUFFICES ASSUME Init PROVE WritesInv
  OBVIOUS
<1>1. b = NoBuilder /\ col \in Cols /\ rows = [r \in RowIDs |-> Gone]
  BY DEF Init
<1> QED
  BY <1>1 DEF WritesInv, WritesOK, WordKept

(* A step on the builder alone. *)
LEMMA BuilderType ==
  ASSUME WritesOK, UNCHANGED <<col, rows>>, b' \in Builders(col) \cup {NoBuilder},
         b' # NoBuilder /\ b'.added # Unset => Numeric(col)
  PROVE  WritesOK'
  BY DEF WritesOK, Builders, Predicate

(* Saving. *)
LEMMA RowsType ==
  ASSUME WritesOK, UNCHANGED col, b' = NoBuilder,
         rows' \in [RowIDs -> Values(col) \cup {Null, Gone}]
  PROVE  WritesOK'
  BY DEF WritesOK

(* What a step on a builder starts from. *)
LEMMA BuilderFields ==
  ASSUME WritesOK, b # NoBuilder
  PROVE  /\ b \in Builders(col) /\ col \in Columns
         /\ b = [op |-> b.op, id |-> b.id, where |-> b.where, set |-> b.set,
                 added |-> b.added, cleared |-> b.cleared]
         /\ b.op \in Updates \cup {"create", "delete"} /\ b.id \in RowIDs \cup {Unset}
         /\ b.where \in Seq(Predicate(col)) /\ b.set \in Values(col) \cup {Unset}
         /\ b.added \in Numbers \cup {Unset} /\ b.cleared \in BOOLEAN
         /\ b.added # Unset => Numeric(col)
  BY MutationsAssumption DEF WritesOK, Builders

LEMMA NewStep ==
  ASSUME WritesInv, NEW op \in Updates \cup {"create", "delete"}, NEW id \in RowIDs \cup {Unset},
         New(op, id)
  PROVE  WritesInv'
<1>1. b' = Builder(op, id) /\ said' = Keep /\ UNCHANGED <<col, rows>>
  BY DEF New
<1>2. b' \in Builders(col) /\ b'.added = Unset
  BY <1>1 DEF Builder, Builders
<1>3. WritesOK'
  BY <1>1, <1>2, BuilderType DEF WritesInv
<1>4. Keeps'
  BY <1>1 DEF Keeps, Builder
<1>5. WordKept'
  BY <1>1, <1>4 DEF WordKept
<1> QED
  BY <1>3, <1>5 DEF WritesInv

LEMMA WhereStep ==
  ASSUME WritesInv, NEW p \in Predicate(col), Where(p)
  PROVE  WritesInv'
<1>1. /\ b # NoBuilder /\ b' = [b EXCEPT !.where = Append(b.where, p)]
      /\ UNCHANGED <<col, rows, said>>
  BY DEF Where
<1>2. b' \in Builders(col) /\ b'.added = b.added
  <2>1. b \in Builders(col)
    BY <1>1 DEF WritesInv, WritesOK
  <2> HIDE DEF WritesInv
  <2>2. Append(b.where, p) \in Seq(Predicate(col))
    BY <2>1 DEF Builders
  <2> QED
    BY <1>1, <2>1, <2>2 DEF Builders
<1>3. WritesOK'
  BY <1>1, <1>2, BuilderFields, BuilderType DEF WritesInv
<1>4. b'.op = b.op /\ b'.set = b.set /\ b'.added = b.added /\ b'.cleared = b.cleared
  BY <1>1, BuilderFields DEF WritesInv
<1>5. WordKept'
  BY <1>1, <1>4 DEF WritesInv, WordKept, Keeps, Adds, Writes, Keep
<1> QED
  BY <1>3, <1>5 DEF WritesInv

LEMMA SetStep ==
  ASSUME WritesInv, NEW v \in Values(col), Set(v)
  PROVE  WritesInv'
<1> DEFINE added == IF Numeric(col) THEN Unset ELSE b.added
           cleared == b.cleared /\ ~(Numeric(col) /\ b.op \in Updates)
<1>1. /\ b # NoBuilder /\ b' = [b EXCEPT !.set = v, !.added = added, !.cleared = cleared]
      /\ UNCHANGED <<col, rows>>
      /\ said' = [kind |-> "value", v |-> v, mixed |-> said # Keep]
  BY DEF Set, Settable, Said
<1>2. /\ b' \in Builders(col)
      /\ b'.op = b.op /\ b'.set = v /\ b'.added = added /\ b'.cleared = cleared
  BY <1>1, BuilderFields DEF Builders, WritesInv
<1>3. WritesOK'
  BY <1>1, <1>2, BuilderFields, BuilderType DEF WritesInv
<1>4. /\ v # Unset
      /\ \/ said = Keep /\ Keeps
         \/ said.kind = "plus" /\ Adds
         \/ said.kind = "value" /\ Writes
  BY <1>1, BuilderFields, NoMarks DEF WritesInv, WordKept
<1>5. Writes'
  <2>1. ~said'.mixed => said = Keep /\ Keeps
    <3>1. said'.mixed = (said # Keep)
      BY <1>1
    <3>2. said = Keep => Keeps
      BY <1>4 DEF Keep
    <3> QED
      BY <3>1, <3>2
  <2>2. b.op \notin Updates => b.added = Unset /\ ~b.cleared
    BY <1>4 DEF Keeps, Adds, Writes
  <2> QED
    BY <1>1, <1>2, <1>4, <2>1, <2>2 DEF Writes, Keeps
<1> QED
  BY <1>1, <1>3, <1>5 DEF WritesInv, WordKept

LEMMA ClearStep ==
  ASSUME WritesInv, Clear
  PROVE  WritesInv'
<1>1. /\ b # NoBuilder /\ b' = [b EXCEPT !.set = Unset, !.added = Unset, !.cleared = TRUE]
      /\ b.op \in Updates /\ UNCHANGED <<col, rows>>
      /\ said' = [kind |-> "value", v |-> Null, mixed |-> said # Keep]
  BY DEF Clear, Settable, Said
<1>2. /\ b' \in Builders(col)
      /\ b'.op = b.op /\ b'.set = Unset /\ b'.added = Unset /\ b'.cleared = TRUE
  BY <1>1, BuilderFields DEF Builders, WritesInv
<1>3. WritesOK'
  BY <1>1, <1>2, BuilderType DEF WritesInv
<1>4. Writes' /\ said'.kind = "value"
  BY <1>1, <1>2 DEF Writes
<1> QED
  BY <1>1, <1>3, <1>4 DEF WritesInv, WordKept

LEMMA ResetStep ==
  ASSUME WritesInv, Reset
  PROVE  WritesInv'
<1>1. /\ b # NoBuilder /\ b' = [b EXCEPT !.set = Unset, !.added = Unset, !.cleared = FALSE]
      /\ UNCHANGED <<col, rows>> /\ said' = Keep
  BY DEF Reset, Settable
<1>2. b' \in Builders(col) /\ b'.set = Unset /\ b'.added = Unset /\ b'.cleared = FALSE
  BY <1>1, BuilderFields DEF Builders, WritesInv
<1>3. WritesOK'
  BY <1>1, <1>2, BuilderType DEF WritesInv
<1>4. WordKept'
  BY <1>1, <1>2 DEF WordKept, Keeps, Keep
<1> QED
  BY <1>3, <1>4 DEF WritesInv

LEMMA AddStep ==
  ASSUME WritesInv, Add(1)
  PROVE  WritesInv'
<1> DEFINE sum == IF b.added = Unset THEN 1 ELSE b.added + 1
<1>1. /\ b # NoBuilder /\ b' = [b EXCEPT !.added = sum]
      /\ b.op \in Updates /\ Numeric(col) /\ UNCHANGED <<col, rows>>
      /\ b.added # Unset => b.added + 1 \in Numbers
  BY DEF Add, Settable
<1>2. sum \in Numbers /\ sum # Unset
  BY <1>1, BuilderFields, NoMarks DEF WritesInv
<1>3. /\ b' \in Builders(col)
      /\ b'.op = b.op /\ b'.set = b.set /\ b'.added = sum /\ b'.cleared = b.cleared
  BY <1>1, <1>2, BuilderFields DEF Builders, WritesInv
<1>4. WritesOK'
  BY <1>1, <1>3, BuilderType DEF WritesInv
<1>5. CASE said = Keep /\ Keeps
  <2>1. said' = [kind |-> "plus", v |-> 1, mixed |-> FALSE] /\ sum = 1
    BY <1>5 DEF Add, Said, Keep, Keeps
  <2>2. Adds' /\ said'.kind = "plus"
    BY <1>1, <1>2, <1>3, <1>5, <2>1 DEF Adds, Keeps
  <2> QED
    BY <1>1, <1>4, <2>2 DEF WritesInv, WordKept
<1>6. CASE said.kind = "plus" /\ Adds
  <2>1. said' = [kind |-> "plus", v |-> said.v + 1, mixed |-> said # Keep] /\ sum = said.v + 1
    BY <1>6 DEF Add, Said, Keep, Adds
  <2>2. Adds' /\ said'.kind = "plus"
    BY <1>1, <1>2, <1>3, <1>6, <2>1 DEF Adds
  <2> QED
    BY <1>1, <1>4, <2>2 DEF WritesInv, WordKept
<1>7. CASE said.kind = "value" /\ Writes
  <2>1. said' = [kind |-> "value", v |-> Sum(said.v, 1), mixed |-> said # Keep] /\ said # Keep
    BY <1>7 DEF Add, Said, Keep
  <2>2. Writes' /\ said'.kind = "value"
    BY <1>1, <1>2, <1>3, <1>7, <2>1 DEF Writes
  <2> QED
    BY <1>1, <1>4, <2>2 DEF WritesInv, WordKept
<1> QED
  BY <1>1, <1>5, <1>6, <1>7 DEF WritesInv, WordKept

LEMMA DefaultedType ==
  ASSUME WritesOK, b # NoBuilder
  PROVE  Defaulted \in Values(col) \cup {Unset}
  BY BuilderFields, DefaultsAreValid DEF Defaulted

LEMMA InsertStep ==
  ASSUME WritesInv, Insert
  PROVE  WritesInv'
<1>1. b # NoBuilder /\ b' = NoBuilder /\ UNCHANGED <<col, said>> /\ WritesOK
  BY DEF Insert, WritesInv
<1>2. rows \in [RowIDs -> Values(col) \cup {Null, Gone}]
  BY <1>1 DEF WritesOK
<1>3. rows' \in [RowIDs -> Values(col) \cup {Null, Gone}]
  <2>1. CASE UNCHANGED rows
    BY <1>2, <2>1
  <2>2. CASE \E r \in RowIDs \ Cells :
               rows' = [rows EXCEPT ![r] =
                   IF Isid THEN r ELSE IF Defaulted = Unset THEN Null ELSE Defaulted]
    <3>1. PICK r \in RowIDs \ Cells :
               rows' = [rows EXCEPT ![r] =
                   IF Isid THEN r ELSE IF Defaulted = Unset THEN Null ELSE Defaulted]
      BY <2>2
    <3>2. Isid => r \in Values(col)
      BY <1>1, BuilderFields, NumbersOnly, MutationsAssumption DEF Isid
    <3> QED
      BY <1>1, <1>2, <3>1, <3>2, DefaultedType
  <2> QED
    BY <2>1, <2>2 DEF Insert
<1>4. WritesOK'
  BY <1>1, <1>3, RowsType
<1> QED
  BY <1>1, <1>4 DEF WritesInv, WordKept

(* A statement writes what its column may have. *)
LEMMA WrittenType ==
  ASSUME WritesOK, b # NoBuilder, NEW v \in Values(col) \cup {Null},
         b.added # Unset => Sum(v, b.added) \in Numbers
  PROVE  Written(v) \in Values(col) \cup {Null}
<1>1. b.added # Unset => Sum(v, b.added) \in Values(col)
  BY BuilderFields, NumbersOnly
<1>2. Assigned # Unset => Assigned \in Values(col)
  BY BuilderFields, NumbersOnly, NoMarks DEF Assigned
<1> QED
  BY <1>1, <1>2 DEF Written

LEMMA UpdateStep ==
  ASSUME WritesInv, Update
  PROVE  WritesInv'
<1>1. b # NoBuilder /\ b' = NoBuilder /\ UNCHANGED <<col, said>> /\ WritesOK
  BY DEF Update, WritesInv
<1>2. rows \in [RowIDs -> Values(col) \cup {Null, Gone}]
  BY <1>1 DEF WritesOK
<1>3. rows' \in [RowIDs -> Values(col) \cup {Null, Gone}]
  <2>1. CASE UNCHANGED rows
    BY <1>2, <2>1
  <2>2. CASE /\ \A r \in Matched : b.added # Unset => Sum(rows[r], b.added) \in Numbers
             /\ rows' = [r \in RowIDs |-> IF r \in Matched THEN Written(rows[r]) ELSE rows[r]]
    <3>1. ASSUME NEW r \in RowIDs, r \in Matched
          PROVE  Written(rows[r]) \in Values(col) \cup {Null}
      <4>1. rows[r] \in Values(col) \cup {Null}
        BY <1>2, <3>1 DEF Matched, Cells
      <4> QED
        BY <1>1, <2>2, <3>1, <4>1, WrittenType
    <3> QED
      BY <1>2, <2>2, <3>1
  <2> QED
    BY <2>1, <2>2 DEF Update
<1>4. WritesOK'
  BY <1>1, <1>3, RowsType
<1> QED
  BY <1>1, <1>4 DEF WritesInv, WordKept

LEMMA DeleteStep ==
  ASSUME WritesInv, Delete
  PROVE  WritesInv'
<1>1. /\ b' = NoBuilder /\ UNCHANGED <<col, said>> /\ WritesOK
      /\ rows' = [r \in RowIDs |-> IF r \in Matched THEN Gone ELSE rows[r]]
  BY DEF Delete, WritesInv
<1>2. rows' \in [RowIDs -> Values(col) \cup {Null, Gone}]
  BY <1>1 DEF WritesOK
<1>3. WritesOK'
  BY <1>1, <1>2, RowsType
<1> QED
  BY <1>1, <1>3 DEF WritesInv, WordKept

LEMMA WritesStay ==
  ASSUME WritesInv, UNCHANGED vars
  PROVE  WritesInv'
<1>1. WritesOK'
  BY BuilderType DEF vars, WritesInv, WritesOK
<1>2. WordKept'
  BY DEF vars, WritesInv, WordKept, Keeps, Adds, Writes
<1> QED
  BY <1>1, <1>2 DEF WritesInv

LEMMA WritesNext == WritesInv /\ [Next]_vars => WritesInv'
<1> SUFFICES ASSUME WritesInv, [Next]_vars PROVE WritesInv'
  OBVIOUS
<1>1. ASSUME NEW op \in {"create", "update", "delete"}, New(op, Unset) PROVE WritesInv'
  BY <1>1, NewStep DEF Updates
<1>2. ASSUME NEW r \in RowIDs, New("updateOne", r) PROVE WritesInv'
  BY <1>2, NewStep DEF Updates
<1>3. ASSUME NEW p \in Predicate(col), Where(p) PROVE WritesInv'
  BY <1>3, WhereStep
<1>4. ASSUME NEW v \in Values(col) \cup {Null}, SetNillable(v) PROVE WritesInv'
  BY <1>4, SetStep, WritesStay DEF SetNillable
<1>5. CASE Clear \/ Reset \/ Add(1)
  BY <1>5, ClearStep, ResetStep, AddStep
<1>6. CASE Insert \/ Update \/ Delete
  BY <1>6, InsertStep, UpdateStep, DeleteStep
<1>7. CASE UNCHANGED vars
  BY <1>7, WritesStay
<1> QED
  BY <1>1, <1>2, <1>3, <1>4, <1>5, <1>6, <1>7 DEF Next

THEOREM WritesAlways == Spec => []WritesInv
  BY WritesInit, WritesNext, PTL DEF Spec

-----------------------------------------------------------------------------
(* Which steps save. *)
LEMMA SavesBySaving ==
  ASSUME WritesInv, [Next]_vars, Saves
  PROVE  Insert \/ Update \/ Delete
<1>1. b # NoBuilder /\ b' = NoBuilder /\ b \in Builders(col) /\ NoBuilder \notin Builders(col)
  BY BuilderFields, MutationsAssumption DEF Saves, WritesInv, WritesOK
<1>3. ASSUME NEW op, NEW id, New(op, id) PROVE FALSE
  BY <1>1, <1>3 DEF New
<1>4. ASSUME NEW p \in Predicate(col), Where(p) PROVE FALSE
  <2>1. b' = [b EXCEPT !.where = Append(b.where, p)]
    BY <1>4 DEF Where
  <2>2. b' \in Builders(col)
    BY <1>1, <2>1, BuilderFields DEF Builders, WritesInv
  <2> QED
    BY <1>1, <2>2
<1>5. ASSUME NEW v \in Values(col) \cup {Null}, SetNillable(v) PROVE FALSE
  BY <1>1, <1>5 DEF SetNillable, Set, Settable, Builders, vars
<1>6. CASE Clear
  BY <1>1, <1>6 DEF Clear, Builders
<1>7. CASE Reset
  BY <1>1, <1>7 DEF Reset, Builders
<1>8. CASE Add(1)
  BY <1>1, <1>8, NoMarks, BuilderFields DEF Add, Builders, WritesInv
<1>9. CASE UNCHANGED vars
  BY <1>1, <1>9 DEF vars
<1> QED
  BY <1>3, <1>4, <1>5, <1>6, <1>7, <1>8, <1>9 DEF Next

-----------------------------------------------------------------------------
(* A column is assigned twice if two of the three are there. *)
LEMMA TwiceMeans ==
  ASSUME WritesOK, b # NoBuilder
  PROVE  Twice <=> \/ b.set # Unset /\ b.added # Unset
                   \/ b.set # Unset /\ b.cleared
                   \/ b.added # Unset /\ b.cleared
<1> DEFINE S == {x \in {"set", "added"} : b[x] # Unset}
<1>1. /\ b.set = Unset /\ b.added = Unset => S = {}
      /\ b.set # Unset /\ b.added = Unset => S = {"set"}
      /\ b.set = Unset /\ b.added # Unset => S = {"added"}
      /\ b.set # Unset /\ b.added # Unset => S = {"set"} \cup {"added"}
  OBVIOUS
<1> HIDE DEF S
<1>2. /\ Cardinality({}) = 0 /\ Cardinality({"set"}) = 1 /\ Cardinality({"added"}) = 1
      /\ Cardinality({"set"} \cup {"added"}) = 2
  <2>1. IsFiniteSet({"set"}) /\ Cardinality({"set"}) = 1 /\ Cardinality({"added"}) = 1
    BY FS_Singleton
  <2>2. Cardinality({"set"} \cup {"added"}) =
          IF "added" \in {"set"} THEN Cardinality({"set"}) ELSE Cardinality({"set"}) + 1
    BY <2>1, FS_AddElement
  <2> QED
    BY <2>1, <2>2, FS_EmptySet
<1>3. Twice <=> Cardinality(S) + (IF b.cleared THEN 1 ELSE 0) > 1
  BY DEF Twice, S
<1> QED
  BY <1>1, <1>2, <1>3

(* An update writes what its calls came to, if they agree with each other, *)
(* and the calls of a builder that was told one thing do.                  *)
LEMMA WrittenIsTold ==
  ASSUME WritesInv, b # NoBuilder, b.op \in Updates, ~Twice,
         NEW v \in Values(col) \cup {Null}
  PROVE  Written(v) = Told(v)
<1>1. /\ col \in Columns /\ b.set \in Values(col) \cup {Unset}
      /\ b.added \in Numbers \cup {Unset} /\ b.cleared \in BOOLEAN
      /\ b.added # Unset => col[2] # "updated_at"
      /\ Now # Unset
  BY BuilderFields, NumericIsTold, NoMarks DEF WritesInv
<1>2. /\ ~(b.set # Unset /\ b.added # Unset)
      /\ ~(b.set # Unset /\ b.cleared)
      /\ ~(b.added # Unset /\ b.cleared)
  BY TwiceMeans DEF WritesInv
<1>3. CASE said = Keep /\ Keeps
  BY <1>1, <1>3 DEF Written, Told, Keep, Keeps, Assigned
<1>4. CASE said.kind = "plus" /\ Adds
  BY <1>1, <1>2, <1>4 DEF Written, Told, Adds
<1>5. CASE said.kind = "value" /\ Writes
  BY <1>1, <1>2, <1>5 DEF Written, Told, Writes, Assigned
<1> QED
  BY <1>3, <1>4, <1>5 DEF WritesInv, WordKept

LEMMA UpdateRefused ==
  ASSUME WritesInv, Update, done' = "refused"
  PROVE  /\ rows' = rows
         /\ \/ said.mixed
            \/ said.kind = "value" /\ said.v # Null /\ ~Valid(col, said.v)
            \/ b.op = "updateOne" /\ Named = {}
<1>1. /\ b # NoBuilder /\ b.op \in Updates /\ UNCHANGED rows
      /\ ~Checked(b.set) \/ Twice \/ (b.op = "updateOne" /\ Matched = {})
  BY DEF Update
<1>2. /\ \/ said = Keep /\ Keeps
         \/ said.kind = "plus" /\ Adds
         \/ said.kind = "value" /\ Writes
      /\ b.set # Unset => b.set # Null
  BY <1>1, BuilderFields, NoMarks DEF WritesInv, WordKept
<1>3. CASE ~Checked(b.set)
  <2>1. b.set # Unset /\ ~Valid(col, b.set)
    BY <1>3 DEF Checked
  <2>2. said.kind = "value" /\ Writes
    BY <1>2, <2>1 DEF Keeps, Adds
  <2>3. ~said.mixed => said.v = b.set
    BY <2>1, <2>2 DEF Writes
  <2> QED
    BY <1>1, <1>2, <2>1, <2>2, <2>3
<1>4. CASE Twice
  <2>1. \/ b.set # Unset /\ b.added # Unset
        \/ b.set # Unset /\ b.cleared
        \/ b.added # Unset /\ b.cleared
    BY <1>1, <1>4, TwiceMeans DEF WritesInv
  <2>2. said.kind = "value" /\ Writes
    BY <1>2, <2>1 DEF Keeps, Adds
  <2> QED
    BY <1>1, <2>1, <2>2 DEF Writes
<1>5. CASE b.op = "updateOne" /\ Matched = {}
  BY <1>1, <1>5, MatchedIsNamed DEF WritesInv
<1> QED
  BY <1>1, <1>3, <1>4, <1>5

LEMMA UpdateSaved ==
  ASSUME WritesInv, Update, done' # "refused"
  PROVE  b.op \in Updates /\ \A r \in Named : rows'[r] = Told(rows[r])
<1>1. /\ b # NoBuilder /\ b.op \in Updates /\ ~Twice
      /\ rows' = [r \in RowIDs |-> IF r \in Matched THEN Written(rows[r]) ELSE rows[r]]
  BY DEF Update
<1>2. ASSUME NEW r \in Named PROVE rows'[r] = Told(rows[r])
  <2>1. r \in Matched /\ r \in RowIDs /\ rows[r] \in Values(col) \cup {Null}
    BY MatchedIsNamed DEF WritesInv, WritesOK, Named, Cells
  <2> QED
    BY <1>1, <2>1, WrittenIsTold
<1> QED
  BY <1>1, <1>2

(* A new row has what its builder was told, or the default. *)
LEMMA CreateHolds ==
  ASSUME WritesInv, b # NoBuilder, b.op = "create"
  PROVE  /\ b.set # Unset => said.kind = "value" /\ said.v = b.set /\ b.set # Null
         /\ b.set = Unset => said.kind = "keep"
<1>1. b.op \notin Updates
  BY DEF Updates
<1>2. b.set # Unset => b.set # Null
  BY BuilderFields, NoMarks DEF WritesInv
<1> QED
  BY <1>1, <1>2 DEF WritesInv, WordKept, Keep, Keeps, Adds, Writes

LEMMA InsertRefused ==
  ASSUME WritesInv, Insert, done' = "refused"
  PROVE  /\ rows' = rows
         /\ \/ said.kind = "value" /\ said.v # Null /\ ~Valid(col, said.v)
            \/ b.op = "create" /\ said.kind = "keep" /\ Required(col)
                               /\ col[2] \notin DOMAIN Defaults(col)
<1>1. b # NoBuilder /\ b.op = "create" /\ UNCHANGED rows /\ ~Complete
  BY DEF Insert
<1>2. CASE b.set # Unset
  BY <1>1, <1>2, CreateHolds DEF Complete, Defaulted, Checked
<1>3. CASE b.set = Unset
  <2>1. said.kind = "keep"
    BY <1>1, <1>3, CreateHolds
  <2>2. CASE col[2] \in DOMAIN Defaults(col)
    <3>1. col \in Columns /\ Defaulted = Defaults(col)[col[2]]
      BY <1>1, <1>3, <2>2, BuilderFields DEF Defaulted, WritesInv
    <3>2. Defaulted \in Values(col) /\ Valid(col, Defaulted)
      BY <2>2, <3>1, DefaultsAreValid
    <3> QED
      BY <1>1, <3>1, <3>2, NoMarks DEF Complete, Checked
  <2>3. CASE col[2] \notin DOMAIN Defaults(col)
    BY <1>1, <1>3, <2>1, <2>3 DEF Complete, Defaulted, Checked
  <2> QED
    BY <2>2, <2>3
<1> QED
  BY <1>2, <1>3

LEMMA InsertSaved ==
  ASSUME WritesInv, Insert, done' # "refused"
  PROVE  /\ b.op = "create"
         /\ \A r \in RowIDs \ Cells :
              rows'[r] \in {Gone, IF Isid THEN r
                                  ELSE IF said.kind = "value" THEN said.v
                                  ELSE IF col[2] \in DOMAIN Defaults(col)
                                  THEN Defaults(col)[col[2]] ELSE Null}
<1>1. PICK s \in RowIDs \ Cells :
         rows' = [rows EXCEPT ![s] =
                     IF Isid THEN s ELSE IF Defaulted = Unset THEN Null ELSE Defaulted]
  BY DEF Insert
<1>2. /\ b # NoBuilder /\ b.op = "create"
      /\ rows \in [RowIDs -> Values(col) \cup {Null, Gone}]
  BY DEF Insert, WritesInv, WritesOK
<1>3. Defaulted = IF said.kind = "value" THEN said.v
                  ELSE IF col[2] \in DOMAIN Defaults(col) THEN Defaults(col)[col[2]] ELSE Unset
  BY <1>2, CreateHolds DEF Defaulted
<1>4. said.kind = "value" => said.v # Unset
  BY <1>2, CreateHolds
<1>5. col[2] \in DOMAIN Defaults(col) => Defaults(col)[col[2]] # Unset
  BY <1>2, BuilderFields, DefaultsAreValid, NoMarks DEF WritesInv
<1>6. ASSUME NEW r \in RowIDs \ Cells, r # s PROVE rows'[r] = Gone
  BY <1>1, <1>2, <1>6 DEF Cells
<1>7. rows'[s] = IF Isid THEN s ELSE IF Defaulted = Unset THEN Null ELSE Defaulted
  BY <1>1, <1>2
<1> QED
  BY <1>2, <1>3, <1>4, <1>5, <1>6, <1>7

(* In whatever order a builder's calls came, the rows that it saves hold   *)
(* what they came to; what is refused changes nothing, and is refused for  *)
(* calls that contradict each other, or for what they came to.             *)
THEOREM TheLastWordCounts == Spec => LastWordCounts
<1> DEFINE Step ==
      Saves => IF done' = "refused"
               THEN /\ rows' = rows
                    /\ \/ said.mixed
                       \/ said.kind = "value" /\ said.v # Null /\ ~Valid(col, said.v)
                       \/ b.op = "updateOne" /\ Named = {}
                       \/ b.op = "create" /\ said.kind = "keep" /\ Required(col)
                                          /\ col[2] \notin DOMAIN Defaults(col)
               ELSE CASE b.op \in Updates -> \A r \in Named : rows'[r] = Told(rows[r])
                      [] b.op = "create" -> \A r \in RowIDs \ Cells :
                             rows'[r] \in {Gone, IF Isid THEN r
                                                 ELSE IF said.kind = "value" THEN said.v
                                                 ELSE IF col[2] \in DOMAIN Defaults(col)
                                                 THEN Defaults(col)[col[2]] ELSE Null}
                      [] b.op = "delete" -> TRUE
<1>1. WritesInv /\ [Next]_vars => [Step]_vars
  <2> SUFFICES ASSUME WritesInv, [Next]_vars, Saves PROVE Step
    OBVIOUS
  <2>1. CASE Insert
    <3>1. b.op = "create" /\ b.op \notin Updates
      BY <2>1 DEF Insert, Updates
    <3>2. CASE done' = "refused"
      BY <2>1, <3>2, InsertRefused
    <3>3. CASE done' # "refused"
      BY <2>1, <3>1, <3>3, InsertSaved
    <3> QED
      BY <3>2, <3>3
  <2>2. CASE Update
    <3>1. CASE done' = "refused"
      BY <2>2, <3>1, UpdateRefused
    <3>2. b.op \in Updates /\ b.op # "create" /\ b.op # "delete"
      BY <2>2 DEF Update, Updates
    <3>3. CASE done' # "refused"
      BY <2>2, <3>2, <3>3, UpdateSaved
    <3> QED
      BY <3>1, <3>3
  <2>3. CASE Delete
    BY <2>3 DEF Delete, Updates
  <2> QED
    BY <2>1, <2>2, <2>3, SavesBySaving
<1> HIDE DEF Step
<1>2. Spec => [][Step]_vars
  BY WritesInit, WritesNext, <1>1, PTL DEF Spec
<1> QED
  BY <1>2 DEF LastWordCounts, Step

-----------------------------------------------------------------------------
(* Reading.  An order of rows is strict: no row precedes itself.           *)
LEMMA LessIsStrict ==
  ASSUME NEW c, NEW v \in Values(c)
  PROVE  ~Less(c, v, v)
<1>1. CASE Is("string", c)
  <2>1. v \in Seq(DOMAIN Lower) /\ DOMAIN Lower \subseteq Int
    BY <1>1, ColumnsAssumption DEF Values
  <2>2. \A i \in DOMAIN v : v[i] \in Int
    BY <2>1
  <2> QED
    BY <1>1, <2>2 DEF Less, Before, IsStrictPrefix
<1>2. CASE ~Is("string", c) /\ Is("bool", c)
  <2>1. Less(c, v, v) <=> ~v /\ v
    BY <1>2 DEF Less
  <2> QED
    BY <2>1
<1>3. CASE ~Is("string", c) /\ ~Is("bool", c)
  <2>1. v \in Int
    BY <1>3, ColumnsAssumption DEF Values
  <2> QED
    BY <1>3, <2>1 DEF Less
<1> QED
  BY <1>1, <1>2, <1>3

LEMMA PrecedesIsStrict ==
  ASSUME NEW order, NEW r \in DOMAIN Cell
  PROVE  ~Precedes(order, r, r)
<1>1. r \in Int /\ (Cell[r] \in Values(Column) \/ Cell[r] = Null)
  BY QueriesAssumption
<1>2. ASSUME NEW by PROVE ~Ascends(by, r, r)
  BY <1>1, LessIsStrict DEF Ascends
<1>3. ASSUME NEW o PROVE ~Above(o, r, r)
  BY <1>2 DEF Above
<1> QED
  BY <1>3 DEF Precedes

(* The rows that a builder is about are finitely many. *)
LEMMA FoundIsFinite ==
  ASSUME NEW t
  PROVE  /\ Found(t) \subseteq DOMAIN Cell /\ IsFiniteSet(Found(t))
         /\ Cardinality(Found(t)) \in Nat
<1>1. Found(t) \subseteq DOMAIN Cell
  BY DEF Found
<1> QED
  BY <1>1, QueriesAssumption, FS_Subset, FS_CardinalityType

(* An arrangement has each row once. *)
LEMMA ArrangementHasAll ==
  ASSUME NEW t, NEW p \in Arrangements(Found(t), t.order)
  PROVE  LET n == Cardinality(Found(t))
         IN  /\ n \in Nat /\ p \in [1 .. n -> Found(t)]
             /\ \A i, j \in 1 .. n : p[i] = p[j] => i = j
             /\ \A r \in Found(t) : \E i \in 1 .. n : p[i] = r
             /\ \A i \in 1 .. n : \A j \in 1 .. i - 1 : ~Precedes(t.order, p[i], p[j])
<1> DEFINE found == Found(t)
           n == Cardinality(found)
<1>1. n \in Nat /\ IsFiniteSet(found)
  BY FoundIsFinite
<1> HIDE DEF found
<1>2. /\ p \in SetToSeqs(found)
      /\ \A i \in DOMAIN p : \A j \in 1 .. i - 1 : ~Precedes(t.order, p[i], p[j])
  BY DEF Arrangements, found
<1>3. p \in [1 .. n -> found] /\ \A i, j \in 1 .. n : i # j => p[i] # p[j]
  BY <1>2 DEF SetToSeqs
<1>4. p \in Injection(1 .. n, found)
  BY <1>3 DEF Injection, IsInjective
<1>5. Cardinality(1 .. n) = n
  BY <1>1, FS_Interval
<1>6. p \in Surjection(1 .. n, found)
  BY <1>1, <1>4, <1>5, FS_Injection
<1>7. \A r \in found : \E i \in 1 .. n : p[i] = r
  BY <1>6 DEF Surjection
<1> QED
  BY <1>1, <1>2, <1>3, <1>7 DEF found

(* A set of rows of which all are at the places a to z of p is no larger   *)
(* than that.                                                              *)
LEMMA PlacesBound ==
  ASSUME NEW p, NEW S, NEW a \in Int, NEW z \in Int,
         \A r \in S : \E i \in a .. z : p[i] = r
  PROVE  Cardinality(S) <= IF a > z THEN 0 ELSE z - a + 1
<1> DEFINE T == {i \in a .. z : p[i] \in S}
           f == [i \in T |-> p[i]]
<1>1. f \in Surjection(T, S)
  <2>1. f \in [T -> S]
    OBVIOUS
  <2>2. ASSUME NEW r \in S PROVE \E i \in T : f[i] = r
    <3>1. PICK i \in a .. z : p[i] = r
      OBVIOUS
    <3> QED
      BY <3>1
  <2> QED
    BY <2>1, <2>2 DEF Surjection
<1>2. T \in SUBSET (a .. z)
  OBVIOUS
<1> HIDE DEF T, f
<1>3. /\ IsFiniteSet(a .. z)
      /\ Cardinality(a .. z) = IF a > z THEN 0 ELSE z - a + 1
  BY FS_Interval
<1>4. IsFiniteSet(T) /\ Cardinality(T) <= Cardinality(a .. z)
  BY <1>2, <1>3, FS_Subset
<1>5. IsFiniteSet(S) /\ Cardinality(S) <= Cardinality(T)
  BY <1>1, <1>4, FS_Surjection
<1>6. Cardinality(S) \in Int /\ Cardinality(T) \in Int
  BY <1>4, <1>5, FS_CardinalityType
<1> QED
  BY <1>3, <1>4, <1>5, <1>6

(* A window of an arrangement stands at its offset and is as long as it    *)
(* can be.                                                                 *)
LongFor(t, limit) ==
    IF Left(t) < 0 THEN 0 ELSE IF limit = None \/ limit > Left(t) THEN Left(t) ELSE limit

LEMMA WindowStands ==
  ASSUME NEW t, OrZero(t.offset) \in Nat, NEW limit \in Nat \cup {None},
         NEW list \in Windows(t, limit)
  PROVE  /\ Stands(t, list)
         /\ Len(list) \in Nat /\ Left(t) \in Int /\ Len(list) = LongFor(t, limit)
         /\ list = <<>> <=> Len(list) = 0
<1> DEFINE found == Found(t)
           n == Cardinality(found)
           offset == OrZero(t.offset)
<1>1. PICK p \in Arrangements(found, t.order) : list = Window(p, offset, limit)
  BY DEF Windows
<1>2. /\ n \in Nat /\ p \in [1 .. n -> found]
      /\ \A i, j \in 1 .. n : p[i] = p[j] => i = j
      /\ \A r \in found : \E i \in 1 .. n : p[i] = r
      /\ \A i \in 1 .. n : \A j \in 1 .. i - 1 : ~Precedes(t.order, p[i], p[j])
  BY <1>1, ArrangementHasAll
<1>3. found \subseteq DOMAIN Cell
  BY FoundIsFinite
<1>4. Left(t) = n - offset
  BY DEF Left
<1> HIDE DEF found, n, offset
<1>5. offset \in Nat
  BY DEF offset
<1> DEFINE last == IF limit = None \/ offset + limit > n THEN n ELSE offset + limit
<1>6. last \in Nat /\ last <= n /\ list = SubSeq(p, offset + 1, last)
  <2>1. Len(p) = n
    BY <1>2
  <2>2. limit # None => limit \in Nat
    OBVIOUS
  <2> QED
    BY <1>1, <1>2, <1>5, <2>1, <2>2 DEF Window
<1>7. LongFor(t, limit) = IF last <= offset THEN 0 ELSE last - offset
  BY <1>2, <1>4, <1>5 DEF LongFor
<1> HIDE DEF last
<1>8. /\ DOMAIN list = 1 .. last - offset
      /\ Len(list) = IF last <= offset THEN 0 ELSE last - offset
      /\ \A i \in DOMAIN list : i \in Nat /\ offset + i \in 1 .. n /\ list[i] = p[offset + i]
      /\ list = <<>> <=> Len(list) = 0
  <2>1. DOMAIN list = 1 .. last - offset
    BY <1>2, <1>5, <1>6
  <2>2. Len(list) = IF last <= offset THEN 0 ELSE last - offset
    BY <1>2, <1>5, <1>6
  <2>3. \A i \in 1 .. last - offset : list[i] = p[offset + i]
    BY <1>2, <1>5, <1>6
  <2>4. list \in Seq(found)
    BY <1>2, <1>5, <1>6
  <2>5. list = <<>> <=> Len(list) = 0
    BY <2>4
  <2>6. \A i \in 1 .. last - offset : i \in Nat /\ offset + i \in 1 .. n
    BY <1>2, <1>5, <1>6
  <2> QED
    BY <2>1, <2>2, <2>3, <2>5, <2>6
<1>9. IsInjective(list)
  <2> SUFFICES ASSUME NEW i \in DOMAIN list, NEW j \in DOMAIN list, list[i] = list[j]
               PROVE  i = j
    BY DEF IsInjective
  <2>1. offset + i \in 1 .. n /\ offset + j \in 1 .. n /\ i \in Nat /\ j \in Nat
    BY <1>2, <1>5, <1>6, <1>8
  <2>2. p[offset + i] = p[offset + j]
    BY <1>8
  <2>3. offset + i = offset + j
    BY <1>2, <2>1, <2>2
  <2> QED
    BY <1>5, <2>1, <2>3
<1>10. ASSUME NEW i \in DOMAIN list
       PROVE  /\ list[i] \in found
              /\ Cardinality({r \in found : Precedes(t.order, r, list[i])}) <= offset + i - 1
              /\ Cardinality({r \in found : Precedes(t.order, list[i], r)}) <= Left(t) - i
  <2> DEFINE k == offset + i
  <2>1. k \in 1 .. n /\ list[i] = p[k] /\ p[k] \in found /\ i \in Nat
    BY <1>2, <1>5, <1>6, <1>8
  <2>2. ~Precedes(t.order, p[k], p[k])
    BY <1>3, <2>1, PrecedesIsStrict
  <2> DEFINE before == {r \in found : Precedes(t.order, r, p[k])}
             after == {r \in found : Precedes(t.order, p[k], r)}
  <2>3. \A r \in before : \E j \in 1 .. k - 1 : p[j] = r
    <3> SUFFICES ASSUME NEW r \in found, Precedes(t.order, r, p[k])
                 PROVE  \E j \in 1 .. k - 1 : p[j] = r
      OBVIOUS
    <3>1. PICK j \in 1 .. n : p[j] = r
      BY <1>2
    <3>2. j # k /\ ~(k \in 1 .. j - 1)
      BY <1>2, <2>1, <2>2, <3>1
    <3> QED
      BY <1>2, <2>1, <3>1, <3>2
  <2>4. \A r \in after : \E j \in k + 1 .. n : p[j] = r
    <3> SUFFICES ASSUME NEW r \in found, Precedes(t.order, p[k], r)
                 PROVE  \E j \in k + 1 .. n : p[j] = r
      OBVIOUS
    <3>1. PICK j \in 1 .. n : p[j] = r
      BY <1>2
    <3>2. j # k /\ ~(j \in 1 .. k - 1)
      BY <1>2, <2>1, <2>2, <3>1
    <3> QED
      BY <1>2, <2>1, <3>1, <3>2
  <2> HIDE DEF before, after
  <2>5. Cardinality(before) <= offset + i - 1
    <3> DEFINE a == 1
               z == k - 1
    <3>0. a = 1 /\ z \in Nat /\ z = offset + i - 1
      BY <1>2, <1>5, <2>1
    <3>1. a \in Int /\ z \in Int /\ \A r \in before : \E j \in a .. z : p[j] = r
      BY <2>1, <2>3
    <3> HIDE DEF a, z
    <3>2. Cardinality(before) <= IF a > z THEN 0 ELSE z - a + 1
      BY <3>1, PlacesBound
    <3>3. Cardinality(before) <= z
      BY <3>0, <3>2
    <3> QED
      BY <3>0, <3>3
  <2>6. Cardinality(after) <= n - k
    <3> DEFINE a == k + 1
    <3>1. a \in 2 .. n + 1 /\ \A r \in after : \E j \in a .. n : p[j] = r
      BY <1>2, <2>1, <2>4
    <3>2. n - k = n - a + 1
      BY <1>2, <2>1
    <3> HIDE DEF a
    <3>3. Cardinality(after) <= IF a > n THEN 0 ELSE n - a + 1
      BY <1>2, <3>1, PlacesBound
    <3>4. Cardinality(after) <= n - a + 1
      BY <1>2, <3>1, <3>3
    <3> QED
      BY <3>2, <3>4
  <2>7. Left(t) - i = n - k
    BY <1>2, <1>4, <1>5, <2>1
  <2>8. /\ before = {r \in found : Precedes(t.order, r, list[i])}
        /\ after = {r \in found : Precedes(t.order, list[i], r)}
    BY <2>1 DEF before, after
  <2>9. list[i] \in found
    BY <2>1
  <2>11. Cardinality(after) <= Left(t) - i
    BY <2>6, <2>7
  <2> HIDE DEF before, after, found
  <2> QED
    BY <2>5, <2>8, <2>9, <2>11
<1>11. Stands(t, list)
  BY <1>9, <1>10 DEF Stands, found, offset
<1>12. Len(list) = LongFor(t, limit) /\ Left(t) \in Int
  BY <1>2, <1>4, <1>5, <1>7, <1>8
<1>13. Len(list) \in Nat
  BY <1>5, <1>6, <1>8
<1> QED
  BY <1>8, <1>11, <1>12, <1>13

-----------------------------------------------------------------------------
(* Answers.  A builder is a record of its own; what it was told is what it *)
(* holds, since no two builders have one context.                          *)
QueryBuilders ==
    [where : Seq(Predicates), order : Seq(Orders \cup {DefaultOrder}), ctx : Contexts]
QueryContexts ==
    [limit : Nat \cup {None}, offset : Nat \cup {None}, fields : Seq({"id", "cell"})]
Tellings ==
    [where : Seq(Predicates), order : Seq(Orders \cup {DefaultOrder}),
     limit : Nat \cup {None}, offset : Nat \cup {None}, fields : Seq({"id", "cell"})]

ToldInv ==
    /\ query \in [Handles -> QueryBuilders \cup {None}]
    /\ ctx \in [Contexts -> QueryContexts]
    /\ told \in [Handles -> Tellings \cup {None}]
    /\ \A h \in Made : told[h] = Holds(h)
    /\ \A h, g \in Made : query[h].ctx = query[g].ctx => h = g

AnswersInv == ToldInv /\ AnswersAsAsked

(* What a builder and its context hold together.                           *)
Together(q, c) ==
    [where |-> q.where, order |-> q.order, limit |-> c.limit, offset |-> c.offset,
     fields |-> c.fields]

LEMMA BuilderHolds ==
  ASSUME ToldInv, NEW h \in Made
  PROVE  /\ h \in Handles /\ query[h] \in QueryBuilders
         /\ query[h].ctx \in Contexts /\ ctx[query[h].ctx] \in QueryContexts
         /\ told[h] = Together(query[h], ctx[query[h].ctx])
         /\ told[h] = Holds(h) /\ told[h] \in Tellings
<1>1. h \in Handles /\ query[h] \in QueryBuilders
  BY DEF ToldInv, Made
<1>2. query[h].ctx \in Contexts /\ ctx[query[h].ctx] \in QueryContexts
  BY <1>1 DEF ToldInv, QueryBuilders
<1>3. told[h] = Holds(h)
  BY DEF ToldInv
<1>4. Holds(h) = Together(query[h], ctx[query[h].ctx])
  BY DEF Holds, Together
<1>5. Together(query[h], ctx[query[h].ctx]) \in Tellings
  BY <1>1, <1>2 DEF Together, QueryBuilders, QueryContexts, Tellings
<1> QED
  BY <1>1, <1>2, <1>3, <1>4, <1>5

(* A handle gets a builder with a context that nobody else has: its own,   *)
(* or one that was unused.                                                 *)
LEMMA TellStep ==
  ASSUME ToldInv, NEW h \in Handles, NEW q \in QueryBuilders, NEW c \in QueryContexts,
         q.ctx \in Unused \/ (h \in Made /\ q.ctx = query[h].ctx),
         query' = [query EXCEPT ![h] = q], ctx' = [ctx EXCEPT ![q.ctx] = c],
         told' = [told EXCEPT ![h] = Together(q, c)]
  PROVE  ToldInv' /\ told'[h] = Together(q, c) /\ told'[h] = Holds(h)'
<1>1. /\ query \in [Handles -> QueryBuilders \cup {None}]
      /\ ctx \in [Contexts -> QueryContexts]
      /\ told \in [Handles -> Tellings \cup {None}]
  BY DEF ToldInv
<1>2. q.ctx \in Contexts
  BY DEF QueryBuilders
<1>3. Together(q, c) \in Tellings
  BY DEF Together, QueryBuilders, QueryContexts, Tellings
<1>4. /\ query' \in [Handles -> QueryBuilders \cup {None}]
      /\ ctx' \in [Contexts -> QueryContexts]
      /\ told' \in [Handles -> Tellings \cup {None}]
  BY <1>1, <1>2, <1>3
<1>5. query'[h] = q /\ ctx'[q.ctx] = c /\ told'[h] = Together(q, c)
  BY <1>1, <1>2
<1>6. Together(q, c) = Holds(h)'
  BY <1>5 DEF Together, Holds
<1>7. ASSUME NEW g \in Made', g # h
      PROVE  /\ g \in Made /\ query'[g] = query[g] /\ query[g].ctx # q.ctx
             /\ told'[g] = Holds(g)'
  <2>1. g \in Handles /\ query'[g] = query[g] /\ told'[g] = told[g]
    BY <1>1, <1>7 DEF Made
  <2>2. g \in Made
    BY <1>7, <2>1 DEF Made
  <2>3. query[g].ctx # q.ctx
    BY <1>7, <2>2 DEF Unused, ToldInv
  <2>4. ctx'[query[g].ctx] = ctx[query[g].ctx]
    BY <1>1, <2>2, <2>3, BuilderHolds
  <2>5. told[g] = Holds(g)
    BY <2>2, BuilderHolds
  <2>6. Holds(g)' = Holds(g)
    BY <2>1, <2>4 DEF Holds
  <2> QED
    BY <2>1, <2>2, <2>3, <2>5, <2>6
<1>8. \A g \in Made' : told'[g] = Holds(g)'
  BY <1>5, <1>6, <1>7
<1>9. \A g, k \in Made' : query'[g].ctx = query'[k].ctx => g = k
  <2> SUFFICES ASSUME NEW g \in Made', NEW k \in Made', query'[g].ctx = query'[k].ctx
               PROVE  g = k
    OBVIOUS
  <2>1. CASE g = h \/ k = h
    BY <1>5, <1>7, <2>1
  <2>2. CASE g # h /\ k # h
    BY <1>7, <2>2 DEF ToldInv
  <2> QED
    BY <2>1, <2>2
<1> QED
  BY <1>4, <1>5, <1>6, <1>8, <1>9 DEF ToldInv

(* Each call that tells a builder.                                         *)
LEMMA QueryStep ==
  ASSUME ToldInv, NEW h \in Handles, Query(h)
  PROVE  ToldInv'
<1>1. PICK c \in Unused : /\ query' = [query EXCEPT ![h] = NewQuery(c)]
                          /\ ctx' = [ctx EXCEPT ![c] = QueryContext]
  BY DEF Query
<1>2. told' = [told EXCEPT ![h] = ToldNothing]
  BY DEF Query
<1> DEFINE q == NewQuery(c)
<1>3. q \in QueryBuilders /\ q.ctx = c /\ QueryContext \in QueryContexts
  <2>1. c \in Contexts
    BY DEF Unused
  <2>2. /\ <<>> \in Seq(Predicates) /\ <<>> \in Seq(Orders \cup {DefaultOrder})
        /\ <<>> \in Seq({"id", "cell"})
    OBVIOUS
  <2> QED
    BY <2>1, <2>2 DEF NewQuery, QueryContext, QueryBuilders, QueryContexts
<1>4. Together(q, QueryContext) = ToldNothing
  BY DEF Together, NewQuery, QueryContext, ToldNothing
<1> HIDE DEF q
<1>5. query' = [query EXCEPT ![h] = q] /\ ctx' = [ctx EXCEPT ![q.ctx] = QueryContext]
  BY <1>1, <1>3 DEF q
<1>6. told' = [told EXCEPT ![h] = Together(q, QueryContext)]
  BY <1>2, <1>4
<1>7. q.ctx \in Unused
  BY <1>3
<1> QED
  BY <1>3, <1>5, <1>6, <1>7, TellStep

LEMMA CloneStep ==
  ASSUME ToldInv, NEW h \in Handles, NEW g \in Handles, Clone(h, g)
  PROVE  ToldInv'
<1>1. h \in Made /\ told' = [told EXCEPT ![g] = told[h]]
  BY DEF Clone
<1>2. PICK c \in Unused : /\ query' = [query EXCEPT ![g] = [query[h] EXCEPT !.ctx = c]]
                          /\ ctx' = [ctx EXCEPT ![c] = ctx[query[h].ctx]]
  BY DEF Clone
<1> DEFINE q == [query[h] EXCEPT !.ctx = c]
           x == ctx[query[h].ctx]
<1>3. query[h] \in QueryBuilders /\ x \in QueryContexts /\ told[h] = Together(query[h], x)
  BY <1>1, BuilderHolds
<1>4. q \in QueryBuilders /\ q.ctx = c
  BY <1>3 DEF QueryBuilders, Unused
<1>5. Together(q, x) = told[h]
  BY <1>3 DEF Together, QueryBuilders
<1> HIDE DEF q, x
<1>6. query' = [query EXCEPT ![g] = q] /\ ctx' = [ctx EXCEPT ![q.ctx] = x]
  BY <1>2, <1>4 DEF q, x
<1> QED
  BY <1>1, <1>3, <1>4, <1>5, <1>6, TellStep

(* A step that puts q and c in the place of what h holds.                  *)
Becomes(h, q, c) ==
    /\ q \in QueryBuilders /\ c \in QueryContexts /\ q.ctx = query[h].ctx
    /\ query' = [query EXCEPT ![h] = q]
    /\ ctx' = [ctx EXCEPT ![query[h].ctx] = c]
    /\ told' = [told EXCEPT ![h] = Together(q, c)]

LEMMA BecomesStep ==
  ASSUME ToldInv, NEW h \in Made, NEW q, NEW c, Becomes(h, q, c)
  PROVE  ToldInv' /\ told'[h] = Together(q, c) /\ told'[h] = Holds(h)'
<1>1. h \in Handles
  BY DEF Made
<1> QED
  BY <1>1, TellStep DEF Becomes

(* The functions stay as they are where nothing is put into them.          *)
LEMMA SameAgain ==
  ASSUME ToldInv, NEW h \in Made
  PROVE  /\ query = [query EXCEPT ![h] = query[h]]
         /\ ctx = [ctx EXCEPT ![query[h].ctx] = ctx[query[h].ctx]]
BY DEF ToldInv

LEMMA WhereTells ==
  ASSUME ToldInv, NEW h \in Handles, NEW p \in Predicates, QueryWhere(h, p)
  PROVE  ToldInv'
<1> DEFINE c == ctx[query[h].ctx]
           q == [query[h] EXCEPT !.where = Append(@, p)]
<1>1. h \in Made /\ query' = [query EXCEPT ![h] = q] /\ ctx' = ctx
  BY DEF QueryWhere
<1>2. query[h] \in QueryBuilders /\ c \in QueryContexts /\ told[h] = Together(query[h], c)
  BY <1>1, BuilderHolds
<1> DEFINE more == Append(query[h].where, p)
<1>a. more \in Seq(Predicates)
  BY <1>2 DEF QueryBuilders
<1>b. q = [query[h] EXCEPT !.where = more] /\ told[h].where = query[h].where
  BY <1>2 DEF Together
<1> HIDE DEF more, q, c
<1>3. q \in QueryBuilders /\ q.ctx = query[h].ctx
  BY <1>2, <1>a, <1>b DEF QueryBuilders
<1>4. told' = [told EXCEPT ![h] = [told[h] EXCEPT !.where = Append(told[h].where, p)]]
  BY DEF QueryWhere
<1>5. [told[h] EXCEPT !.where = Append(@, p)] = Together(q, c)
  <2>1. [told[h] EXCEPT !.where = Append(@, p)] = [told[h] EXCEPT !.where = more]
    BY <1>b DEF more
  <2> QED
    BY <1>2, <1>b, <2>1 DEF Together, QueryBuilders
<1>6. ctx' = [ctx EXCEPT ![query[h].ctx] = c]
  BY <1>1, SameAgain DEF c
<1> QED
  BY <1>1, <1>2, <1>3, <1>4, <1>5, <1>6, BecomesStep DEF Becomes

LEMMA OrderTells ==
  ASSUME ToldInv, NEW h \in Handles, NEW o \in Orders, Order(h, o)
  PROVE  ToldInv'
<1> DEFINE c == ctx[query[h].ctx]
           q == [query[h] EXCEPT !.order = Append(@, o)]
<1>1. h \in Made /\ query' = [query EXCEPT ![h] = q] /\ ctx' = ctx
  BY DEF Order
<1>2. query[h] \in QueryBuilders /\ c \in QueryContexts /\ told[h] = Together(query[h], c)
  BY <1>1, BuilderHolds
<1> DEFINE more == Append(query[h].order, o)
<1>a. more \in Seq(Orders \cup {DefaultOrder})
  BY <1>2 DEF QueryBuilders
<1>b. q = [query[h] EXCEPT !.order = more] /\ told[h].order = query[h].order
  BY <1>2 DEF Together
<1> HIDE DEF more, q, c
<1>3. q \in QueryBuilders /\ q.ctx = query[h].ctx
  BY <1>2, <1>a, <1>b DEF QueryBuilders
<1>4. told' = [told EXCEPT ![h] = [told[h] EXCEPT !.order = Append(told[h].order, o)]]
  BY DEF Order
<1>5. [told[h] EXCEPT !.order = Append(@, o)] = Together(q, c)
  <2>1. [told[h] EXCEPT !.order = Append(@, o)] = [told[h] EXCEPT !.order = more]
    BY <1>b DEF more
  <2> QED
    BY <1>2, <1>b, <2>1 DEF Together, QueryBuilders
<1>6. ctx' = [ctx EXCEPT ![query[h].ctx] = c]
  BY <1>1, SameAgain DEF c
<1> QED
  BY <1>1, <1>2, <1>3, <1>4, <1>5, <1>6, BecomesStep DEF Becomes

(* What only the context is told: by Limit, Offset and Select, and by      *)
(* First, Only, IDs and Exist.                                             *)
LEMMA ContextTells ==
  ASSUME ToldInv, NEW h \in Made, NEW c \in QueryContexts, UNCHANGED query,
         ctx' = [ctx EXCEPT ![query[h].ctx] = c],
         told' = [told EXCEPT ![h] = Together(query[h], c)]
  PROVE  ToldInv' /\ told'[h] = Together(query[h], c) /\ told'[h] = Holds(h)'
<1>1. query[h] \in QueryBuilders /\ query' = [query EXCEPT ![h] = query[h]]
  BY BuilderHolds, SameAgain
<1> QED
  BY <1>1, BecomesStep DEF Becomes

LEMMA LimitTells ==
  ASSUME ToldInv, NEW h \in Made, NEW n \in Nat, UNCHANGED query,
         ctx' = [ctx EXCEPT ![query[h].ctx].limit = n], told' = [told EXCEPT ![h].limit = n]
  PROVE  ToldInv' /\ told'[h] = Holds(h)' /\ told'[h] = [told[h] EXCEPT !.limit = n]
<1> DEFINE x == ctx[query[h].ctx]
           c == [x EXCEPT !.limit = n]
<1>1. query[h] \in QueryBuilders /\ x \in QueryContexts /\ told[h] = Together(query[h], x)
  BY BuilderHolds
<1>2. c \in QueryContexts
  BY <1>1 DEF QueryContexts
<1>3. Together(query[h], c) = [told[h] EXCEPT !.limit = n]
  BY <1>1 DEF Together, QueryContexts
<1>4. ctx' = [ctx EXCEPT ![query[h].ctx] = c]
  OBVIOUS
<1>5. told' = [told EXCEPT ![h] = Together(query[h], c)]
  BY <1>3
<1> QED
  BY <1>2, <1>3, <1>4, <1>5, ContextTells

LEMMA OffsetTells ==
  ASSUME ToldInv, NEW h \in Handles, NEW n \in Offsets, Offset(h, n)
  PROVE  ToldInv'
<1> DEFINE x == ctx[query[h].ctx]
           c == [x EXCEPT !.offset = n]
<1>0. h \in Made /\ UNCHANGED query /\ n \in Nat
  BY QueriesAssumption DEF Offset
<1>1. query[h] \in QueryBuilders /\ x \in QueryContexts /\ told[h] = Together(query[h], x)
  BY <1>0, BuilderHolds
<1>2. c \in QueryContexts
  BY <1>0, <1>1 DEF QueryContexts
<1>3. Together(query[h], c) = [told[h] EXCEPT !.offset = n]
  BY <1>1 DEF Together, QueryContexts
<1>4. ctx' = [ctx EXCEPT ![query[h].ctx] = c]
  BY DEF Offset
<1>5. told' = [told EXCEPT ![h] = Together(query[h], c)]
  BY <1>3 DEF Offset
<1> QED
  BY <1>0, <1>2, <1>4, <1>5, ContextTells

LEMMA FieldsTell ==
  ASSUME ToldInv, NEW h \in Made, NEW f \in {"id", "cell"}, UNCHANGED query,
         ctx' = [ctx EXCEPT ![query[h].ctx].fields = Append(@, f)],
         told' = [told EXCEPT ![h].fields = Append(@, f)]
  PROVE  ToldInv' /\ told'[h] = Holds(h)' /\ told'[h] = [told[h] EXCEPT !.fields = Append(@, f)]
<1> DEFINE x == ctx[query[h].ctx]
           c == [x EXCEPT !.fields = Append(@, f)]
<1>1. query[h] \in QueryBuilders /\ x \in QueryContexts /\ told[h] = Together(query[h], x)
  BY BuilderHolds
<1> DEFINE more == Append(x.fields, f)
<1>a. /\ more \in Seq({"id", "cell"}) /\ c = [x EXCEPT !.fields = more]
      /\ [told[h] EXCEPT !.fields = Append(@, f)] = [told[h] EXCEPT !.fields = more]
  BY <1>1 DEF QueryContexts, Together
<1>4. ctx' = [ctx EXCEPT ![query[h].ctx] = c]
  OBVIOUS
<1> HIDE DEF more, c
<1>2. c \in QueryContexts
  BY <1>1, <1>a DEF QueryContexts
<1>b. c.limit = x.limit /\ c.offset = x.offset /\ c.fields = more
  BY <1>1, <1>a DEF QueryContexts
<1>c. Together(query[h], c) = [Together(query[h], x) EXCEPT !.fields = more]
  BY <1>b DEF Together
<1>3. Together(query[h], c) = [told[h] EXCEPT !.fields = Append(@, f)]
  BY <1>1, <1>a, <1>c
<1>5. told' = [told EXCEPT ![h] = Together(query[h], c)]
  BY <1>3
<1> QED
  BY <1>2, <1>3, <1>4, <1>5, ContextTells

LEMMA TellKeeps ==
  ASSUME AnswersInv, NEW h \in Handles, Tell(h)
  PROVE  AnswersInv'
<1>1. ToldInv
  BY DEF AnswersInv
<1>2. answer' = None
  BY DEF Tell, Query, QueryWhere, Order, Limit, Offset, Select, Clone
<1>3. AnswersAsAsked'
  BY <1>2 DEF AnswersAsAsked
<1>4. ToldInv'
  <2>1. CASE Query(h)
    BY <1>1, <2>1, QueryStep
  <2>2. ASSUME NEW p \in Predicates, QueryWhere(h, p) PROVE ToldInv'
    BY <1>1, <2>2, WhereTells
  <2>3. ASSUME NEW o \in Orders, Order(h, o) PROVE ToldInv'
    BY <1>1, <2>3, OrderTells
  <2>4. ASSUME NEW n \in Limits, Limit(h, n) PROVE ToldInv'
    <3>1. h \in Made /\ n \in Nat /\ query' = query
      BY <2>4, QueriesAssumption DEF Limit
    <3>2. /\ ctx' = [ctx EXCEPT ![query[h].ctx].limit = n]
          /\ told' = [told EXCEPT ![h].limit = n]
      BY <2>4 DEF Limit
    <3> QED
      BY <1>1, <3>1, <3>2, LimitTells
  <2>5. ASSUME NEW n \in Offsets, Offset(h, n) PROVE ToldInv'
    BY <1>1, <2>5, OffsetTells
  <2>6. ASSUME NEW f \in Selected, Select(h, f) PROVE ToldInv'
    <3>1. h \in Made /\ f \in {"id", "cell"} /\ query' = query
      BY <2>6, QueriesAssumption DEF Select
    <3>2. /\ ctx' = [ctx EXCEPT ![query[h].ctx].fields = Append(@, f)]
          /\ told' = [told EXCEPT ![h].fields = Append(@, f)]
      BY <2>6 DEF Select
    <3> QED
      BY <1>1, <3>1, <3>2, FieldsTell
  <2>7. ASSUME NEW g \in Handles, Clone(h, g) PROVE ToldInv'
    BY <1>1, <2>7, CloneStep
  <2> QED
    BY <2>1, <2>2, <2>3, <2>4, <2>5, <2>6, <2>7 DEF Tell
<1> QED
  BY <1>3, <1>4 DEF AnswersInv

(* What is asked.  What t says is what WindowStands wants. *)
LEMMA LongMeans ==
  ASSUME NEW t \in Tellings, NEW list
  PROVE  /\ Long(t, list) <=> Len(list) = LongFor(t, t.limit)
         /\ \A n \in Nat \cup {None} :
                Long([t EXCEPT !.limit = n], list) <=> Len(list) = LongFor(t, n)
<1>1. Long(t, list) <=> Len(list) = LongFor(t, t.limit)
  BY DEF Long, LongFor
<1>2. ASSUME NEW n \in Nat \cup {None}
      PROVE  Long([t EXCEPT !.limit = n], list) <=> Len(list) = LongFor(t, n)
  <2> DEFINE u == [t EXCEPT !.limit = n]
  <2>1. u.where = t.where /\ u.offset = t.offset /\ u.limit = n
    BY DEF Tellings
  <2> HIDE DEF u
  <2>2. Left(u) = Left(t)
    BY <2>1 DEF Left, Found
  <2>3. Long(u, list) <=> Len(list) = LongFor(t, n)
    BY <2>1, <2>2 DEF Long, LongFor
  <2> QED
    BY <2>3 DEF u
<1> QED
  BY <1>1, <1>2

(* A list that querySpec or sqlQuery gives.                                *)
LEMMA ListIsRight ==
  ASSUME NEW t \in Tellings, NEW limit \in Nat \cup {None}, NEW list \in Windows(t, limit)
  PROVE  /\ Stands(t, list) /\ Len(list) = LongFor(t, limit)
         /\ Len(list) \in Nat /\ Left(t) \in Int /\ (list = <<>> <=> Len(list) = 0)
<1>1. OrZero(t.offset) \in Nat
  BY DEF Tellings, OrZero
<1> QED
  BY <1>1, WindowStands

(* What answers there are. *)
LEMMA AnswerSays ==
  ASSUME NEW h, NEW call, NEW list, NEW n
  PROVE  /\ LET a == Lists(h, call, list)
            IN  a.to = h /\ a.call = call /\ a.ok /\ a.list = list
         /\ LET a == Counts(h, call, n)
            IN  a.to = h /\ a.call = call /\ a.ok /\ a.number = n
         /\ LET a == Fails(h, call)
            IN  a.to = h /\ a.call = call /\ ~a.ok
BY DEF Lists, Counts, Fails, Answer

LEMMA AllAnswers ==
  ASSUME ToldInv, NEW h \in Handles, All(h)
  PROVE  ToldInv' /\ AnswersAsAsked'
<1>1. h \in Made /\ UNCHANGED <<query, ctx, told>>
  BY DEF All
<1>2. ToldInv'
  BY <1>1 DEF ToldInv, Made, Holds
<1> DEFINE t == told[h]
           n == IF t.limit = 0 THEN None ELSE t.limit
<1>3. t = Holds(h) /\ t \in Tellings /\ n \in Nat \cup {None}
  BY <1>1, BuilderHolds DEF Tellings
<1>4. PICK list \in Windows(t, n) : answer' = Lists(h, "All", list)
  BY <1>3 DEF All, querySpec
<1>5. Stands(t, list) /\ Len(list) = LongFor(t, n)
  BY <1>3, <1>4, ListIsRight
<1>6. Long([t EXCEPT !.limit = n], list)
  BY <1>3, <1>5, LongMeans
<1>7. told'[h] = t
  BY <1>1
<1> HIDE DEF t
<1>8. /\ answer'.to = h /\ answer'.call = "All" /\ answer'.ok /\ answer'.list = list
  BY <1>4, AnswerSays
<1> QED
  BY <1>2, <1>5, <1>6, <1>7, <1>8 DEF AnswersAsAsked

(* A limit is all that setting one changes.                                *)
LEMMA LimitedTelling ==
  ASSUME NEW u \in Tellings, NEW n \in Nat, NEW t, t = [u EXCEPT !.limit = n]
  PROVE  t \in Tellings /\ t.limit = n
<1>1. t = [where |-> u.where, order |-> u.order, limit |-> n, offset |-> u.offset,
           fields |-> u.fields]
  BY DEF Tellings
<1> QED
  BY <1>1 DEF Tellings

(* First and Only take what a limit of one or of two leaves.               *)
LEMMA FirstAnswers ==
  ASSUME ToldInv, NEW h \in Handles, First(h)
  PROVE  ToldInv' /\ AnswersAsAsked'
<1>1. /\ h \in Made /\ UNCHANGED query
      /\ ctx' = [ctx EXCEPT ![query[h].ctx].limit = 1] /\ told' = [told EXCEPT ![h].limit = 1]
  BY DEF First
<1>2. ToldInv' /\ told'[h] = Holds(h)' /\ told'[h] = [told[h] EXCEPT !.limit = 1]
  BY <1>1, LimitTells
<1> DEFINE t == told'[h]
<1>3. told[h] \in Tellings
  BY <1>1, BuilderHolds
<1>4. t \in Tellings /\ t.limit = 1
  BY <1>2, <1>3, LimitedTelling
<1>5. PICK list \in querySpec(t) :
          answer' = IF list = <<>> THEN Fails(h, "First") ELSE Lists(h, "First", list)
  BY <1>2 DEF First
<1> HIDE DEF t
<1>6. list \in Windows(t, 1)
  BY <1>4, <1>5 DEF querySpec
<1>7. /\ Stands(t, list) /\ Len(list) = LongFor(t, 1) /\ Left(t) \in Int
      /\ list = <<>> <=> Len(list) = 0
  BY <1>6, <1>4, ListIsRight
<1>8. 1 # None
  BY QueriesAssumption
<1>9. (Left(t) > 0 => Len(list) = 1) /\ (~(Left(t) > 0) => Len(list) = 0)
  BY <1>7, <1>8 DEF LongFor
<1>10. CASE list = <<>>
  <2>1. answer'.to = h /\ answer'.call = "First" /\ ~answer'.ok
    BY <1>5, <1>10, AnswerSays
  <2> QED
    BY <1>2, <1>7, <1>9, <1>10, <2>1 DEF AnswersAsAsked, t
<1>11. CASE list # <<>>
  <2>1. answer'.to = h /\ answer'.call = "First" /\ answer'.ok /\ answer'.list = list
    BY <1>5, <1>11, AnswerSays
  <2> QED
    BY <1>2, <1>7, <1>9, <1>11, <2>1 DEF AnswersAsAsked, t
<1> QED
  BY <1>10, <1>11

LEMMA OnlyAnswers ==
  ASSUME ToldInv, NEW h \in Handles, Only(h)
  PROVE  ToldInv' /\ AnswersAsAsked'
<1>1. /\ h \in Made /\ UNCHANGED query
      /\ ctx' = [ctx EXCEPT ![query[h].ctx].limit = 2] /\ told' = [told EXCEPT ![h].limit = 2]
  BY DEF Only
<1>2. ToldInv' /\ told'[h] = Holds(h)' /\ told'[h] = [told[h] EXCEPT !.limit = 2]
  BY <1>1, LimitTells
<1> DEFINE t == told'[h]
<1>3. told[h] \in Tellings
  BY <1>1, BuilderHolds
<1>4. t \in Tellings /\ t.limit = 2
  BY <1>2, <1>3, LimitedTelling
<1>5. PICK list \in querySpec(t) :
          answer' = IF Len(list) # 1 THEN Fails(h, "Only") ELSE Lists(h, "Only", list)
  BY <1>2 DEF Only
<1> HIDE DEF t
<1>6. list \in Windows(t, 2)
  BY <1>4, <1>5 DEF querySpec
<1>7. Stands(t, list) /\ Len(list) = LongFor(t, 2) /\ Left(t) \in Int
  BY <1>6, <1>4, ListIsRight
<1>8. 2 # None
  BY QueriesAssumption
<1>9. Len(list) = 1 <=> Left(t) = 1
  BY <1>7, <1>8 DEF LongFor
<1>10. CASE Len(list) # 1
  <2>1. answer'.to = h /\ answer'.call = "Only" /\ ~answer'.ok
    BY <1>5, <1>10, AnswerSays
  <2> QED
    BY <1>2, <1>9, <1>10, <2>1 DEF AnswersAsAsked, t
<1>11. CASE Len(list) = 1
  <2>1. answer'.to = h /\ answer'.call = "Only" /\ answer'.ok /\ answer'.list = list
    BY <1>5, <1>11, AnswerSays
  <2> QED
    BY <1>2, <1>7, <1>9, <1>11, <2>1 DEF AnswersAsAsked, t
<1> QED
  BY <1>10, <1>11

(* A column more is one column if there was none. *)
LEMMA OneField ==
  ASSUME NEW fields \in Seq({"id", "cell"}), NEW more, more = Append(fields, "id")
  PROVE  /\ Len(more) > 1 => more # <<"id">>
         /\ ~(Len(more) > 1) => more = <<"id">>
         /\ more \in Seq({"id", "cell"})
<1>1. Len(fields) \in Nat /\ Len(more) = Len(fields) + 1
  OBVIOUS
<1>2. ~(Len(more) > 1) => more = <<"id">>
  <2> SUFFICES ASSUME ~(Len(more) > 1) PROVE more = <<"id">>
    OBVIOUS
  <2>1. Len(fields) = 0
    BY <1>1
  <2>2. fields = <<>>
    BY <2>1
  <2> QED
    BY <2>2
<1>3. Len(<<"id">>) = 1
  OBVIOUS
<1> QED
  BY <1>1, <1>2, <1>3

LEMMA IDsAnswers ==
  ASSUME ToldInv, NEW h \in Handles, IDs(h)
  PROVE  ToldInv' /\ AnswersAsAsked'
<1>1. /\ h \in Made /\ UNCHANGED query
      /\ ctx' = [ctx EXCEPT ![query[h].ctx].fields = Append(@, "id")]
      /\ told' = [told EXCEPT ![h].fields = Append(@, "id")]
  BY DEF IDs
<1>2. ToldInv' /\ told'[h] = Holds(h)' /\ told'[h] = [told[h] EXCEPT !.fields = Append(@, "id")]
  BY <1>1, FieldsTell
<1> DEFINE t == told'[h]
           more == Append(told[h].fields, "id")
<1>3. told[h] \in Tellings /\ told[h].fields \in Seq({"id", "cell"})
  BY <1>1, BuilderHolds DEF Tellings
<1>4. /\ Len(more) > 1 => more # <<"id">>
      /\ ~(Len(more) > 1) => more = <<"id">>
      /\ more \in Seq({"id", "cell"})
  BY <1>3, OneField
<1>5. t = [told[h] EXCEPT !.fields = more]
  BY <1>2
<1> HIDE DEF more
<1>6. t \in Tellings /\ t.fields = more
  BY <1>3, <1>4, <1>5 DEF Tellings
<1>7. ctx'[query[h].ctx].fields = more
  <2>1. Holds(h)'.fields = ctx'[query'[h].ctx].fields
    BY DEF Holds
  <2> HIDE DEF t
  <2> QED
    BY <1>1, <1>2, <1>6, <2>1 DEF t
<1>8. PICK list \in sqlQuery(t) :
          answer' = IF Len(more) > 1 THEN Fails(h, "IDs") ELSE Lists(h, "IDs", list)
  BY <1>2, <1>7 DEF IDs
<1> HIDE DEF t
<1>9. t.limit \in Nat \cup {None} /\ list \in Windows(t, t.limit)
  BY <1>6, <1>8 DEF sqlQuery, Tellings
<1>10. Stands(t, list) /\ Long(t, list)
  BY <1>6, <1>9, ListIsRight, LongMeans
<1>11. CASE Len(more) > 1
  <2>1. answer'.to = h /\ answer'.call = "IDs" /\ ~answer'.ok
    BY <1>8, <1>11, AnswerSays
  <2> QED
    BY <1>2, <1>4, <1>6, <1>11, <2>1 DEF AnswersAsAsked, t
<1>12. CASE ~(Len(more) > 1)
  <2>1. answer'.to = h /\ answer'.call = "IDs" /\ answer'.ok /\ answer'.list = list
    BY <1>8, <1>12, AnswerSays
  <2> QED
    BY <1>2, <1>4, <1>6, <1>10, <1>12, <2>1 DEF AnswersAsAsked, t
<1> QED
  BY <1>11, <1>12

LEMMA ExistAnswers ==
  ASSUME ToldInv, NEW h \in Handles, Exist(h)
  PROVE  ToldInv' /\ AnswersAsAsked'
<1> DEFINE x == ctx[query[h].ctx]
           more == Append(x.fields, "id")
           c == [limit |-> 1, offset |-> x.offset, fields |-> more]
           d == [where |-> query[h].where, order |-> query[h].order, limit |-> 1,
                 offset |-> x.offset, fields |-> more]
<1>1. /\ h \in Made /\ UNCHANGED query
      /\ ctx' = [ctx EXCEPT ![query[h].ctx].limit = 1, ![query[h].ctx].fields = Append(@, "id")]
      /\ told' = [told EXCEPT ![h].limit = 1, ![h].fields = Append(@, "id")]
  BY DEF Exist
<1>2. /\ query[h] \in QueryBuilders /\ query[h].ctx \in Contexts /\ x \in QueryContexts
      /\ told[h] = Together(query[h], x) /\ told[h] \in Tellings /\ h \in Handles
      /\ x.fields \in Seq({"id", "cell"})
  BY <1>1, BuilderHolds DEF QueryContexts
<1>3. more \in Seq({"id", "cell"})
  BY <1>2
<1>4. ctx' = [ctx EXCEPT ![query[h].ctx] = c] /\ told' = [told EXCEPT ![h] = d]
  <2> DEFINE one == [ctx EXCEPT ![query[h].ctx].limit = 1]
             saidOne == [told EXCEPT ![h].limit = 1]
             y == [limit |-> 1, offset |-> x.offset, fields |-> x.fields]
             u == [where |-> query[h].where, order |-> query[h].order, limit |-> 1,
                   offset |-> x.offset, fields |-> x.fields]
  <2>1. ctx \in [Contexts -> QueryContexts] /\ told \in [Handles -> Tellings \cup {None}]
    BY DEF ToldInv
  <2>2. one[query[h].ctx] = y
    BY <1>2, <2>1 DEF QueryContexts
  <2>3. saidOne[h] = u
    BY <1>2, <2>1 DEF Together
  <2>4. ctx' = [one EXCEPT ![query[h].ctx] = [y EXCEPT !.fields = Append(y.fields, "id")]]
    BY <1>1, <2>2
  <2>5. told' = [saidOne EXCEPT ![h] = [u EXCEPT !.fields = Append(u.fields, "id")]]
    BY <1>1, <2>3
  <2>6. [y EXCEPT !.fields = Append(@, "id")] = c /\ [u EXCEPT !.fields = Append(@, "id")] = d
    <3>1. Append(y.fields, "id") = more /\ Append(u.fields, "id") = more
      OBVIOUS
    <3> HIDE DEF more
    <3>2. [y EXCEPT !.fields = more] = c /\ [u EXCEPT !.fields = more] = d
      OBVIOUS
    <3> QED
      BY <3>1, <3>2
  <2> HIDE DEF c, d, y, u
  <2>7. ctx' = [one EXCEPT ![query[h].ctx] = c] /\ told' = [saidOne EXCEPT ![h] = d]
    BY <2>4, <2>5, <2>6
  <2> QED
    BY <2>1, <2>7
<1> HIDE DEF more
<1>5. c \in QueryContexts
  BY <1>2, <1>3 DEF QueryContexts
<1>6. d = Together(query[h], c)
  BY DEF Together
<1>7. ToldInv' /\ told'[h] = Together(query[h], c) /\ told'[h] = Holds(h)'
  BY <1>1, <1>4, <1>5, <1>6, ContextTells
<1> DEFINE t == told'[h]
<1>8. t \in Tellings /\ t.limit = 1
  BY <1>2, <1>3, <1>6, <1>7 DEF Tellings, QueryBuilders, QueryContexts
<1>9. PICK list \in sqlQuery(t) :
          answer' = IF Len(ctx'[query[h].ctx].fields) > 1 THEN Fails(h, "Exist")
                    ELSE Counts(h, "Exist", Len(list))
  BY <1>7 DEF Exist
<1> HIDE DEF t
<1>10. list \in Windows(t, 1)
  BY <1>8, <1>9 DEF sqlQuery
<1>11. Len(list) = LongFor(t, 1) /\ Left(t) \in Int
  BY <1>8, <1>10, ListIsRight
<1>12. 1 # None
  BY QueriesAssumption
<1>13. Len(list) > 0 <=> Left(t) > 0
  BY <1>11, <1>12 DEF LongFor
<1>14. CASE Len(ctx'[query[h].ctx].fields) > 1
  <2>1. answer'.to = h /\ answer'.call = "Exist" /\ ~answer'.ok
    BY <1>9, <1>14, AnswerSays
  <2> QED
    BY <1>7, <2>1 DEF AnswersAsAsked
<1>15. CASE ~(Len(ctx'[query[h].ctx].fields) > 1)
  <2>1. answer'.to = h /\ answer'.call = "Exist" /\ answer'.ok /\ answer'.number = Len(list)
    BY <1>9, <1>15, AnswerSays
  <2> QED
    BY <1>7, <1>13, <2>1 DEF AnswersAsAsked, t
<1> QED
  BY <1>14, <1>15

(* A count is of one column at most.                                       *)
LEMMA NoneOrOne ==
  ASSUME NEW n \in Nat, n <= 1
  PROVE  n = 0 \/ n = 1
OBVIOUS

LEMMA CountIsRight ==
  ASSUME NEW t \in Tellings, Len(t.fields) <= 1
  PROVE  sqlCount(t) = Cardinality({r \in Found(t) :
             "cell" \in {t.fields[i] : i \in DOMAIN t.fields} => Cell[r] # Null})
<1>1. t.fields \in Seq({"id", "cell"})
  BY DEF Tellings
<1> DEFINE f == t.fields
<1>2. f = <<"cell">> <=> "cell" \in {f[i] : i \in DOMAIN f}
  <2>1. Len(f) \in Nat /\ DOMAIN f = 1 .. Len(f)
    BY <1>1
  <2>2. CASE Len(f) = 0
    <3>1. DOMAIN f = {}
      BY <2>1, <2>2
    <3>2. f # <<"cell">>
      BY <2>2
    <3> QED
      BY <3>1, <3>2
  <2>3. CASE Len(f) = 1
    <3>1. DOMAIN f = {1}
      BY <2>1, <2>3
    <3>2. {f[i] : i \in DOMAIN f} = {f[1]}
      BY <3>1
    <3>3. f = <<"cell">> <=> f[1] = "cell"
      BY <1>1, <2>3
    <3> QED
      BY <3>2, <3>3
  <2>4. Len(f) = 0 \/ Len(f) = 1
    <3>1. Len(f) <= 1
      OBVIOUS
    <3> HIDE DEF f
    <3> QED
      BY <2>1, <3>1, NoneOrOne
  <2> QED
    BY <2>2, <2>3, <2>4
<1> QED
  BY <1>2 DEF sqlCount

LEMMA CountAnswers ==
  ASSUME ToldInv, NEW h \in Handles, Count(h)
  PROVE  ToldInv' /\ AnswersAsAsked'
<1>1. h \in Made /\ UNCHANGED <<query, ctx, told>>
  BY DEF Count
<1>2. ToldInv'
  BY <1>1 DEF ToldInv, Made, Holds
<1> DEFINE t == told[h]
<1>3. t = Holds(h) /\ t \in Tellings /\ told'[h] = t
  BY <1>1, BuilderHolds
<1>4. answer' = IF Countable(t) THEN Counts(h, "Count", sqlCount(t)) ELSE Fails(h, "Count")
  BY <1>3 DEF Count
<1> HIDE DEF t
<1>5. CASE ~Countable(t)
  <2>1. answer'.to = h /\ answer'.call = "Count" /\ ~answer'.ok
    BY <1>4, <1>5, AnswerSays
  <2> QED
    BY <1>2, <2>1 DEF AnswersAsAsked
<1>6. CASE Countable(t)
  <2>1. answer'.to = h /\ answer'.call = "Count" /\ answer'.number = sqlCount(t)
    BY <1>4, <1>6, AnswerSays
  <2>2. Len(t.fields) <= 1
    BY <1>6 DEF Countable
  <2> QED
    BY <1>2, <1>3, <2>1, <2>2, CountIsRight DEF AnswersAsAsked
<1> QED
  BY <1>5, <1>6

(* A page is counted without columns and listed in its window.             *)
LEMMA PageAnswers ==
  ASSUME ToldInv, NEW h \in Handles, NEW offset \in Offsets \cup {0}, NEW size \in Limits,
         Page(h, offset, size)
  PROVE  ToldInv' /\ AnswersAsAsked'
<1>0. offset \in Nat /\ size \in Nat
  BY QueriesAssumption
<1>1. h \in Made
  BY DEF Page
<1> DEFINE counted == [Holds(h) EXCEPT !.fields = <<>>]
<1>2. CASE ~Countable(counted)
  <2>1. answer' = Fails(h, "Page") /\ UNCHANGED <<query, ctx, told>>
    BY <1>2 DEF Page
  <2>2. ToldInv'
    BY <2>1 DEF ToldInv, Made, Holds
  <2>3. answer'.to = h /\ answer'.call = "Page" /\ ~answer'.ok
    BY <2>1, AnswerSays
  <2> QED
    BY <2>2, <2>3 DEF AnswersAsAsked
<1>3. CASE Countable(counted)
  <2> DEFINE x == ctx[query[h].ctx]
             more == Append(query[h].order, DefaultOrder)
             q == [query[h] EXCEPT !.order = more]
             c == [limit |-> size, offset |-> offset, fields |-> x.fields]
  <2>1. /\ query' = [query EXCEPT ![h].order = Append(@, DefaultOrder)]
        /\ ctx' = [ctx EXCEPT ![query[h].ctx].offset = offset, ![query[h].ctx].limit = size]
        /\ told' = [told EXCEPT ![h].order = Append(@, DefaultOrder),
                                ![h].offset = offset, ![h].limit = size]
    BY <1>3 DEF Page
  <2>2. PICK list \in querySpec(Holds(h)') :
            answer' = [Lists(h, "Page", list) EXCEPT !.number = sqlCount(counted)]
    BY <1>3 DEF Page
  <2>3. /\ query[h] \in QueryBuilders /\ query[h].ctx \in Contexts /\ x \in QueryContexts
        /\ told[h] = Together(query[h], x) /\ told[h] \in Tellings /\ told[h] = Holds(h)
    BY <1>1, BuilderHolds
  <2>4. more \in Seq(Orders \cup {DefaultOrder})
    BY <2>3 DEF QueryBuilders
  <2>5. query' = [query EXCEPT ![h] = q]
    BY <2>1
  <2>6. ctx' = [ctx EXCEPT ![query[h].ctx] = c]
    <3>1. ctx \in [Contexts -> QueryContexts]
      BY DEF ToldInv
    <3> DEFINE a == query[h].ctx
               one == [ctx EXCEPT ![a].offset = offset]
               y == [limit |-> x.limit, offset |-> offset, fields |-> x.fields]
    <3>2. one[a] = y
      BY <2>3, <3>1 DEF QueryContexts
    <3>3. ctx' = [one EXCEPT ![a] = [one[a] EXCEPT !.limit = size]]
      BY <2>1
    <3>4. [y EXCEPT !.limit = size] = c
      OBVIOUS
    <3> HIDE DEF y, c
    <3>5. ctx' = [one EXCEPT ![a] = c]
      BY <3>2, <3>3, <3>4
    <3> QED
      BY <3>1, <3>5
  <2>7. told[h].order = query[h].order
    BY <2>3 DEF Together
  <2> DEFINE d == [where |-> query[h].where, order |-> more, limit |-> size,
                   offset |-> offset, fields |-> x.fields]
  <2>8. told' = [told EXCEPT ![h] = d]
    <3>1. told \in [Handles -> Tellings \cup {None}]
      BY DEF ToldInv
    <3> DEFINE one == [told EXCEPT ![h].order = more]
               two == [one EXCEPT ![h].offset = offset]
               u == [where |-> query[h].where, order |-> more, limit |-> x.limit,
                     offset |-> x.offset, fields |-> x.fields]
               v == [where |-> query[h].where, order |-> more, limit |-> x.limit,
                     offset |-> offset, fields |-> x.fields]
    <3>2. told' = [two EXCEPT ![h].limit = size]
      BY <2>1, <2>7
    <3> HIDE DEF more
    <3>3. one[h] = u /\ DOMAIN one = Handles
      BY <2>3, <3>1 DEF Together
    <3>4. \A g \in Handles \ {h} : one[g] = told[g]
      BY <3>1
    <3> HIDE DEF one
    <3>5. two = [one EXCEPT ![h] = v] /\ two[h] = v
      <4>1. [u EXCEPT !.offset = offset] = v
        OBVIOUS
      <4>2. two = [one EXCEPT ![h] = [one[h] EXCEPT !.offset = offset]]
        OBVIOUS
      <4> HIDE DEF u, v, two
      <4> QED
        BY <3>3, <4>1, <4>2
    <3> HIDE DEF two
    <3>7. told' = [two EXCEPT ![h] = d]
      <4>1. [v EXCEPT !.limit = size] = d
        OBVIOUS
      <4>2. told' = [two EXCEPT ![h] = [two[h] EXCEPT !.limit = size]]
        BY <3>2
      <4> HIDE DEF v, d
      <4> QED
        BY <3>5, <4>1, <4>2
    <3> QED
      BY <3>1, <3>3, <3>4, <3>5, <3>7 DEF one
  <2> HIDE DEF more
  <2>9. d = Together(q, c)
    <3>1. q.where = query[h].where /\ q.order = more
      BY <2>3 DEF QueryBuilders
    <3> HIDE DEF q
    <3> QED
      BY <3>1 DEF Together
  <2>10. q \in QueryBuilders /\ q.ctx = query[h].ctx
    BY <2>3, <2>4 DEF QueryBuilders
  <2>11. c \in QueryContexts
    BY <1>0, <2>3 DEF QueryContexts
  <2>12. Becomes(h, q, c)
    BY <2>5, <2>6, <2>8, <2>9, <2>10, <2>11 DEF Becomes
  <2>13. ToldInv' /\ told'[h] = Together(q, c) /\ told'[h] = Holds(h)'
    BY <1>1, <2>12, BecomesStep
  <2> DEFINE t == told'[h]
             n == IF size = 0 THEN None ELSE size
  <2>14. t \in Tellings /\ t.limit = size /\ t.where = told[h].where
    BY <1>0, <2>3, <2>4, <2>10, <2>13 DEF Together, Tellings, QueryBuilders, QueryContexts
  <2>15. Found(counted) = Found(t) /\ counted.fields = <<>>
    <3>1. counted.where = told[h].where /\ counted.fields = <<>>
      BY <2>3 DEF Tellings
    <3> HIDE DEF counted, t
    <3> QED
      BY <2>14, <3>1 DEF Found
  <2> HIDE DEF t, counted
  <2>16. sqlCount(counted) = Cardinality(Found(t))
    <3>1. <<>> # <<"cell">>
      OBVIOUS
    <3>2. {r \in Found(t) : <<>> = <<"cell">> => Cell[r] # Null} = Found(t)
      BY <3>1
    <3> QED
      BY <2>15, <3>2 DEF sqlCount
  <2>17. list \in Windows(t, n)
    BY <2>2, <2>13, <2>14 DEF querySpec, t
  <2>18. n \in Nat \cup {None}
    BY <1>0
  <2>19. Stands(t, list) /\ Len(list) = LongFor(t, n)
    BY <2>14, <2>17, <2>18, ListIsRight
  <2>20. Long([t EXCEPT !.limit = n], list)
    BY <2>14, <2>18, <2>19, LongMeans
  <2>21. Long([t EXCEPT !.limit = IF @ = 0 THEN None ELSE @], list)
    BY <2>14, <2>20
  <2>22. /\ answer'.to = h /\ answer'.call = "Page" /\ answer'.list = list
         /\ answer'.number = sqlCount(counted)
    BY <2>2 DEF Lists, Answer
  <2> QED
    BY <2>13, <2>16, <2>19, <2>21, <2>22 DEF AnswersAsAsked, t
<1> QED
  BY <1>2, <1>3

LEMMA AskKeeps ==
  ASSUME AnswersInv, NEW h \in Handles, Ask(h)
  PROVE  AnswersInv'
<1>1. ToldInv
  BY DEF AnswersInv
<1>2. ASSUME NEW offset \in Offsets \cup {0}, NEW size \in Limits, Page(h, offset, size)
      PROVE  AnswersInv'
  BY <1>1, <1>2, PageAnswers DEF AnswersInv
<1> QED
  BY <1>1, <1>2, AllAnswers, FirstAnswers, OnlyAnswers, IDsAnswers, ExistAnswers, CountAnswers
  DEF Ask, AnswersInv

(* Whatever the builders are told and asked, in any order and with any     *)
(* clones of them, an answer is that of its own builder.                   *)
THEOREM AnswersAreAsked == QueriesSpec => []AnswersAsAsked
<1>1. QueriesInit => AnswersInv
  <2> SUFFICES ASSUME QueriesInit PROVE AnswersInv
    OBVIOUS
  <2>1. QueryContext \in QueryContexts
    <3>1. <<>> \in Seq({"id", "cell"})
      OBVIOUS
    <3> QED
      BY <3>1 DEF QueryContext, QueryContexts
  <2>2. ToldInv
    BY <2>1 DEF QueriesInit, ToldInv, Made
  <2> QED
    BY <2>2 DEF QueriesInit, AnswersInv, AnswersAsAsked
<1>2. AnswersInv /\ [QueriesNext]_queryVars => AnswersInv'
  <2> SUFFICES ASSUME AnswersInv, [QueriesNext]_queryVars PROVE AnswersInv'
    OBVIOUS
  <2>1. ASSUME NEW h \in Handles, Tell(h) PROVE AnswersInv'
    BY <2>1, TellKeeps
  <2>2. ASSUME NEW h \in Handles, Ask(h) PROVE AnswersInv'
    BY <2>2, AskKeeps
  <2>3. CASE Look
    BY <2>3 DEF Look, AnswersInv, ToldInv, Made, Holds, AnswersAsAsked
  <2>4. CASE UNCHANGED queryVars
    <3>1. query' = query /\ ctx' = ctx /\ told' = told /\ answer' = answer
      BY <2>4 DEF queryVars
    <3>2. ToldInv'
      BY <3>1 DEF AnswersInv, ToldInv, Made, Holds
    <3>3. AnswersAsAsked'
      BY <3>1, Zenon DEF AnswersInv, AnswersAsAsked
    <3> QED
      BY <3>2, <3>3 DEF AnswersInv
  <2> QED
    BY <2>1, <2>2, <2>3, <2>4 DEF QueriesNext
<1>3. AnswersInv => AnswersAsAsked
  BY DEF AnswersInv
<1> QED
  BY <1>1, <1>2, <1>3, PTL DEF QueriesSpec
=============================================================================
