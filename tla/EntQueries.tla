----------------------------- MODULE EntQueries -----------------------------
(***************************************************************************)
(* ent's builders for reading.  One is told predicates, an order, a window *)
(* and columns, and may be cloned, and every question put to it leaves     *)
(* something behind: First and Only their limit, IDs the column it asked   *)
(* for, Page its order and window.  A handle holds a builder; the context, *)
(* with the window and the columns, is an object of its own, to which the  *)
(* builder points.                                                         *)
(*                                                                         *)
(* The table is fixed: an id and one column of a row.  told is history:    *)
(* what each builder was told, kept by value.  Interceptors, traversals    *)
(* and eager loading are left out; the rows come in PostgreSQL's order.    *)
(***************************************************************************)
EXTENDS EntColumns, FiniteSets

CONSTANTS
    Handles,
    Contexts,
    Column,         \* the column, and
    Cell,           \* what each row, by its id, has there
    Predicates,     \* what Where may be told of it
    Orders,         \* what Order may be told
    Selected,       \* the columns that Select may be told
    Limits, Offsets,
    MaxPredicates,  \* bound on the predicates of a builder
    MaxTold,        \* bound on what two builders have been told together
    None

ASSUME QueriesAssumption ==
    /\ Column \in Columns /\ Column[2] # "id"
    /\ DOMAIN Cell \subseteq Int /\ IsFiniteSet(DOMAIN Cell)
    /\ \A r \in DOMAIN Cell : Cell[r] \in Values(Column) \cup {Null}
    /\ Selected \subseteq {"id", "cell"}
    /\ Orders \subseteq [by : {"id", "cell"}, desc : BOOLEAN]
    /\ Limits \subseteq Nat /\ Offsets \subseteq Nat
    /\ None \notin Nat /\ MaxTold \in Nat /\ MaxPredicates \in Nat
    /\ Cardinality(Contexts) >= Cardinality(Handles)

VARIABLES
    query,   \* each handle's builder, or None
    ctx,     \* the contexts
    told,    \* what each builder was told
    answer   \* what the last call answered, or None

queryVars == <<query, ctx, told, answer>>

DefaultOrder == [by |-> "id", desc |-> TRUE]

QueryContext == [limit |-> None, offset |-> None, fields |-> <<>>]
NewQuery(c) == [where |-> <<>>, order |-> <<>>, ctx |-> c]
ToldNothing ==
    [where |-> <<>>, order |-> <<>>, limit |-> None, offset |-> None, fields |-> <<>>]

Made == {h \in Handles : query[h] # None}
Unused == Contexts \ {query[h].ctx : h \in Made}

(* All that a builder holds.                                               *)
Holds(h) ==
    LET c == ctx[query[h].ctx]
    IN  [where |-> query[h].where, order |-> query[h].order,
         limit |-> c.limit, offset |-> c.offset, fields |-> c.fields]

Size(t) ==
    IF t = None THEN 0
    ELSE Len(t.where) + Len(t.order) + Len(t.fields)
         + (IF t.limit = None THEN 0 ELSE 1) + (IF t.offset = None THEN 0 ELSE 1)
Bounded ==
    /\ \A h, g \in Handles : h # g => Size(told'[h]) + Size(told'[g]) <= MaxTold
    /\ \A h \in {g \in Handles : told'[g] # None} : Len(told'[h].where) <= MaxPredicates

QueriesInit ==
    /\ query = [h \in Handles |-> None]
    /\ ctx = [c \in Contexts |-> QueryContext]
    /\ told = [h \in Handles |-> None]
    /\ answer = None

-----------------------------------------------------------------------------
(* Telling a builder.                                                      *)
Query(h) ==
    /\ \E c \in Unused :
           /\ query' = [query EXCEPT ![h] = NewQuery(c)]
           /\ ctx' = [ctx EXCEPT ![c] = QueryContext]
    /\ told' = [told EXCEPT ![h] = ToldNothing]
    /\ answer' = None

QueryWhere(h, p) ==
    /\ h \in Made
    /\ query' = [query EXCEPT ![h].where = Append(@, p)]
    /\ told' = [told EXCEPT ![h].where = Append(@, p)]
    /\ answer' = None
    /\ UNCHANGED ctx

Order(h, o) ==
    /\ h \in Made
    /\ query' = [query EXCEPT ![h].order = Append(@, o)]
    /\ told' = [told EXCEPT ![h].order = Append(@, o)]
    /\ answer' = None
    /\ UNCHANGED ctx

Limit(h, n) ==
    /\ h \in Made
    /\ ctx' = [ctx EXCEPT ![query[h].ctx].limit = n]
    /\ told' = [told EXCEPT ![h].limit = n]
    /\ answer' = None
    /\ UNCHANGED query

Offset(h, n) ==
    /\ h \in Made
    /\ ctx' = [ctx EXCEPT ![query[h].ctx].offset = n]
    /\ told' = [told EXCEPT ![h].offset = n]
    /\ answer' = None
    /\ UNCHANGED query

Select(h, f) ==
    /\ h \in Made
    /\ ctx' = [ctx EXCEPT ![query[h].ctx].fields = Append(@, f)]
    /\ told' = [told EXCEPT ![h].fields = Append(@, f)]
    /\ answer' = None
    /\ UNCHANGED query

(* A mutant of Clone: the copy points to the same context.                 *)
CloneSharesContext(h, g) ==
    /\ h \in Made /\ g \notin Made
    /\ query' = [query EXCEPT ![g] = query[h]]
    /\ told' = [told EXCEPT ![g] = told[h]]
    /\ answer' = None
    /\ UNCHANGED ctx

Clone(h, g) ==
    /\ h \in Made /\ g \notin Made
    /\ \E c \in Unused :
           /\ query' = [query EXCEPT ![g] = [query[h] EXCEPT !.ctx = c]]
           /\ ctx' = [ctx EXCEPT ![c] = ctx[query[h].ctx]]
    /\ told' = [told EXCEPT ![g] = told[h]]
    /\ answer' = None

-----------------------------------------------------------------------------
(* The statements.                                                         *)
Found(t) == {r \in DOMAIN Cell : And(Column, t.where, Cell[r])}

(* Ascending, NULL comes last.                                             *)
Ascends(by, r, s) ==
    IF by = "id" THEN r < s
    ELSE Cell[r] # Null /\ (Cell[s] = Null \/ Less(Column, Cell[r], Cell[s]))
Above(o, r, s) == IF o.desc THEN Ascends(o.by, s, r) ELSE Ascends(o.by, r, s)
Precedes(order, r, s) ==
    \E i \in DOMAIN order :
        /\ Above(order[i], r, s)
        /\ \A j \in 1 .. i - 1 : ~Above(order[j], r, s) /\ ~Above(order[j], s, r)

(* The orders in which the database may meet rows; without ORDER BY, any.  *)
Arrangements(rows, order) ==
    {p \in SetToSeqs(rows) : \A i \in DOMAIN p : \A j \in 1 .. i - 1 : ~Precedes(order, p[i], p[j])}

OrZero(n) == IF n = None THEN 0 ELSE n
Window(p, offset, limit) ==
    SubSeq(p, offset + 1,
           IF limit = None \/ offset + limit > Len(p) THEN Len(p) ELSE offset + limit)
Windows(t, limit) ==
    {Window(p, OrZero(t.offset), limit) : p \in Arrangements(Found(t), t.order)}

(* querySpec keeps a limit of 0 as none, sqlQuery as what it says.         *)
querySpec(t) == Windows(t, IF t.limit = 0 THEN None ELSE t.limit)
sqlQuery(t) == Windows(t, t.limit)

(* The statement's COUNT is one row, which any LIMIT leaves and OFFSET     *)
(* skips, and it takes one column, whose NULLs it leaves out.  It is made  *)
(* by querySpec, so a limit of 0 is none here too.                         *)
Countable(t) == OrZero(t.offset) = 0 /\ Len(t.fields) <= 1
sqlCount(t) == Cardinality({r \in Found(t) : t.fields = <<"cell">> => Cell[r] # Null})

Answer(h, call) == [to |-> h, call |-> call, ok |-> TRUE, list |-> <<>>, number |-> 0]
Lists(h, call, list) == [Answer(h, call) EXCEPT !.list = list]
Counts(h, call, n) == [Answer(h, call) EXCEPT !.number = n]
Fails(h, call) == [Answer(h, call) EXCEPT !.ok = FALSE]

-----------------------------------------------------------------------------
(* Asking it.                                                              *)
All(h) ==
    /\ h \in Made
    /\ \E list \in querySpec(Holds(h)) : answer' = Lists(h, "All", list)
    /\ UNCHANGED <<query, ctx, told>>

First(h) ==
    /\ h \in Made
    /\ ctx' = [ctx EXCEPT ![query[h].ctx].limit = 1]
    /\ told' = [told EXCEPT ![h].limit = 1]
    /\ UNCHANGED query
    /\ \E list \in querySpec(Holds(h)') :
           answer' = IF list = <<>> THEN Fails(h, "First") ELSE Lists(h, "First", list)

Only(h) ==
    /\ h \in Made
    /\ ctx' = [ctx EXCEPT ![query[h].ctx].limit = 2]
    /\ told' = [told EXCEPT ![h].limit = 2]
    /\ UNCHANGED query
    /\ \E list \in querySpec(Holds(h)') :
           answer' = IF Len(list) # 1 THEN Fails(h, "Only") ELSE Lists(h, "Only", list)

(* A list of ids takes the values of one column.                           *)
IDs(h) ==
    /\ h \in Made
    /\ ctx' = [ctx EXCEPT ![query[h].ctx].fields = Append(@, "id")]
    /\ told' = [told EXCEPT ![h].fields = Append(@, "id")]
    /\ UNCHANGED query
    /\ \E list \in sqlQuery(Holds(h)') :
           answer' = IF Len(ctx'[query[h].ctx].fields) > 1 THEN Fails(h, "IDs")
                     ELSE Lists(h, "IDs", list)

(* By way of FirstID, with its limit and its column.                       *)
Exist(h) ==
    /\ h \in Made
    /\ ctx' = [ctx EXCEPT ![query[h].ctx].limit = 1, ![query[h].ctx].fields = Append(@, "id")]
    /\ told' = [told EXCEPT ![h].limit = 1, ![h].fields = Append(@, "id")]
    /\ UNCHANGED query
    /\ \E list \in sqlQuery(Holds(h)') :
           answer' = IF Len(ctx'[query[h].ctx].fields) > 1 THEN Fails(h, "Exist")
                     ELSE Counts(h, "Exist", Len(list))

Count(h) ==
    /\ h \in Made
    /\ answer' = IF Countable(Holds(h)) THEN Counts(h, "Count", sqlCount(Holds(h)))
                 ELSE Fails(h, "Count")
    /\ UNCHANGED <<query, ctx, told>>

(* Page counts with a clone that has no columns; where it cannot, nothing  *)
(* else has been done.                                                     *)
Page(h, offset, size) ==
    /\ h \in Made
    /\ LET counted == [Holds(h) EXCEPT !.fields = <<>>]
       IN  IF ~Countable(counted) THEN answer' = Fails(h, "Page") /\ UNCHANGED <<query, ctx, told>>
           ELSE /\ query' = [query EXCEPT ![h].order = Append(@, DefaultOrder)]
                /\ ctx' = [ctx EXCEPT ![query[h].ctx].offset = offset,
                                      ![query[h].ctx].limit = size]
                /\ told' = [told EXCEPT ![h].order = Append(@, DefaultOrder),
                                        ![h].offset = offset, ![h].limit = size]
                /\ \E list \in querySpec(Holds(h)') :
                       answer' = [Lists(h, "Page", list) EXCEPT !.number = sqlCount(counted)]

Tell(h) ==
    \/ Query(h)
    \/ \E p \in Predicates : QueryWhere(h, p)
    \/ \E o \in Orders : Order(h, o)
    \/ \E n \in Limits : Limit(h, n)
    \/ \E n \in Offsets : Offset(h, n)
    \/ \E f \in Selected : Select(h, f)
    \/ \E g \in Handles : Clone(h, g)

Ask(h) ==
    \/ All(h)
    \/ First(h)
    \/ Only(h)
    \/ IDs(h)
    \/ Exist(h)
    \/ Count(h)
    \/ \E offset \in Offsets \cup {0}, size \in Limits : Page(h, offset, size)

(* One goroutine uses the builders; it looks at an answer before it goes   *)
(* on.                                                                     *)
Look ==
    /\ answer # None
    /\ answer' = None
    /\ UNCHANGED <<query, ctx, told>>

QueriesNext ==
    \/ answer = None /\ \E h \in Handles : (Tell(h) \/ Ask(h)) /\ Bounded
    \/ Look

QueriesSpec == QueriesInit /\ [][QueriesNext]_queryVars

-----------------------------------------------------------------------------
(* What a builder that was told t has after its offset.                    *)
Left(t) == Cardinality(Found(t)) - OrZero(t.offset)

(* A list that may stand at t's offset in t's order: no row of it has more *)
(* rows before it, or after it, than there is room for.                    *)
Stands(t, list) ==
    LET rows == Found(t)
    IN  /\ IsInjective(list)
        /\ \A i \in DOMAIN list :
               /\ list[i] \in rows
               /\ Cardinality({r \in rows : Precedes(t.order, r, list[i])})
                      <= OrZero(t.offset) + i - 1
               /\ Cardinality({r \in rows : Precedes(t.order, list[i], r)}) <= Left(t) - i

Long(t, list) ==
    Len(list) = IF Left(t) < 0 THEN 0
                ELSE IF t.limit = None \/ t.limit > Left(t) THEN Left(t) ELSE t.limit

(* An answer is right by what its own builder was told, whatever was told  *)
(* to the one that it was cloned from or that was cloned from it: a list   *)
(* is the window that was asked for; First finds a row where there is one  *)
(* and Only the one row there is; a count is of all the rows, or of those  *)
(* that have the column that was selected, and the total of a page is of   *)
(* all whatever was selected.  Where no right answer can be had, there is  *)
(* an error and no answer.                                                 *)
AnswersAsAsked ==
    answer # None =>
        LET t == told[answer.to]
            list == answer.list
        IN  CASE answer.call = "All" ->
                     /\ answer.ok /\ Stands(t, list)
                     /\ Long([t EXCEPT !.limit = IF @ = 0 THEN None ELSE @], list)
              [] answer.call = "First" -> /\ answer.ok <=> Left(t) > 0
                                          /\ answer.ok => Len(list) = 1 /\ Stands(t, list)
              [] answer.call = "Only" -> /\ answer.ok <=> Left(t) = 1
                                         /\ answer.ok => Len(list) = 1 /\ Stands(t, list)
              [] answer.call = "IDs" -> /\ answer.ok <=> t.fields = <<"id">>
                                        /\ answer.ok => Stands(t, list) /\ Long(t, list)
              [] answer.call = "Exist" -> answer.ok => (answer.number > 0 <=> Left(t) > 0)
              [] answer.call = "Count" ->
                     answer.ok => answer.number = Cardinality({r \in Found(t) :
                                      "cell" \in {t.fields[i] : i \in DOMAIN t.fields} => Cell[r] # Null})
              [] answer.call = "Page" ->
                     answer.ok => /\ answer.number = Cardinality(Found(t))
                                  /\ Stands(t, list)
                                  /\ Long([t EXCEPT !.limit = IF @ = 0 THEN None ELSE @], list)
=============================================================================
