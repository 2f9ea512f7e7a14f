-------------------------------- MODULE MCEnt --------------------------------
(***************************************************************************)
(* ent's builders for TLC.  Those that write and those that read share the *)
(* columns and no state, so each is looked at while the other stands still *)
(* (turn): what holds of either of them then holds of both together.       *)
(***************************************************************************)
EXTENDS EntMutations, EntQueries, TLC

VARIABLE turn

MCLower == (65 :> 97) @@ (97 :> 97)
MCTexts == {<<>>, <<65>>, <<97, 65>>}
MCText == <<97, 65>>

(* What the builders and the predicates make of a column; one column of    *)
(* each kind stands for the others of its kind.                            *)
Kind(c) == <<Ops(c), Is("time", c), Nillable(c), Numeric(c), Required(c), Immutable(c), c[2] = "updated_at",
             IF c[2] \in DOMAIN Defaults(c) THEN <<Defaults(c)[c[2]]>> ELSE <<>>,
             {v \in Values(c) : ~Valid(c, v)}>>
OneOfEach == {CHOOSE c \in Columns : Kind(c) = k : k \in {Kind(c) : c \in Columns}}

(* The table that is read: two rows with one name and one with none.       *)
TokenName == <<"relaytoken", "name">>
Names == <<MCText, Null, MCText>>
SameFold == {[op |-> "EqualFold", arg |-> <<65, 65>>, not |-> FALSE]}
ByName == {[by |-> "cell", desc |-> FALSE]}

ASSUME ColumnsAgree

-----------------------------------------------------------------------------
EntInit ==
    /\ Init /\ QueriesInit
    /\ turn \in {"write", "read"}
    /\ turn = "read" => col = CHOOSE c \in Cols : TRUE

Write == turn = "write" /\ Next /\ UNCHANGED <<turn, queryVars>>
Read == turn = "read" /\ QueriesNext /\ UNCHANGED <<turn, vars>>

EntSpec == EntInit /\ [][Write \/ Read]_<<turn, vars, queryVars>>

Symmetry == Permutations(Handles) \cup Permutations(Contexts)
=============================================================================
