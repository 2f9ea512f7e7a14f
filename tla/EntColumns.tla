----------------------------- MODULE EntColumns -----------------------------
(***************************************************************************)
(* The columns of the four tables as ent generated them: the predicates    *)
(* that a table's package has for each column, in whose terms the service  *)
(* writes every WHERE, and what the table's builders know of the columns   *)
(* they write.  The edges and their predicates are left to RelayReaders    *)
(* and TaskLedger.                                                         *)
(*                                                                         *)
(* A text is the sequence of its letters, a letter its code; times are     *)
(* numbers.  Predicates are met in SQL's logic of three values, where      *)
(* NULL is neither equal to anything nor different from it.                *)
(***************************************************************************)
EXTENDS Integers, SequencesExt

CONSTANTS
    Texts, Numbers,  \* the values tried
    Lower,           \* each letter's lower-case form
    DefaultText,     \* DefaultType, "evm"
    Now,             \* what time.Now returns
    Null

ASSUME ColumnsAssumption ==
    /\ Texts \subseteq Seq(DOMAIN Lower) /\ Numbers \subseteq Int
    /\ DOMAIN Lower \subseteq Int /\ \A c \in DOMAIN Lower : Lower[c] \in DOMAIN Lower
    /\ DefaultText \in Texts /\ {0, 1, Now} \subseteq Numbers
    /\ Null \notin Texts /\ Null \notin Numbers /\ Null \notin BOOLEAN

-----------------------------------------------------------------------------
(* The predicates of a column.                                             *)
Flag   == {"EQ", "NEQ"}
Key    == Flag \cup {"In", "NotIn"}
Number == Key \cup {"GT", "GTE", "LT", "LTE"}
Text   == Number \cup {"Contains", "HasPrefix", "HasSuffix", "EqualFold", "ContainsFold"}
Nil    == {"IsNil", "NotNil"}

relaychain_ID             == Number
relaychain_Slug           == Text \cup Nil
relaychain_Name           == Text
relaychain_LogoURL        == Text \cup Nil
relaychain_Type           == Text
relaychain_VMType         == Text \cup Nil
relaychain_Protocol       == Text \cup Nil
relaychain_BaseChainID    == Text \cup Nil
relaychain_ExplorerURL    == Text \cup Nil
relaychain_ExplorerName   == Text \cup Nil
relaychain_RPCURL         == Text \cup Nil
relaychain_WsRPCURL       == Text \cup Nil
relaychain_NativeSymbol   == Text \cup Nil
relaychain_NativeDecimals == Number
relaychain_DepositEnabled == Flag
relaychain_TokenSupport   == Text \cup Nil
relaychain_Disabled       == Flag
relaychain_Supported      == Flag
relaychain_Enabled        == Flag
relaychain_RawData        == Text \cup Nil
relaychain_CreatedAt      == Number
relaychain_UpdatedAt      == Number
relaychain ==
    [id |-> relaychain_ID, slug |-> relaychain_Slug, name |-> relaychain_Name,
     logo_url |-> relaychain_LogoURL, type |-> relaychain_Type,
     vm_type |-> relaychain_VMType, protocol |-> relaychain_Protocol,
     base_chain_id |-> relaychain_BaseChainID, explorer_url |-> relaychain_ExplorerURL,
     explorer_name |-> relaychain_ExplorerName, rpc_url |-> relaychain_RPCURL,
     ws_rpc_url |-> relaychain_WsRPCURL, native_symbol |-> relaychain_NativeSymbol,
     native_decimals |-> relaychain_NativeDecimals,
     deposit_enabled |-> relaychain_DepositEnabled,
     token_support |-> relaychain_TokenSupport, disabled |-> relaychain_Disabled,
     supported |-> relaychain_Supported, enabled |-> relaychain_Enabled,
     raw_data |-> relaychain_RawData, created_at |-> relaychain_CreatedAt,
     updated_at |-> relaychain_UpdatedAt]

relaytoken_ID               == Number
relaytoken_TokenID          == Text
relaytoken_ChainID          == Key
relaytoken_Address          == Text
relaytoken_Name             == Text \cup Nil
relaytoken_Symbol           == Text
relaytoken_LogoURL          == Text \cup Nil
relaytoken_Decimals         == Number
relaytoken_Native           == Flag
relaytoken_Stablecoin       == Flag
relaytoken_SupportsBridging == Flag
relaytoken_SupportsPermit   == Flag
relaytoken_IsFeatured       == Flag
relaytoken_IsSolver         == Flag
relaytoken_IsErc20          == Flag
relaytoken_Supported        == Flag
relaytoken_RawData          == Text \cup Nil
relaytoken_CreatedAt        == Number
relaytoken_UpdatedAt        == Number
relaytoken ==
    [id |-> relaytoken_ID, token_id |-> relaytoken_TokenID, chain_id |-> relaytoken_ChainID,
     address |-> relaytoken_Address, name |-> relaytoken_Name, symbol |-> relaytoken_Symbol,
     logo_url |-> relaytoken_LogoURL, decimals |-> relaytoken_Decimals,
     native |-> relaytoken_Native, stablecoin |-> relaytoken_Stablecoin,
     supports_bridging |-> relaytoken_SupportsBridging,
     supports_permit |-> relaytoken_SupportsPermit, is_featured |-> relaytoken_IsFeatured,
     is_solver |-> relaytoken_IsSolver, is_erc20 |-> relaytoken_IsErc20,
     supported |-> relaytoken_Supported, raw_data |-> relaytoken_RawData,
     created_at |-> relaytoken_CreatedAt, updated_at |-> relaytoken_UpdatedAt]

task_ID             == Number
task_CreatedAt      == Number
task_UpdatedAt      == Number
task_Status         == Number \cup Nil
task_Name           == Text
task_TaskGroup      == Text
task_CronExpression == Text
task_Pattern        == Text
task_Payload        == Text
task ==
    [id |-> task_ID, created_at |-> task_CreatedAt, updated_at |-> task_UpdatedAt,
     status |-> task_Status, name |-> task_Name, task_group |-> task_TaskGroup,
     cron_expression |-> task_CronExpression, pattern |-> task_Pattern,
     payload |-> task_Payload]

tasklog_ID         == Number
tasklog_StartedAt  == Number
tasklog_FinishedAt == Number
tasklog_Result     == Number
tasklog ==
    [id |-> tasklog_ID, started_at |-> tasklog_StartedAt,
     finished_at |-> tasklog_FinishedAt, result |-> tasklog_Result]

Tables == [relaychain |-> relaychain, relaytoken |-> relaytoken, task |-> task,
           tasklog |-> tasklog]
Columns == UNION {{<<t, c>> : c \in DOMAIN Tables[t]} : t \in DOMAIN Tables}

Ops(col) == Tables[col[1]][col[2]]

-----------------------------------------------------------------------------
(* What the builders know: the Go type of each column, which ones they may *)
(* clear and add to, and what a new row has where it was told nothing.     *)
relaychain_SetField ==
    [string |-> {"slug", "name", "logo_url", "type", "vm_type", "protocol", "base_chain_id",
                 "explorer_url", "explorer_name", "rpc_url", "ws_rpc_url", "native_symbol",
                 "token_support", "raw_data"},
     int    |-> {"native_decimals"},
     bool   |-> {"deposit_enabled", "disabled", "supported", "enabled"},
     time   |-> {"created_at", "updated_at"}]
relaytoken_SetField ==
    [string |-> {"token_id", "address", "name", "symbol", "logo_url", "raw_data"},
     int    |-> {"decimals", "chain_id"},
     bool   |-> {"native", "stablecoin", "supports_bridging", "supports_permit",
                 "is_featured", "is_solver", "is_erc20", "supported"},
     time   |-> {"created_at", "updated_at"}]
task_SetField ==
    [string |-> {"name", "task_group", "cron_expression", "pattern", "payload"},
     int    |-> {"status"}, bool |-> {}, time |-> {"created_at", "updated_at"}]
tasklog_SetField ==
    [string |-> {}, int |-> {"result"}, bool |-> {}, time |-> {"started_at", "finished_at"}]

relaychain_ClearField ==
    {"slug", "logo_url", "vm_type", "protocol", "base_chain_id", "explorer_url", "explorer_name",
     "rpc_url", "ws_rpc_url", "native_symbol", "token_support", "raw_data"}
relaytoken_ClearField == {"name", "logo_url", "raw_data"}
task_ClearField == {"status"}
tasklog_ClearField == {}

relaychain_AddField == {"native_decimals"}
relaytoken_AddField == {"decimals"}
task_AddField == {"status"}
tasklog_AddField == {"result"}

relaychain_defaults ==
    [type |-> DefaultText, native_decimals |-> 0, deposit_enabled |-> FALSE, disabled |-> FALSE,
     supported |-> TRUE, enabled |-> TRUE, created_at |-> Now, updated_at |-> Now]
relaytoken_defaults ==
    [native |-> FALSE, stablecoin |-> FALSE, supports_bridging |-> FALSE,
     supports_permit |-> FALSE, is_featured |-> FALSE, is_solver |-> FALSE, is_erc20 |-> FALSE,
     supported |-> TRUE, created_at |-> Now, updated_at |-> Now]
task_defaults == [created_at |-> Now, updated_at |-> Now, status |-> 1]
tasklog_defaults == [started_at |-> Now]

relaychain_check ==
    {"name", "type", "native_decimals", "deposit_enabled", "disabled", "supported", "enabled",
     "created_at", "updated_at"}
relaytoken_check == DOMAIN relaytoken \ {"id", "name", "logo_url", "raw_data"}
task_check == DOMAIN task \ {"id", "status"}
tasklog_check == DOMAIN tasklog \ {"id"}

(* The validators: name, the token's ids and its symbol are not empty, the *)
(* chain's id is positive and decimals are no less than zero.              *)
Valid(col, v) ==
    /\ col \in {<<"relaychain", "name">>, <<"relaytoken", "token_id">>,
               <<"relaytoken", "address">>, <<"relaytoken", "symbol">>} => v # <<>>
    /\ col = <<"relaytoken", "chain_id">> => v > 0
    /\ col = <<"relaytoken", "decimals">> => v >= 0

(* The columns that an update has no setter for.                           *)
Immutable(col) == col[2] \in {"id", "created_at", "started_at"}

SetField ==
    [relaychain |-> relaychain_SetField, relaytoken |-> relaytoken_SetField,
     task |-> task_SetField, tasklog |-> tasklog_SetField]
ClearField ==
    [relaychain |-> relaychain_ClearField, relaytoken |-> relaytoken_ClearField,
     task |-> task_ClearField, tasklog |-> tasklog_ClearField]
AddField ==
    [relaychain |-> relaychain_AddField, relaytoken |-> relaytoken_AddField,
     task |-> task_AddField, tasklog |-> tasklog_AddField]
defaults ==
    [relaychain |-> relaychain_defaults, relaytoken |-> relaytoken_defaults,
     task |-> task_defaults, tasklog |-> tasklog_defaults]
check ==
    [relaychain |-> relaychain_check, relaytoken |-> relaytoken_check,
     task |-> task_check, tasklog |-> tasklog_check]

Is(type, col)  == col[2] \in SetField[col[1]][type]
Nillable(col)  == col[2] \in ClearField[col[1]]
Numeric(col)   == col[2] \in AddField[col[1]]
Defaults(col)  == defaults[col[1]]
Required(col)  == col[2] \in check[col[1]]

Values(col) == IF Is("string", col) THEN Texts ELSE IF Is("bool", col) THEN BOOLEAN ELSE Numbers

(* What was generated apart agrees: the predicates with the setters, the   *)
(* setters with what may be cleared and added to, that with the checks.    *)
ColumnsAgree ==
    \A col \in Columns :
        /\ col[2] # "id" <=> \E type \in {"string", "int", "bool", "time"} : Is(type, col)
        /\ Is("string", col) <=> Text \subseteq Ops(col)
        /\ Is("bool", col) <=> Ops(col) = Flag
        /\ Nillable(col) <=> Nil \subseteq Ops(col)
        /\ Numeric(col) => Is("int", col) /\ Number \subseteq Ops(col)
        /\ col[2] = "id" \/ (Required(col) <=> ~Nillable(col))

-----------------------------------------------------------------------------
(* Predicates: an operator of the column with its argument, or its Not.    *)
Argument(col, op) ==
    CASE op \in {"In", "NotIn"} -> SUBSET Values(col)
      [] op \in Nil -> {Null}
      [] OTHER -> Values(col)

Fold(t) == [i \in DOMAIN t |-> Lower[t[i]]]
Includes(t, s) == \E n \in 0 .. Len(t) : IsPrefix(s, SubSeq(t, n + 1, Len(t)))

Before(t, s) ==
    \/ IsStrictPrefix(t, s)
    \/ \E i \in DOMAIN t \cap DOMAIN s : SubSeq(t, 1, i - 1) = SubSeq(s, 1, i - 1) /\ t[i] < s[i]
Less(col, v, w) ==
    IF Is("string", col) THEN Before(v, w) ELSE IF Is("bool", col) THEN ~v /\ w ELSE v < w

(* An operator of a value that is there.                                   *)
Compares(col, op, v, arg) ==
    CASE op = "EQ" -> v = arg                 [] op = "NEQ" -> v # arg
      [] op = "In" -> v \in arg               [] op = "NotIn" -> v \notin arg
      [] op = "LT" -> Less(col, v, arg)       [] op = "GTE" -> ~Less(col, v, arg)
      [] op = "GT" -> Less(col, arg, v)       [] op = "LTE" -> ~Less(col, arg, v)
      [] op = "HasPrefix" -> IsPrefix(arg, v) [] op = "HasSuffix" -> IsSuffix(arg, v)
      [] op = "Contains" -> Includes(v, arg)  [] op = "EqualFold" -> Fold(v) = Fold(arg)
      [] op = "ContainsFold" -> Includes(Fold(v), Fold(arg))

Truth(b) == IF b THEN "true" ELSE "false"

(* ent writes FALSE for In of no values and NOT FALSE for NotIn of none,   *)
(* which NULL does not make unknown.                                       *)
Evaluate(col, p, v) ==
    CASE p.op = "IsNil" -> Truth(v = Null)
      [] p.op = "NotNil" -> Truth(v # Null)
      [] p.op = "In" /\ p.arg = {} -> "false"
      [] p.op = "NotIn" /\ p.arg = {} -> "true"
      [] OTHER -> IF v = Null THEN "unknown" ELSE Truth(Compares(col, p.op, v, p.arg))

Not(t) == [true |-> "false", false |-> "true", unknown |-> "unknown"][t]

(* The And of the predicates given to a builder; a row is met where it is  *)
(* true.                                                                   *)
And(col, where, v) ==
    \A i \in DOMAIN where :
        LET t == Evaluate(col, where[i], v)
        IN  (IF where[i].not THEN Not(t) ELSE t) = "true"
=============================================================================
