---------------------------- MODULE RelayCatalog ----------------------------
(***************************************************************************)
(* What the relay_chain and relay_token tables promise to the queries that *)
(* read them, whoever writes them: the platform replaces one chain with    *)
(* its tokens at a time, withdraws chains, withdraws the tokens of chains, *)
(* and an operator switches chains on and off.  RelaySync implements this  *)
(* specification.                                                          *)
(*                                                                         *)
(* A token row is named by its (chain_id, token_id) pair, which is unique  *)
(* and which no statement of the program rewrites; tAddress holds its      *)
(* address column, NoAddress where there is no such row.                   *)
(***************************************************************************)
CONSTANTS
    Chains,      \* the positive chain ids Relay uses
    TokenIDs,    \* the token ids Relay uses on one chain
    Addresses,   \* the normalised token addresses
    NoAddress    \* stands for "no row"

VARIABLES
    cRows,        \* the chains that have a row in relay_chain
    cSupported,   \* the chains whose supported column is true
    cEnabled,     \* the chains whose enabled column is true
    tAddress,     \* the address column of each token row
    tSupported    \* the token rows whose supported column is true

catalog == <<cRows, cSupported, cEnabled, tAddress, tSupported>>

Listing == [TokenIDs -> Addresses \cup {NoAddress}]

(* The token ids a listing has a row (or an offer) for. *)
Listed(list) == {t \in TokenIDs : list[t] # NoAddress}

(* The unique index on (chain_id, address), for the rows of one chain. *)
UniqueAddresses(list) ==
    \A s, t \in Listed(list) : list[s] = list[t] => s = t

CatalogTypeOK ==
    /\ cRows \subseteq Chains
    /\ cSupported \subseteq Chains
    /\ cEnabled \subseteq Chains
    /\ tAddress \in [Chains -> Listing]
    /\ tSupported \in [Chains -> SUBSET TokenIDs]

Init ==
    /\ cRows = {}
    /\ cSupported = {}
    /\ cEnabled = {}
    /\ tAddress = [c \in Chains |-> [t \in TokenIDs |-> NoAddress]]
    /\ tSupported = [c \in Chains |-> {}]

ReplaceChain_Enables(c) ==
    \E list \in Listing, offered \in SUBSET TokenIDs, supported \in BOOLEAN :
        /\ UniqueAddresses(list)
        /\ Listed(tAddress[c]) \subseteq Listed(list)
        /\ offered \subseteq Listed(list)
        /\ ~supported => offered = {}
        /\ cRows' = cRows \cup {c}
        /\ cSupported' = IF supported THEN cSupported \cup {c} ELSE cSupported \ {c}
        /\ cEnabled' = cEnabled \cup {c}
        /\ tAddress' = [tAddress EXCEPT ![c] = list]
        /\ tSupported' = [tSupported EXCEPT ![c] = offered]

(***************************************************************************)
(* One chain and all its tokens are replaced in one step.  No row goes     *)
(* away, the addresses stay unique, a chain withdrawn by the step keeps no *)
(* supported token, and the operator's switch is set on insertion only.    *)
(***************************************************************************)
ReplaceChain(c) ==
    \E list \in Listing, offered \in SUBSET TokenIDs, supported \in BOOLEAN :
        /\ UniqueAddresses(list)
        /\ Listed(tAddress[c]) \subseteq Listed(list)
        /\ offered \subseteq Listed(list)
        /\ ~supported => offered = {}
        /\ cRows' = cRows \cup {c}
        /\ cSupported' = IF supported THEN cSupported \cup {c} ELSE cSupported \ {c}
        /\ cEnabled' = IF c \in cRows THEN cEnabled ELSE cEnabled \cup {c}
        /\ tAddress' = [tAddress EXCEPT ![c] = list]
        /\ tSupported' = [tSupported EXCEPT ![c] = offered]

(* Chains are withdrawn, their tokens for the moment are not. *)
WithdrawChains ==
    /\ cSupported' \in SUBSET cSupported
    /\ UNCHANGED <<cRows, cEnabled, tAddress, tSupported>>

(* Tokens of chains are withdrawn: all of them, or, when the statement ran *)
(* beside transactions of the chain, all but those that they inserted.     *)
WithdrawTokens ==
    /\ \E kept \in [Chains -> SUBSET TokenIDs] :
         tSupported' = [c \in Chains |-> tSupported[c] \cap kept[c]]
    /\ UNCHANGED <<cRows, cSupported, cEnabled, tAddress>>

(* The operator's switch of one chain is set; no other column moves. *)
SwitchChain(c) ==
    /\ c \in cRows
    /\ cEnabled' \in {cEnabled \cup {c}, cEnabled \ {c}}
    /\ UNCHANGED <<cRows, cSupported, tAddress, tSupported>>

Next ==
    \/ \E c \in Chains : ReplaceChain(c) \/ SwitchChain(c)
    \/ WithdrawChains
    \/ WithdrawTokens

Spec == Init /\ [][Next]_catalog

-----------------------------------------------------------------------------
(* Every row the tables hold is one the queries can make sense of: a token *)
(* row has its chain's row (the schema's edge is Required, but the tables  *)
(* are created without foreign keys), supported tokens and switched or     *)
(* supported chains have rows, and no two rows of a chain share an address.*)
CatalogConsistent ==
    /\ cSupported \subseteq cRows
    /\ cEnabled \subseteq cRows
    /\ \A c \in Chains :
         /\ Listed(tAddress[c]) # {} => c \in cRows
         /\ tSupported[c] \subseteq Listed(tAddress[c])
         /\ UniqueAddresses(tAddress[c])
=============================================================================
