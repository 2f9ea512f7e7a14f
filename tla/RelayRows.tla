------------------------------ MODULE RelayRows ------------------------------
(***************************************************************************)
(* The columns of relay_chain and relay_token: how an element of Relay's   *)
(* feed becomes a row, through the value helpers of relay_chains.go, ent's *)
(* builders and their validators, and how a row becomes an answer.         *)
(*                                                                         *)
(* One transaction of a chain is under way at a time, for RelaySync shows  *)
(* that they are isolated, and the database is PostgreSQL.  The bulk       *)
(* statements of other runs and the operator act beside it.  What the      *)
(* element's lists offer is given with the element: RelayFeed makes it.    *)
(*                                                                         *)
(* A column stands for those that are treated as it is: slug for logo_url, *)
(* base_chain_id, the explorer, the RPC URLs, token_support and raw_data;  *)
(* a token's name for logo_url and raw_data; is_featured for its other     *)
(* flags.  The keys id and chainId stand for five.  Times are left out.    *)
(***************************************************************************)
EXTENDS Integers

CONSTANTS
    Chains,      \* chain ids
    TokenIDs,    \* token ids; their order is sort.Strings'
    Addresses, Native, NoAddress,   \* addresses, the native ones, "no row"
    Words,       \* texts that are not the decimal form of an integer
    Empty,       \* the empty text
    Truthy,      \* the texts getBoolValue takes for true
    Evm,         \* "evm"
    Unset,       \* a field a builder was not given; NULL in a row
    Missing,     \* no such key; no number
    Gone,        \* no such row
    Elements     \* what Relay may send

VARIABLES
    chains,   \* the rows of relay_chain
    tokens,   \* the rows of relay_token, by chain and token id
    at,       \* where the transaction is
    e,        \* the element it writes
    existing, \* whether its query found the chain
    row,      \* its own copies of the chain's row
    list,     \* and of the rows of its tokens
    pend,     \* the tokens it has still to write
    last,     \* history: the element each chain was last written from
    offer,    \* history: what was last offered of each token
    fresh     \* history: what its last, its last two ... transactions inserted

rows == <<chains, tokens, last, offer, fresh>>
tx == <<at, e, existing, row, list, pend>>
vars == <<rows, tx>>

-----------------------------------------------------------------------------
(* Texts and JSON.  A text is what TrimSpace leaves of it and whether it   *)
(* leaves anything away.  decoder.UseNumber keeps a number as its literal. *)
Text == [core : Words \cup {Empty} \cup Int, padded : BOOLEAN]
T(core) == [core |-> core, padded |-> FALSE]
NoText == T(Empty)
Blank(t) == t.core = Empty
TrimSpace(t) == T(t.core)

Json == [type : {"string"}, text : Text] \cup
        [type : {"number"}, text : [core : Words \cup Int, padded : {FALSE}]] \cup
        [type : {"bool"}, value : BOOLEAN] \cup
        [type : {"other"}] \cup {Missing}

getStringValue(v) ==
    IF v # Missing /\ v.type \in {"string", "number"} THEN v.text ELSE NoText

getFirstStringValue(v, w) ==
    IF getStringValue(v) # NoText THEN getStringValue(v) ELSE getStringValue(w)

(* A number in quotes is none. *)
getIntValue(v) ==
    IF v # Missing /\ v.type = "number" /\ v.text.core \in Int THEN v.text.core ELSE 0

getBoolValue(v) ==
    /\ v # Missing
    /\ \/ v.type = "bool" /\ v.value
       \/ v.type = "string" /\ v.text.core \in Truthy
       \/ v.type = "number" /\ v.text.core \in Int \ {0}

(* The first of four texts that is not blank. *)
firstNonEmpty(s, t, u, w) ==
    IF ~Blank(s) THEN s ELSE IF ~Blank(t) THEN t ELSE IF ~Blank(u) THEN u ELSE w

parseInt64String(t) == IF t.core \in Nat \ {0} THEN t.core ELSE Missing

getChainID_Fallback(el) ==
    IF parseInt64String(getStringValue(el.id)) # Missing THEN parseInt64String(getStringValue(el.id))
    ELSE parseInt64String(getStringValue(el.chainId))

(* The first key with a text decides, also when the text is no id.         *)
getChainID(el) == parseInt64String(getFirstStringValue(el.id, el.chainId))

isNativeToken(address) == address \in Native

-----------------------------------------------------------------------------
(* What buildRelayTokens yields for a token, and what Relay may send.      *)
(* native tells of the elements that were merged into the first, which     *)
(* gave the address.                                                       *)
Snapshot == [address : Addresses, name : Text, symbol : Text, decimals : Int,
             native : BOOLEAN, is_featured : BOOLEAN]
Element == [id : Json, chainId : Json, name : Json, displayName : Json, vmType : Json,
            protocol : Json, type : Json, symbol : Json, decimals : Json, depositEnabled : Json,
            disabled : Json, tokens : [TokenIDs -> Snapshot \cup {Gone}]]

ASSUME RowsAssumption ==
    /\ Chains \subseteq Nat \ {0} /\ TokenIDs \subseteq Nat /\ NoAddress \notin Addresses
    /\ Empty \notin Words /\ \A w \in Words \cup {Empty} : w \notin Int
    /\ Evm \in Words /\ \A w \in Truthy : w \in Words \/ w \in Int
    /\ Elements \subseteq Element
    /\ \A el \in Elements : getChainID(el) \in Chains \cup {Missing}
    /\ \A el \in Elements : \A t \in TokenIDs :
           el.tokens[t] # Gone => ~Blank(el.tokens[t].symbol)
ChainColumns == {"slug", "name", "type", "vm_type", "protocol", "native_symbol", "native_decimals",
                 "deposit_enabled", "disabled", "supported", "enabled"}
TokenColumns == {"address", "name", "symbol", "decimals", "native", "is_featured", "supported"}

Value(c) == CASE c \in {"slug", "name", "type", "vm_type", "protocol", "native_symbol", "symbol"} -> Text
              [] c \in {"native_decimals", "decimals"} -> Int
              [] c = "address" -> Addresses
              [] OTHER -> BOOLEAN

Cell == Text \cup Int \cup BOOLEAN \cup Addresses
ASSUME NonesAssumption ==
    /\ Missing \notin Int
    /\ Unset \notin Cell
    /\ Gone \notin Element \cup Snapshot \cup [ChainColumns -> Cell] \cup [TokenColumns -> Cell]

Fits(r, columns) == DOMAIN r = columns /\ \A c \in columns : r[c] \in Value(c)

(* What a chain's element says of it; the tokens that it offers.           *)
buildRelayChain(el) ==
    [slug |-> TrimSpace(getStringValue(el.name)),
     name |-> TrimSpace(getFirstStringValue(el.displayName, el.name)),
     type |-> TrimSpace(firstNonEmpty(getStringValue(el.vmType), getStringValue(el.protocol),
                                      getStringValue(el.type), T(Evm))),
     vm_type |-> TrimSpace(getStringValue(el.vmType)),
     protocol |-> TrimSpace(getStringValue(el.protocol)),
     native_symbol |-> TrimSpace(getStringValue(el.symbol)),
     native_decimals |-> getIntValue(el.decimals),
     deposit_enabled |-> getBoolValue(el.depositEnabled),
     disabled |-> getBoolValue(el.disabled),
     supported |-> ~getBoolValue(el.disabled),
     enabled |-> TRUE]

Built(el) == getChainID(el) # Missing /\ getFirstStringValue(el.displayName, el.name) # NoText

Offered(el) == IF getBoolValue(el.disabled) THEN {} ELSE {t \in TokenIDs : el.tokens[t] # Gone}

buildRelayToken(s) ==
    [address |-> s.address, name |-> s.name, symbol |-> s.symbol, decimals |-> s.decimals,
     native |-> isNativeToken(s.address) \/ s.native, is_featured |-> s.is_featured, supported |-> TRUE]

-----------------------------------------------------------------------------
(* ent.  A mutation has a value for the fields that its builder was given. *)
Mutation(columns, values) ==
    [c \in columns |-> IF c \in DOMAIN values THEN values[c] ELSE Unset]

WithDefaults(m, default) ==
    [c \in DOMAIN m |-> IF m[c] = Unset /\ c \in DOMAIN default THEN default[c] ELSE m[c]]

ChainDefaults(m) == WithDefaults(m,
    [type |-> T(Evm), native_decimals |-> 0, deposit_enabled |-> FALSE, disabled |-> FALSE,
     supported |-> TRUE, enabled |-> TRUE])

TokenDefaults(m) == WithDefaults(m, [native |-> FALSE, is_featured |-> FALSE, supported |-> TRUE])

(* The validators, of the fields that are given: NotEmpty, NonNegative.    *)
NotEmpty(v) == v # NoText
ChainUpdateCheck_None(m) == m = m
ChainUpdateCheck(m) == m["name"] # Unset => NotEmpty(m["name"])
TokenUpdateCheck(m) ==
    /\ m["symbol"] # Unset => NotEmpty(m["symbol"])
    /\ m["decimals"] # Unset => m["decimals"] >= 0

(* On creation every column that is not Optional has to be given too.      *)
ChainCreateCheck(m) ==
    /\ \A c \in ChainColumns \ {"slug", "vm_type", "protocol", "native_symbol"} : m[c] # Unset
    /\ NotEmpty(m["name"])
TokenCreateCheck(m) ==
    /\ \A c \in TokenColumns \ {"name"} : m[c] # Unset
    /\ NotEmpty(m["symbol"]) /\ m["decimals"] >= 0

UpdateRow_KeepsTexts(r, m) ==
    [c \in DOMAIN r |-> IF m[c] = Unset \/ (c = "slug" /\ m[c] = NoText) THEN r[c] ELSE m[c]]

(* UPDATE ... SET the columns that are given. *)
UpdateRow(r, m) == [c \in DOMAIN r |-> IF m[c] = Unset THEN r[c] ELSE m[c]]

ChainCreate_NoSlug(values) ==
    ChainDefaults(Mutation(ChainColumns, [c \in DOMAIN values \ {"slug"} |-> values[c]]))
ChainCreate(values) == ChainDefaults(Mutation(ChainColumns, values))
ChainUpdateOne(values) == Mutation(ChainColumns, values)
TokenCreate(values) == TokenDefaults(Mutation(TokenColumns, values))
TokenUpdateOne(values) == Mutation(TokenColumns, values)

(* Update() of the rows that match: SetSupported(false). *)
ChainUpdate(match) == [c \in Chains |->
    IF c \in match /\ chains[c] # Gone
    THEN UpdateRow(chains[c], Mutation(ChainColumns, [supported |-> FALSE])) ELSE chains[c]]
TokenUpdate(rs, match) == [t \in TokenIDs |->
    IF t \in match /\ rs[t] # Gone
    THEN UpdateRow(rs[t], Mutation(TokenColumns, [supported |-> FALSE])) ELSE rs[t]]

(* A row as ent reads it: NULL is the zero value. *)
assignValues(r) == [c \in DOMAIN r |-> IF r[c] = Unset THEN NoText ELSE r[c]]

-----------------------------------------------------------------------------
NoTokens == [t \in TokenIDs |-> Gone]
ChainRow(r) == r = Gone \/ Fits(r, ChainColumns)
TokenRow(r) == r = Gone \/ Fits(r, TokenColumns)
Listed(rs) == {t \in TokenIDs : rs[t] # Gone}
OnOffer(rs) == {t \in Listed(rs) : rs[t]["supported"]}

TypeOK ==
    /\ DOMAIN chains = Chains /\ \A c \in Chains : ChainRow(chains[c])
    /\ DOMAIN tokens = Chains
    /\ \A c \in Chains : DOMAIN tokens[c] = TokenIDs /\ \A t \in TokenIDs : TokenRow(tokens[c][t])
    /\ at \in {"idle", "chain", "tokens"}
    /\ e \in Elements \cup {Gone} /\ (e = Gone <=> at = "idle")
    /\ e # Gone => Built(e)
    /\ existing \in BOOLEAN
    /\ ChainRow(row) /\ (at = "tokens" => row # Gone)
    /\ DOMAIN list = TokenIDs /\ \A t \in TokenIDs : TokenRow(list[t])
    /\ pend \subseteq TokenIDs
    /\ last \in [Chains -> Elements \cup {Gone}]
    /\ offer \in [Chains -> [TokenIDs -> Snapshot \cup {Gone}]]
    /\ fresh \in [Chains -> SUBSET SUBSET TokenIDs]

NoTx == at' = "idle" /\ e' = Gone /\ existing' = FALSE /\ row' = Gone /\ list' = NoTokens /\ pend' = {}

Init ==
    /\ chains = [c \in Chains |-> Gone]
    /\ tokens = [c \in Chains |-> NoTokens]
    /\ last = [c \in Chains |-> Gone]
    /\ offer = [c \in Chains |-> NoTokens]
    /\ fresh = [c \in Chains |-> {}]
    /\ at = "idle" /\ e = Gone /\ existing = FALSE /\ row = Gone /\ list = NoTokens /\ pend = {}

id == getChainID(e)

(* A transaction holds the lock of its chain's row from its first write. *)
Locked(c) == at = "tokens" /\ id = c /\ chains[c] # Gone

-----------------------------------------------------------------------------
(* sync takes up an element, and upsertRelayChain looks for its chain.     *)
BeginChain(el) ==
    /\ at = "idle"
    /\ Built(el)
    /\ at' = "chain"
    /\ e' = el
    /\ existing' = (chains[getChainID(el)] # Gone)
    /\ UNCHANGED <<rows, row, list, pend>>

(* Columns but for the platform's switch. *)
Updated_Switch(values) == values
Updated(values) == [c \in ChainColumns \ {"enabled"} |-> values[c]]

(* The rest of upsertRelayChain: an INSERT or an UPDATE. *)
upsertRelayChain ==
    LET made == ChainCreate(buildRelayChain(e))
        set == ChainUpdateOne(Updated(buildRelayChain(e)))
    IN
    /\ at = "chain"
    /\ \/ ~existing /\ chains[id] = Gone /\ ChainCreateCheck(made) /\ row' = made
       \/ existing /\ ChainUpdateCheck(set) /\ row' = UpdateRow(chains[id], set)
    /\ at' = "tokens"
    /\ list' = tokens[id]
    /\ pend' = Offered(e)
    /\ UNCHANGED <<rows, e, existing>>

(* The unique index on (chain_id, address). *)
Free(address, t) == \A s \in Listed(list) \ {t} : list[s]["address"] # address

upsertRelayToken(t) ==
    LET values == buildRelayToken(e.tokens[t])
        made == TokenCreate(values)
        set == TokenUpdateOne(values)
    IN
    /\ at = "tokens"
    /\ t \in pend /\ \A u \in pend : t <= u
    /\ Free(values.address, t)
    /\ \/ list[t] = Gone /\ TokenCreateCheck(made) /\ list' = [list EXCEPT ![t] = made]
       \/ list[t] # Gone /\ TokenUpdateCheck(set) /\ list' = [list EXCEPT ![t] = UpdateRow(@, set)]
    /\ pend' = pend \ {t}
    /\ UNCHANGED <<rows, at, e, existing, row>>

markMissingTokensUnsupported_IfAny(ids) ==
    IF ids = {} THEN list ELSE TokenUpdate(list, TokenIDs \ ids)

(* markChainTokensUnsupported too: it is called where there are no ids.    *)
markMissingTokensUnsupported(ids) == TokenUpdate(list, TokenIDs \ ids)

(* All tokens are written: the others are withdrawn, and the commit.       *)
CommitChain ==
    /\ at = "tokens"
    /\ pend = {}
    /\ chains' = [chains EXCEPT ![id] = row]
    /\ tokens' = [tokens EXCEPT ![id] = markMissingTokensUnsupported(Offered(e))]
    /\ last' = [last EXCEPT ![id] = e]
    /\ offer' = [offer EXCEPT ![id] =
           [t \in TokenIDs |-> IF t \in Offered(e) THEN e.tokens[t] ELSE @[t]]]
    /\ LET new == Listed(list) \ Listed(tokens[id])
       IN  fresh' = [fresh EXCEPT ![id] = {new} \cup {new \cup old : old \in @}]
    /\ NoTx

(* A statement fails, is refused by a validator or an index, or the        *)
(* process dies.                                                           *)
Rollback ==
    /\ at # "idle"
    /\ NoTx
    /\ UNCHANGED rows

(* The bulk statements of any run: chains missing from a feed, IDNotIn, if *)
(* it had any; tokens of the chains found unsupported before.  A statement *)
(* waits for the transactions that hold rows that it updates, several may  *)
(* end while it waits for one of them, and it misses the rows that were    *)
(* inserted since it began.                                                *)
markMissingChainsUnsupported(ids) ==
    /\ ids # {}
    /\ \A c \in Chains \ ids : ~Locked(c)
    /\ chains' = ChainUpdate(Chains \ ids)
    /\ UNCHANGED <<tokens, last, offer, fresh, tx>>

markTokensByChainSupport(ids, missed) ==
    /\ \A c \in ids : ~Locked(c) /\ missed[c] \in fresh[c] \cup {{}}
    /\ tokens' = [c \in Chains |->
           IF c \in ids THEN TokenUpdate(tokens[c], TokenIDs \ missed[c]) ELSE tokens[c]]
    /\ UNCHANGED <<chains, last, offer, fresh, tx>>

(* The operator sets the platform's switch of a chain. *)
SetEnabled(c, enabled) ==
    /\ chains[c] # Gone /\ ~Locked(c)
    /\ chains' = [chains EXCEPT ![c]["enabled"] = enabled]
    /\ UNCHANGED <<tokens, last, offer, fresh, tx>>

Next ==
    \/ \E el \in Elements : BeginChain(el)
    \/ upsertRelayChain
    \/ \E t \in TokenIDs : upsertRelayToken(t)
    \/ CommitChain
    \/ Rollback
    \/ \E ids \in SUBSET Chains : markMissingChainsUnsupported(ids)
    \/ \E ids \in SUBSET Chains : \E missed \in [ids -> SUBSET TokenIDs] :
           markTokensByChainSupport(ids, missed)
    \/ \E c \in Chains, enabled \in BOOLEAN : SetEnabled(c, enabled)

Spec == Init /\ [][Next]_vars

-----------------------------------------------------------------------------
(* What the RPCs answer. *)
toRelayChainInfo(c) == assignValues(chains[c])
toRelayTokenInfo(c, t) == assignValues(tokens[c][t])

ClientChains == {c \in Chains : chains[c] # Gone /\ chains[c]["enabled"] /\ chains[c]["supported"]}
ClientTokens == {k \in Chains \X TokenIDs :
    /\ k[1] \in ClientChains
    /\ tokens[k[1]][k[2]] # Gone /\ tokens[k[1]][k[2]]["supported"]}

(* A row tells what the last element that was written said, whether it was *)
(* inserted or updated, what was there before, and what failed in between: *)
(* nothing of an older element stays.  Only enabled is not the feed's, and *)
(* supported may have been taken away since.                               *)
RowsFollowTheFeed ==
    \A c \in Chains : chains[c] # Gone =>
        /\ last[c] # Gone
        /\ \A col \in ChainColumns \ {"enabled", "supported"} :
               toRelayChainInfo(c)[col] = buildRelayChain(last[c])[col]
        /\ chains[c]["supported"] => ~buildRelayChain(last[c]).disabled
        /\ \A t \in Listed(tokens[c]) :
               /\ offer[c][t] # Gone
               /\ \A col \in TokenColumns \ {"supported"} :
                      toRelayTokenInfo(c, t)[col] = buildRelayToken(offer[c][t])[col]

(* The tokens of a chain stand together: those of its last element are all *)
(* on offer, or all withdrawn, or only those are on offer which a sweep    *)
(* could not see, for they were inserted while it waited: never one of two *)
(* that were inserted together, or that were both there before.  A token   *)
(* that the last element does not offer never is on offer.                 *)
OffersStandTogether ==
    \A c \in Chains : chains[c] # Gone =>
        OnOffer(tokens[c]) \in {{}, Offered(last[c])} \cup
                              {new \cap Offered(last[c]) : new \in fresh[c]}

(* A client can show what it is given: a chain has the id that the first   *)
(* key with a text says, a name that is not all blanks and a type; a token *)
(* has a symbol and no negative decimals.                                  *)
ClientsCanShow ==
    /\ \A c \in ClientChains :
           /\ getFirstStringValue(last[c].id, last[c].chainId).core = c
           /\ ~Blank(chains[c]["name"]) /\ ~Blank(chains[c]["type"])
    /\ \A k \in ClientTokens :
           ~Blank(tokens[k[1]][k[2]]["symbol"]) /\ tokens[k[1]][k[2]]["decimals"] >= 0

(* The rows implement RelayCatalog, seen through the columns it has. *)
RowsOf == {c \in Chains : chains[c] # Gone}
SupportedOf == {c \in Chains : chains[c] # Gone /\ chains[c]["supported"]}
EnabledOf == {c \in Chains : chains[c] # Gone /\ chains[c]["enabled"]}
AddressesOf(rs) == [t \in TokenIDs |-> IF rs[t] = Gone THEN NoAddress ELSE rs[t]["address"]]
AddressOf == [c \in Chains |-> AddressesOf(tokens[c])]
OnOfferOf == [c \in Chains |-> OnOffer(tokens[c])]

Catalog == INSTANCE RelayCatalog WITH
    cRows <- RowsOf, cSupported <- SupportedOf, cEnabled <- EnabledOf,
    tAddress <- AddressOf, tSupported <- OnOfferOf
CatalogSpec == Catalog!Spec
=============================================================================
