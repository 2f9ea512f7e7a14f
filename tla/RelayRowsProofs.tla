-------------------------- MODULE RelayRowsProofs --------------------------
(***************************************************************************)
(* Theorems about RelayRows: the types, that rows follow the feed, that    *)
(* the tokens of a chain stand together, that clients can show what they   *)
(* are given, and that the rows implement RelayCatalog.                    *)
(***************************************************************************)
EXTENDS RelayRows, TLAPS

-----------------------------------------------------------------------------
(* The value helpers. *)
LEMMA StringIsText ==
  ASSUME NEW v \in Json
  PROVE  getStringValue(v) \in Text
  BY DEF getStringValue, Json, Text, NoText, T

LEMMA IntIsInt ==
  ASSUME NEW v
  PROVE  getIntValue(v) \in Int
  BY DEF getIntValue

LEMMA BoolIsBool ==
  ASSUME NEW v
  PROVE  getBoolValue(v) \in BOOLEAN
  BY Zenon DEF getBoolValue

LEMMA TrimIsText ==
  ASSUME NEW t \in Text
  PROVE  /\ TrimSpace(t) \in Text
         /\ Blank(TrimSpace(t)) <=> Blank(t)
         /\ TrimSpace(t) # NoText => ~Blank(TrimSpace(t))
  BY DEF TrimSpace, T, Text, Blank, NoText

(* The type of a chain is never blank: there is always "evm". *)
LEMMA TypeIsSomething ==
  ASSUME NEW s \in Text, NEW t \in Text, NEW u \in Text
  PROVE  firstNonEmpty(s, t, u, T(Evm)) \in Text /\ ~Blank(firstNonEmpty(s, t, u, T(Evm)))
  BY RowsAssumption DEF firstNonEmpty, Text, T, Blank

(* What an element becomes: a value of its type for every column. *)
LEMMA BuiltChain ==
  ASSUME NEW el \in Element
  PROVE  /\ DOMAIN buildRelayChain(el) = ChainColumns
         /\ \A c \in ChainColumns : buildRelayChain(el)[c] \in Value(c)
         /\ ~Blank(buildRelayChain(el)["type"])
         /\ buildRelayChain(el)["name"] # NoText => ~Blank(buildRelayChain(el)["name"])
         /\ buildRelayChain(el)["enabled"] = TRUE
         /\ buildRelayChain(el)["disabled"] = getBoolValue(el.disabled)
         /\ buildRelayChain(el)["supported"] = ~getBoolValue(el.disabled)
<1> DEFINE b == buildRelayChain(el)
<1>1. /\ el.name \in Json /\ el.displayName \in Json /\ el.vmType \in Json
      /\ el.protocol \in Json /\ el.type \in Json /\ el.symbol \in Json
  BY DEF Element
<1>2. getFirstStringValue(el.displayName, el.name) \in Text
  BY <1>1, StringIsText DEF getFirstStringValue
<1>3. /\ b["slug"] \in Text /\ b["vm_type"] \in Text /\ b["protocol"] \in Text
      /\ b["native_symbol"] \in Text
  BY <1>1, StringIsText, TrimIsText DEF buildRelayChain
<1>4. b["name"] \in Text /\ (b["name"] # NoText => ~Blank(b["name"]))
  BY <1>2, TrimIsText DEF buildRelayChain
<1>5. b["type"] \in Text /\ ~Blank(b["type"])
  <2> DEFINE x == firstNonEmpty(getStringValue(el.vmType), getStringValue(el.protocol),
                                getStringValue(el.type), T(Evm))
  <2>1. x \in Text /\ ~Blank(x)
    BY <1>1, StringIsText, TypeIsSomething
  <2>2. b["type"] = TrimSpace(x)
    BY DEF buildRelayChain
  <2> QED
    BY <2>1, <2>2, TrimIsText
<1>6. b["native_decimals"] \in Int
  BY IntIsInt DEF buildRelayChain
<1>7. /\ b["deposit_enabled"] = getBoolValue(el.depositEnabled)
      /\ b["disabled"] = getBoolValue(el.disabled)
      /\ b["supported"] = ~getBoolValue(el.disabled)
      /\ b["enabled"] = TRUE
  BY DEF buildRelayChain
<1>8. /\ b["deposit_enabled"] \in BOOLEAN /\ b["disabled"] \in BOOLEAN
      /\ b["supported"] \in BOOLEAN /\ b["enabled"] \in BOOLEAN
  BY <1>7, BoolIsBool
<1>9. DOMAIN b = ChainColumns
  BY DEF buildRelayChain, ChainColumns
<1>10. \A c \in ChainColumns : b[c] \in Value(c)
  BY <1>3, <1>4, <1>5, <1>6, <1>8 DEF ChainColumns, Value
<1> QED
  BY <1>4, <1>5, <1>7, <1>9, <1>10

LEMMA BuiltToken ==
  ASSUME NEW s \in Snapshot
  PROVE  /\ DOMAIN buildRelayToken(s) = TokenColumns
         /\ \A c \in TokenColumns : buildRelayToken(s)[c] \in Value(c)
         /\ buildRelayToken(s)["supported"] = TRUE
         /\ buildRelayToken(s)["address"] = s.address
         /\ buildRelayToken(s)["symbol"] = s.symbol
  BY DEF buildRelayToken, TokenColumns, Value, Snapshot, isNativeToken

-----------------------------------------------------------------------------
(* The builders.  A column that was given is what it was given. *)
LEMMA ValuesAreCells ==
  ASSUME NEW c \in ChainColumns \cup TokenColumns
  PROVE  Value(c) \subseteq Cell /\ Unset \notin Value(c)
  BY NonesAssumption DEF Value, Cell

LEMMA CreatedChain ==
  ASSUME NEW v, DOMAIN v = ChainColumns, \A c \in ChainColumns : v[c] \in Value(c)
  PROVE  ChainCreate(v) = [c \in ChainColumns |-> v[c]]
<1>1. \A c \in ChainColumns : v[c] # Unset
  BY ValuesAreCells
<1>2. Mutation(ChainColumns, v) = [c \in ChainColumns |-> v[c]]
  BY DEF Mutation
<1> QED
  BY <1>1, <1>2 DEF ChainCreate, ChainDefaults, WithDefaults

LEMMA UpdatedChain ==
  ASSUME NEW v, DOMAIN v = ChainColumns, \A c \in ChainColumns : v[c] \in Value(c),
         NEW r, DOMAIN r = ChainColumns
  PROVE  /\ UpdateRow(r, ChainUpdateOne(Updated(v))) =
                [c \in ChainColumns |-> IF c = "enabled" THEN r[c] ELSE v[c]]
         /\ ChainUpdateOne(Updated(v))["name"] = v["name"]
         /\ v["name"] # Unset
<1>1. \A c \in ChainColumns : v[c] # Unset
  BY ValuesAreCells
<1>2. DOMAIN Updated(v) = ChainColumns \ {"enabled"}
  BY DEF Updated
<1>3. ChainUpdateOne(Updated(v)) =
        [c \in ChainColumns |-> IF c = "enabled" THEN Unset ELSE v[c]]
  BY <1>2 DEF ChainUpdateOne, Mutation, Updated
<1> QED
  BY <1>1, <1>3 DEF UpdateRow, ChainColumns

LEMMA WrittenToken ==
  ASSUME NEW v, DOMAIN v = TokenColumns, \A c \in TokenColumns : v[c] \in Value(c),
         NEW r, DOMAIN r = TokenColumns
  PROVE  /\ TokenCreate(v) = [c \in TokenColumns |-> v[c]]
         /\ UpdateRow(r, TokenUpdateOne(v)) = [c \in TokenColumns |-> v[c]]
         /\ TokenUpdateOne(v) = [c \in TokenColumns |-> v[c]]
<1>1. \A c \in TokenColumns : v[c] # Unset
  BY ValuesAreCells
<1>2. Mutation(TokenColumns, v) = [c \in TokenColumns |-> v[c]]
  BY DEF Mutation
<1> QED
  BY <1>1, <1>2 DEF TokenCreate, TokenUpdateOne, TokenDefaults, WithDefaults, UpdateRow

(* A row of the tables, where only supported is taken away. *)
Without(r) == [c \in DOMAIN r |-> IF c = "supported" THEN FALSE ELSE r[c]]

LEMMA Withdrawn ==
  ASSUME NEW r, NEW columns, DOMAIN r = columns, "supported" \in columns
  PROVE  UpdateRow(r, Mutation(columns, [supported |-> FALSE])) = Without(r)
<1>1. DOMAIN [supported |-> FALSE] = {"supported"} /\ [supported |-> FALSE]["supported"] = FALSE
  OBVIOUS
<1>2. Mutation(columns, [supported |-> FALSE]) =
        [c \in columns |-> IF c = "supported" THEN FALSE ELSE Unset]
  BY <1>1 DEF Mutation
<1>3. FALSE # Unset
  BY NonesAssumption DEF Cell
<1> QED
  BY <1>2, <1>3 DEF UpdateRow, Without

LEMMA MadeFits ==
  ASSUME NEW v
  PROVE  /\ (\A c \in ChainColumns : v[c] \in Value(c)) =>
                /\ Fits([c \in ChainColumns |-> v[c]], ChainColumns)
                /\ [c \in ChainColumns |-> v[c]] # Gone
         /\ (\A c \in TokenColumns : v[c] \in Value(c)) =>
                /\ Fits([c \in TokenColumns |-> v[c]], TokenColumns)
                /\ [c \in TokenColumns |-> v[c]] # Gone
  BY ValuesAreCells, NonesAssumption DEF Fits

LEMMA WithoutFits ==
  ASSUME NEW r
  PROVE  /\ Fits(r, ChainColumns) => Fits(Without(r), ChainColumns) /\ Without(r) # Gone
         /\ Fits(r, TokenColumns) => Fits(Without(r), TokenColumns) /\ Without(r) # Gone
<1>1. FALSE \in Value("supported") /\ FALSE \in Cell
  BY DEF Value, Cell
<1> QED
  BY <1>1, ValuesAreCells, NonesAssumption DEF Fits, Without

-----------------------------------------------------------------------------
(* The inductive invariant: what holds of the rows, and of the copies that *)
(* a transaction works on.                                                 *)
ChainFollows(r, el) ==
    /\ \A col \in ChainColumns \ {"enabled", "supported"} : r[col] = buildRelayChain(el)[col]
    /\ r["supported"] => ~getBoolValue(el.disabled)
    /\ r["name"] # NoText

TokenFollows(r, s) ==
    /\ \A col \in TokenColumns \ {"supported"} : r[col] = buildRelayToken(s)[col]
    /\ ~Blank(r["symbol"]) /\ r["decimals"] >= 0

Unique(rs) == \A s, t \in Listed(rs) : rs[s]["address"] = rs[t]["address"] => s = t

RowsInv == \A c \in Chains :
    /\ chains[c] = Gone => Listed(tokens[c]) = {}
    /\ chains[c] # Gone =>
           /\ last[c] \in Elements /\ Built(last[c]) /\ getChainID(last[c]) = c
           /\ ChainFollows(chains[c], last[c])
    /\ \A t \in Listed(tokens[c]) :
           offer[c][t] \in Snapshot /\ TokenFollows(tokens[c][t], offer[c][t])
    /\ Unique(tokens[c])

(* What the last, the last two ... transactions inserted grows, and a sweep *)
(* leaves one of these sets of what was on offer: what several sweeps      *)
(* leave of it is what the smallest left.                                  *)
Nested(sets) == \A x, y \in sets : x \subseteq y \/ y \subseteq x
Remains(offered, sets) == {{}, offered} \cup {new \cap offered : new \in sets}

OffersInv ==
    /\ \A c \in Chains : Nested(fresh[c])
    /\ \A c \in Chains : chains[c] # Gone => OnOffer(tokens[c]) \in Remains(Offered(last[c]), fresh[c])

LEMMA RemainsOfRemains ==
  ASSUME NEW sets, Nested(sets), NEW offered, NEW on \in Remains(offered, sets),
         NEW missed \in sets \cup {{}}
  PROVE  on \cap missed \in Remains(offered, sets)
<1>1. CASE missed = {}
  BY <1>1 DEF Remains
<1>2. CASE missed \in sets
  <2>1. CASE on = {}
    BY <2>1 DEF Remains
  <2>2. CASE on = offered
    <3>1. on \cap missed = missed \cap offered
      BY <2>2
    <3> QED
      BY <1>2, <3>1 DEF Remains
  <2>3. CASE \E new \in sets : on = new \cap offered
    <3>1. PICK new \in sets : on = new \cap offered
      BY <2>3
    <3>2. new \subseteq missed \/ missed \subseteq new
      BY <1>2, <3>1 DEF Nested
    <3>3. on \cap missed \in {new \cap offered, missed \cap offered}
      BY <3>1, <3>2
    <3> QED
      BY <1>2, <3>1, <3>3 DEF Remains
  <2> QED
    BY <2>1, <2>2, <2>3 DEF Remains
<1> QED
  BY <1>1, <1>2

TxInv ==
    /\ at # "idle" => id \in Chains /\ (existing <=> chains[id] # Gone)
    /\ at = "tokens" =>
         /\ \A col \in ChainColumns \ {"enabled"} : row[col] = buildRelayChain(e)[col]
         /\ row["name"] # NoText
         /\ row["enabled"] = IF chains[id] = Gone THEN TRUE ELSE chains[id]["enabled"]
         /\ pend \subseteq Offered(e)
         /\ \A t \in TokenIDs :
                IF t \in Offered(e) \ pend
                THEN /\ list[t] # Gone /\ list[t]["supported"] = TRUE
                     /\ TokenFollows(list[t], e.tokens[t])
                ELSE list[t] = tokens[id][t]
         /\ Unique(list)

Inv == TypeOK /\ RowsInv /\ OffersInv /\ TxInv

LEMMA InvInit == Init => Inv
<1> SUFFICES ASSUME Init PROVE Inv
  OBVIOUS
<1>1. TypeOK
  BY DEF Init, TypeOK, NoTokens, ChainRow, TokenRow
<1>2. \A c \in Chains : chains[c] = Gone /\ Listed(tokens[c]) = {}
  BY DEF Init, NoTokens, Listed
<1> QED
  BY <1>1, <1>2 DEF Init, Inv, RowsInv, OffersInv, TxInv, Unique, Nested

(* The elements, and the columns that are text for sure. *)
LEMMA Elementary ==
  ASSUME NEW el \in Elements, Built(el)
  PROVE  /\ el \in Element /\ el # Gone
         /\ getChainID(el) \in Chains
         /\ \A t \in Offered(el) : /\ t \in TokenIDs
                                   /\ el.tokens[t] \in Snapshot
                                   /\ ~Blank(el.tokens[t].symbol)
         /\ getBoolValue(el.disabled) => Offered(el) = {}
  BY RowsAssumption, NonesAssumption DEF Built, Offered, Element

LEMMA InvBegin ==
  ASSUME Inv, NEW el \in Elements, BeginChain(el)
  PROVE  Inv'
<1>1. /\ at = "idle" /\ Built(el) /\ at' = "chain" /\ e' = el
      /\ existing' = (chains[getChainID(el)] # Gone)
      /\ UNCHANGED <<chains, tokens, last, offer, fresh, row, list, pend>>
  BY DEF BeginChain, rows
<1>2. existing' \in BOOLEAN
  BY <1>1
<1>3. TypeOK'
  BY <1>1, <1>2, Elementary DEF Inv, TypeOK
<1>4. RowsInv' /\ OffersInv'
  BY <1>1 DEF Inv, RowsInv, OffersInv
<1>5. TxInv'
  BY <1>1, Elementary DEF TxInv, id
<1> QED
  BY <1>3, <1>4, <1>5 DEF Inv

LEMMA InvRollback ==
  ASSUME Inv, NoTx, UNCHANGED rows
  PROVE  Inv'
<1>1. /\ at' = "idle" /\ e' = Gone /\ existing' = FALSE /\ row' = Gone
      /\ list' = NoTokens /\ pend' = {}
      /\ UNCHANGED <<chains, tokens, last, offer, fresh>>
  BY DEF NoTx, rows
<1>2. TypeOK'
  BY <1>1 DEF Inv, TypeOK, NoTokens, TokenRow, ChainRow
<1>3. RowsInv' /\ OffersInv'
  BY <1>1 DEF Inv, RowsInv, OffersInv
<1>4. TxInv'
  BY <1>1 DEF TxInv
<1> QED
  BY <1>2, <1>3, <1>4 DEF Inv

LEMMA InvChain ==
  ASSUME Inv, upsertRelayChain
  PROVE  Inv'
<1> DEFINE b == buildRelayChain(e)
<1>1. /\ at = "chain" /\ at' = "tokens" /\ list' = tokens[id] /\ pend' = Offered(e)
      /\ UNCHANGED <<chains, tokens, last, offer, fresh, e, existing>>
  BY DEF upsertRelayChain, rows
<1>2. /\ e \in Elements /\ Built(e) /\ e \in Element /\ id \in Chains
      /\ existing <=> chains[id] # Gone
  BY <1>1, Elementary DEF Inv, TypeOK, TxInv, id
<1>3. /\ DOMAIN b = ChainColumns /\ b["enabled"] = TRUE
      /\ \A c \in ChainColumns : b[c] \in Value(c)
  BY <1>2, BuiltChain
<1>4. /\ row' # Gone /\ Fits(row', ChainColumns) /\ row'["name"] # NoText
      /\ \A col \in ChainColumns \ {"enabled"} : row'[col] = b[col]
      /\ row'["enabled"] = IF chains[id] = Gone THEN TRUE ELSE chains[id]["enabled"]
  <2>1. CASE ~existing
    <3>1. /\ chains[id] = Gone /\ row' = ChainCreate(b) /\ ChainCreateCheck(row')
      BY <2>1 DEF upsertRelayChain
    <3>2. row' = [c \in ChainColumns |-> b[c]]
      BY <1>3, <3>1, CreatedChain
    <3> QED
      BY <1>3, <3>1, <3>2, MadeFits DEF ChainCreateCheck, NotEmpty, ChainColumns
  <2>2. CASE existing
    <3>1. /\ row' = UpdateRow(chains[id], ChainUpdateOne(Updated(b)))
          /\ ChainUpdateCheck(ChainUpdateOne(Updated(b)))
      BY <2>2 DEF upsertRelayChain
    <3>2. chains[id] # Gone /\ Fits(chains[id], ChainColumns)
      BY <1>2, <2>2 DEF Inv, TypeOK, ChainRow
    <3>3. /\ row' = [c \in ChainColumns |-> IF c = "enabled" THEN chains[id][c] ELSE b[c]]
          /\ b["name"] # NoText
      BY <1>3, <3>1, <3>2, UpdatedChain DEF Fits, ChainUpdateCheck, NotEmpty
    <3> DEFINE v == [c \in ChainColumns |-> IF c = "enabled" THEN chains[id][c] ELSE b[c]]
    <3>4. \A c \in ChainColumns : v[c] \in Value(c)
      BY <1>3, <3>2 DEF Fits
    <3>5. Fits(v, ChainColumns) /\ v # Gone
      <4>1. v = [c \in ChainColumns |-> v[c]]
        OBVIOUS
      <4> HIDE DEF v
      <4> QED
        BY <3>4, <4>1, MadeFits
    <3> QED
      BY <3>2, <3>3, <3>5 DEF ChainColumns
  <2> QED
    BY <2>1, <2>2
<1>5. TypeOK'
  <2>1. DOMAIN list' = TokenIDs /\ \A t \in TokenIDs : TokenRow(list'[t])
    BY <1>1, <1>2 DEF Inv, TypeOK
  <2>2. pend' \subseteq TokenIDs
    BY <1>1 DEF Offered
  <2> QED
    BY <1>1, <1>2, <1>4, <2>1, <2>2 DEF Inv, TypeOK, ChainRow
<1>6. RowsInv' /\ OffersInv'
  BY <1>1 DEF Inv, RowsInv, OffersInv
<1>7. TxInv'
  <2>1. Unique(list')
    BY <1>1, <1>2 DEF Inv, RowsInv
  <2> QED
    BY <1>1, <1>2, <1>4, <2>1 DEF TxInv, id
<1> QED
  BY <1>5, <1>6, <1>7 DEF Inv

LEMMA InvToken ==
  ASSUME Inv, NEW t \in TokenIDs, upsertRelayToken(t)
  PROVE  Inv'
<1> DEFINE s == e.tokens[t]
           b == buildRelayToken(s)
           v == [c \in TokenColumns |-> b[c]]
<1>1. /\ at = "tokens" /\ t \in pend /\ pend' = pend \ {t} /\ Free(b.address, t)
      /\ UNCHANGED <<chains, tokens, last, offer, fresh, at, e, existing, row>>
  BY DEF upsertRelayToken, rows
<1>2. /\ e \in Elements /\ Built(e) /\ id \in Chains /\ pend \subseteq Offered(e)
  BY <1>1, Elementary DEF Inv, TypeOK, TxInv, id
<1>3. s \in Snapshot /\ ~Blank(s.symbol)
  BY <1>1, <1>2, Elementary
<1>4. /\ DOMAIN b = TokenColumns /\ b["supported"] = TRUE /\ ~Blank(b["symbol"])
      /\ \A c \in TokenColumns : b[c] \in Value(c)
  BY <1>3, BuiltToken
<1>5. list' = [list EXCEPT ![t] = v] /\ v["decimals"] >= 0
  <2>1. CASE list[t] = Gone
    <3>1. DOMAIN v = TokenColumns
      OBVIOUS
    <3>2. TokenCreate(b) = v
      <4> HIDE DEF b
      <4> QED
        BY <1>4, <3>1, WrittenToken
    <3>3. list' = [list EXCEPT ![t] = TokenCreate(b)] /\ TokenCreateCheck(TokenCreate(b))
      BY <2>1 DEF upsertRelayToken
    <3> QED
      BY <3>2, <3>3 DEF TokenCreateCheck
  <2>2. CASE list[t] # Gone
    <3>1. DOMAIN list[t] = TokenColumns
      BY <2>2 DEF Inv, TypeOK, TokenRow, Fits
    <3>2. UpdateRow(list[t], TokenUpdateOne(b)) = v /\ TokenUpdateOne(b) = v
      <4> HIDE DEF b
      <4> QED
        BY <1>4, <3>1, WrittenToken
    <3>3. /\ list' = [list EXCEPT ![t] = UpdateRow(list[t], TokenUpdateOne(b))]
          /\ TokenUpdateCheck(TokenUpdateOne(b))
      BY <2>2 DEF upsertRelayToken
    <3>4. v["decimals"] # Unset
      BY <1>4, ValuesAreCells DEF TokenColumns
    <3> QED
      BY <3>2, <3>3, <3>4 DEF TokenUpdateCheck
  <2> QED
    BY <2>1, <2>2
<1>6. Fits(v, TokenColumns) /\ v # Gone
  BY <1>4, MadeFits
<1>7. DOMAIN list' = TokenIDs /\ list'[t] = v /\ \A u \in TokenIDs \ {t} : list'[u] = list[u]
  BY <1>5 DEF Inv, TypeOK
<1>8. TypeOK'
  <2>1. \A u \in TokenIDs : TokenRow(list'[u])
    BY <1>6, <1>7 DEF Inv, TypeOK, TokenRow
  <2> QED
    BY <1>1, <1>7, <2>1 DEF Inv, TypeOK
<1>9. RowsInv' /\ OffersInv'
  BY <1>1 DEF Inv, RowsInv, OffersInv
<1>10. TxInv'
  <2>1. v["address"] = b.address /\ v["supported"] = TRUE /\ TokenFollows(v, s)
    BY <1>4, <1>5 DEF TokenFollows, TokenColumns
  <2>2. Unique(list')
    <3>1. Unique(list) /\ Free(b.address, t)
      BY <1>1 DEF Inv, TxInv
    <3>2. Listed(list') \subseteq Listed(list) \cup {t}
      BY <1>7 DEF Listed
    <3> SUFFICES ASSUME NEW x \in Listed(list'), NEW y \in Listed(list'),
                        list'[x]["address"] = list'[y]["address"], x # y
                 PROVE  FALSE
      BY DEF Unique
    <3>3. CASE x # t /\ y # t
      <4>1. x \in Listed(list) /\ y \in Listed(list) /\ list[x] = list'[x] /\ list[y] = list'[y]
        BY <1>7, <3>2, <3>3 DEF Listed
      <4> QED
        BY <3>1, <4>1 DEF Unique
    <3>4. ASSUME NEW z \in Listed(list'), z # t PROVE list'[z]["address"] # list'[t]["address"]
      <4>1. z \in Listed(list) /\ list[z] = list'[z] /\ list'[t]["address"] = b.address
        BY <1>7, <2>1, <3>2, <3>4 DEF Listed
      <4> HIDE DEF b
      <4> QED
        BY <3>1, <3>4, <4>1 DEF Free
    <3> QED
      BY <3>3, <3>4
  <2>3. \A u \in TokenIDs :
          IF u \in Offered(e) \ pend'
          THEN /\ list'[u] # Gone /\ list'[u]["supported"] = TRUE
               /\ TokenFollows(list'[u], e.tokens[u])
          ELSE list'[u] = tokens[id][u]
    <3> SUFFICES ASSUME NEW u \in TokenIDs
                 PROVE  IF u \in Offered(e) \ pend'
                        THEN /\ list'[u] # Gone /\ list'[u]["supported"] = TRUE
                             /\ TokenFollows(list'[u], e.tokens[u])
                        ELSE list'[u] = tokens[id][u]
      OBVIOUS
    <3>1. CASE u = t
      BY <1>1, <1>2, <1>6, <1>7, <2>1, <3>1
    <3>2. CASE u # t
      BY <1>1, <1>7, <3>2 DEF Inv, TxInv
    <3> QED
      BY <3>1, <3>2
  <2> QED
    BY <1>1, <2>2, <2>3 DEF Inv, TxInv, id
<1> QED
  BY <1>8, <1>9, <1>10 DEF Inv

(* What withdrawing tokens does to the rows of a chain. *)
LEMMA TokensWithdrawn ==
  ASSUME NEW rs, NEW match,
         DOMAIN rs = TokenIDs, \A t \in TokenIDs : TokenRow(rs[t])
  PROVE  /\ DOMAIN TokenUpdate(rs, match) = TokenIDs
         /\ \A t \in TokenIDs :
                /\ TokenRow(TokenUpdate(rs, match)[t])
                /\ TokenUpdate(rs, match)[t] = Gone <=> rs[t] = Gone
                /\ rs[t] # Gone =>
                     /\ \A col \in TokenColumns \ {"supported"} :
                            TokenUpdate(rs, match)[t][col] = rs[t][col]
                     /\ TokenUpdate(rs, match)[t]["supported"] =
                            (t \notin match /\ rs[t]["supported"])
         /\ Listed(TokenUpdate(rs, match)) = Listed(rs)
         /\ OnOffer(TokenUpdate(rs, match)) = OnOffer(rs) \ match
         /\ Unique(rs) => Unique(TokenUpdate(rs, match))
<1> DEFINE new == TokenUpdate(rs, match)
<1>1. ASSUME NEW t \in TokenIDs
      PROVE  new[t] = IF t \in match /\ rs[t] # Gone THEN Without(rs[t]) ELSE rs[t]
  <2>1. rs[t] # Gone => UpdateRow(rs[t], Mutation(TokenColumns, [supported |-> FALSE])) = Without(rs[t])
    BY Withdrawn DEF TokenRow, Fits, TokenColumns
  <2> QED
    BY <2>1 DEF TokenUpdate
<1>2. DOMAIN new = TokenIDs
  BY DEF TokenUpdate
<1> HIDE DEF new
<1>3. ASSUME NEW t \in TokenIDs
      PROVE  /\ TokenRow(new[t])
             /\ new[t] = Gone <=> rs[t] = Gone
             /\ rs[t] # Gone =>
                  /\ \A col \in TokenColumns \ {"supported"} : new[t][col] = rs[t][col]
                  /\ new[t]["supported"] = (t \notin match /\ rs[t]["supported"])
  <2>1. CASE rs[t] = Gone
    BY <1>1, <2>1 DEF TokenRow
  <2>2. CASE rs[t] # Gone
    <3>1. Fits(rs[t], TokenColumns) /\ rs[t]["supported"] \in BOOLEAN
      BY <2>2 DEF TokenRow, Fits, TokenColumns, Value
    <3>2. CASE t \in match
      <4>1. new[t] = Without(rs[t])
        BY <1>1, <2>2, <3>2
      <4>2. Fits(new[t], TokenColumns) /\ new[t] # Gone
        BY <3>1, <4>1, WithoutFits
      <4>3. /\ \A col \in TokenColumns \ {"supported"} : new[t][col] = rs[t][col]
            /\ new[t]["supported"] = FALSE
        BY <3>1, <4>1 DEF Without, Fits, TokenColumns
      <4> QED
        BY <2>2, <3>2, <4>2, <4>3 DEF TokenRow
    <3>3. CASE t \notin match
      BY <1>1, <2>2, <3>1, <3>3 DEF TokenRow
    <3> QED
      BY <3>2, <3>3
  <2> QED
    BY <2>1, <2>2
<1>4. Listed(new) = Listed(rs)
  BY <1>3 DEF Listed
<1>5. OnOffer(new) = OnOffer(rs) \ match
  BY <1>3, <1>4 DEF OnOffer, Listed
<1>6. Unique(rs) => Unique(new)
  <2>1. \A t \in Listed(rs) : new[t]["address"] = rs[t]["address"]
    BY <1>3 DEF Listed, TokenColumns
  <2> QED
    BY <1>4, <2>1 DEF Unique
<1> QED
  BY <1>2, <1>3, <1>4, <1>5, <1>6 DEF new

LEMMA InvCommit ==
  ASSUME Inv, CommitChain
  PROVE  Inv'
<1> DEFINE new == TokenUpdate(list, TokenIDs \ Offered(e))
           ins == Listed(list) \ Listed(tokens[id])
<1>1. /\ at = "tokens" /\ pend = {} /\ NoTx
      /\ chains' = [chains EXCEPT ![id] = row]
      /\ tokens' = [tokens EXCEPT ![id] = new]
      /\ last' = [last EXCEPT ![id] = e]
      /\ offer' = [offer EXCEPT ![id] =
             [t \in TokenIDs |-> IF t \in Offered(e) THEN e.tokens[t] ELSE offer[id][t]]]
      /\ fresh' = [fresh EXCEPT ![id] = {ins} \cup {ins \cup old : old \in fresh[id]}]
  BY DEF CommitChain, markMissingTokensUnsupported
<1>2. /\ e \in Elements /\ Built(e) /\ e # Gone /\ id \in Chains /\ getChainID(e) = id
      /\ row # Gone /\ ChainRow(row)
      /\ DOMAIN list = TokenIDs /\ \A t \in TokenIDs : TokenRow(list[t])
  BY <1>1, Elementary DEF Inv, TypeOK, TxInv, id
<1>3. /\ \A t \in TokenIDs :
             IF t \in Offered(e)
             THEN /\ list[t] # Gone /\ list[t]["supported"] = TRUE
                  /\ TokenFollows(list[t], e.tokens[t])
             ELSE list[t] = tokens[id][t]
      /\ Unique(list)
      /\ \A col \in ChainColumns \ {"enabled"} : row[col] = buildRelayChain(e)[col]
      /\ row["name"] # NoText
  BY <1>1 DEF Inv, TxInv
<1>4. /\ DOMAIN new = TokenIDs /\ Unique(new) /\ Listed(new) = Listed(list)
      /\ OnOffer(new) = OnOffer(list) \ (TokenIDs \ Offered(e))
      /\ \A t \in TokenIDs :
             /\ TokenRow(new[t])
             /\ list[t] # Gone =>
                    \A col \in TokenColumns \ {"supported"} : new[t][col] = list[t][col]
  BY <1>2, <1>3, TokensWithdrawn
<1> HIDE DEF new
<1>5. /\ chains'[id] = row /\ tokens'[id] = new /\ last'[id] = e
      /\ \A t \in TokenIDs :
             offer'[id][t] = IF t \in Offered(e) THEN e.tokens[t] ELSE offer[id][t]
      /\ fresh'[id] = {ins} \cup {ins \cup old : old \in fresh[id]}
      /\ \A c \in Chains \ {id} :
             /\ chains'[c] = chains[c] /\ tokens'[c] = tokens[c] /\ last'[c] = last[c]
             /\ offer'[c] = offer[c] /\ fresh'[c] = fresh[c]
  BY <1>1, <1>2 DEF Inv, TypeOK
<1>6. \A t \in Offered(e) : t \in TokenIDs /\ e.tokens[t] \in Snapshot
  BY <1>2, Elementary
<1>7. TypeOK'
  <2>1. /\ DOMAIN chains' = Chains /\ \A c \in Chains : ChainRow(chains'[c])
        /\ DOMAIN tokens' = Chains
    BY <1>1, <1>2, <1>5 DEF Inv, TypeOK
  <2>2. \A c \in Chains : DOMAIN tokens'[c] = TokenIDs /\ \A t \in TokenIDs : TokenRow(tokens'[c][t])
    BY <1>4, <1>5 DEF Inv, TypeOK
  <2>3. /\ at' = "idle" /\ e' = Gone /\ existing' = FALSE /\ row' = Gone
        /\ list' = NoTokens /\ pend' = {}
    BY <1>1 DEF NoTx
  <2>4. last' \in [Chains -> Elements \cup {Gone}]
    BY <1>1, <1>2 DEF Inv, TypeOK
  <2>5. offer' \in [Chains -> [TokenIDs -> Snapshot \cup {Gone}]]
    <3>1. [t \in TokenIDs |-> IF t \in Offered(e) THEN e.tokens[t] ELSE offer[id][t]]
             \in [TokenIDs -> Snapshot \cup {Gone}]
      BY <1>2, <1>6 DEF Inv, TypeOK
    <3> QED
      BY <1>1, <3>1 DEF Inv, TypeOK
  <2>6. fresh' \in [Chains -> SUBSET SUBSET TokenIDs]
    <3>1. ins \subseteq TokenIDs
      BY DEF Listed
    <3> HIDE DEF ins
    <3>2. fresh \in [Chains -> SUBSET SUBSET TokenIDs]
      BY DEF Inv, TypeOK
    <3>3. {ins} \cup {ins \cup old : old \in fresh[id]} \in SUBSET SUBSET TokenIDs
      BY <1>2, <3>1, <3>2
    <3> QED
      BY <1>1, <3>2, <3>3
  <2> QED
    BY <2>1, <2>2, <2>3, <2>4, <2>5, <2>6 DEF TypeOK, NoTokens, TokenRow, ChainRow
<1>8. RowsInv'
  <2>1. ChainFollows(row, e)
    BY <1>2, <1>3, BuiltChain, Elementary DEF ChainFollows, ChainColumns
  <2>2. ASSUME NEW t \in Listed(new)
        PROVE  offer'[id][t] \in Snapshot /\ TokenFollows(new[t], offer'[id][t])
    <3>1. t \in TokenIDs /\ list[t] # Gone
      BY <1>4 DEF Listed
    <3>2. offer'[id][t] \in Snapshot /\ TokenFollows(list[t], offer'[id][t])
      BY <1>2, <1>3, <1>5, <1>6, <3>1 DEF Inv, RowsInv, Listed
    <3> QED
      BY <1>4, <3>1, <3>2 DEF TokenFollows, TokenColumns
  <2>3. ASSUME NEW c \in Chains \ {id}
        PROVE  /\ chains[c] = Gone => Listed(tokens[c]) = {}
               /\ chains[c] # Gone =>
                      /\ last[c] \in Elements /\ Built(last[c]) /\ getChainID(last[c]) = c
                      /\ ChainFollows(chains[c], last[c])
               /\ \A t \in Listed(tokens[c]) :
                      offer[c][t] \in Snapshot /\ TokenFollows(tokens[c][t], offer[c][t])
               /\ Unique(tokens[c])
    BY DEF Inv, RowsInv
  <2> QED
    BY <1>2, <1>4, <1>5, <2>1, <2>2, <2>3 DEF RowsInv
<1>9. OffersInv'
  <2>1. OnOffer(new) = Offered(e)
    BY <1>3, <1>4, <1>6 DEF OnOffer, Listed
  <2> HIDE DEF ins
  <2>2. Nested(fresh'[id])
    <3>1. Nested(fresh[id])
      BY <1>2 DEF Inv, OffersInv
    <3> QED
      BY <1>5, <3>1 DEF Nested
  <2>3. \A c \in Chains : Nested(fresh'[c])
    BY <1>5, <2>2 DEF Inv, OffersInv
  <2>4. OnOffer(tokens'[id]) \in Remains(Offered(last'[id]), fresh'[id])
    BY <1>5, <2>1 DEF Remains
  <2>5. ASSUME NEW c \in Chains \ {id}, chains'[c] # Gone
        PROVE  OnOffer(tokens'[c]) \in Remains(Offered(last'[c]), fresh'[c])
    BY <1>5, <2>5 DEF Inv, OffersInv
  <2> QED
    BY <2>3, <2>4, <2>5 DEF OffersInv
<1>10. TxInv'
  BY <1>1 DEF NoTx, TxInv
<1> QED
  BY <1>7, <1>8, <1>9, <1>10 DEF Inv

(* What the statements outside the transaction leave of it. *)
LEMMA TxKept ==
  ASSUME TxInv, UNCHANGED tx,
         \A c \in Chains : chains'[c] = Gone <=> chains[c] = Gone,
         at = "tokens" => \/ chains'[id] = chains[id] /\ tokens'[id] = tokens[id]
                          \/ /\ chains[id] = Gone /\ chains'[id] = Gone
                             /\ \A t \in TokenIDs : tokens'[id][t] = tokens[id][t]
  PROVE  TxInv'
  BY DEF TxInv, tx, id

LEMMA InvMissing ==
  ASSUME Inv, NEW ids \in SUBSET Chains, markMissingChainsUnsupported(ids)
  PROVE  Inv'
<1>1. /\ chains' = ChainUpdate(Chains \ ids) /\ \A c \in Chains \ ids : ~Locked(c)
      /\ UNCHANGED <<tokens, last, offer, fresh, tx>>
  BY DEF markMissingChainsUnsupported
<1>2. ASSUME NEW c \in Chains
      PROVE  chains'[c] = IF c \notin ids /\ chains[c] # Gone THEN Without(chains[c]) ELSE chains[c]
  <2>1. chains[c] # Gone => UpdateRow(chains[c], Mutation(ChainColumns, [supported |-> FALSE])) = Without(chains[c])
    BY Withdrawn DEF Inv, TypeOK, ChainRow, Fits, ChainColumns
  <2> QED
    BY <1>1, <2>1 DEF ChainUpdate
<1>3. ASSUME NEW c \in Chains
      PROVE  /\ ChainRow(chains'[c])
             /\ chains'[c] = Gone <=> chains[c] = Gone
             /\ chains[c] # Gone /\ ChainFollows(chains[c], last[c]) => ChainFollows(chains'[c], last[c])
  <2>1. ChainRow(chains[c])
    BY DEF Inv, TypeOK
  <2>2. CASE c \in ids \/ chains[c] = Gone
    BY <1>2, <2>1, <2>2
  <2>3. CASE c \notin ids /\ chains[c] # Gone
    <3>1. chains'[c] = Without(chains[c]) /\ Fits(chains[c], ChainColumns)
      BY <1>2, <2>1, <2>3 DEF ChainRow
    <3>2. Fits(chains'[c], ChainColumns) /\ chains'[c] # Gone
      BY <3>1, WithoutFits
    <3>3. /\ \A col \in ChainColumns \ {"supported"} : chains'[c][col] = chains[c][col]
          /\ chains'[c]["supported"] = FALSE
      BY <3>1 DEF Without, Fits, ChainColumns
    <3> QED
      BY <2>3, <3>2, <3>3 DEF ChainRow, ChainFollows, ChainColumns
  <2> QED
    BY <2>2, <2>3
<1>4. TypeOK'
  <2>1. DOMAIN chains' = Chains
    BY <1>1 DEF ChainUpdate
  <2> QED
    BY <1>1, <1>3, <2>1 DEF Inv, TypeOK, tx
<1>5. RowsInv'
  <2> SUFFICES ASSUME NEW c \in Chains
               PROVE  /\ chains'[c] = Gone => Listed(tokens[c]) = {}
                      /\ chains'[c] # Gone =>
                           /\ last[c] \in Elements /\ Built(last[c]) /\ getChainID(last[c]) = c
                           /\ ChainFollows(chains'[c], last[c])
                      /\ \A t \in Listed(tokens[c]) :
                           offer[c][t] \in Snapshot /\ TokenFollows(tokens[c][t], offer[c][t])
                      /\ Unique(tokens[c])
    BY <1>1 DEF RowsInv
  <2> QED
    BY <1>3 DEF Inv, RowsInv
<1>6. OffersInv'
  BY <1>1, <1>3 DEF Inv, OffersInv
<1>7. TxInv'
  <2>1. ASSUME at = "tokens"
        PROVE  \/ chains'[id] = chains[id]
               \/ chains[id] = Gone /\ chains'[id] = Gone
    BY <1>1, <1>2, <1>3, <2>1 DEF Locked, Inv, TxInv
  <2> QED
    BY <1>1, <1>3, <2>1, TxKept DEF Inv
<1> QED
  BY <1>4, <1>5, <1>6, <1>7 DEF Inv

LEMMA InvSweep ==
  ASSUME Inv, NEW ids \in SUBSET Chains, NEW missed, markTokensByChainSupport(ids, missed)
  PROVE  Inv'
<1>1. /\ \A c \in ids : ~Locked(c) /\ missed[c] \in fresh[c] \cup {{}}
      /\ tokens' = [c \in Chains |->
             IF c \in ids THEN TokenUpdate(tokens[c], TokenIDs \ missed[c]) ELSE tokens[c]]
      /\ UNCHANGED <<chains, last, offer, fresh, tx>>
  BY DEF markTokensByChainSupport
<1>2. ASSUME NEW c \in Chains
      PROVE  /\ DOMAIN tokens'[c] = TokenIDs
             /\ \A t \in TokenIDs :
                    /\ TokenRow(tokens'[c][t])
                    /\ tokens'[c][t] = Gone <=> tokens[c][t] = Gone
                    /\ tokens[c][t] # Gone =>
                         \A col \in TokenColumns \ {"supported"} : tokens'[c][t][col] = tokens[c][t][col]
             /\ Listed(tokens'[c]) = Listed(tokens[c])
             /\ \/ OnOffer(tokens'[c]) = OnOffer(tokens[c])
                \/ c \in ids /\ OnOffer(tokens'[c]) = OnOffer(tokens[c]) \cap missed[c]
             /\ Unique(tokens[c]) => Unique(tokens'[c])
  <2> DEFINE match == TokenIDs \ missed[c]
  <2>1. DOMAIN tokens[c] = TokenIDs /\ \A t \in TokenIDs : TokenRow(tokens[c][t])
    BY DEF Inv, TypeOK
  <2>2. OnOffer(tokens[c]) \subseteq TokenIDs
    BY DEF OnOffer, Listed
  <2>3. CASE c \in ids
    <3>1. tokens'[c] = TokenUpdate(tokens[c], match)
      BY <1>1, <2>3
    <3> HIDE DEF match
    <3>2. OnOffer(tokens'[c]) = OnOffer(tokens[c]) \ match
      BY <2>1, <3>1, TokensWithdrawn
    <3>3. OnOffer(tokens'[c]) = OnOffer(tokens[c]) \cap missed[c]
      BY <2>2, <3>2 DEF match
    <3> QED
      BY <2>1, <2>3, <3>1, <3>3, TokensWithdrawn
  <2>4. CASE c \notin ids
    BY <1>1, <2>1, <2>4
  <2> QED
    BY <2>3, <2>4
<1>3. TypeOK'
  <2>1. DOMAIN tokens' = Chains
    BY <1>1
  <2> QED
    BY <1>1, <1>2, <2>1 DEF Inv, TypeOK, tx
<1>4. RowsInv'
  <2> SUFFICES ASSUME NEW c \in Chains
               PROVE  /\ chains[c] = Gone => Listed(tokens'[c]) = {}
                      /\ chains[c] # Gone =>
                           /\ last[c] \in Elements /\ Built(last[c]) /\ getChainID(last[c]) = c
                           /\ ChainFollows(chains[c], last[c])
                      /\ \A t \in Listed(tokens'[c]) :
                           offer[c][t] \in Snapshot /\ TokenFollows(tokens'[c][t], offer[c][t])
                      /\ Unique(tokens'[c])
    BY <1>1 DEF RowsInv
  <2>1. ASSUME NEW t \in Listed(tokens'[c])
        PROVE  offer[c][t] \in Snapshot /\ TokenFollows(tokens'[c][t], offer[c][t])
    <3>1. t \in Listed(tokens[c]) /\ t \in TokenIDs /\ tokens[c][t] # Gone
      BY <1>2 DEF Listed
    <3> QED
      BY <1>2, <3>1 DEF Inv, RowsInv, TokenFollows, TokenColumns
  <2> QED
    BY <1>2, <2>1 DEF Inv, RowsInv
<1>5. OffersInv'
  <2>1. \A c \in Chains : Nested(fresh'[c])
    BY <1>1 DEF Inv, OffersInv
  <2>2. ASSUME NEW c \in Chains, chains[c] # Gone
        PROVE  OnOffer(tokens'[c]) \in Remains(Offered(last[c]), fresh[c])
    <3> DEFINE on == OnOffer(tokens[c])
               remains == Remains(Offered(last[c]), fresh[c])
    <3>1. on \in remains /\ Nested(fresh[c])
      BY <2>2 DEF Inv, OffersInv
    <3>2. c \in ids => on \cap missed[c] \in remains
      BY <1>1, <3>1, RemainsOfRemains
    <3>3. \/ OnOffer(tokens'[c]) = on
          \/ c \in ids /\ OnOffer(tokens'[c]) = on \cap missed[c]
      BY <1>2
    <3> HIDE DEF on, remains
    <3> QED
      BY <3>1, <3>2, <3>3 DEF remains
  <2> QED
    BY <1>1, <2>1, <2>2 DEF OffersInv
<1>6. TxInv'
  <2>1. ASSUME at = "tokens"
        PROVE  \/ tokens'[id] = tokens[id]
               \/ chains[id] = Gone /\ \A t \in TokenIDs : tokens'[id][t] = tokens[id][t]
    <3>1. id \in Chains
      BY <2>1 DEF Inv, TxInv
    <3>2. CASE id \notin ids
      BY <1>1, <3>1, <3>2
    <3>3. CASE id \in ids
      <4>1. chains[id] = Gone /\ Listed(tokens[id]) = {}
        BY <1>1, <2>1, <3>1, <3>3 DEF Locked, Inv, RowsInv
      <4> QED
        BY <1>2, <3>1, <4>1 DEF Listed
    <3> QED
      BY <3>2, <3>3
  <2> QED
    BY <1>1, <2>1, TxKept DEF Inv
<1> QED
  BY <1>3, <1>4, <1>5, <1>6 DEF Inv

LEMMA InvSwitch ==
  ASSUME Inv, NEW c \in Chains, NEW enabled \in BOOLEAN, SetEnabled(c, enabled)
  PROVE  Inv'
<1>1. /\ chains[c] # Gone /\ ~Locked(c)
      /\ chains' = [chains EXCEPT ![c] = [chains[c] EXCEPT !["enabled"] = enabled]]
      /\ UNCHANGED <<tokens, last, offer, fresh, tx>>
  BY DEF SetEnabled
<1> DEFINE new == [chains[c] EXCEPT !["enabled"] = enabled]
<1>2. Fits(chains[c], ChainColumns)
  BY <1>1 DEF Inv, TypeOK, ChainRow
<1>3. /\ DOMAIN new = ChainColumns /\ new["enabled"] = enabled
      /\ \A col \in ChainColumns \ {"enabled"} : new[col] = chains[c][col]
  BY <1>2 DEF Fits, ChainColumns
<1>4. Fits(new, ChainColumns) /\ new # Gone
  <2>1. new = [col \in ChainColumns |-> new[col]]
    BY <1>2 DEF Fits
  <2>2. \A col \in ChainColumns : new[col] \in Value(col)
    BY <1>2, <1>3 DEF Fits, Value
  <2> HIDE DEF new
  <2> QED
    BY <2>1, <2>2, MadeFits
<1> HIDE DEF new
<1>5. chains'[c] = new /\ DOMAIN chains' = Chains /\ \A d \in Chains \ {c} : chains'[d] = chains[d]
  BY <1>1 DEF Inv, TypeOK, new
<1>6. TypeOK'
  BY <1>1, <1>4, <1>5 DEF Inv, TypeOK, ChainRow, tx
<1>7. RowsInv'
  <2>1. ChainFollows(chains[c], last[c]) => ChainFollows(new, last[c])
    BY <1>3 DEF ChainFollows, ChainColumns
  <2> SUFFICES ASSUME NEW d \in Chains
               PROVE  /\ chains'[d] = Gone => Listed(tokens[d]) = {}
                      /\ chains'[d] # Gone =>
                           /\ last[d] \in Elements /\ Built(last[d]) /\ getChainID(last[d]) = d
                           /\ ChainFollows(chains'[d], last[d])
                      /\ \A t \in Listed(tokens[d]) :
                           offer[d][t] \in Snapshot /\ TokenFollows(tokens[d][t], offer[d][t])
                      /\ Unique(tokens[d])
    BY <1>1 DEF RowsInv
  <2> QED
    BY <1>1, <1>4, <1>5, <2>1 DEF Inv, RowsInv
<1>8. OffersInv'
  BY <1>1, <1>4, <1>5 DEF Inv, OffersInv
<1>9. TxInv'
  <2>1. at = "tokens" => id \in Chains /\ id # c
    BY <1>1 DEF Locked, Inv, TxInv
  <2> QED
    BY <1>1, <1>4, <1>5, <2>1, TxKept DEF Inv
<1> QED
  BY <1>6, <1>7, <1>8, <1>9 DEF Inv

LEMMA InvNext == Inv /\ [Next]_vars => Inv'
<1> SUFFICES ASSUME Inv, [Next]_vars PROVE Inv'
  OBVIOUS
<1>1. ASSUME NEW el \in Elements, BeginChain(el) PROVE Inv'
  BY <1>1, InvBegin
<1>2. CASE upsertRelayChain
  BY <1>2, InvChain
<1>3. ASSUME NEW t \in TokenIDs, upsertRelayToken(t) PROVE Inv'
  BY <1>3, InvToken
<1>4. CASE CommitChain
  BY <1>4, InvCommit
<1>5. CASE Rollback
  BY <1>5, InvRollback DEF Rollback
<1>6. ASSUME NEW ids \in SUBSET Chains, markMissingChainsUnsupported(ids) PROVE Inv'
  BY <1>6, InvMissing
<1>7. ASSUME NEW ids \in SUBSET Chains, NEW missed, markTokensByChainSupport(ids, missed)
      PROVE  Inv'
  BY <1>7, InvSweep
<1>8. ASSUME NEW c \in Chains, NEW enabled \in BOOLEAN, SetEnabled(c, enabled) PROVE Inv'
  BY <1>8, InvSwitch
<1>9. CASE UNCHANGED vars
  BY <1>9 DEF vars, rows, tx, Inv, TypeOK, RowsInv, OffersInv, TxInv, id
<1> QED
  BY <1>1, <1>2, <1>3, <1>4, <1>5, <1>6, <1>7, <1>8, <1>9 DEF Next

LEMMA Invariant == Spec => []Inv
  BY InvInit, InvNext, PTL DEF Spec

-----------------------------------------------------------------------------
(* Every variable keeps to its type.  In particular no column that the     *)
(* code writes is ever NULL, whichever builder wrote it last.              *)
THEOREM TypeCorrect == Spec => []TypeOK
<1>1. Inv => TypeOK
  BY DEF Inv
<1> QED
  BY <1>1, Invariant, PTL

(* A row read back is the row. *)
LEMMA ReadBack ==
  ASSUME Inv, NEW c \in Chains
  PROVE  /\ chains[c] # Gone =>
                \A col \in ChainColumns : toRelayChainInfo(c)[col] = chains[c][col]
         /\ \A t \in Listed(tokens[c]) :
                \A col \in TokenColumns : toRelayTokenInfo(c, t)[col] = tokens[c][t][col]
<1>1. chains[c] # Gone => Fits(chains[c], ChainColumns)
  BY DEF Inv, TypeOK, ChainRow
<1>2. \A t \in Listed(tokens[c]) : Fits(tokens[c][t], TokenColumns)
  BY DEF Inv, TypeOK, TokenRow, Listed
<1> QED
  BY <1>1, <1>2, ValuesAreCells DEF toRelayChainInfo, toRelayTokenInfo, assignValues, Fits

(* What the queries answer of a chain and of its tokens is what the last   *)
(* element written of it said: no update leaves a value of an older one.   *)
THEOREM RowsFollow == Spec => []RowsFollowTheFeed
<1>1. Inv => RowsFollowTheFeed
  <2> SUFFICES ASSUME Inv, NEW c \in Chains, chains[c] # Gone
               PROVE  /\ last[c] # Gone
                      /\ \A col \in ChainColumns \ {"enabled", "supported"} :
                             toRelayChainInfo(c)[col] = buildRelayChain(last[c])[col]
                      /\ chains[c]["supported"] => ~buildRelayChain(last[c]).disabled
                      /\ \A t \in Listed(tokens[c]) :
                             /\ offer[c][t] # Gone
                             /\ \A col \in TokenColumns \ {"supported"} :
                                    toRelayTokenInfo(c, t)[col] = buildRelayToken(offer[c][t])[col]
    BY DEF RowsFollowTheFeed
  <2>1. /\ last[c] \in Elements /\ Built(last[c]) /\ ChainFollows(chains[c], last[c])
        /\ \A t \in Listed(tokens[c]) :
               offer[c][t] \in Snapshot /\ TokenFollows(tokens[c][t], offer[c][t])
    BY DEF Inv, RowsInv
  <2>2. last[c] \in Element /\ last[c] # Gone
    BY <2>1, Elementary
  <2>3. buildRelayChain(last[c]).disabled = getBoolValue(last[c].disabled)
    BY DEF buildRelayChain
  <2>4. \A t \in Listed(tokens[c]) : offer[c][t] # Gone
    BY <2>1, NonesAssumption
  <2> QED
    BY <2>1, <2>2, <2>3, <2>4, ReadBack DEF ChainFollows, TokenFollows
<1> QED
  BY <1>1, Invariant, PTL

(* Of a chain's tokens, the ones on offer are all that its last element    *)
(* offers, none, or those that a concurrent sweep could not see.           *)
THEOREM StandTogether == Spec => []OffersStandTogether
<1>1. Inv => OffersStandTogether
  BY DEF Inv, OffersInv, OffersStandTogether, Remains
<1> QED
  BY <1>1, Invariant, PTL

(* What a client is given can be shown: a chain has the id its element     *)
(* gives first, a name and a type, a token has a symbol and decimals.      *)
THEOREM CanShow == Spec => []ClientsCanShow
<1>1. Inv => ClientsCanShow
  <2> SUFFICES ASSUME Inv PROVE ClientsCanShow
    OBVIOUS
  <2>1. ASSUME NEW c \in ClientChains
        PROVE  /\ getFirstStringValue(last[c].id, last[c].chainId).core = c
               /\ ~Blank(chains[c]["name"]) /\ ~Blank(chains[c]["type"])
    <3>1. c \in Chains /\ chains[c] # Gone
      BY DEF ClientChains
    <3>2. /\ last[c] \in Elements /\ Built(last[c]) /\ getChainID(last[c]) = c
          /\ ChainFollows(chains[c], last[c])
      BY <3>1 DEF Inv, RowsInv
    <3>3. getFirstStringValue(last[c].id, last[c].chainId).core = c
      BY <3>2, <3>1, RowsAssumption, NonesAssumption DEF getChainID, parseInt64String, Built
    <3>4. /\ chains[c]["type"] = buildRelayChain(last[c])["type"]
          /\ chains[c]["name"] = buildRelayChain(last[c])["name"]
          /\ chains[c]["name"] # NoText
      BY <3>2 DEF ChainFollows, ChainColumns
    <3> QED
      BY <3>2, <3>3, <3>4, Elementary, BuiltChain
  <2>2. ASSUME NEW k \in ClientTokens
        PROVE  ~Blank(tokens[k[1]][k[2]]["symbol"]) /\ tokens[k[1]][k[2]]["decimals"] >= 0
    <3>1. k[1] \in Chains /\ k[2] \in Listed(tokens[k[1]])
      BY DEF ClientTokens, ClientChains, Listed
    <3> QED
      BY <3>1 DEF Inv, RowsInv, TokenFollows
  <2> QED
    BY <2>1, <2>2 DEF ClientsCanShow
<1> QED
  BY <1>1, Invariant, PTL

-----------------------------------------------------------------------------
(* The rows as RelayCatalog sees them. *)
LEMMA AddressesListed ==
  ASSUME NEW rs, \A t \in TokenIDs : TokenRow(rs[t])
  PROVE  /\ AddressesOf(rs) \in Catalog!Listing
         /\ Catalog!Listed(AddressesOf(rs)) = Listed(rs)
         /\ Unique(rs) => Catalog!UniqueAddresses(AddressesOf(rs))
<1>1. \A t \in Listed(rs) : rs[t]["address"] \in Addresses
  BY DEF Listed, TokenRow, Fits, TokenColumns, Value
<1>2. AddressesOf(rs) \in Catalog!Listing
  BY <1>1 DEF AddressesOf, Catalog!Listing, Listed
<1>3. Catalog!Listed(AddressesOf(rs)) = Listed(rs)
  BY <1>1, RowsAssumption DEF AddressesOf, Catalog!Listed, Listed
<1>4. \A t \in Listed(rs) : AddressesOf(rs)[t] = rs[t]["address"]
  BY DEF AddressesOf, Listed
<1>5. Unique(rs) => Catalog!UniqueAddresses(AddressesOf(rs))
  BY <1>3, <1>4 DEF Unique, Catalog!UniqueAddresses
<1> QED
  BY <1>2, <1>3, <1>5

LEMMA CommitReplaces ==
  ASSUME Inv, Inv', CommitChain
  PROVE  Catalog!ReplaceChain(id) /\ id \in Chains
<1> DEFINE new == TokenUpdate(list, TokenIDs \ Offered(e))
           sup == ~getBoolValue(e.disabled)
<1>1. /\ at = "tokens" /\ pend = {}
      /\ chains' = [chains EXCEPT ![id] = row]
      /\ tokens' = [tokens EXCEPT ![id] = new]
  BY DEF CommitChain, markMissingTokensUnsupported
<1>2. /\ e \in Elements /\ Built(e) /\ e \in Element /\ id \in Chains
      /\ row # Gone /\ Fits(row, ChainColumns)
      /\ DOMAIN list = TokenIDs /\ \A t \in TokenIDs : TokenRow(list[t])
      /\ ~sup => Offered(e) = {}
  BY <1>1, Elementary DEF Inv, TypeOK, TxInv, ChainRow, id
<1>3. /\ row["supported"] = sup
      /\ row["enabled"] = IF chains[id] = Gone THEN TRUE ELSE chains[id]["enabled"]
      /\ Unique(list)
      /\ \A t \in TokenIDs : IF t \in Offered(e) THEN list[t] # Gone /\ list[t]["supported"] = TRUE
                                                  ELSE list[t] = tokens[id][t]
  BY <1>1, <1>2, BuiltChain DEF Inv, TxInv, ChainColumns
<1>4. /\ \A t \in TokenIDs : TokenRow(new[t])
      /\ Unique(new) /\ Listed(new) = Listed(list)
      /\ OnOffer(new) = OnOffer(list) \ (TokenIDs \ Offered(e))
  BY <1>2, <1>3, TokensWithdrawn
<1> HIDE DEF new, sup
<1>5. Offered(e) \subseteq TokenIDs
  BY DEF Offered
<1>6. OnOffer(new) = Offered(e) /\ Offered(e) \subseteq Listed(list)
  BY <1>3, <1>4, <1>5 DEF OnOffer, Listed
<1>7. Listed(tokens[id]) \subseteq Listed(list)
  BY <1>3 DEF Listed
<1>8. /\ chains'[id] = row /\ tokens'[id] = new
      /\ \A c \in Chains \ {id} : chains'[c] = chains[c] /\ tokens'[c] = tokens[c]
  BY <1>1, <1>2 DEF Inv, TypeOK
<1>9. RowsOf' = RowsOf \cup {id}
  BY <1>2, <1>8 DEF RowsOf
<1>10. SupportedOf' = IF sup THEN SupportedOf \cup {id} ELSE SupportedOf \ {id}
  BY <1>2, <1>3, <1>8 DEF SupportedOf
<1>11. EnabledOf' = IF id \in RowsOf THEN EnabledOf ELSE EnabledOf \cup {id}
  <2>1. CASE id \in RowsOf
    BY <1>2, <1>3, <1>8, <2>1 DEF EnabledOf, RowsOf
  <2>2. CASE id \notin RowsOf
    BY <1>2, <1>3, <1>8, <2>2 DEF EnabledOf, RowsOf
  <2> QED
    BY <2>1, <2>2
<1>12. AddressOf' = [AddressOf EXCEPT ![id] = AddressesOf(new)]
  BY <1>2, <1>8 DEF AddressOf
<1>13. OnOfferOf' = [OnOfferOf EXCEPT ![id] = Offered(e)]
  BY <1>2, <1>6, <1>8 DEF OnOfferOf
<1>14. /\ AddressesOf(new) \in Catalog!Listing
       /\ Catalog!Listed(AddressesOf(new)) = Listed(list)
       /\ Catalog!UniqueAddresses(AddressesOf(new))
  BY <1>4, AddressesListed
<1>15. Catalog!Listed(AddressOf[id]) = Listed(tokens[id])
  BY <1>2, AddressesListed DEF AddressOf, Inv, TypeOK
<1>16. sup \in BOOLEAN
  BY BoolIsBool DEF sup
<1>17. /\ Catalog!UniqueAddresses(AddressesOf(new))
       /\ Catalog!Listed(AddressOf[id]) \subseteq Catalog!Listed(AddressesOf(new))
       /\ Offered(e) \subseteq Catalog!Listed(AddressesOf(new))
       /\ ~sup => Offered(e) = {}
       /\ RowsOf' = RowsOf \cup {id}
       /\ SupportedOf' = IF sup THEN SupportedOf \cup {id} ELSE SupportedOf \ {id}
       /\ EnabledOf' = IF id \in RowsOf THEN EnabledOf ELSE EnabledOf \cup {id}
       /\ AddressOf' = [AddressOf EXCEPT ![id] = AddressesOf(new)]
       /\ OnOfferOf' = [OnOfferOf EXCEPT ![id] = Offered(e)]
  BY <1>2, <1>6, <1>7, <1>9, <1>10, <1>11, <1>12, <1>13, <1>14, <1>15
<1>18. \E l \in Catalog!Listing, offered \in SUBSET TokenIDs, supported \in BOOLEAN :
         /\ Catalog!UniqueAddresses(l)
         /\ Catalog!Listed(AddressOf[id]) \subseteq Catalog!Listed(l)
         /\ offered \subseteq Catalog!Listed(l)
         /\ ~supported => offered = {}
         /\ RowsOf' = RowsOf \cup {id}
         /\ SupportedOf' = IF supported THEN SupportedOf \cup {id} ELSE SupportedOf \ {id}
         /\ EnabledOf' = IF id \in RowsOf THEN EnabledOf ELSE EnabledOf \cup {id}
         /\ AddressOf' = [AddressOf EXCEPT ![id] = l]
         /\ OnOfferOf' = [OnOfferOf EXCEPT ![id] = offered]
  BY <1>5, <1>14, <1>16, <1>17
<1> QED
  BY <1>2, <1>18 DEF Catalog!ReplaceChain

LEMMA MissingWithdraws ==
  ASSUME Inv, NEW ids \in SUBSET Chains, markMissingChainsUnsupported(ids)
  PROVE  Catalog!WithdrawChains
<1>1. chains' = ChainUpdate(Chains \ ids) /\ tokens' = tokens
  BY DEF markMissingChainsUnsupported
<1>2. ASSUME NEW c \in Chains
      PROVE  /\ chains'[c] = Gone <=> chains[c] = Gone
             /\ chains[c] # Gone => chains'[c]["enabled"] = chains[c]["enabled"]
             /\ chains[c] # Gone /\ chains'[c]["supported"] => chains[c]["supported"]
  <2>1. ChainRow(chains[c])
    BY DEF Inv, TypeOK
  <2>2. CASE chains[c] = Gone \/ c \in ids
    BY <1>1, <2>2 DEF ChainUpdate
  <2>3. CASE chains[c] # Gone /\ c \notin ids
    <3>1. Fits(chains[c], ChainColumns)
      BY <2>1, <2>3 DEF ChainRow
    <3>2. chains'[c] = Without(chains[c])
      BY <1>1, <2>3, <3>1, Withdrawn DEF ChainUpdate, Fits, ChainColumns
    <3>3. chains'[c] # Gone
      BY <3>1, <3>2, WithoutFits
    <3> QED
      BY <2>3, <3>1, <3>2, <3>3 DEF Without, Fits, ChainColumns
  <2> QED
    BY <2>2, <2>3
<1>3. RowsOf' = RowsOf /\ EnabledOf' = EnabledOf /\ SupportedOf' \subseteq SupportedOf
  BY <1>2 DEF RowsOf, EnabledOf, SupportedOf
<1>4. AddressOf' = AddressOf /\ OnOfferOf' = OnOfferOf
  BY <1>1 DEF AddressOf, OnOfferOf
<1> QED
  BY <1>3, <1>4 DEF Catalog!WithdrawChains

LEMMA SweepWithdraws ==
  ASSUME Inv, NEW ids \in SUBSET Chains, NEW missed, markTokensByChainSupport(ids, missed)
  PROVE  Catalog!WithdrawTokens
<1>1. /\ chains' = chains
      /\ tokens' = [c \in Chains |->
             IF c \in ids THEN TokenUpdate(tokens[c], TokenIDs \ missed[c]) ELSE tokens[c]]
  BY DEF markTokensByChainSupport
<1>2. ASSUME NEW c \in Chains
      PROVE  /\ AddressesOf(tokens'[c]) = AddressesOf(tokens[c])
             /\ OnOffer(tokens'[c]) \subseteq OnOffer(tokens[c])
  <2>1. CASE tokens'[c] = tokens[c]
    BY <2>1
  <2>2. ASSUME NEW match, tokens'[c] = TokenUpdate(tokens[c], match)
        PROVE  /\ AddressesOf(tokens'[c]) = AddressesOf(tokens[c])
               /\ OnOffer(tokens'[c]) \subseteq OnOffer(tokens[c])
    <3>1. DOMAIN tokens[c] = TokenIDs /\ \A t \in TokenIDs : TokenRow(tokens[c][t])
      BY DEF Inv, TypeOK
    <3>2. \A t \in TokenIDs : /\ tokens'[c][t] = Gone <=> tokens[c][t] = Gone
                              /\ tokens[c][t] # Gone =>
                                   tokens'[c][t]["address"] = tokens[c][t]["address"]
      BY <2>2, <3>1, TokensWithdrawn DEF TokenColumns
    <3>3. OnOffer(tokens'[c]) = OnOffer(tokens[c]) \ match
      BY <2>2, <3>1, TokensWithdrawn
    <3> QED
      BY <3>2, <3>3 DEF AddressesOf
  <2> QED
    BY <1>1, <2>1, <2>2
<1>3. RowsOf' = RowsOf /\ SupportedOf' = SupportedOf /\ EnabledOf' = EnabledOf
  BY <1>1 DEF RowsOf, SupportedOf, EnabledOf
<1>4. AddressOf' = AddressOf
  BY <1>2 DEF AddressOf
<1> DEFINE kept == [c \in Chains |-> OnOffer(tokens'[c])]
<1>5. kept \in [Chains -> SUBSET TokenIDs]
  BY DEF OnOffer, Listed
<1>6. OnOfferOf' = [c \in Chains |-> OnOfferOf[c] \cap kept[c]]
  BY <1>2 DEF OnOfferOf
<1> HIDE DEF kept
<1> QED
  BY <1>3, <1>4, <1>5, <1>6 DEF Catalog!WithdrawTokens

LEMMA SwitchSwitches ==
  ASSUME Inv, NEW c \in Chains, NEW enabled \in BOOLEAN, SetEnabled(c, enabled), Inv'
  PROVE  Catalog!SwitchChain(c)
<1>1. /\ chains[c] # Gone /\ tokens' = tokens
      /\ chains' = [chains EXCEPT ![c] = [chains[c] EXCEPT !["enabled"] = enabled]]
  BY DEF SetEnabled
<1>2. Fits(chains[c], ChainColumns)
  BY <1>1 DEF Inv, TypeOK, ChainRow
<1>3. /\ chains'[c]["enabled"] = enabled
      /\ chains'[c]["supported"] = chains[c]["supported"]
      /\ \A d \in Chains \ {c} : chains'[d] = chains[d]
  BY <1>1, <1>2 DEF Inv, TypeOK, Fits, ChainColumns
<1>4. chains'[c] # Gone
  <2>1. DOMAIN chains[c] = ChainColumns
    BY <1>2 DEF Fits
  <2>2. chains'[c] = [col \in ChainColumns |-> IF col = "enabled" THEN enabled ELSE chains[c][col]]
    BY <1>1, <2>1 DEF Inv, TypeOK, ChainColumns
  <2>3. \A col \in ChainColumns :
          (IF col = "enabled" THEN enabled ELSE chains[c][col]) \in Cell
    BY <1>2, ValuesAreCells DEF Fits, Cell
  <2> QED
    BY <2>2, <2>3, NonesAssumption
<1>5. /\ c \in RowsOf /\ RowsOf' = RowsOf /\ SupportedOf' = SupportedOf
      /\ EnabledOf' \in {EnabledOf \cup {c}, EnabledOf \ {c}}
  BY <1>1, <1>3, <1>4 DEF RowsOf, SupportedOf, EnabledOf
<1>6. AddressOf' = AddressOf /\ OnOfferOf' = OnOfferOf
  BY <1>1 DEF AddressOf, OnOfferOf
<1> QED
  BY <1>5, <1>6 DEF Catalog!SwitchChain

(* The rows implement RelayCatalog: a transaction is one ReplaceChain and  *)
(* the bulk statements are the withdrawals, at the level of columns too.   *)
THEOREM ImplementsCatalog == Spec => CatalogSpec
<1>1. Init => Catalog!Init
  <2> SUFFICES ASSUME Init PROVE Catalog!Init
    OBVIOUS
  <2>1. \A c \in Chains : chains[c] = Gone /\ tokens[c] = NoTokens
    BY DEF Init
  <2>2. RowsOf = {} /\ SupportedOf = {} /\ EnabledOf = {}
    BY <2>1 DEF RowsOf, SupportedOf, EnabledOf
  <2>3. AddressesOf(NoTokens) = [t \in TokenIDs |-> NoAddress] /\ OnOffer(NoTokens) = {}
    BY DEF AddressesOf, NoTokens, OnOffer, Listed
  <2> QED
    BY <2>1, <2>2, <2>3 DEF Catalog!Init, AddressOf, OnOfferOf
<1>2. Inv /\ Inv' /\ [Next]_vars => [Catalog!Next]_(Catalog!catalog)
  <2> SUFFICES ASSUME Inv, Inv', [Next]_vars PROVE Catalog!Next \/ UNCHANGED Catalog!catalog
    OBVIOUS
  <2>1. chains' = chains /\ tokens' = tokens => UNCHANGED Catalog!catalog
    BY DEF Catalog!catalog, RowsOf, SupportedOf, EnabledOf, AddressOf, OnOfferOf
  <2>2. ASSUME NEW el \in Elements, BeginChain(el) PROVE UNCHANGED Catalog!catalog
    BY <2>1, <2>2 DEF BeginChain, rows
  <2>3. CASE upsertRelayChain
    BY <2>1, <2>3 DEF upsertRelayChain, rows
  <2>4. ASSUME NEW t \in TokenIDs, upsertRelayToken(t) PROVE UNCHANGED Catalog!catalog
    BY <2>1, <2>4 DEF upsertRelayToken, rows
  <2>5. CASE CommitChain
    BY <2>5, CommitReplaces DEF Catalog!Next
  <2>6. CASE Rollback
    BY <2>1, <2>6 DEF Rollback, rows
  <2>7. ASSUME NEW ids \in SUBSET Chains, markMissingChainsUnsupported(ids) PROVE Catalog!Next
    BY <2>7, MissingWithdraws DEF Catalog!Next
  <2>8. ASSUME NEW ids \in SUBSET Chains, NEW missed, markTokensByChainSupport(ids, missed)
        PROVE  Catalog!Next
    BY <2>8, SweepWithdraws DEF Catalog!Next
  <2>9. ASSUME NEW c \in Chains, NEW enabled \in BOOLEAN, SetEnabled(c, enabled) PROVE Catalog!Next
    BY <2>9, SwitchSwitches DEF Catalog!Next
  <2>10. CASE UNCHANGED vars
    BY <2>1, <2>10 DEF vars, rows
  <2> QED
    BY <2>2, <2>3, <2>4, <2>5, <2>6, <2>7, <2>8, <2>9, <2>10 DEF Next
<1> QED
  BY <1>1, <1>2, Invariant, PTL DEF Spec, CatalogSpec, Catalog!Spec

=============================================================================
