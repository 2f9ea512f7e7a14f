------------------------------ MODULE RelayFeed ------------------------------
(***************************************************************************)
(* What one element of Relay's feed offers: buildRelayTokens of            *)
(* relay_chains.go goes through the element's three token lists, drops the *)
(* tokens that are switched off or incomplete, and merges what is left by  *)
(* token id.  Its result is what RelaySync calls the entry's tokens.  The   *)
(* element's chain is supported here; if it is not, there are no tokens.   *)
(*                                                                         *)
(* The loop is the state machine, one step per element of a list; what     *)
(* Relay sends next is any member of Elements.  Texts are trimmed; name,   *)
(* logo and the remaining flags are merged as the address is, or ORed, and *)
(* left out.                                                               *)
(***************************************************************************)
EXTENDS Integers, Sequences

CONSTANTS
    Texts,              \* texts that ids and addresses are
    Empty,              \* the empty text
    normalizeAddress,   \* strings.ToLower, as a function on Texts
    Elements,           \* what may stand in a token list
    NoToken,            \* "no token merged"
    MaxElements         \* bounds the elements of the three lists together

Lists == <<"featuredTokens", "solverCurrencies", "erc20Currencies">>

(* What JSON has under a key that should be a Boolean; "odd" is null or    *)
(* anything else that no case of getBoolValue knows.                       *)
Value == {"absent", "true", "false", "odd"}

(* off: the status is one of the four that switch a token off; symbol:     *)
(* there is one; decimals: 0 when there is no number.                      *)
Element == [object : BOOLEAN, disabled : Value, enabled : Value, supported : Value,
            off : BOOLEAN, id : Texts, address : Texts, symbol : BOOLEAN,
            decimals : Int]

FeedIDs == Texts \ {Empty}
Token == [address : FeedIDs, decimals : Int, lists : SUBSET (1 .. 3)]

ASSUME TextsAssumption ==
    /\ Empty \in Texts
    /\ normalizeAddress \in [Texts -> Texts]
    /\ \A t \in Texts : normalizeAddress[t] = Empty <=> t = Empty
ASSUME ElementsAssumption == Elements \subseteq Element /\ NoToken \notin Token

VARIABLES
    list,       \* the list in hand, 4 when all are merged
    merged,     \* the map of snapshots
    read        \* history: the elements so far, each with its list

feedVars == <<list, merged, read>>

FeedTypeOK ==
    /\ list \in 1 .. 4
    /\ merged \in [FeedIDs -> Token \cup {NoToken}]
    /\ read \in Seq([list : 1 .. 3, element : Elements])

-----------------------------------------------------------------------------
getBoolValue(v) == v = "true"

Exists(v) == v # "absent"

isEffectiveRelayToken(e) ==
    /\ ~(Exists(e.disabled) /\ getBoolValue(e.disabled))
    /\ Exists(e.enabled) => getBoolValue(e.enabled)
    /\ Exists(e.supported) => getBoolValue(e.supported)
    /\ ~e.off

(* buildRelayToken: an element without an id goes by its address. *)
TokenID(e) == IF e.id = Empty THEN normalizeAddress[e.address] ELSE e.id

(* The element gets as far as the merge. *)
Usable_AnySwitch(e) ==
    /\ e.object
    /\ e.enabled # "true" => isEffectiveRelayToken(e)
    /\ e.address # Empty
    /\ e.symbol

Usable_NoAddress(e) ==
    /\ e.object
    /\ isEffectiveRelayToken(e)
    /\ TokenID(e) # Empty
    /\ e.symbol

Usable(e) ==
    /\ e.object
    /\ isEffectiveRelayToken(e)
    /\ e.address # Empty
    /\ e.symbol

buildRelayToken(e) ==
    [address |-> normalizeAddress[e.address], decimals |-> e.decimals, lists |-> {}]

(* What dst already knows, it keeps. *)
mergeRelayToken_Overwrites(dst, src) ==
    [dst EXCEPT !.address = src.address,
                !.decimals = IF @ = 0 THEN src.decimals ELSE @]

mergeRelayToken_Zero(dst, src) == dst

mergeRelayToken(dst, src) ==
    [dst EXCEPT !.decimals = IF @ = 0 THEN src.decimals ELSE @]

ApplyFlags_Once(token, l) == [token EXCEPT !.lists = {l}]

ApplyFlags(token, l) == [token EXCEPT !.lists = @ \cup {l}]

FeedInit ==
    /\ list = 1
    /\ merged = [id \in FeedIDs |-> NoToken]
    /\ read = <<>>

(* One turn of mergeRelayTokenList's loop. *)
MergeElement(e) ==
    LET id == TokenID(e)
        token == buildRelayToken(e)
    IN
    /\ list <= 3
    /\ Len(read) < MaxElements
    /\ \/ ~Usable(e) /\ UNCHANGED merged
       \/ /\ Usable(e)
          /\ merged[id] = NoToken
          /\ merged' = [merged EXCEPT ![id] = ApplyFlags(token, list)]
       \/ /\ Usable(e)
          /\ merged[id] # NoToken
          /\ merged' = [merged EXCEPT ![id] = ApplyFlags(mergeRelayToken(@, token), list)]
    /\ read' = Append(read, [list |-> list, element |-> e])
    /\ UNCHANGED list

(* A list ends, is missing, or is no list. *)
NextList ==
    /\ list <= 3
    /\ list' = list + 1
    /\ UNCHANGED <<merged, read>>

FeedNext == (\E e \in Elements : MergeElement(e)) \/ NextList

FeedSpec == FeedInit /\ [][FeedNext]_feedVars

-----------------------------------------------------------------------------
(* The reference: the places where a usable element has the id. *)
Sources(id) ==
    {i \in 1 .. Len(read) : Usable(read[i].element) /\ TokenID(read[i].element) = id}

(* Switched on where nothing says otherwise: every key that is there has   *)
(* to be understood as "on".                                               *)
SwitchedOn(e) ==
    e.disabled # "true" /\ {e.enabled, e.supported} \subseteq {"absent", "true"} /\ ~e.off

(* A token is on offer if and only if some list has a complete element for *)
(* it that is switched on, whatever the other lists say of it.             *)
OffersWhatIsListed ==
    \A id \in FeedIDs :
        merged[id] # NoToken <=>
            \E i \in 1 .. Len(read) :
                LET e == read[i].element IN
                /\ e.object /\ e.symbol /\ e.address # Empty /\ SwitchedOn(e)
                /\ id = IF e.id = Empty THEN normalizeAddress[e.address] ELSE e.id

(* The first list that offers a token says where it is; no later element   *)
(* moves it to another address.                                            *)
FirstAddressStays ==
    \A id \in FeedIDs : merged[id] # NoToken =>
        \E i \in Sources(id) :
            /\ \A k \in Sources(id) : i <= k
            /\ merged[id].address = normalizeAddress[read[i].element.address]

(* A token has decimals as soon as one of its elements tells them, the     *)
(* first that does: a zero does not hide a later number.                   *)
DecimalsAreKnown ==
    \A id \in FeedIDs : merged[id] # NoToken =>
        \/ /\ merged[id].decimals = 0
           /\ \A i \in Sources(id) : read[i].element.decimals = 0
        \/ \E i \in Sources(id) :
              /\ merged[id].decimals = read[i].element.decimals
              /\ merged[id].decimals # 0
              /\ \A k \in Sources(id) : k < i => read[k].element.decimals = 0

(* isFeatured, isSolver and isERC20 tell which lists offer the token, all  *)
(* of them ("Whether token appears in featuredTokens").                    *)
FlagsTellTheLists ==
    \A id \in FeedIDs : merged[id] # NoToken =>
        merged[id].lists = {read[i].list : i \in Sources(id)}

(* One address has one token: the unique index on ("chain_id", "address")  *)
(* of relay_token.go:95 would refuse a second.                             *)
OneTokenPerAddress ==
    \A s, t \in FeedIDs :
        /\ merged[s] # NoToken /\ merged[t] # NoToken
        /\ merged[s].address = merged[t].address
        => s = t
=============================================================================
