---------------------------- MODULE RelayReaders ----------------------------
(***************************************************************************)
(* The queries over the relay tables, composed with RelayCatalog for those *)
(* who write them: a client walks a list page by page while chains are     *)
(* replaced, withdrawn and switched, and an RPC reads its total and its    *)
(* page in two statements outside a transaction.  RelaySync implements     *)
(* RelayCatalog, so what holds here holds beside its runs.                 *)
(*                                                                         *)
(* One reader stands for any number of them, for they only read: it walks  *)
(* a list, or it is a client that fetches the chains on offer and, later,  *)
(* their tokens.  A row of a list is <<chain id, token id>>, with token id *)
(* 0 in the list of chains.  Ids are numbers so that they can be ordered.  *)
(***************************************************************************)
EXTENDS RelayCatalog, Paging, FiniteSets

CONSTANTS
    Requests,        \* the requests a client may walk a list with
    DefaultPageSize  \* 100 in the program

VARIABLES
    off,    \* history: the chains the operator has switched off last
    at,     \* where the walk is
    req,    \* its request
    page,   \* the page it asks for
    total,  \* the answer to the count query
    got,    \* the number of rows the page had
    owed,   \* history: rows that matched when the walk began and ever since,
            \* and that it has not shown
    known,     \* the chains in the client's last list of chains
    news,      \* history: others that the sync wrote, or were switched on, since
    strangers  \* chains that its lists of tokens named and it did not know

walk == <<at, req, page, total, got, owed>>
client == <<known, news, strangers>>
vars == <<catalog, off, walk, client>>

(* A request names the list, and of its filters those that the properties  *)
(* tell apart: ids (none given: any), and the values that it admits of the *)
(* columns the sync rewrites.                                              *)
Request == [of : {"chains", "tokens"}, chains : SUBSET Chains, tokens : SUBSET TokenIDs,
            addresses : SUBSET Addresses, enabled : SUBSET BOOLEAN,
            supported : SUBSET BOOLEAN, page : UInt, size : UInt]

ASSUME IdsAssumption ==
    /\ Chains \subseteq Nat /\ IsFiniteSet(Chains)
    /\ TokenIDs \subseteq Nat \ {0} /\ IsFiniteSet(TokenIDs)
    /\ NoAddress \notin Addresses
ASSUME RequestsAssumption == Requests \subseteq Request
(* Row ids are int64, so a table never has more rows than an int can count. *)
ASSUME TablesFit == Cardinality(Chains \X (TokenIDs \cup {0})) <= MaxInt
ASSUME DefaultAssumption == DefaultPageSize \in 1 .. MaxInt

(* The defaults of the list RPCs. *)
PageNum == IF page = 0 THEN 1 ELSE page
PageSize == IF req.size = 0 THEN DefaultPageSize ELSE req.size

ReadersTypeOK ==
    /\ off \subseteq Chains
    /\ at \in {"idle", "count", "list", "answered", "done", "client"}
    /\ req \in Requests
    /\ page \in Nat
    /\ total \in Nat
    /\ got \in 0 .. PageSize
    /\ owed \subseteq Chains \X (TokenIDs \cup {0})
    /\ known \subseteq Chains /\ news \subseteq Chains /\ strangers \subseteq Chains

TypeOK == CatalogTypeOK /\ ReadersTypeOK

ReadersInit ==
    /\ Init
    /\ off = {}
    /\ at = "idle"
    /\ req \in Requests
    /\ page = 1
    /\ total = 0
    /\ got = 0
    /\ owed = {}
    /\ known = {} /\ news = {} /\ strangers = {}

-----------------------------------------------------------------------------
(* IDIn, ChainIDIn and TokenIDIn are added for a list that is not empty. *)
Admits(ids, id) == ids = {} \/ id \in ids

ChainRows(q) == {<<c, 0>> : c \in {d \in cRows :
    /\ Admits(q.chains, d)
    /\ (d \in cEnabled) \in q.enabled
    /\ (d \in cSupported) \in q.supported}}

TokenRows(q) == {r \in Chains \X TokenIDs :
    /\ r[2] \in Listed(tAddress[r[1]])
    /\ Admits(q.chains, r[1])
    /\ Admits(q.tokens, r[2])
    /\ tAddress[r[1]][r[2]] \in q.addresses
    /\ (r[2] \in tSupported[r[1]]) \in q.supported}

Rows(q) == IF q.of = "chains" THEN ChainRows(q) ELSE TokenRows(q)

(* ORDER BY chain_id, token_id ascending (BY id for chains). *)
Before(r, s) == r[1] < s[1] \/ (r[1] = s[1] /\ r[2] < s[2])
Position(r, R) == Cardinality({s \in R : Before(s, r)})

(* The rows the list query returns. *)
Page(R) == {r \in R : OnPage(Position(r, R), PageNum, PageSize)}

(* What the client RPCs show: enabled and supported chains, and supported  *)
(* tokens with such a chain (HasChainWith), of one chain or of all (0).    *)
ClientChains == {c \in cRows : c \in cEnabled /\ c \in cSupported}
HasChainWith_OnlyEnabled(c) == c \in cRows /\ c \in cEnabled
HasChainWith(c) == c \in cRows /\ c \in cEnabled /\ c \in cSupported
ClientTokens(chain, ids) == {r \in Chains \X TokenIDs :
    /\ r[2] \in tSupported[r[1]]
    /\ HasChainWith(r[1])
    /\ chain > 0 => r[1] = chain
    /\ Admits(ids, r[2])}

-----------------------------------------------------------------------------
(* A client begins to walk a list. *)
Ask(q) ==
    /\ at \in {"idle", "done"}
    /\ at' = "count"
    /\ req' = q
    /\ page' = q.page
    /\ total' = 0
    /\ got' = 0
    /\ owed' = Rows(q)
    /\ UNCHANGED <<catalog, off, client>>

CountRows_Unfiltered ==
    /\ at = "count"
    /\ at' = "list"
    /\ total' = Cardinality(IF req.of = "chains" THEN cRows ELSE
                            {r \in Chains \X TokenIDs : r[2] \in Listed(tAddress[r[1]])})
    /\ UNCHANGED <<catalog, off, req, page, got, owed, client>>

(* The first statement of the RPC: the total. *)
CountRows ==
    /\ at = "count"
    /\ at' = "list"
    /\ total' = Cardinality(Rows(req))
    /\ UNCHANGED <<catalog, off, req, page, got, owed, client>>

(* The second: the page.  The answer carries both. *)
ListRows ==
    /\ at = "list"
    /\ ~Refused(PageNum, PageSize)
    /\ at' = "answered"
    /\ got' = Cardinality(Page(Rows(req)))
    /\ owed' = owed \ Page(Rows(req))
    /\ UNCHANGED <<catalog, off, req, page, total, client>>

(* The RPC ends with an error: the database refuses the page, or fails.    *)
ReadFails ==
    /\ at \in {"count", "list"}
    /\ at' = "idle"
    /\ total' = 0
    /\ got' = 0
    /\ owed' = {}
    /\ UNCHANGED <<catalog, off, req, page, client>>

(* The client goes on while pages are full. *)
NextPage ==
    /\ at = "answered"
    /\ got = PageSize
    /\ at' = "count"
    /\ page' = PageNum + 1
    /\ total' = 0
    /\ got' = 0
    /\ UNCHANGED <<catalog, off, req, owed, client>>

Finish ==
    /\ at = "answered"
    /\ got < PageSize
    /\ at' = "done"
    /\ total' = 0
    /\ got' = 0
    /\ UNCHANGED <<catalog, off, req, page, owed, client>>

(* A client fetches the list of chains (GetClientRelayChainList).  What    *)
(* the reader walked before is forgotten.                                  *)
ListClientChains ==
    /\ at \in {"idle", "client"}
    /\ at' = "client"
    /\ known' = ClientChains
    /\ news' = {}
    /\ strangers' = {}
    /\ req' = CHOOSE q \in Requests : TRUE
    /\ page' = 1
    /\ total' = 0
    /\ got' = 0
    /\ owed' = {}
    /\ UNCHANGED <<catalog, off>>

(* And a list of tokens, of one chain or of all, of some ids or of any.    *)
ListClientTokens(chain, ids) ==
    /\ at = "client"
    /\ strangers' = strangers \cup ({r[1] : r \in ClientTokens(chain, ids)} \ known)
    /\ UNCHANGED <<catalog, off, walk, known, news>>

(* Chains that a client may come to see for the first time. *)
Appear(chains) ==
    /\ news' = IF at = "client" THEN news \cup (chains \ known) ELSE news
    /\ UNCHANGED <<known, strangers>>

(* The sync writes. *)
Write ==
    /\ \/ \E c \in Chains : ReplaceChain(c) /\ Appear({c})
       \/ WithdrawChains /\ Appear({})
       \/ WithdrawTokens /\ Appear({})
    /\ UNCHANGED <<off, at, req, page, total, got>>
    /\ owed' = owed \cap Rows(req)'

(* The operator switches a chain. *)
Switch(c) ==
    /\ SwitchChain(c)
    /\ off' = IF c \in cEnabled' THEN off \ {c} ELSE off \cup {c}
    /\ Appear({c} \ off')
    /\ UNCHANGED <<at, req, page, total, got>>
    /\ owed' = owed \cap Rows(req)'

ReadersNext ==
    \/ \E q \in Requests : Ask(q)
    \/ CountRows
    \/ ListRows
    \/ ReadFails
    \/ NextPage
    \/ Finish
    \/ ListClientChains
    \/ \E chain \in Chains \cup {0}, ids \in SUBSET TokenIDs : ListClientTokens(chain, ids)
    \/ Write
    \/ \E c \in Chains : Switch(c)

ReadersSpec == ReadersInit /\ [][ReadersNext]_vars

-----------------------------------------------------------------------------
(* A request whose filters look at no column that the sync rewrites. *)
Stable(q) == BOOLEAN \subseteq q.enabled /\ BOOLEAN \subseteq q.supported
             /\ Addresses \subseteq q.addresses

(* A walk from the first page that ends with a page that is not full has   *)
(* shown every row that was there when it began, whatever was written      *)
(* between its pages: rows only come, they push others to later pages, and *)
(* no page number the walk reaches wraps onto an earlier page.             *)
NoRowSkipped == at = "done" /\ Stable(req) /\ req.page \in {0, 1} => owed = {}

(* The same of any request: it does not hold, for a row that leaves the    *)
(* filter pulls the later ones to pages the walk has passed.               *)
NoMatchSkipped == at = "done" /\ req.page \in {0, 1} => owed = {}

(* The total and the page of one answer, read in two statements, do not    *)
(* contradict each other: the page has at least the rows the total         *)
(* promises for it.                                                        *)
TotalIsKept ==
    at = "answered" /\ Stable(req) =>
        LET promised == total - (PageNum - 1) * PageSize
        IN  got >= (IF promised < PageSize THEN promised ELSE PageSize)

(* A client that has fetched its list of chains is given tokens of another *)
(* chain, then or any time later, only if the sync has written that chain  *)
(* since or the operator has switched it on: never because a chain was     *)
(* withdrawn and its tokens not yet, or not all, and never because it was  *)
(* switched off.  The two RPCs are statements of their own, and any number *)
(* of writes may lie between them.                                         *)
StrangersAreNews == strangers \subseteq news

(* The operator's switch is the operator's: no sync turns a chain off, or  *)
(* one that was turned off on again.                                       *)
SwitchIsTheOperators == cEnabled = cRows \ off

=============================================================================
