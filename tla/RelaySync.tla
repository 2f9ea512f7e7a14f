------------------------------ MODULE RelaySync ------------------------------
(***************************************************************************)
(* The relay_chains task: ProcessTask of relay_chains.go and what it       *)
(* calls.  A run fetches Relay's feed, replaces every chain of the feed *)
(* with its tokens in a transaction of its own, withdraws the chains that  *)
(* the feed no longer has, withdraws the tokens of every withdrawn chain,  *)
(* and writes a task log.  Runs overlap: asynq serves several tasks at a   *)
(* time, the task is enqueued without uniqueness, failed runs are retried, *)
(* and the service may have replicas.                                      *)
(*                                                                         *)
(* A job is one relay_chains task in the queue, with the run that serves   *)
(* it.  A feed entry is what buildRelayChain and buildRelayTokens make of  *)
(* one element of the feed, reduced to what the tables' properties tell    *)
(* apart.  The database runs at READ COMMITTED: the first write of a       *)
(* transaction locks the chain's row until it ends, so the transaction     *)
(* works on a private copy (rows, live) of the chain's token rows, all of  *)
(* which it writes before it commits.  An update that waits for it sees    *)
(* all its rows here; RelayRows lets it miss those that were inserted.     *)
(***************************************************************************)
EXTENDS Integers

CONSTANTS
    Jobs,           \* relay_chains tasks that are in the queue together
    Chains,         \* positive chain ids
    TokenIDs,       \* token ids of a chain; their order is sort.Strings'
    Addresses,      \* normalised token addresses
    NoAddress,      \* "no token row"
    NoEntry,        \* "no chain in hand"
    Feeds,          \* the feeds Relay may serve
    AbortsOnError,  \* TRUE: a failed statement aborts the transaction
                    \* (PostgreSQL); FALSE: it does not (MySQL, SQLite)
    MaxFaults       \* bounds the faults of a behaviour

VARIABLES
    cRows, cSupported, cEnabled, tAddress, tSupported,  \* see RelayCatalog
    relay,      \* the feed Relay serves now
    pc,         \* where each job stands
    feed,       \* the feed its run fetched
    todo,       \* entries of that feed it has not reached
    failed,     \* the run counted a failure (failCount > 0, or err # nil)
    cur,        \* the entry in hand
    rows, live, \* the transaction's copy of tAddress and tSupported
    pend,       \* token ids its transaction has still to upsert
    unsup,      \* the unsupported chain ids it read
    done,       \* history: the entries the run has committed
    faults,     \* history: the number of faults so far
    abandoned   \* history: a job was archived, and no run has read the
                \* unsupported chains since

catalog == <<cRows, cSupported, cEnabled, tAddress, tSupported>>
history == <<faults, abandoned>>
txVars == <<cur, rows, live, pend>>
runVars == <<feed, todo, failed, unsup, done>>
vars == <<catalog, relay, pc, runVars, txVars, history>>

(* The tables are the catalog's own variables: nothing is hidden in the      *)
(* mapping but everything a run keeps to itself.                           *)
Catalog == INSTANCE RelayCatalog
    WITH Chains <- Chains, TokenIDs <- TokenIDs, Addresses <- Addresses,
         NoAddress <- NoAddress, cRows <- cRows, cSupported <- cSupported,
         cEnabled <- cEnabled, tAddress <- tAddress, tSupported <- tSupported
Listing == Catalog!Listing
Listed(list) == Catalog!Listed(list)

(* valid: the ent validators accept the values the entry yields.  They may *)
(* not: a displayName of blanks passes buildRelayChain and is trimmed      *)
(* after that, and token decimals may be negative.                         *)
Entry == [chain : Chains, valid : BOOLEAN, disabled : BOOLEAN, tokens : Listing]

(* malformed: some element is no object or has no usable id or name. *)
Feed == [entries : SUBSET Entry, malformed : BOOLEAN]

ASSUME TokensAssumption ==
    /\ TokenIDs \subseteq Nat
    /\ NoAddress \notin Addresses
ASSUME FeedsAssumption ==
    /\ Feeds \subseteq Feed
    /\ NoEntry \notin Entry
ASSUME DialectAssumption == AbortsOnError \in BOOLEAN
ASSUME FaultsAssumption == MaxFaults \in Nat

NoFeed == [entries |-> {}, malformed |-> FALSE]
NoRows == [t \in TokenIDs |-> NoAddress]

PC == {"idle", "queued", "retry", "chains", "insertChain", "updateChain",
       "tokens", "sweep", "clear", "log"}

InTx(j) == pc[j] \in {"insertChain", "updateChain", "tokens"}

TypeOK ==
    /\ Catalog!CatalogTypeOK
    /\ relay \in Feeds
    /\ pc \in [Jobs -> PC]
    /\ feed \in [Jobs -> Feed]
    /\ todo \in [Jobs -> SUBSET Entry]
    /\ failed \in [Jobs -> BOOLEAN]
    /\ cur \in [Jobs -> Entry \cup {NoEntry}]
    /\ \A j \in Jobs : InTx(j) => cur[j] \in Entry
    /\ rows \in [Jobs -> Listing]
    /\ live \in [Jobs -> SUBSET TokenIDs]
    /\ pend \in [Jobs -> SUBSET TokenIDs]
    /\ unsup \in [Jobs -> SUBSET Chains]
    /\ done \in [Jobs -> SUBSET Entry]
    /\ faults \in 0 .. MaxFaults
    /\ abandoned \in BOOLEAN

-----------------------------------------------------------------------------
(* The token ids buildRelayTokens returns: nothing for a disabled chain. *)
Offered(e) == IF e.disabled THEN {} ELSE Listed(e.tokens)

(* fetchedChainIDs: the chains of the entries the run has reached, whether *)
(* or not their transactions went through.                                 *)
FetchedChainIDs(j) == {e.chain : e \in feed[j].entries \ todo[j]}

(* The transaction of a job holds the lock of the chain's row. *)
Locked(c) == \E j \in Jobs : pc[j] = "tokens" /\ cur[j].chain = c

(* Rows of the transaction that own address a under another id than t. *)
Clash(j, t) == {s \in Listed(rows[j]) \ {t} : rows[j][s] = cur[j].tokens[t]}

(* pend is worked off in the order of the sorted ids. *)
NextToken(j, t) == t \in pend[j] /\ \A u \in pend[j] : t <= u

Fault == faults < MaxFaults /\ faults' = faults + 1

Goto(j, label) == pc' = [pc EXCEPT ![j] = label]

Forget(j) ==
    /\ cur' = [cur EXCEPT ![j] = NoEntry]
    /\ rows' = [rows EXCEPT ![j] = NoRows]
    /\ live' = [live EXCEPT ![j] = {}]
    /\ pend' = [pend EXCEPT ![j] = {}]

-----------------------------------------------------------------------------
Init ==
    /\ Catalog!Init
    /\ relay \in Feeds
    /\ pc = [j \in Jobs |-> "idle"]
    /\ feed = [j \in Jobs |-> NoFeed]
    /\ todo = [j \in Jobs |-> {}]
    /\ failed = [j \in Jobs |-> FALSE]
    /\ cur = [j \in Jobs |-> NoEntry]
    /\ rows = [j \in Jobs |-> NoRows]
    /\ live = [j \in Jobs |-> {}]
    /\ pend = [j \in Jobs |-> {}]
    /\ unsup = [j \in Jobs |-> {}]
    /\ done = [j \in Jobs |-> {}]
    /\ faults = 0
    /\ abandoned = FALSE

(* The periodic task manager's timer puts a task into the queue. *)
Enqueue(j) ==
    /\ pc[j] = "idle"
    /\ Goto(j, "queued")
    /\ UNCHANGED <<catalog, relay, runVars, txVars, history>>

(* A run begins: the task id is loaded and the feed fetched.  Elements     *)
(* that cannot be built count as failures.                                 *)
ProcessTask(j) ==
    /\ pc[j] \in {"queued", "retry"}
    /\ feed' = [feed EXCEPT ![j] = relay]
    /\ todo' = [todo EXCEPT ![j] = relay.entries]
    /\ failed' = [failed EXCEPT ![j] = relay.malformed]
    /\ Goto(j, "chains")
    /\ UNCHANGED <<catalog, relay, unsup, done, txVars, history>>

(* The task id cannot be loaded: no log is written, asynq retries. *)
EnsureTaskIDFails(j) ==
    /\ pc[j] \in {"queued", "retry"}
    /\ Fault
    /\ Goto(j, "retry")
    /\ UNCHANGED <<catalog, relay, runVars, txVars, abandoned>>

(* The request, its status or its body is an error. *)
FetchFails(j) ==
    /\ pc[j] \in {"queued", "retry"}
    /\ Fault
    /\ failed' = [failed EXCEPT ![j] = TRUE]
    /\ Goto(j, "log")
    /\ UNCHANGED <<catalog, relay, feed, todo, unsup, done, txVars, abandoned>>

(* The next entry's transaction begins; upsertRelayChain queries the row. *)
BeginTx(j) ==
    /\ pc[j] = "chains"
    /\ \E e \in todo[j] :
         /\ todo' = [todo EXCEPT ![j] = @ \ {e}]
         /\ cur' = [cur EXCEPT ![j] = e]
         /\ Goto(j, IF e.chain \in cRows THEN "updateChain" ELSE "insertChain")
    /\ UNCHANGED <<catalog, relay, feed, failed, unsup, done, rows, live, pend, history>>

BeginTxFails_Uncounted(j) ==
    /\ pc[j] = "chains"
    /\ Fault
    /\ \E e \in todo[j] : todo' = [todo EXCEPT ![j] = @ \ {e}]
    /\ UNCHANGED <<catalog, relay, pc, feed, failed, unsup, done, txVars, abandoned>>

BeginTxFails(j) ==
    /\ pc[j] = "chains"
    /\ Fault
    /\ \E e \in todo[j] : todo' = [todo EXCEPT ![j] = @ \ {e}]
    /\ failed' = [failed EXCEPT ![j] = TRUE]
    /\ UNCHANGED <<catalog, relay, pc, feed, unsup, done, txVars, abandoned>>

Rollback_Uncounted(j) ==
    /\ UNCHANGED failed
    /\ Goto(j, "chains")
    /\ Forget(j)
    /\ UNCHANGED <<catalog, relay, feed, todo, unsup, done>>

(* The chain's transaction ends without effect and is counted. *)
Rollback(j) ==
    /\ failed' = [failed EXCEPT ![j] = TRUE]
    /\ Goto(j, "chains")
    /\ Forget(j)
    /\ UNCHANGED <<catalog, relay, feed, todo, unsup, done>>

WriteChain_Unlocked(j) ==
    /\ pc[j] \in {"insertChain", "updateChain"}
    /\ cur[j].valid
    /\ pc[j] = "insertChain" => cur[j].chain \notin cRows
    /\ rows' = [rows EXCEPT ![j] = tAddress[cur[j].chain]]
    /\ live' = [live EXCEPT ![j] = tSupported[cur[j].chain]]
    /\ pend' = [pend EXCEPT ![j] = Offered(cur[j])]
    /\ Goto(j, "tokens")
    /\ UNCHANGED <<catalog, relay, runVars, cur, history>>

(* upsertRelayChain's write.  It waits for the lock of the row.  An INSERT *)
(* that lost the race with another transaction violates the primary key.   *)
WriteChain(j) ==
    /\ pc[j] \in {"insertChain", "updateChain"}
    /\ ~Locked(cur[j].chain)
    /\ cur[j].valid
    /\ pc[j] = "insertChain" => cur[j].chain \notin cRows
    /\ rows' = [rows EXCEPT ![j] = tAddress[cur[j].chain]]
    /\ live' = [live EXCEPT ![j] = tSupported[cur[j].chain]]
    /\ pend' = [pend EXCEPT ![j] = Offered(cur[j])]
    /\ Goto(j, "tokens")
    /\ UNCHANGED <<catalog, relay, runVars, cur, history>>

RejectChain(j) ==
    /\ pc[j] \in {"insertChain", "updateChain"}
    /\ \/ ~cur[j].valid
       \/ /\ pc[j] = "insertChain"
          /\ ~Locked(cur[j].chain)
          /\ cur[j].chain \in cRows
    /\ Rollback(j)
    /\ UNCHANGED history

UpsertRelayToken_NoIndex(j) ==
    /\ pc[j] = "tokens"
    /\ \E t \in TokenIDs :
         /\ NextToken(j, t)
         /\ rows' = [rows EXCEPT ![j][t] = cur[j].tokens[t]]
         /\ live' = [live EXCEPT ![j] = @ \cup {t}]
         /\ pend' = [pend EXCEPT ![j] = @ \ {t}]
    /\ UNCHANGED <<catalog, relay, pc, runVars, cur, history>>

(* upsertRelayToken updates the row with the token's id or creates it. *)
UpsertRelayToken(j) ==
    /\ pc[j] = "tokens"
    /\ \E t \in TokenIDs :
         /\ NextToken(j, t)
         /\ Clash(j, t) = {}
         /\ rows' = [rows EXCEPT ![j][t] = cur[j].tokens[t]]
         /\ live' = [live EXCEPT ![j] = @ \cup {t}]
         /\ pend' = [pend EXCEPT ![j] = @ \ {t}]
    /\ UNCHANGED <<catalog, relay, pc, runVars, cur, history>>

KeepExistingID_Renames(j) ==
    /\ pc[j] = "tokens"
    /\ ~AbortsOnError
    /\ \E t \in TokenIDs :
         /\ NextToken(j, t)
         /\ t \notin Listed(rows[j])
         /\ Clash(j, t) # {}
         /\ rows' = [rows EXCEPT ![j] = [s \in TokenIDs |->
                       IF s = t THEN cur[j].tokens[t]
                       ELSE IF s \in Clash(j, t) THEN NoAddress ELSE @[s]]]
         /\ live' = [live EXCEPT ![j] = (@ \ Clash(j, t)) \cup {t}]
         /\ pend' = [pend EXCEPT ![j] = @ \ {t}]
    /\ UNCHANGED <<catalog, relay, pc, runVars, cur, history>>

(* The CREATE fails because another id owns the address.  Where the        *)
(* transaction is still usable the row found by address is updated and     *)
(* keeps its id.                                                           *)
KeepExistingID(j) ==
    /\ pc[j] = "tokens"
    /\ ~AbortsOnError
    /\ \E t \in TokenIDs :
         /\ NextToken(j, t)
         /\ t \notin Listed(rows[j])
         /\ Clash(j, t) # {}
         /\ live' = [live EXCEPT ![j] = @ \cup Clash(j, t)]
         /\ pend' = [pend EXCEPT ![j] = @ \ {t}]
    /\ UNCHANGED <<catalog, relay, pc, runVars, cur, rows, history>>

(* The write violates the unique index on (chain_id, address): an UPDATE   *)
(* is not retried, and after a failed CREATE an aborted transaction        *)
(* answers the query by address with an error.                             *)
RejectToken(j) ==
    /\ pc[j] = "tokens"
    /\ \E t \in TokenIDs :
         /\ NextToken(j, t)
         /\ Clash(j, t) # {}
         /\ t \in Listed(rows[j]) \/ AbortsOnError
    /\ Rollback(j)
    /\ UNCHANGED history

Commit_KeepsMissing(j) ==
    LET c == cur[j].chain IN
    /\ pc[j] = "tokens"
    /\ pend[j] = {}
    /\ cRows' = cRows \cup {c}
    /\ cSupported' = IF cur[j].disabled THEN cSupported \ {c} ELSE cSupported \cup {c}
    /\ cEnabled' = IF c \in cRows THEN cEnabled ELSE cEnabled \cup {c}
    /\ tAddress' = [tAddress EXCEPT ![c] = rows[j]]
    /\ tSupported' = [tSupported EXCEPT ![c] = live[j]]
    /\ Goto(j, "chains")
    /\ Forget(j)
    /\ UNCHANGED <<relay, feed, todo, unsup, abandoned>>

Commit_Enables(j) ==
    LET c == cur[j].chain IN
    /\ pc[j] = "tokens"
    /\ pend[j] = {}
    /\ cRows' = cRows \cup {c}
    /\ cSupported' = IF cur[j].disabled THEN cSupported \ {c} ELSE cSupported \cup {c}
    /\ cEnabled' = cEnabled \cup {c}
    /\ tAddress' = [tAddress EXCEPT ![c] = rows[j]]
    /\ tSupported' = [tSupported EXCEPT ![c] = live[j] \cap Offered(cur[j])]
    /\ Goto(j, "chains")
    /\ Forget(j)
    /\ UNCHANGED <<relay, feed, todo, unsup, abandoned>>

(* markMissingTokensUnsupported (or markChainTokensUnsupported, when the   *)
(* chain is disabled or has no token), then the commit in the database.    *)
(* Only the INSERT sets the enabled column.                                *)
Commit(j) ==
    LET c == cur[j].chain IN
    /\ pc[j] = "tokens"
    /\ pend[j] = {}
    /\ cRows' = cRows \cup {c}
    /\ cSupported' = IF cur[j].disabled THEN cSupported \ {c} ELSE cSupported \cup {c}
    /\ cEnabled' = IF c \in cRows THEN cEnabled ELSE cEnabled \cup {c}
    /\ tAddress' = [tAddress EXCEPT ![c] = rows[j]]
    /\ tSupported' = [tSupported EXCEPT ![c] = live[j] \cap Offered(cur[j])]
    /\ Goto(j, "chains")
    /\ Forget(j)
    /\ UNCHANGED <<relay, feed, todo, unsup, abandoned>>

CommitChain_ForgetsFirst(j) ==
    /\ Commit(j)
    /\ done' = [done EXCEPT ![j] = @ \cup {cur'[j]}]
    /\ UNCHANGED <<failed, faults>>

CommitChain(j) ==
    /\ Commit(j)
    /\ done' = [done EXCEPT ![j] = @ \cup {cur[j]}]
    /\ UNCHANGED <<failed, faults>>

(* The database commits and the answer is lost: tx.Commit returns an error *)
(* and the chain is counted as failed.                                     *)
CommitUnanswered(j) ==
    /\ Commit(j)
    /\ Fault
    /\ failed' = [failed EXCEPT ![j] = TRUE]
    /\ UNCHANGED done

(* A statement or the commit fails and has no effect: a lost connection, a *)
(* deadlock victim.                                                        *)
FailChain(j) ==
    /\ InTx(j)
    /\ Fault
    /\ Rollback(j)
    /\ UNCHANGED abandoned

MarkMissingChainsUnsupported_Skipped(j) ==
    /\ pc[j] = "chains"
    /\ todo[j] = {}
    /\ UNCHANGED cSupported
    /\ Goto(j, "sweep")
    /\ UNCHANGED <<cRows, cEnabled, tAddress, tSupported, relay, runVars, txVars, history>>

(* All entries are handled: the chains the feed has not are withdrawn, in  *)
(* one statement that waits for the locks of their rows.  A feed without   *)
(* any usable chain withdraws nothing.                                     *)
MarkMissingChainsUnsupported(j) ==
    /\ pc[j] = "chains"
    /\ todo[j] = {}
    /\ \/ /\ FetchedChainIDs(j) = {}
          /\ UNCHANGED cSupported
       \/ /\ FetchedChainIDs(j) # {}
          /\ \A c \in cRows \ FetchedChainIDs(j) : ~Locked(c)
          /\ cSupported' = cSupported \cap FetchedChainIDs(j)
    /\ Goto(j, "sweep")
    /\ UNCHANGED <<cRows, cEnabled, tAddress, tSupported, relay, runVars, txVars, history>>

ReadUnsupportedChains_Skipped(j) ==
    /\ pc[j] = "sweep"
    /\ unsup' = [unsup EXCEPT ![j] = {}]
    /\ Goto(j, "log")
    /\ abandoned' = FALSE
    /\ UNCHANGED <<catalog, relay, feed, todo, failed, done, txVars, faults>>

(* markTokensByChainSupport, the query: every unsupported chain, not only  *)
(* those this run has withdrawn.                                           *)
ReadUnsupportedChains(j) ==
    /\ pc[j] = "sweep"
    /\ unsup' = [unsup EXCEPT ![j] = cRows \ cSupported]
    /\ Goto(j, IF cRows \ cSupported = {} THEN "log" ELSE "clear")
    /\ abandoned' = FALSE
    /\ UNCHANGED <<catalog, relay, feed, todo, failed, done, txVars, faults>>

(* markTokensByChainSupport, the update: it trusts the ids it has read. *)
MarkTokensByChainSupport(j) ==
    /\ pc[j] = "clear"
    /\ \A c \in unsup[j] : ~Locked(c)
    /\ tSupported' = [c \in Chains |-> IF c \in unsup[j] THEN {} ELSE tSupported[c]]
    /\ unsup' = [unsup EXCEPT ![j] = {}]
    /\ Goto(j, "log")
    /\ UNCHANGED <<cRows, cSupported, cEnabled, tAddress, relay, feed, todo, failed,
                   done, txVars, history>>

(* sync returns early: a statement outside the transactions fails, or the  *)
(* context ends and takes every statement that is left with it.            *)
FailRun(j) ==
    /\ InTx(j) \/ pc[j] \in {"chains", "sweep", "clear"}
    /\ Fault
    /\ failed' = [failed EXCEPT ![j] = TRUE]
    /\ unsup' = [unsup EXCEPT ![j] = {}]
    /\ Goto(j, "log")
    /\ Forget(j)
    /\ UNCHANGED <<catalog, relay, feed, todo, done, abandoned>>

(* The run is over, its memory with it; the job goes where label says. *)
EndRun(j, label) ==
    /\ feed' = [feed EXCEPT ![j] = NoFeed]
    /\ todo' = [todo EXCEPT ![j] = {}]
    /\ failed' = [failed EXCEPT ![j] = FALSE]
    /\ unsup' = [unsup EXCEPT ![j] = {}]
    /\ done' = [done EXCEPT ![j] = {}]
    /\ Goto(j, label)
    /\ Forget(j)
    /\ UNCHANGED <<catalog, relay, abandoned>>

WriteTaskLog_Swallows(j) ==
    /\ pc[j] = "log"
    /\ EndRun(j, "idle")
    /\ UNCHANGED faults

(* The task log is written; asynq retries what ProcessTask returned an     *)
(* error for.                                                              *)
WriteTaskLog(j) ==
    /\ pc[j] = "log"
    /\ EndRun(j, IF failed[j] THEN "retry" ELSE "idle")
    /\ UNCHANGED faults

(* The log cannot be written: ProcessTask fails, whatever sync returned. *)
WriteTaskLogFails(j) ==
    /\ pc[j] = "log"
    /\ Fault
    /\ EndRun(j, "retry")

(* The process dies: the database rolls the transaction back and asynq     *)
(* hands the orphaned task out again.                                      *)
Crash(j) ==
    /\ pc[j] \notin {"idle", "queued", "retry"}
    /\ Fault
    /\ EndRun(j, "retry")

(* asynq archives a task whose retries are used up. *)
Archive(j) ==
    /\ pc[j] = "retry"
    /\ Goto(j, "idle")
    /\ abandoned' = TRUE
    /\ UNCHANGED <<catalog, relay, runVars, txVars, faults>>

RelayChanges ==
    /\ relay' \in Feeds
    /\ UNCHANGED <<catalog, pc, runVars, txVars, history>>

(* The platform's operator sets the enabled column of a chain. *)
SetEnabled(c) ==
    /\ c \in cRows
    /\ ~Locked(c)
    /\ cEnabled' \in {cEnabled \cup {c}, cEnabled \ {c}}
    /\ UNCHANGED <<cRows, cSupported, tAddress, tSupported, relay, pc, runVars, txVars,
                   history>>

(* What a run does unless something fails. *)
Progress(j) ==
    \/ ProcessTask(j)
    \/ BeginTx(j)
    \/ WriteChain(j)
    \/ RejectChain(j)
    \/ UpsertRelayToken(j)
    \/ KeepExistingID(j)
    \/ RejectToken(j)
    \/ CommitChain(j)
    \/ MarkMissingChainsUnsupported(j)
    \/ ReadUnsupportedChains(j)
    \/ MarkTokensByChainSupport(j)
    \/ WriteTaskLog(j)

Failure(j) ==
    \/ EnsureTaskIDFails(j)
    \/ FetchFails(j)
    \/ BeginTxFails(j)
    \/ CommitUnanswered(j)
    \/ FailChain(j)
    \/ FailRun(j)
    \/ WriteTaskLogFails(j)
    \/ Crash(j)
    \/ Archive(j)

Next ==
    \/ \E j \in Jobs : Enqueue(j) \/ Progress(j) \/ Failure(j)
    \/ RelayChanges
    \/ \E c \in Chains : SetEnabled(c)

Spec == Init /\ [][Next]_vars

(* asynq runs and retries what it holds, and the database serves waiting   *)
(* transactions in turn, so a step that is enabled again and again is      *)
(* taken.  Nothing forces the timer, Relay, the operator or a fault.       *)
FairSpec == Spec /\ \A j \in Jobs : SF_vars(Progress(j))

(* The timer fires again and again, as long as a job is free. *)
TimerFires == \A j \in Jobs : WF_vars(Enqueue(j))

-----------------------------------------------------------------------------
(* The catalog promised to its readers is what the runs produce, however   *)
(* they overlap, fail and crash.                                           *)
CatalogSpec == Catalog!Spec

CatalogConsistent == Catalog!CatalogConsistent

(* Chain c was withdrawn and still has tokens on offer. *)
Leftover(c) == c \in cRows \ cSupported /\ tSupported[c] # {}

(* The tokens of c will be dealt with by job j, as it stands now. *)
Owes(j, c) ==
    \/ pc[j] \in {"retry", "chains", "insertChain", "updateChain", "tokens", "sweep"}
    \/ pc[j] = "clear" /\ c \in unsup[j]
    \/ pc[j] = "log" /\ failed[j]

(* markMissingChainsUnsupported (202) and markTokensByChainSupport (206)   *)
(* are separate statements, and the second works on ids it read before.    *)
(* Whatever interleaves, fails or crashes between them, tokens of a        *)
(* withdrawn chain stay on offer only while some job is still bound to     *)
(* clear them: running, or failed in a way that makes asynq retry it.      *)
LeftoversAreOwed ==
    \A c \in Chains : Leftover(c) => abandoned \/ \E j \in Jobs : Owes(j, c)

(* A run is logged and acknowledged as a success (result Success, nil      *)
(* error) only if every element of the feed was usable and every chain of  *)
(* it was committed: failures counted along the way are not lost (215).    *)
SuccessIsHonest ==
    \A j \in Jobs : pc[j] = "log" /\ ~failed[j] =>
        /\ ~feed[j].malformed
        /\ done[j] = feed[j].entries

(* Job j has lost no entry: while its run has counted no failure, each     *)
(* entry of its feed is committed, in hand or still to do.                 *)
Accounted(j) ==
    IF pc[j] \in {"idle", "queued", "retry"} THEN done[j] = {}
    ELSE failed[j] \/
         /\ ~feed[j].malformed
         /\ feed[j].entries = done[j] \cup todo[j] \cup (IF InTx(j) THEN {cur[j]} ELSE {})
         /\ pc[j] \in {"sweep", "clear", "log"} => todo[j] = {}

(* No chain of a feed gets lost between the fetch (144) and the count of   *)
(* failures (215): every way through the loop commits it or counts it.     *)
EntriesAccounted == \A j \in Jobs : Accounted(j)

(* Two running transactions never hold the same chain row, and what a      *)
(* transaction has in hand still starts from the committed rows: no row it *)
(* does not know of appears under it, it never holds two rows with one     *)
(* address, and it has only tokens of its entry left to write, so that its *)
(* commit cannot break the indexes or lose a row.                          *)
TxIsIsolated ==
    /\ \A i, j \in Jobs :
         pc[i] = "tokens" /\ pc[j] = "tokens" /\ cur[i].chain = cur[j].chain => i = j
    /\ \A j \in Jobs : pc[j] = "tokens" =>
         /\ Listed(tAddress[cur[j].chain]) \subseteq Listed(rows[j])
         /\ Catalog!UniqueAddresses(rows[j])
         /\ live[j] \subseteq Listed(rows[j])
         /\ pend[j] \subseteq Offered(cur[j])

(* What the tables say of chain c is what entry e says of it. *)
Mirrors(c, e) ==
    /\ e.chain = c
    /\ c \in cSupported <=> ~e.disabled
    /\ tSupported[c] = Offered(e)
    /\ \A t \in Offered(e) : tAddress[c][t] = e.tokens[t]

(* A supported chain offers exactly the tokens, at the addresses, that one *)
(* feed listed for it: tokens of two feeds never mix, and no token that    *)
(* left the feed survives next to those that stayed.                       *)
SupportedChainsMirrorAFeed ==
    \A c \in cSupported : \E f \in Feeds : \E e \in f.entries : Mirrors(c, e)

NoDuplicates(f) == \A d, e \in f.entries : d.chain = e.chain => d = e

(* The tables are what feed f says: its chains and no other supported. *)
IsMirrored(f) ==
    /\ cSupported = {e.chain : e \in {d \in f.entries : ~d.disabled}}
    /\ \A e \in f.entries : Mirrors(e.chain, e)

(* When a run on its own reports success, the tables are the feed: each    *)
(* chain of the feed with exactly its tokens, and no other chain supported.*)
(* (A feed without usable chains leaves the chains as they were.)          *)
SuccessMirrorsFeed ==
    \A j \in Jobs :
        /\ pc[j] = "log" /\ ~failed[j]
        /\ NoDuplicates(feed[j])
        /\ feed[j].entries # {}
        => IsMirrored(feed[j])

(* A token that the feed of a successful run lists is supported in the     *)
(* tables, if not under the id Relay gave it then under the id its row has *)
(* (relay_token.go:66, "Whether Relay still supports this token").         *)
ListedTokensSupported ==
    \A j \in Jobs :
        pc[j] = "log" /\ ~failed[j] /\ NoDuplicates(feed[j]) =>
            \A e \in feed[j].entries : \A t \in Offered(e) :
                \E s \in tSupported[e.chain] : tAddress[e.chain][s] = e.tokens[t]

(* A token whose address is known under another id does not stop the       *)
(* chain's transaction: "relay token id mismatch, keeping existing id"     *)
(* (relay_chains.go:597).                                                  *)
MismatchKeepsExistingID ==
    [][\A j \in Jobs : \A t \in TokenIDs :
         /\ pc[j] = "tokens"
         /\ NextToken(j, t)
         /\ t \notin Listed(rows[j])
         /\ Clash(j, t) # {}
         /\ faults' = faults
         => pc'[j] = "tokens"]_vars

(* Tokens of a withdrawn chain do not stay on offer for ever: they are     *)
(* cleared, or the chain comes back, or asynq gave a job up.               *)
LeftoversCleared ==
    \A c \in Chains : Leftover(c) ~> ~Leftover(c) \/ abandoned

(* Overlapping runs may leave the tables wrong, and a run that was slow    *)
(* may undo what a later one did, but not for ever: once Relay's feed      *)
(* stops changing and the timer goes on firing, the tables settle on it    *)
(* and stay there.                                                         *)
EventuallyMirrors ==
    TimerFires => \A f \in Feeds : <>[](relay = f) => <>[]IsMirrored(f)
=============================================================================
