--------------------------- MODULE RelaySyncProofs ---------------------------
(***************************************************************************)
(* Theorems about RelaySync, for any number of jobs, any chains, tokens    *)
(* and feeds, on either kind of database, and any bound on the faults; and *)
(* at the end about RelayFeed, which makes the entries of those feeds.     *)
(***************************************************************************)
EXTENDS RelaySync, RelayFeed, TLAPS

USE DEF Listing, Listed, Catalog!Listing, Catalog!Listed, PC, Feed, Entry,
        catalog, history, txVars, runVars, vars

-----------------------------------------------------------------------------
(* Types. *)

LEMMA EmptyTypes == NoFeed \in Feed /\ NoRows \in Listing
  BY DEF NoFeed, NoRows

LEMMA InitType == Init => TypeOK
<1> SUFFICES ASSUME Init PROVE TypeOK
  OBVIOUS
<1> USE EmptyTypes DEF Init
<1>1. Catalog!CatalogTypeOK
  BY DEF Catalog!Init, Catalog!CatalogTypeOK, NoRows
<1>2. relay \in Feeds /\ pc \in [Jobs -> PC] /\ faults \in 0 .. MaxFaults
  BY FaultsAssumption
<1>3. feed \in [Jobs -> Feed]
  BY Zenon DEF Feed
<1>4. rows \in [Jobs -> Listing]
  BY Zenon
<1>5. cur \in [Jobs -> Entry \cup {NoEntry}] /\ \A j \in Jobs : ~InTx(j)
  <2>1. cur \in [Jobs -> Entry \cup {NoEntry}]
    BY Zenon
  <2> QED
    BY <2>1 DEF InTx
<1>6. /\ todo \in [Jobs -> SUBSET Entry] /\ done \in [Jobs -> SUBSET Entry]
      /\ failed \in [Jobs -> BOOLEAN] /\ abandoned \in BOOLEAN
      /\ live \in [Jobs -> SUBSET TokenIDs] /\ pend \in [Jobs -> SUBSET TokenIDs]
      /\ unsup \in [Jobs -> SUBSET Chains]
  OBVIOUS
<1> QED
  BY <1>1, <1>2, <1>3, <1>4, <1>5, <1>6 DEF TypeOK

LEMMA StepType == TypeOK /\ [Next]_vars => TypeOK'
<1> SUFFICES ASSUME TypeOK, [Next]_vars PROVE TypeOK'
  OBVIOUS
<1> USE FeedsAssumption, FaultsAssumption DEF TypeOK, Catalog!CatalogTypeOK, InTx
<1>1. CASE UNCHANGED vars
  BY <1>1
<1>2. ASSUME NEW j \in Jobs, Enqueue(j) PROVE TypeOK'
  BY <1>2 DEF Enqueue, Goto
<1>3. ASSUME NEW j \in Jobs, Progress(j) PROVE TypeOK'
  <2>1. CASE ProcessTask(j)
    BY <2>1 DEF ProcessTask, Goto
  <2>2. CASE BeginTx(j)
    BY <2>2 DEF BeginTx, Goto
  <2>3. CASE WriteChain(j)
    BY <2>3 DEF WriteChain, Goto, Offered
  <2>4. CASE RejectChain(j)
    BY <2>4 DEF RejectChain, Rollback, Forget, NoRows, Goto
  <2>5. CASE UpsertRelayToken(j)
    BY <2>5 DEF UpsertRelayToken, NextToken
  <2>6. CASE KeepExistingID(j)
    BY <2>6 DEF KeepExistingID, Clash
  <2>7. CASE RejectToken(j)
    BY <2>7 DEF RejectToken, Rollback, Forget, NoRows, Goto
  <2>8. CASE CommitChain(j)
    BY <2>8 DEF CommitChain, Commit, Forget, NoRows, Goto, Offered
  <2>9. CASE MarkMissingChainsUnsupported(j)
    BY <2>9 DEF MarkMissingChainsUnsupported, Goto
  <2>10. CASE ReadUnsupportedChains(j)
    BY <2>10 DEF ReadUnsupportedChains, Goto
  <2>11. CASE MarkTokensByChainSupport(j)
    BY <2>11 DEF MarkTokensByChainSupport, Goto
  <2>12. CASE WriteTaskLog(j)
    BY <2>12 DEF WriteTaskLog, EndRun, Forget, NoRows, NoFeed, Goto
  <2> QED
    BY <1>3, <2>1, <2>2, <2>3, <2>4, <2>5, <2>6, <2>7, <2>8, <2>9, <2>10, <2>11,
       <2>12 DEF Progress
<1>4. ASSUME NEW j \in Jobs, Failure(j) PROVE TypeOK'
  <2>1. CASE EnsureTaskIDFails(j)
    BY <2>1 DEF EnsureTaskIDFails, Fault, Goto
  <2>2. CASE FetchFails(j)
    BY <2>2 DEF FetchFails, Fault, Goto
  <2>3. CASE BeginTxFails(j)
    BY <2>3 DEF BeginTxFails, Fault
  <2>4. CASE FailChain(j)
    BY <2>4 DEF FailChain, Rollback, Forget, NoRows, Fault, Goto
  <2>5. CASE FailRun(j)
    BY <2>5 DEF FailRun, Forget, NoRows, Fault, Goto
  <2>6. CASE WriteTaskLogFails(j)
    BY <2>6 DEF WriteTaskLogFails, EndRun, Forget, NoRows, NoFeed, Fault, Goto
  <2>7. CASE Crash(j)
    BY <2>7 DEF Crash, EndRun, Forget, NoRows, NoFeed, Fault, Goto
  <2>8. CASE Archive(j)
    BY <2>8 DEF Archive, Goto
  <2>9. CASE CommitUnanswered(j)
    BY <2>9 DEF CommitUnanswered, Commit, Forget, NoRows, Fault, Goto, Offered
  <2> QED
    BY <1>4, <2>1, <2>2, <2>3, <2>4, <2>5, <2>6, <2>7, <2>8, <2>9 DEF Failure
<1>5. CASE RelayChanges
  BY <1>5 DEF RelayChanges
<1>6. ASSUME NEW c \in Chains, SetEnabled(c) PROVE TypeOK'
  BY <1>6 DEF SetEnabled
<1> QED
  BY <1>1, <1>2, <1>3, <1>4, <1>5, <1>6 DEF Next

(* Every variable keeps its type, whatever the runs do. *)
THEOREM TypeCorrect == Spec => []TypeOK
<1> QED
  BY InitType, StepType, PTL DEF Spec

-----------------------------------------------------------------------------
(* Isolation.  A job gets into "tokens" only when no other job has locked  *)
(* the chain's row; while it is there no other job writes the chain's      *)
(* token rows, so the copy it works on stays in touch with the table.      *)

Inv == TypeOK /\ CatalogConsistent /\ TxIsIsolated

USE DEF CatalogConsistent, Catalog!CatalogConsistent

LEMMA InitInv == Init => Inv
<1> SUFFICES ASSUME Init PROVE Inv
  OBVIOUS
<1>1. CatalogConsistent
  BY DEF Init, Catalog!Init, Catalog!UniqueAddresses
<1>2. TxIsIsolated
  BY DEF Init, TxIsIsolated
<1> QED
  BY <1>1, <1>2, InitType DEF Inv

(* Steps that write none of the variables Inv relates. *)
LEMMA QuietStep ==
  ASSUME Inv, TypeOK', UNCHANGED catalog, UNCHANGED <<rows, live, pend, cur>>,
         \A j \in Jobs : pc'[j] = "tokens" => pc[j] = "tokens"
  PROVE  Inv'
  BY DEF Inv, TxIsIsolated, Catalog!UniqueAddresses, Offered

(* Steps with which a job drops what it has in hand. *)
LEMMA DropStep ==
  ASSUME Inv, TypeOK', UNCHANGED catalog, NEW j \in Jobs, Forget(j),
         NEW label, Goto(j, label), label # "tokens"
  PROVE  Inv'
<1>1. \A i \in Jobs : pc'[i] = "tokens" =>
        /\ i # j /\ pc[i] = "tokens" /\ cur'[i] = cur[i] /\ rows'[i] = rows[i]
        /\ live'[i] = live[i] /\ pend'[i] = pend[i]
  BY DEF Inv, TypeOK, Goto, Forget
<1> QED
  BY <1>1 DEF Inv, TxIsIsolated, Catalog!UniqueAddresses, Offered

(* A commit, answered or not. *)
LEMMA CommitStep ==
  ASSUME Inv, TypeOK', NEW j \in Jobs, Commit(j)
  PROVE  Inv'
<1> DEFINE c == cur[j].chain
<1>0. TypeOK
  BY DEF Inv
<1>1. /\ c \in Chains /\ pc[j] = "tokens"
      /\ cRows' = cRows \cup {c}
      /\ cSupported' \subseteq cSupported \cup {c}
      /\ cEnabled' \subseteq cEnabled \cup {c}
      /\ tAddress'[c] = rows[j]
      /\ tSupported'[c] \subseteq live[j]
      /\ \A d \in Chains \ {c} : tAddress'[d] = tAddress[d] /\ tSupported'[d] = tSupported[d]
  BY <1>0 DEF Commit, TypeOK, Catalog!CatalogTypeOK, InTx
<1>2. \A i \in Jobs : pc'[i] = "tokens" =>
        /\ i # j /\ pc[i] = "tokens" /\ cur'[i] = cur[i] /\ rows'[i] = rows[i]
        /\ live'[i] = live[i] /\ pend'[i] = pend[i] /\ cur[i] \in Entry
  BY <1>0 DEF Commit, Goto, Forget, TypeOK, InTx
<1>3. CatalogConsistent'
  BY <1>1 DEF Inv, TxIsIsolated, Catalog!UniqueAddresses
<1>4. TxIsIsolated'
  BY <1>1, <1>2 DEF Inv, TxIsIsolated, Catalog!UniqueAddresses, Offered
<1> QED
  BY <1>3, <1>4 DEF Inv

LEMMA StepInv == Inv /\ [Next]_vars => Inv'
<1> SUFFICES ASSUME Inv, [Next]_vars PROVE Inv'
  OBVIOUS
<1>0. TypeOK /\ TypeOK'
  BY StepType DEF Inv
<1>1. CASE UNCHANGED vars
  BY <1>1, <1>0, QuietStep
<1>2. ASSUME NEW j \in Jobs, Enqueue(j) PROVE Inv'
  BY <1>2, <1>0, QuietStep DEF Enqueue, Goto, TypeOK
<1>3. ASSUME NEW j \in Jobs, Progress(j) PROVE Inv'
  <2>1. CASE ProcessTask(j)
    BY <2>1, <1>0, QuietStep DEF ProcessTask, Goto, TypeOK
  <2>2. CASE BeginTx(j)
    BY <2>2, <1>0 DEF BeginTx, Goto, TypeOK, Inv, TxIsIsolated,
       Catalog!UniqueAddresses, Offered
  <2>3. CASE WriteChain(j)
    <3>1. \A i \in Jobs \ {j} :
             /\ pc'[i] = pc[i] /\ cur'[i] = cur[i]
             /\ rows'[i] = rows[i] /\ live'[i] = live[i] /\ pend'[i] = pend[i]
             /\ pc[i] = "tokens" => cur[i].chain # cur[j].chain
      BY <2>3, <1>0 DEF WriteChain, Goto, Locked, TypeOK
    <3>2. /\ cur[j].chain \in Chains /\ pc'[j] = "tokens" /\ cur' = cur
          /\ rows'[j] = tAddress[cur[j].chain]
          /\ live'[j] = tSupported[cur[j].chain]
          /\ pend'[j] = Offered(cur[j])
          /\ UNCHANGED catalog
      BY <2>3, <1>0 DEF WriteChain, Goto, TypeOK, InTx
    <3>3. CatalogConsistent'
      BY <3>2 DEF Inv, Catalog!UniqueAddresses
    <3>4. ASSUME NEW i \in Jobs, NEW k \in Jobs, pc'[i] = "tokens", pc'[k] = "tokens",
                 cur'[i].chain = cur'[k].chain
          PROVE  i = k
      <4>1. cur[i].chain = cur[k].chain
        BY <3>2, <3>4
      <4>2. CASE i = j \/ k = j
        BY <4>1, <4>2, <3>1, <3>4
      <4>3. CASE i # j /\ k # j
        BY <4>1, <4>3, <3>1, <3>4 DEF Inv, TxIsIsolated
      <4> QED
        BY <4>2, <4>3
    <3>5. ASSUME NEW i \in Jobs, pc'[i] = "tokens"
          PROVE  /\ Listed(tAddress'[cur'[i].chain]) \subseteq Listed(rows'[i])
                 /\ Catalog!UniqueAddresses(rows'[i])
                 /\ live'[i] \subseteq Listed(rows'[i])
                 /\ pend'[i] \subseteq Offered(cur'[i])
      <4>1. CASE i = j
        BY <4>1, <3>2 DEF Inv
      <4>2. CASE i # j
        <5>1. /\ pc[i] = "tokens" /\ tAddress' = tAddress /\ cur' = cur
              /\ rows'[i] = rows[i] /\ live'[i] = live[i] /\ pend'[i] = pend[i]
          BY <4>2, <3>1, <3>2, <3>5
        <5> QED
          BY <5>1 DEF Inv, TxIsIsolated, Catalog!UniqueAddresses, Offered
      <4> QED
        BY <4>1, <4>2
    <3>6. TxIsIsolated'
      BY <3>4, <3>5 DEF TxIsIsolated, Catalog!UniqueAddresses, Offered
    <3> QED
      BY <3>3, <3>6, <1>0 DEF Inv
  <2>4. CASE RejectChain(j)
    BY <2>4, <1>0, DropStep DEF RejectChain, Rollback
  <2>5. CASE UpsertRelayToken(j)
    <3>1. PICK t \in TokenIDs :
            /\ t \in pend[j] /\ Clash(j, t) = {}
            /\ rows' = [rows EXCEPT ![j][t] = cur[j].tokens[t]]
            /\ live' = [live EXCEPT ![j] = @ \cup {t}]
            /\ pend' = [pend EXCEPT ![j] = @ \ {t}]
      BY <2>5 DEF UpsertRelayToken, NextToken
    <3>2. /\ pc[j] = "tokens" /\ UNCHANGED <<catalog, pc, cur>>
          /\ cur[j] \in Entry
      BY <2>5, <1>0 DEF UpsertRelayToken, TypeOK, InTx
    <3>3. cur[j].tokens[t] # NoAddress
      BY <3>1, <3>2 DEF Inv, TxIsIsolated, Offered
    <3>4. /\ rows[j] \in Listing
          /\ rows'[j] = [rows[j] EXCEPT ![t] = cur[j].tokens[t]]
          /\ live'[j] = live[j] \cup {t}
          /\ pend'[j] = pend[j] \ {t}
          /\ \A i \in Jobs \ {j} : rows'[i] = rows[i] /\ live'[i] = live[i] /\ pend'[i] = pend[i]
      BY <3>1, <1>0 DEF TypeOK
    <3>5. Listed(rows'[j]) = Listed(rows[j]) \cup {t}
      BY <3>3, <3>4
    <3>6. Catalog!UniqueAddresses(rows'[j])
      <4>1. /\ Catalog!UniqueAddresses(rows[j])
            /\ \A u \in Listed(rows[j]) \ {t} : rows[j][u] # cur[j].tokens[t]
        BY <3>1, <3>2 DEF Inv, TxIsIsolated, Clash
      <4>2. /\ rows'[j][t] = cur[j].tokens[t]
            /\ \A u \in TokenIDs \ {t} : rows'[j][u] = rows[j][u]
        BY <3>4
      <4> QED
        BY <4>1, <4>2, <3>5 DEF Catalog!UniqueAddresses
    <3> QED
      BY <3>2, <3>4, <3>5, <3>6, <1>0 DEF Inv, TxIsIsolated, Catalog!UniqueAddresses, Offered
  <2>6. CASE KeepExistingID(j)
    BY <2>6, <1>0 DEF KeepExistingID, Clash, TypeOK, Inv, TxIsIsolated,
       Catalog!UniqueAddresses, Offered
  <2>7. CASE RejectToken(j)
    BY <2>7, <1>0, DropStep DEF RejectToken, Rollback
  <2>8. CASE CommitChain(j)
    BY <2>8, <1>0, CommitStep DEF CommitChain
  <2>9. CASE MarkMissingChainsUnsupported(j)
    BY <2>9, <1>0 DEF MarkMissingChainsUnsupported, Goto, TypeOK, Inv, TxIsIsolated,
       Catalog!UniqueAddresses, Offered
  <2>10. CASE ReadUnsupportedChains(j)
    BY <2>10, <1>0, QuietStep DEF ReadUnsupportedChains, Goto, TypeOK
  <2>11. CASE MarkTokensByChainSupport(j)
    BY <2>11, <1>0 DEF MarkTokensByChainSupport, Goto, TypeOK, Inv, TxIsIsolated,
       Catalog!UniqueAddresses, Offered
  <2>12. CASE WriteTaskLog(j)
    BY <2>12, <1>0, DropStep DEF WriteTaskLog, EndRun
  <2> QED
    BY <1>3, <2>1, <2>2, <2>3, <2>4, <2>5, <2>6, <2>7, <2>8, <2>9, <2>10, <2>11,
       <2>12 DEF Progress
<1>4. ASSUME NEW j \in Jobs, Failure(j) PROVE Inv'
  <2>1. CASE EnsureTaskIDFails(j)
    BY <2>1, <1>0, QuietStep DEF EnsureTaskIDFails, Goto, TypeOK
  <2>2. CASE FetchFails(j)
    BY <2>2, <1>0, QuietStep DEF FetchFails, Goto, TypeOK
  <2>3. CASE BeginTxFails(j)
    BY <2>3, <1>0, QuietStep DEF BeginTxFails
  <2>4. CASE FailChain(j)
    BY <2>4, <1>0, DropStep DEF FailChain, Rollback
  <2>5. CASE FailRun(j)
    BY <2>5, <1>0, DropStep DEF FailRun
  <2>6. CASE WriteTaskLogFails(j)
    BY <2>6, <1>0, DropStep DEF WriteTaskLogFails, EndRun
  <2>7. CASE Crash(j)
    BY <2>7, <1>0, DropStep DEF Crash, EndRun
  <2>8. CASE Archive(j)
    BY <2>8, <1>0, QuietStep DEF Archive, Goto, TypeOK
  <2>9. CASE CommitUnanswered(j)
    BY <2>9, <1>0, CommitStep DEF CommitUnanswered
  <2> QED
    BY <1>4, <2>1, <2>2, <2>3, <2>4, <2>5, <2>6, <2>7, <2>8, <2>9 DEF Failure
<1>5. CASE RelayChanges
  BY <1>5, <1>0, QuietStep DEF RelayChanges
<1>6. ASSUME NEW c \in Chains, SetEnabled(c) PROVE Inv'
  BY <1>6, <1>0 DEF SetEnabled, Inv, TxIsIsolated, Catalog!UniqueAddresses, Offered
<1> QED
  BY <1>1, <1>2, <1>3, <1>4, <1>5, <1>6 DEF Next

(* The tables stay consistent and transactions stay isolated. *)
THEOREM Consistent == Spec => [](CatalogConsistent /\ TxIsIsolated)
<1>1. Inv => CatalogConsistent /\ TxIsIsolated
  BY DEF Inv
<1> QED
  BY <1>1, InitInv, StepInv, PTL DEF Spec

(* The tables alone: chains have token rows only if they have a row, and   *)
(* no two tokens of a chain share an address.                              *)
THEOREM TablesConsistent == Spec => []CatalogConsistent
<1>1. Inv => CatalogConsistent
  BY DEF Inv
<1> QED
  BY <1>1, InitInv, StepInv, PTL DEF Spec

-----------------------------------------------------------------------------
(* Refinement.  A commit replaces a chain, the bulk statements withdraw    *)
(* chains and tokens, the operator switches; no other step writes a table. *)

LEMMA CommitReplaces ==
  ASSUME Inv, NEW j \in Jobs, Commit(j)
  PROVE  Catalog!ReplaceChain(cur[j].chain) /\ cur[j].chain \in Chains
<1> DEFINE c == cur[j].chain
<1>1. /\ c \in Chains /\ rows[j] \in Listing
      /\ tAddress \in [Chains -> Listing]
      /\ tSupported \in [Chains -> SUBSET TokenIDs]
  BY DEF Commit, Inv, TypeOK, Catalog!CatalogTypeOK, InTx
<1>2. /\ Listed(tAddress[c]) \subseteq Listed(rows[j])
      /\ Catalog!UniqueAddresses(rows[j])
      /\ live[j] \subseteq Listed(rows[j])
  BY DEF Commit, Inv, TxIsIsolated
<1> DEFINE supported == c \in cSupported'
           offered == live[j] \cap Offered(cur[j])
<1>3. /\ cRows' = cRows \cup {c}
      /\ cEnabled' = IF c \in cRows THEN cEnabled ELSE cEnabled \cup {c}
      /\ tAddress' = [tAddress EXCEPT ![c] = rows[j]]
      /\ tSupported' = [tSupported EXCEPT ![c] = offered]
      /\ ~supported => offered = {}
  BY DEF Commit, Offered
<1>4. cSupported' = IF supported THEN cSupported \cup {c} ELSE cSupported \ {c}
  BY DEF Commit
<1>5. /\ rows[j] \in Catalog!Listing
      /\ offered \in SUBSET TokenIDs
      /\ supported \in BOOLEAN
      /\ offered \subseteq Listed(rows[j])
  BY <1>1, <1>2
<1> HIDE DEF supported, offered, c
<1>6. Catalog!ReplaceChain(c)
  BY <1>2, <1>3, <1>4, <1>5 DEF Catalog!ReplaceChain
<1> QED
  BY <1>1, <1>6 DEF c

LEMMA StepRefines == Inv /\ [Next]_vars => [Catalog!Next]_(Catalog!catalog)
<1> SUFFICES ASSUME Inv, [Next]_vars PROVE Catalog!Next \/ UNCHANGED Catalog!catalog
  OBVIOUS
<1> USE DEF Catalog!catalog
<1>1. CASE UNCHANGED vars
  BY <1>1
<1>2. ASSUME NEW j \in Jobs, Enqueue(j) PROVE UNCHANGED catalog
  BY <1>2 DEF Enqueue
<1>3. ASSUME NEW j \in Jobs, Progress(j) PROVE Catalog!Next \/ UNCHANGED catalog
  <2>1. CASE CommitChain(j)
    BY <2>1, CommitReplaces DEF CommitChain, Catalog!Next
  <2>2. CASE MarkMissingChainsUnsupported(j)
    <3>1. Catalog!WithdrawChains
      BY <2>2 DEF MarkMissingChainsUnsupported, Catalog!WithdrawChains
    <3> QED
      BY <3>1 DEF Catalog!Next
  <2>3. CASE MarkTokensByChainSupport(j)
    <3>1. Catalog!WithdrawTokens
      <4> DEFINE kept == [c \in Chains |-> IF c \in unsup[j] THEN {} ELSE tSupported[c]]
      <4>1. kept \in [Chains -> SUBSET TokenIDs]
        BY DEF Inv, TypeOK, Catalog!CatalogTypeOK
      <4>2. tSupported' = [c \in Chains |-> tSupported[c] \cap kept[c]]
        BY <2>3 DEF MarkTokensByChainSupport
      <4> QED
        BY <2>3, <4>1, <4>2 DEF MarkTokensByChainSupport, Catalog!WithdrawTokens
    <3> QED
      BY <3>1 DEF Catalog!Next
  <2>4. CASE \/ ProcessTask(j) \/ BeginTx(j) \/ WriteChain(j) \/ RejectChain(j)
             \/ UpsertRelayToken(j) \/ KeepExistingID(j) \/ RejectToken(j)
             \/ ReadUnsupportedChains(j) \/ WriteTaskLog(j)
    BY <2>4 DEF ProcessTask, BeginTx, WriteChain, RejectChain, Rollback, UpsertRelayToken,
       KeepExistingID, RejectToken, ReadUnsupportedChains, WriteTaskLog, EndRun
  <2> QED
    BY <1>3, <2>1, <2>2, <2>3, <2>4 DEF Progress
<1>4. ASSUME NEW j \in Jobs, Failure(j) PROVE Catalog!Next \/ UNCHANGED catalog
  <2>1. CASE CommitUnanswered(j)
    BY <2>1, CommitReplaces DEF CommitUnanswered, Catalog!Next
  <2>2. CASE \/ EnsureTaskIDFails(j) \/ FetchFails(j) \/ BeginTxFails(j) \/ FailChain(j)
             \/ FailRun(j) \/ WriteTaskLogFails(j) \/ Crash(j) \/ Archive(j)
    BY <2>2 DEF EnsureTaskIDFails, FetchFails, BeginTxFails, FailChain, Rollback,
       FailRun, WriteTaskLogFails, EndRun, Crash, Archive
  <2> QED
    BY <1>4, <2>1, <2>2 DEF Failure
<1>5. CASE RelayChanges
  BY <1>5 DEF RelayChanges
<1>6. ASSUME NEW c \in Chains, SetEnabled(c) PROVE Catalog!Next
  <2>1. Catalog!SwitchChain(c)
    BY <1>6 DEF SetEnabled, Catalog!SwitchChain
  <2> QED
    BY <2>1 DEF Catalog!Next
<1> QED
  BY <1>1, <1>2, <1>3, <1>4, <1>5, <1>6 DEF Next

(* Runs that overlap, fail and crash keep what RelayCatalog promises.      *)
THEOREM ImplementsCatalog == Spec => CatalogSpec
<1>1. Init => Catalog!Init
  BY DEF Init
<1> QED
  BY <1>1, InitInv, StepInv, StepRefines, PTL DEF Spec, CatalogSpec, Catalog!Spec

-----------------------------------------------------------------------------
(* Tokens of withdrawn chains.  Each job that may withdraw a chain still   *)
(* has the sweep before it, and the sweep reads every unsupported chain;   *)
(* on any other way out the job is retried or archived.                    *)

LEMMA InitOwed == Init => LeftoversAreOwed
  BY DEF Init, Catalog!Init, LeftoversAreOwed, Leftover

(* Steps that leave a job owing what it owed and make no new leftovers.    *)
LEMMA OwingStep ==
  ASSUME LeftoversAreOwed,
         \A c \in Chains : Leftover(c)' => Leftover(c),
         abandoned => abandoned',
         \A j \in Jobs : \A c \in Chains : Leftover(c)' /\ Owes(j, c) => Owes(j, c)'
  PROVE  LeftoversAreOwed'
  BY DEF LeftoversAreOwed

(* A commit leaves no token of its chain on offer if it withdraws it. *)
LEMMA CommitLeaves ==
  ASSUME TypeOK, NEW j \in Jobs, Commit(j), NEW c \in Chains, Leftover(c)'
  PROVE  Leftover(c)
  BY DEF Commit, Leftover, Offered, TypeOK, Catalog!CatalogTypeOK

LEMMA StepOwed == TypeOK /\ LeftoversAreOwed /\ [Next]_vars => LeftoversAreOwed'
<1> SUFFICES ASSUME TypeOK, LeftoversAreOwed, [Next]_vars PROVE LeftoversAreOwed'
  OBVIOUS
<1> USE DEF TypeOK, Goto, Owes
<1>1. CASE UNCHANGED vars
  BY <1>1, OwingStep DEF Leftover
<1>2. ASSUME NEW j \in Jobs, Enqueue(j) PROVE LeftoversAreOwed'
  BY <1>2, OwingStep DEF Enqueue, Leftover
<1>3. ASSUME NEW j \in Jobs, Progress(j) PROVE LeftoversAreOwed'
  <2>1. CASE ProcessTask(j)
    BY <2>1, OwingStep DEF ProcessTask, Leftover
  <2>2. CASE BeginTx(j)
    BY <2>2, OwingStep DEF BeginTx, Leftover
  <2>3. CASE WriteChain(j)
    BY <2>3, OwingStep DEF WriteChain, Leftover
  <2>4. CASE RejectChain(j)
    BY <2>4, OwingStep DEF RejectChain, Rollback, Leftover
  <2>5. CASE UpsertRelayToken(j)
    BY <2>5, OwingStep DEF UpsertRelayToken, Leftover
  <2>6. CASE KeepExistingID(j)
    BY <2>6, OwingStep DEF KeepExistingID, Leftover
  <2>7. CASE RejectToken(j)
    BY <2>7, OwingStep DEF RejectToken, Rollback, Leftover
  <2>8. CASE CommitChain(j)
    BY <2>8, CommitLeaves, OwingStep DEF CommitChain, Commit
  <2>9. CASE MarkMissingChainsUnsupported(j)
    BY <2>9 DEF MarkMissingChainsUnsupported, LeftoversAreOwed
  <2>10. CASE ReadUnsupportedChains(j)
    BY <2>10 DEF ReadUnsupportedChains, LeftoversAreOwed, Leftover
  <2>11. CASE MarkTokensByChainSupport(j)
    BY <2>11, OwingStep DEF MarkTokensByChainSupport, Leftover
  <2>12. CASE WriteTaskLog(j)
    BY <2>12, OwingStep DEF WriteTaskLog, EndRun, Leftover
  <2> QED
    BY <1>3, <2>1, <2>2, <2>3, <2>4, <2>5, <2>6, <2>7, <2>8, <2>9, <2>10, <2>11,
       <2>12 DEF Progress
<1>4. ASSUME NEW j \in Jobs, Failure(j) PROVE LeftoversAreOwed'
  <2>1. CASE EnsureTaskIDFails(j) \/ FetchFails(j)
    BY <2>1, OwingStep DEF EnsureTaskIDFails, FetchFails, Leftover
  <2>2. CASE BeginTxFails(j) \/ FailChain(j)
    BY <2>2, OwingStep DEF BeginTxFails, FailChain, Rollback, InTx, Leftover
  <2>3. CASE FailRun(j)
    BY <2>3, OwingStep DEF FailRun, Leftover
  <2>4. CASE WriteTaskLogFails(j) \/ Crash(j)
    BY <2>4, OwingStep DEF WriteTaskLogFails, Crash, EndRun, Leftover
  <2>5. CASE Archive(j)
    BY <2>5 DEF Archive, LeftoversAreOwed
  <2>6. CASE CommitUnanswered(j)
    BY <2>6, CommitLeaves, OwingStep DEF CommitUnanswered, Commit
  <2> QED
    BY <1>4, <2>1, <2>2, <2>3, <2>4, <2>5, <2>6 DEF Failure
<1>5. CASE RelayChanges
  BY <1>5, OwingStep DEF RelayChanges, Leftover
<1>6. ASSUME NEW c \in Chains, SetEnabled(c) PROVE LeftoversAreOwed'
  BY <1>6, OwingStep DEF SetEnabled, Leftover
<1> QED
  BY <1>1, <1>2, <1>3, <1>4, <1>5, <1>6 DEF Next

(* No interleaving, failure or crash makes the runs forget the tokens of a *)
(* withdrawn chain, short of asynq archiving a job.                        *)
THEOREM LeftoversRemembered == Spec => []LeftoversAreOwed
<1> QED
  BY InitType, StepType, InitOwed, StepOwed, PTL DEF Spec

-----------------------------------------------------------------------------
(* Honest success.  While a run has counted no failure, each entry of its  *)
(* feed is committed, in hand or still to do; at the end none is left.     *)

LEMMA InitAccounted == Init => EntriesAccounted
  BY DEF Init, EntriesAccounted, Accounted

(* A step of one job leaves what the others have in hand alone. *)
LEMMA OneJobSteps ==
  ASSUME EntriesAccounted, NEW j \in Jobs, Accounted(j)',
         \A i \in Jobs \ {j} :
             /\ pc'[i] = pc[i] /\ feed'[i] = feed[i] /\ todo'[i] = todo[i]
             /\ failed'[i] = failed[i] /\ done'[i] = done[i] /\ cur'[i] = cur[i]
  PROVE  EntriesAccounted'
  BY DEF EntriesAccounted, Accounted, InTx

LEMMA StepAccounted == TypeOK /\ EntriesAccounted /\ [Next]_vars => EntriesAccounted'
<1> SUFFICES ASSUME TypeOK, EntriesAccounted, [Next]_vars PROVE EntriesAccounted'
  OBVIOUS
<1>0. \A j \in Jobs : Accounted(j)
  BY DEF EntriesAccounted, Accounted
<1> USE DEF TypeOK, Goto, Accounted, InTx
<1>1. CASE UNCHANGED vars
  BY <1>1 DEF EntriesAccounted
<1>2. ASSUME NEW j \in Jobs, Enqueue(j) PROVE EntriesAccounted'
  BY <1>0, <1>2, OneJobSteps DEF Enqueue
<1>3. ASSUME NEW j \in Jobs, Progress(j) PROVE EntriesAccounted'
  <2>1. CASE ProcessTask(j)
    BY <1>0, <2>1, OneJobSteps DEF ProcessTask
  <2>2. CASE BeginTx(j)
    <3>1. PICK e \in todo[j] :
            /\ todo' = [todo EXCEPT ![j] = @ \ {e}] /\ cur' = [cur EXCEPT ![j] = e]
            /\ Goto(j, IF e.chain \in cRows THEN "updateChain" ELSE "insertChain")
      BY <2>2 DEF BeginTx
    <3>2. /\ pc[j] = "chains" /\ UNCHANGED <<feed, failed, done>>
          /\ pc'[j] \in {"insertChain", "updateChain"}
          /\ todo'[j] = todo[j] \ {e} /\ cur'[j] = e
      BY <2>2, <3>1 DEF BeginTx
    <3>3. \/ failed[j]
          \/ ~feed[j].malformed /\ feed[j].entries = done[j] \cup todo[j]
      BY <1>0, <3>2
    <3>4. Accounted(j)'
      BY <3>2, <3>3
    <3> QED
      BY <3>1, <3>2, <3>4, OneJobSteps
  <2>3. CASE WriteChain(j)
    <3>1. /\ UNCHANGED <<feed, todo, failed, done, cur>>
          /\ pc' = [pc EXCEPT ![j] = "tokens"] /\ pc[j] \in {"insertChain", "updateChain"}
      BY <2>3 DEF WriteChain
    <3>2. pc'[j] = "tokens"
      BY <3>1
    <3>3. Accounted(j)'
      BY <1>0, <3>1, <3>2
    <3> QED
      BY <3>1, <3>3, OneJobSteps
  <2>4. CASE RejectChain(j)
    BY <1>0, <2>4, OneJobSteps DEF RejectChain, Rollback, Forget
  <2>5. CASE UpsertRelayToken(j)
    BY <1>0, <2>5, OneJobSteps DEF UpsertRelayToken
  <2>6. CASE KeepExistingID(j)
    BY <1>0, <2>6, OneJobSteps DEF KeepExistingID
  <2>7. CASE RejectToken(j)
    BY <1>0, <2>7, OneJobSteps DEF RejectToken, Rollback, Forget
  <2>8. CASE CommitChain(j)
    <3>1. /\ pc[j] = "tokens" /\ pc'[j] = "chains" /\ UNCHANGED <<feed, todo, failed>>
          /\ done'[j] = done[j] \cup {cur[j]}
      BY <2>8 DEF CommitChain, Commit
    <3>2. \/ failed[j]
          \/ /\ ~feed[j].malformed
             /\ feed[j].entries = done[j] \cup todo[j] \cup {cur[j]}
      BY <1>0, <3>1
    <3>3. Accounted(j)'
      BY <3>1, <3>2
    <3> QED
      BY <2>8, <3>3, OneJobSteps DEF CommitChain, Commit, Forget
  <2>9. CASE MarkMissingChainsUnsupported(j)
    BY <1>0, <2>9, OneJobSteps DEF MarkMissingChainsUnsupported
  <2>10. CASE ReadUnsupportedChains(j)
    BY <1>0, <2>10, OneJobSteps DEF ReadUnsupportedChains
  <2>11. CASE MarkTokensByChainSupport(j)
    BY <1>0, <2>11, OneJobSteps DEF MarkTokensByChainSupport
  <2>12. CASE WriteTaskLog(j)
    BY <1>0, <2>12, OneJobSteps DEF WriteTaskLog, EndRun, Forget
  <2> QED
    BY <1>3, <2>1, <2>2, <2>3, <2>4, <2>5, <2>6, <2>7, <2>8, <2>9, <2>10, <2>11,
       <2>12 DEF Progress
<1>4. ASSUME NEW j \in Jobs, Failure(j) PROVE EntriesAccounted'
  <2>1. CASE EnsureTaskIDFails(j) \/ FetchFails(j) \/ Archive(j)
    BY <1>0, <2>1, OneJobSteps DEF EnsureTaskIDFails, FetchFails, Archive
  <2>2. CASE BeginTxFails(j)
    BY <1>0, <2>2, OneJobSteps DEF BeginTxFails
  <2>3. CASE FailChain(j) \/ FailRun(j)
    <3>1. CASE FailChain(j)
      <4>1. /\ failed' = [failed EXCEPT ![j] = TRUE] /\ pc' = [pc EXCEPT ![j] = "chains"]
            /\ cur' = [cur EXCEPT ![j] = NoEntry] /\ UNCHANGED <<feed, todo, done>>
        BY <3>1 DEF FailChain, Rollback, Forget
      <4>2. pc'[j] = "chains" /\ failed'[j]
        BY <4>1
      <4>3. Accounted(j)'
        BY <4>2
      <4> QED
        BY <4>1, <4>3, OneJobSteps
    <3>2. CASE FailRun(j)
      BY <1>0, <3>2, OneJobSteps DEF FailRun, Rollback, Forget
    <3> QED
      BY <2>3, <3>1, <3>2
  <2>4. CASE WriteTaskLogFails(j) \/ Crash(j)
    <3>1. EndRun(j, "retry")
      BY <2>4 DEF WriteTaskLogFails, Crash
    <3>2. /\ pc' = [pc EXCEPT ![j] = "retry"] /\ feed' = [feed EXCEPT ![j] = NoFeed]
          /\ todo' = [todo EXCEPT ![j] = {}] /\ failed' = [failed EXCEPT ![j] = FALSE]
          /\ done' = [done EXCEPT ![j] = {}] /\ cur' = [cur EXCEPT ![j] = NoEntry]
      BY <3>1, Zenon DEF EndRun, Forget
    <3>3. pc'[j] = "retry" /\ done'[j] = {}
      BY <3>2
    <3>4. Accounted(j)'
      BY <3>3
    <3> QED
      BY <3>2, <3>4, OneJobSteps
  <2>5. CASE CommitUnanswered(j)
    BY <1>0, <2>5, OneJobSteps DEF CommitUnanswered, Commit, Forget
  <2> QED
    BY <1>4, <2>1, <2>2, <2>3, <2>4, <2>5 DEF Failure
<1>5. CASE RelayChanges
  BY <1>5 DEF RelayChanges, EntriesAccounted
<1>6. ASSUME NEW c \in Chains, SetEnabled(c) PROVE EntriesAccounted'
  BY <1>6 DEF SetEnabled, EntriesAccounted
<1> QED
  BY <1>1, <1>2, <1>3, <1>4, <1>5, <1>6 DEF Next

(* No entry of the feed is lost while sync goes from chain to chain. *)
THEOREM NoEntryIsLost == Spec => []EntriesAccounted
  BY InitType, StepType, InitAccounted, StepAccounted, PTL DEF Spec

(* A run that reports success has committed every chain of its feed.       *)
THEOREM HonestSuccess == Spec => []SuccessIsHonest
<1>1. TypeOK /\ EntriesAccounted => SuccessIsHonest
  <2> SUFFICES ASSUME EntriesAccounted, NEW j \in Jobs, pc[j] = "log", ~failed[j]
               PROVE  ~feed[j].malformed /\ done[j] = feed[j].entries
    BY DEF SuccessIsHonest
  <2>1. ~InTx(j)
    BY DEF InTx
  <2>2. /\ ~feed[j].malformed /\ todo[j] = {}
        /\ feed[j].entries = done[j] \cup todo[j] \cup {}
    BY <2>1 DEF EntriesAccounted, Accounted
  <2> QED
    BY <2>2
<1> QED
  BY <1>1, InitType, StepType, InitAccounted, StepAccounted, PTL DEF Spec

-----------------------------------------------------------------------------
(* One job on a database that aborts a transaction after an error: what    *)
(* the run has in hand comes from a feed, its transaction has written what *)
(* is no longer pending as the entry says, and what it has read of the     *)
(* unsupported chains is still so, for nobody else can support one.        *)

OneJob == \A i, j \in Jobs : i = j

FromAFeed(e) == \E f \in Feeds : e \in f.entries

FollowsFeed(j) ==
    /\ \A e \in todo[j] : FromAFeed(e)
    /\ InTx(j) => FromAFeed(cur[j])
    /\ pc[j] = "tokens" => \A t \in Offered(cur[j]) \ pend[j] :
         t \in live[j] /\ rows[j][t] = cur[j].tokens[t]
    /\ pc[j] = "clear" => unsup[j] \cap cSupported = {}

AloneInv == SupportedChainsMirrorAFeed /\ \A j \in Jobs : FollowsFeed(j)

(* A write that withdraws chains, or tokens of others, keeps the mirrors. *)
LEMMA MirrorKept ==
  ASSUME NEW c \in Chains, NEW e \in Entry, Mirrors(c, e),
         c \in cSupported <=> c \in cSupported',
         tSupported'[c] = tSupported[c], tAddress'[c] = tAddress[c]
  PROVE  Mirrors(c, e)'
  BY DEF Mirrors

LEMMA MirrorsKept ==
  ASSUME SupportedChainsMirrorAFeed, TypeOK, tAddress' = tAddress,
         cSupported' \subseteq cSupported,
         \A c \in cSupported' : tSupported'[c] = tSupported[c]
  PROVE  SupportedChainsMirrorAFeed'
<1> SUFFICES ASSUME NEW c \in cSupported'
             PROVE  \E f \in Feeds : \E e \in f.entries : Mirrors(c, e)'
  BY DEF SupportedChainsMirrorAFeed
<1>1. PICK f \in Feeds : \E e \in f.entries : Mirrors(c, e)
  BY DEF SupportedChainsMirrorAFeed
<1>2. PICK e \in f.entries : Mirrors(c, e)
  BY <1>1
<1>3. c \in Chains /\ e \in Entry
  BY FeedsAssumption DEF Feed, TypeOK, Catalog!CatalogTypeOK
<1>4. Mirrors(c, e)'
  BY <1>2, <1>3, MirrorKept
<1> QED
  BY <1>4

(* A commit makes its chain a mirror of its entry. *)
LEMMA CommitMirrors ==
  ASSUME TypeOK, NEW j \in Jobs, FollowsFeed(j), Commit(j), NEW e, e = cur[j]
  PROVE  /\ e \in Entry /\ e.chain \in Chains
         /\ Mirrors(e.chain, e)'
         /\ \A c \in Chains \ {e.chain} :
              /\ c \in cSupported <=> c \in cSupported'
              /\ tSupported'[c] = tSupported[c] /\ tAddress'[c] = tAddress[c]
<1> DEFINE c == e.chain
<1>1. pc[j] = "tokens" /\ pend[j] = {} /\ e \in Entry /\ c \in Chains
  BY DEF Commit, TypeOK, InTx, Entry
<1>2. /\ cSupported' = IF e.disabled THEN cSupported \ {c} ELSE cSupported \cup {c}
      /\ tAddress' = [tAddress EXCEPT ![c] = rows[j]]
      /\ tSupported' = [tSupported EXCEPT ![c] = live[j] \cap Offered(e)]
  BY DEF Commit
<1>3. /\ tAddress'[c] = rows[j] /\ tSupported'[c] = live[j] \cap Offered(e)
      /\ \A d \in Chains \ {c} : tAddress'[d] = tAddress[d] /\ tSupported'[d] = tSupported[d]
  BY <1>1, <1>2 DEF TypeOK, Catalog!CatalogTypeOK
<1>4. \A t \in Offered(e) : t \in live[j] /\ rows[j][t] = e.tokens[t]
  BY <1>1 DEF FollowsFeed
<1>5. tSupported'[c] = Offered(e) /\ \A t \in Offered(e) : tAddress'[c][t] = e.tokens[t]
  BY <1>3, <1>4
<1>6. c \in cSupported' <=> ~e.disabled
  BY <1>2
<1>7. Mirrors(c, e)'
  BY <1>5, <1>6 DEF Mirrors
<1> QED
  BY <1>1, <1>2, <1>3, <1>7

LEMMA CommitKeepsMirrors ==
  ASSUME TypeOK, SupportedChainsMirrorAFeed, NEW j \in Jobs, FollowsFeed(j), Commit(j)
  PROVE  SupportedChainsMirrorAFeed'
<1> SUFFICES ASSUME NEW c \in cSupported'
             PROVE  \E f \in Feeds : \E d \in f.entries : Mirrors(c, d)'
  BY DEF SupportedChainsMirrorAFeed
<1>0. pc[j] = "tokens" /\ FromAFeed(cur[j]) /\ c \in Chains
  BY DEF Commit, FollowsFeed, InTx, TypeOK, Catalog!CatalogTypeOK, Entry
<1>1. PICK d : d = cur[j]
  OBVIOUS
<1>2. /\ d \in Entry /\ Mirrors(d.chain, d)'
      /\ \A b \in Chains \ {d.chain} :
           /\ b \in cSupported <=> b \in cSupported'
           /\ tSupported'[b] = tSupported[b] /\ tAddress'[b] = tAddress[b]
  BY <1>1, CommitMirrors
<1>3. CASE c = d.chain
  BY <1>0, <1>1, <1>2, <1>3 DEF FromAFeed
<1>4. CASE c # d.chain
  <2>1. c \in cSupported
    BY <1>0, <1>2, <1>4
  <2>2. PICK f \in Feeds : \E b \in f.entries : Mirrors(c, b)
    BY <2>1 DEF SupportedChainsMirrorAFeed
  <2>3. PICK b \in f.entries : Mirrors(c, b)
    BY <2>2
  <2>4. b \in Entry
    BY FeedsAssumption DEF Feed
  <2>5. Mirrors(c, b)'
    BY <1>0, <1>2, <1>4, <2>3, <2>4, MirrorKept
  <2> QED
    BY <2>5
<1> QED
  BY <1>3, <1>4

LEMMA InitAlone == Init => AloneInv
  BY DEF Init, Catalog!Init, AloneInv, SupportedChainsMirrorAFeed, FollowsFeed, InTx

(* The steps of the only job. *)
LEMMA ProgressAlone ==
  ASSUME AbortsOnError, OneJob, TypeOK, AloneInv, NEW j \in Jobs, Progress(j)
  PROVE  AloneInv'
<1>0. SupportedChainsMirrorAFeed /\ FollowsFeed(j) /\ \A i \in Jobs : i = j
  BY DEF AloneInv, OneJob
<1> SUFFICES SupportedChainsMirrorAFeed' /\ FollowsFeed(j)'
  BY <1>0 DEF AloneInv
<1> USE DEF Goto, InTx
<1>1. CASE ProcessTask(j)
  <2>1. UNCHANGED catalog /\ pc'[j] = "chains" /\ todo'[j] = relay.entries /\ relay \in Feeds
    BY <1>1 DEF ProcessTask, TypeOK
  <2> QED
    BY <1>0, <2>1, MirrorsKept DEF catalog, FollowsFeed, FromAFeed, TypeOK, Catalog!CatalogTypeOK
<1>2. CASE BeginTx(j)
  <2>1. PICK e \in todo[j] :
          /\ todo' = [todo EXCEPT ![j] = @ \ {e}] /\ cur' = [cur EXCEPT ![j] = e]
          /\ pc' = [pc EXCEPT ![j] = IF e.chain \in cRows THEN "updateChain" ELSE "insertChain"]
    BY <1>2 DEF BeginTx
  <2>2. /\ UNCHANGED catalog /\ pc'[j] \in {"insertChain", "updateChain"}
        /\ todo'[j] \subseteq todo[j] /\ cur'[j] = e
    BY <1>2, <2>1 DEF BeginTx, TypeOK
  <2> QED
    BY <1>0, <2>2, MirrorsKept DEF catalog, FollowsFeed
<1>3. CASE WriteChain(j)
  <2>1. /\ UNCHANGED <<catalog, todo, cur>> /\ pc[j] \in {"insertChain", "updateChain"}
        /\ pc'[j] = "tokens" /\ pend'[j] = Offered(cur[j])
    BY <1>3 DEF WriteChain, TypeOK
  <2> QED
    BY <1>0, <2>1, MirrorsKept DEF catalog, FollowsFeed, Offered
<1>4. CASE RejectChain(j) \/ RejectToken(j)
  <2>1. UNCHANGED <<catalog, todo>> /\ pc'[j] = "chains"
    BY <1>4 DEF RejectChain, RejectToken, Rollback, TypeOK
  <2> QED
    BY <1>0, <2>1, MirrorsKept DEF catalog, FollowsFeed
<1>5. CASE UpsertRelayToken(j)
  <2>1. PICK t \in TokenIDs :
          /\ rows' = [rows EXCEPT ![j][t] = cur[j].tokens[t]]
          /\ live' = [live EXCEPT ![j] = @ \cup {t}]
          /\ pend' = [pend EXCEPT ![j] = @ \ {t}]
    BY <1>5 DEF UpsertRelayToken
  <2>2. UNCHANGED <<catalog, pc, todo, cur>> /\ pc[j] = "tokens" /\ cur[j] \in Entry
    BY <1>5 DEF UpsertRelayToken, runVars, TypeOK
  <2>3. /\ rows'[j][t] = cur[j].tokens[t] /\ live'[j] = live[j] \cup {t}
        /\ pend'[j] = pend[j] \ {t}
        /\ \A u \in TokenIDs \ {t} : rows'[j][u] = rows[j][u]
    BY <2>1 DEF TypeOK, Listing, Catalog!Listing
  <2>4. Offered(cur[j]) \subseteq TokenIDs
    BY DEF Offered, Listed, Catalog!Listed
  <2>5. \A u \in Offered(cur[j]) \ pend'[j] : u \in live'[j] /\ rows'[j][u] = cur[j].tokens[u]
    BY <1>0, <2>2, <2>3, <2>4 DEF FollowsFeed
  <2>6. FollowsFeed(j)'
    BY <1>0, <2>2, <2>5 DEF FollowsFeed, Offered
  <2> QED
    BY <1>0, <2>2, <2>6, MirrorsKept DEF catalog
<1>6. CASE KeepExistingID(j)
  BY <1>6 DEF KeepExistingID
<1>7. CASE CommitChain(j)
  <2>1. Commit(j)
    BY <1>7 DEF CommitChain
  <2>2. todo' = todo /\ pc'[j] = "chains"
    BY <2>1 DEF Commit, TypeOK
  <2> QED
    BY <1>0, <2>1, <2>2, CommitKeepsMirrors DEF FollowsFeed
<1>8. CASE MarkMissingChainsUnsupported(j)
  <2>1. /\ UNCHANGED <<tAddress, tSupported, todo>> /\ pc'[j] = "sweep"
        /\ cSupported' \subseteq cSupported
    BY <1>8 DEF MarkMissingChainsUnsupported, runVars, TypeOK
  <2> QED
    BY <1>0, <2>1, MirrorsKept DEF FollowsFeed
<1>9. CASE ReadUnsupportedChains(j)
  <2>1. UNCHANGED <<catalog, todo>> /\ pc'[j] \in {"log", "clear"}
        /\ unsup'[j] = cRows \ cSupported
    BY <1>9 DEF ReadUnsupportedChains, TypeOK
  <2> QED
    BY <1>0, <2>1, MirrorsKept DEF catalog, FollowsFeed
<1>10. CASE MarkTokensByChainSupport(j)
  <2>1. /\ UNCHANGED <<cSupported, tAddress, todo>> /\ pc[j] = "clear" /\ pc'[j] = "log"
        /\ tSupported' = [c \in Chains |-> IF c \in unsup[j] THEN {} ELSE tSupported[c]]
    BY <1>10 DEF MarkTokensByChainSupport, TypeOK
  <2>2. \A c \in cSupported' : tSupported'[c] = tSupported[c]
    BY <1>0, <2>1 DEF FollowsFeed, TypeOK, Catalog!CatalogTypeOK
  <2> QED
    BY <1>0, <2>1, <2>2, MirrorsKept DEF FollowsFeed
<1>11. CASE WriteTaskLog(j)
  <2>1. UNCHANGED catalog /\ pc'[j] \in {"retry", "idle"} /\ todo'[j] = {}
    BY <1>11 DEF WriteTaskLog, EndRun, TypeOK
  <2> QED
    BY <1>0, <2>1, MirrorsKept DEF catalog, FollowsFeed
<1> QED
  BY <1>1, <1>2, <1>3, <1>4, <1>5, <1>6, <1>7, <1>8, <1>9, <1>10, <1>11 DEF Progress

LEMMA FailureAlone ==
  ASSUME OneJob, TypeOK, AloneInv, NEW j \in Jobs, Failure(j)
  PROVE  AloneInv'
<1>0. SupportedChainsMirrorAFeed /\ FollowsFeed(j) /\ \A i \in Jobs : i = j
  BY DEF AloneInv, OneJob
<1> SUFFICES SupportedChainsMirrorAFeed' /\ FollowsFeed(j)'
  BY <1>0 DEF AloneInv
<1> USE DEF Goto, InTx
<1>1. CASE CommitUnanswered(j)
  <2>1. Commit(j)
    BY <1>1 DEF CommitUnanswered
  <2>2. todo' = todo /\ pc'[j] = "chains"
    BY <2>1 DEF Commit, TypeOK
  <2> QED
    BY <1>0, <2>1, <2>2, CommitKeepsMirrors DEF FollowsFeed
<1>2. CASE ~CommitUnanswered(j)
  <2>1. UNCHANGED catalog /\ todo'[j] \subseteq todo[j]
    BY <1>2 DEF Failure, EnsureTaskIDFails, FetchFails, BeginTxFails, FailChain, Rollback,
       FailRun, WriteTaskLogFails, Crash, EndRun, Archive, runVars, TypeOK
  <2>2. pc'[j] \in {"retry", "log", "chains", "idle"}
    BY <1>2 DEF Failure, EnsureTaskIDFails, FetchFails, BeginTxFails, FailChain, Rollback,
       FailRun, WriteTaskLogFails, Crash, EndRun, Archive, TypeOK
  <2> QED
    BY <1>0, <2>1, <2>2, MirrorsKept DEF catalog, FollowsFeed
<1> QED
  BY <1>1, <1>2

LEMMA StepAlone ==
  ASSUME AbortsOnError, OneJob
  PROVE  TypeOK /\ AloneInv /\ [Next]_vars => AloneInv'
<1> SUFFICES ASSUME TypeOK, AloneInv, [Next]_vars PROVE AloneInv'
  OBVIOUS
<1>1. ASSUME UNCHANGED <<cSupported, tAddress, tSupported, todo, cur, live, rows, pend, unsup>>,
             \A j \in Jobs : pc'[j] = pc[j] \/ pc'[j] = "queued"
      PROVE  AloneInv'
  <2>1. SupportedChainsMirrorAFeed'
    BY <1>1, MirrorsKept DEF AloneInv
  <2>2. \A j \in Jobs : FollowsFeed(j)'
    BY <1>1 DEF AloneInv, FollowsFeed, InTx, Offered
  <2> QED
    BY <2>1, <2>2 DEF AloneInv
<1>2. CASE UNCHANGED vars
  BY <1>1, <1>2 DEF vars, catalog, runVars, txVars
<1>3. ASSUME NEW j \in Jobs, Enqueue(j) PROVE AloneInv'
  BY <1>1, <1>3 DEF Enqueue, Goto, TypeOK, catalog, runVars, txVars
<1>4. ASSUME NEW j \in Jobs, Progress(j) PROVE AloneInv'
  BY <1>4, ProgressAlone
<1>5. ASSUME NEW j \in Jobs, Failure(j) PROVE AloneInv'
  BY <1>5, FailureAlone
<1>6. CASE RelayChanges
  BY <1>1, <1>6 DEF RelayChanges, catalog, runVars, txVars
<1>7. ASSUME NEW c \in Chains, SetEnabled(c) PROVE AloneInv'
  BY <1>1, <1>7 DEF SetEnabled, runVars, txVars
<1> QED
  BY <1>2, <1>3, <1>4, <1>5, <1>6, <1>7 DEF Next

(* While the runs do not overlap, and where KeepExistingID cannot be       *)
(* reached, a supported chain offers what one feed listed for it, whatever *)
(* fails.                                                                  *)
THEOREM MirrorsAFeed ==
  ASSUME AbortsOnError, OneJob
  PROVE  Spec => []SupportedChainsMirrorAFeed
<1>1. AloneInv => SupportedChainsMirrorAFeed
  BY DEF AloneInv
<1>2. TypeOK /\ AloneInv /\ [Next]_vars => AloneInv'
  BY StepAlone
<1> QED
  BY <1>1, <1>2, InitType, StepType, InitAlone, PTL DEF Spec

-----------------------------------------------------------------------------
(* What a run on its own leaves: while it has counted no failure, the      *)
(* chains it has committed are what its entries say, and after the         *)
(* withdrawal no chain is supported that the feed has not.                 *)

Leaves(j) ==
    ~failed[j] /\ NoDuplicates(feed[j]) =>
        /\ \A e \in done[j] : Mirrors(e.chain, e)
        /\ pc[j] \in {"sweep", "clear", "log"} /\ feed[j].entries # {} =>
             cSupported \subseteq {e.chain : e \in feed[j].entries}

LeavesInv == \A j \in Jobs : Leaves(j)

LEMMA InitLeaves == Init => LeavesInv
  BY DEF Init, LeavesInv, Leaves

(* Steps that write no table, and leave a run that goes on its entries. *)
LEMMA LeavesKept ==
  ASSUME TypeOK, NEW j \in Jobs, Leaves(j),
         UNCHANGED <<cSupported, tAddress, tSupported>>,
         \/ failed'[j]
         \/ done'[j] = {} /\ pc'[j] \notin {"sweep", "clear", "log"}
         \/ /\ failed'[j] = failed[j] /\ feed'[j] = feed[j] /\ done'[j] = done[j]
            /\ pc'[j] \in {"sweep", "clear", "log"} => pc[j] \in {"sweep", "clear", "log"}
  PROVE  Leaves(j)'
<1>1. CASE failed'[j]
  BY <1>1 DEF Leaves
<1>2. CASE done'[j] = {} /\ pc'[j] \notin {"sweep", "clear", "log"}
  BY <1>2 DEF Leaves
<1>3. CASE /\ failed'[j] = failed[j] /\ feed'[j] = feed[j] /\ done'[j] = done[j]
           /\ pc'[j] \in {"sweep", "clear", "log"} => pc[j] \in {"sweep", "clear", "log"}
  BY <1>3 DEF Leaves, NoDuplicates, Mirrors, Offered
<1> QED
  BY <1>1, <1>2, <1>3

LEMMA CommitLeavesMirrors ==
  ASSUME TypeOK, NEW j \in Jobs, Leaves(j), FollowsFeed(j), Accounted(j), CommitChain(j)
  PROVE  Leaves(j)'
<1>1. /\ Commit(j) /\ done' = [done EXCEPT ![j] = @ \cup {cur[j]}]
      /\ UNCHANGED <<failed, feed>>
  BY DEF CommitChain, Commit
<1>2. pc[j] = "tokens" /\ pc'[j] = "chains" /\ done'[j] = done[j] \cup {cur[j]}
  BY <1>1 DEF Commit, Goto, TypeOK
<1> SUFFICES ASSUME ~failed[j], NoDuplicates(feed[j]), NEW e \in done[j] \cup {cur[j]}
             PROVE  Mirrors(e.chain, e)'
  BY <1>1, <1>2 DEF Leaves, NoDuplicates
<1>3. PICK d : d = cur[j]
  OBVIOUS
<1>4. /\ d \in Entry /\ Mirrors(d.chain, d)'
      /\ \A b \in Chains \ {d.chain} :
           /\ b \in cSupported <=> b \in cSupported'
           /\ tSupported'[b] = tSupported[b] /\ tAddress'[b] = tAddress[b]
  BY <1>1, <1>3, CommitMirrors
<1>5. d \in feed[j].entries /\ e \in feed[j].entries
  BY <1>2, <1>3 DEF Accounted, InTx
<1>6. CASE e.chain = d.chain
  <2>1. e = d
    BY <1>5, <1>6 DEF NoDuplicates
  <2> QED
    BY <2>1, <1>4
<1>7. CASE e.chain # d.chain
  <2>1. e \in Entry /\ e.chain \in Chains /\ Mirrors(e.chain, e)
    BY <1>3, <1>7 DEF TypeOK, Entry, Leaves
  <2> QED
    BY <2>1, <1>4, <1>7, MirrorKept
<1> QED
  BY <1>6, <1>7

(* The two statements of the withdrawal take nothing from the chains of    *)
(* the feed: what the second clears has no token on offer.                 *)
LEMMA SweepLeaves ==
  ASSUME TypeOK, NEW j \in Jobs, Leaves(j), Accounted(j), MarkMissingChainsUnsupported(j)
  PROVE  Leaves(j)'
<1>1. /\ pc[j] = "chains" /\ todo[j] = {} /\ UNCHANGED <<tAddress, tSupported, failed, feed, done>>
      /\ \/ FetchedChainIDs(j) = {}
         \/ cSupported' = cSupported \cap FetchedChainIDs(j)
  BY DEF MarkMissingChainsUnsupported, runVars
<1>2. FetchedChainIDs(j) = {e.chain : e \in feed[j].entries}
  BY <1>1 DEF FetchedChainIDs
<1> SUFFICES ASSUME ~failed[j], NoDuplicates(feed[j])
             PROVE  /\ \A e \in done[j] : Mirrors(e.chain, e)'
                    /\ feed[j].entries # {} => cSupported' \subseteq FetchedChainIDs(j)
  BY <1>1, <1>2 DEF Leaves, NoDuplicates
<1>3. done[j] = feed[j].entries /\ done[j] \subseteq Entry
  BY <1>1 DEF Accounted, InTx, TypeOK
<1>4. feed[j].entries # {} => cSupported' = cSupported \cap FetchedChainIDs(j)
  BY <1>1, <1>2
<1>5. ASSUME NEW e \in done[j] PROVE Mirrors(e.chain, e)'
  <2>1. e \in Entry /\ e.chain \in Chains /\ e.chain \in FetchedChainIDs(j)
    BY <1>2, <1>3 DEF Entry
  <2>2. Mirrors(e.chain, e)
    BY DEF Leaves
  <2>3. e.chain \in cSupported <=> e.chain \in cSupported'
    BY <1>3, <1>4, <2>1
  <2> QED
    BY <1>1, <2>1, <2>2, <2>3, MirrorKept
<1> QED
  BY <1>4, <1>5

LEMMA ClearLeaves ==
  ASSUME TypeOK, NEW j \in Jobs, Leaves(j), FollowsFeed(j), MarkTokensByChainSupport(j)
  PROVE  Leaves(j)'
<1>1. /\ pc[j] = "clear" /\ UNCHANGED <<cSupported, tAddress, failed, feed, done>>
      /\ tSupported' = [c \in Chains |-> IF c \in unsup[j] THEN {} ELSE tSupported[c]]
      /\ unsup[j] \cap cSupported = {}
  BY DEF MarkTokensByChainSupport, FollowsFeed
<1> SUFFICES ASSUME ~failed[j], NoDuplicates(feed[j]), NEW e \in done[j]
             PROVE  Mirrors(e.chain, e)'
  BY <1>1 DEF Leaves, NoDuplicates
<1>2. e \in Entry /\ e.chain \in Chains /\ Mirrors(e.chain, e)
  BY DEF TypeOK, Entry, Leaves
<1>3. tSupported'[e.chain] = tSupported[e.chain]
  <2>1. CASE e.chain \in unsup[j]
    <3>1. tSupported[e.chain] = {}
      BY <1>1, <1>2, <2>1 DEF Mirrors, Offered
    <3> QED
      BY <1>1, <1>2, <2>1, <3>1
  <2> QED
    BY <1>1, <1>2, <2>1
<1> QED
  BY <1>1, <1>2, <1>3, MirrorKept

LEMMA StepLeaves ==
  ASSUME OneJob
  PROVE  TypeOK /\ EntriesAccounted /\ AloneInv /\ LeavesInv /\ [Next]_vars => LeavesInv'
<1> SUFFICES ASSUME TypeOK, EntriesAccounted, AloneInv, LeavesInv, [Next]_vars
             PROVE  LeavesInv'
  OBVIOUS
<1>0. /\ \A i, j \in Jobs : i = j
      /\ \A j \in Jobs : Leaves(j) /\ FollowsFeed(j) /\ Accounted(j)
  BY DEF OneJob, LeavesInv, AloneInv, EntriesAccounted, Accounted
<1>1. ASSUME UNCHANGED <<cSupported, tAddress, tSupported, pc, failed, feed, done>> PROVE LeavesInv'
  BY <1>0, <1>1, LeavesKept DEF LeavesInv
<1>2. CASE UNCHANGED vars
  BY <1>1, <1>2 DEF vars, catalog, runVars
<1>3. CASE RelayChanges
  BY <1>1, <1>3 DEF RelayChanges, catalog, runVars
<1>4. ASSUME NEW c \in Chains, SetEnabled(c) PROVE LeavesInv'
  BY <1>1, <1>4 DEF SetEnabled, runVars
<1>5. ASSUME NEW j \in Jobs, Enqueue(j) \/ Progress(j) \/ Failure(j) PROVE LeavesInv'
  <2> SUFFICES Leaves(j)'
    BY <1>0 DEF LeavesInv
  <2>0. Leaves(j) /\ FollowsFeed(j) /\ Accounted(j)
    BY <1>0
  <2> USE DEF Goto, TypeOK
  <2>1. CASE Enqueue(j) \/ ProcessTask(j) \/ EnsureTaskIDFails(j) \/ Archive(j)
    <3>1. /\ UNCHANGED <<cSupported, tAddress, tSupported>> /\ done'[j] = {}
          /\ pc'[j] \notin {"sweep", "clear", "log"}
      BY <2>0, <2>1 DEF Enqueue, ProcessTask, EnsureTaskIDFails, Archive, Accounted,
         catalog, runVars
    <3> QED
      BY <2>0, <3>1, LeavesKept
  <2>2. CASE \/ RejectChain(j) \/ RejectToken(j) \/ FetchFails(j) \/ BeginTxFails(j)
             \/ FailChain(j) \/ FailRun(j) \/ CommitUnanswered(j)
    <3>1. failed'[j]
      BY <2>2 DEF RejectChain, RejectToken, FetchFails, BeginTxFails, FailChain, FailRun,
         CommitUnanswered, Rollback
    <3> QED
      BY <3>1 DEF Leaves
  <2>3. CASE WriteTaskLog(j) \/ WriteTaskLogFails(j) \/ Crash(j)
    <3>1. /\ UNCHANGED <<cSupported, tAddress, tSupported>> /\ done'[j] = {}
          /\ pc'[j] \notin {"sweep", "clear", "log"}
      BY <2>3 DEF WriteTaskLog, WriteTaskLogFails, Crash, EndRun, catalog
    <3> QED
      BY <2>0, <3>1, LeavesKept
  <2>4. CASE \/ BeginTx(j) \/ WriteChain(j) \/ UpsertRelayToken(j) \/ KeepExistingID(j)
             \/ ReadUnsupportedChains(j)
    <3>1. /\ UNCHANGED <<cSupported, tAddress, tSupported>>
          /\ failed'[j] = failed[j] /\ feed'[j] = feed[j] /\ done'[j] = done[j]
          /\ pc'[j] \in {"sweep", "clear", "log"} => pc[j] \in {"sweep", "clear", "log"}
      BY <2>4 DEF BeginTx, WriteChain, UpsertRelayToken, KeepExistingID,
         ReadUnsupportedChains, catalog, runVars
    <3> QED
      BY <2>0, <3>1, LeavesKept
  <2>5. CASE CommitChain(j)
    BY <2>0, <2>5, CommitLeavesMirrors
  <2>6. CASE MarkMissingChainsUnsupported(j)
    BY <2>0, <2>6, SweepLeaves
  <2>7. CASE MarkTokensByChainSupport(j)
    BY <2>0, <2>7, ClearLeaves
  <2> QED
    BY <1>5, <2>1, <2>2, <2>3, <2>4, <2>5, <2>6, <2>7 DEF Progress, Failure
<1> QED
  BY <1>2, <1>3, <1>4, <1>5 DEF Next

(* When a run on its own reports success, the tables are the feed. *)
THEOREM SuccessLeavesTheFeed ==
  ASSUME AbortsOnError, OneJob
  PROVE  Spec => []SuccessMirrorsFeed
<1>1. TypeOK /\ EntriesAccounted /\ LeavesInv => SuccessMirrorsFeed
  <2> SUFFICES ASSUME TypeOK, EntriesAccounted, LeavesInv, NEW j \in Jobs, pc[j] = "log",
                      ~failed[j], NoDuplicates(feed[j]), feed[j].entries # {}
               PROVE  IsMirrored(feed[j])
    BY DEF SuccessMirrorsFeed
  <2>1. done[j] = feed[j].entries
    BY DEF EntriesAccounted, Accounted, InTx
  <2>2. \A e \in feed[j].entries : Mirrors(e.chain, e)
    BY <2>1 DEF LeavesInv, Leaves
  <2>3. cSupported \subseteq {e.chain : e \in feed[j].entries}
    BY DEF LeavesInv, Leaves
  <2>4. \A e \in feed[j].entries : e.chain \in cSupported <=> ~e.disabled
    BY <2>2 DEF Mirrors
  <2>5. cSupported = {e.chain : e \in {d \in feed[j].entries : ~d.disabled}}
    BY <2>3, <2>4
  <2> QED
    BY <2>2, <2>5 DEF IsMirrored
<1>2. TypeOK /\ AloneInv /\ [Next]_vars => AloneInv'
  BY StepAlone
<1>3. TypeOK /\ EntriesAccounted /\ AloneInv /\ LeavesInv /\ [Next]_vars => LeavesInv'
  BY StepLeaves
<1> QED
  BY <1>1, <1>2, <1>3, InitType, StepType, InitAccounted, StepAccounted, InitAlone,
     InitLeaves, PTL DEF Spec

-----------------------------------------------------------------------------
(* RelayFeed, for any texts, any elements and lists of any length: what    *)
(* the merge has made of the elements so far is what the reference says of *)
(* them.                                                                   *)


Row == [list : 1 .. 3, element : Elements]

(* merged has exactly the ids that have sources. *)
HasSources == \A id \in FeedIDs : merged[id] # NoToken <=> Sources(id) # {}

FeedInv == FeedTypeOK /\ HasSources /\ FirstAddressStays /\ DecimalsAreKnown /\ FlagsTellTheLists

-----------------------------------------------------------------------------
(* The four conditions of isEffectiveRelayToken come to SwitchedOn. *)
LEMMA EffectiveIsOn ==
  ASSUME NEW e \in Element
  PROVE  isEffectiveRelayToken(e) <=> SwitchedOn(e)
  BY DEF Element, Value, isEffectiveRelayToken, SwitchedOn, Exists, getBoolValue

(* A usable element has an id and an address. *)
LEMMA UsableElement ==
  ASSUME NEW e \in Elements, Usable(e)
  PROVE  /\ TokenID(e) \in FeedIDs
         /\ normalizeAddress[e.address] \in FeedIDs
         /\ e.decimals \in Int
<1>1. e \in Element
  BY ElementsAssumption
<1>2. e.id \in Texts /\ e.address \in Texts /\ e.decimals \in Int
  BY <1>1 DEF Element
<1>3. normalizeAddress[e.address] \in Texts /\ normalizeAddress[e.address] # Empty
  BY <1>2, TextsAssumption DEF Usable
<1> QED
  BY <1>2, <1>3 DEF TokenID, FeedIDs

(* One turn of the loop adds one place to the sources of one id, or none. *)
LEMMA SourcesGrow ==
  ASSUME FeedTypeOK, NEW e \in Elements, MergeElement(e), NEW id \in FeedIDs
  PROVE  /\ Sources(id) \subseteq 1 .. Len(read)
         /\ Len(read) \in Nat
         /\ \A i \in 1 .. Len(read) : read'[i] = read[i]
         /\ read'[Len(read) + 1] = [list |-> list, element |-> e]
         /\ Sources(id)' = IF Usable(e) /\ TokenID(e) = id
                           THEN Sources(id) \cup {Len(read) + 1} ELSE Sources(id)
<1> DEFINE n == Len(read)
<1>1. /\ list \in 1 .. 3 /\ read \in Seq(Row)
      /\ read' = Append(read, [list |-> list, element |-> e])
  BY DEF FeedTypeOK, MergeElement, Row
<1>2. n \in Nat /\ Len(read') = n + 1
  BY <1>1
<1>3. /\ \A i \in 1 .. n : read'[i] = read[i]
      /\ read'[n + 1] = [list |-> list, element |-> e]
  BY <1>1
<1>4. ASSUME NEW i \in 1 .. n + 1
      PROVE  i \in Sources(id)' <=>
               i \in Sources(id) \/ (i = n + 1 /\ Usable(e) /\ TokenID(e) = id)
  <2>1. CASE i \in 1 .. n
    BY <2>1, <1>2, <1>3 DEF Sources
  <2>2. CASE i = n + 1
    <3>1. read'[i].element = e
      BY <2>2, <1>3
    <3>2. i \notin Sources(id) /\ i \in 1 .. Len(read')
      BY <2>2, <1>2 DEF Sources
    <3> QED
      BY <3>1, <3>2, <2>2 DEF Sources
  <2> QED
    BY <2>1, <2>2, <1>2
<1>5. Sources(id) \subseteq 1 .. n /\ Sources(id)' \subseteq 1 .. n + 1
  BY <1>2 DEF Sources
<1>6. CASE Usable(e) /\ TokenID(e) = id
  <2>1. Sources(id)' = Sources(id) \cup {n + 1}
    BY <1>2, <1>4, <1>5, <1>6
  <2> QED
    BY <1>2, <1>3, <1>5, <1>6, <2>1
<1>7. CASE ~(Usable(e) /\ TokenID(e) = id)
  <2>1. \A i \in 1 .. n + 1 : i \in Sources(id)' <=> i \in Sources(id)
    BY <1>4, <1>7
  <2>2. Sources(id) \subseteq 1 .. n + 1
    BY <1>2, <1>5
  <2>3. Sources(id)' = Sources(id)
    BY <1>5, <2>1, <2>2, Zenon
  <2> QED
    BY <1>2, <1>3, <1>5, <1>7, <2>3
<1> QED
  BY <1>6, <1>7

-----------------------------------------------------------------------------
LEMMA FeedInitInv == FeedInit => FeedInv
<1> SUFFICES ASSUME FeedInit PROVE FeedInv
  OBVIOUS
<1>1. FeedTypeOK
  BY DEF FeedInit, FeedTypeOK
<1>2. \A id \in FeedIDs : merged[id] = NoToken /\ Sources(id) = {}
  BY DEF FeedInit, Sources
<1> QED
  BY <1>1, <1>2 DEF FeedInv, HasSources, FirstAddressStays, DecimalsAreKnown, FlagsTellTheLists

(* The element in hand is not usable: nothing is merged. *)
LEMMA DropInv ==
  ASSUME FeedInv, NEW e \in Elements, MergeElement(e), ~Usable(e)
  PROVE  FeedInv'
<1>0. FeedTypeOK
  BY DEF FeedInv
<1>1. merged' = merged /\ list' = list
  BY DEF MergeElement
<1>2. FeedTypeOK'
  BY <1>0, <1>1 DEF FeedTypeOK, MergeElement
<1>3. \A id \in FeedIDs :
        /\ Sources(id)' = Sources(id) /\ Sources(id) \subseteq 1 .. Len(read)
        /\ \A i \in Sources(id) : read'[i] = read[i]
  BY <1>0, SourcesGrow
<1>4. HasSources'
  BY <1>1, <1>3 DEF FeedInv, HasSources
<1>5. FirstAddressStays'
  BY <1>1, <1>3 DEF FeedInv, FirstAddressStays
<1>6. DecimalsAreKnown'
  BY <1>1, <1>3 DEF FeedInv, DecimalsAreKnown
<1>7. FlagsTellTheLists'
  BY <1>1, <1>3 DEF FeedInv, FlagsTellTheLists
<1> QED
  BY <1>2, <1>4, <1>5, <1>6, <1>7 DEF FeedInv

(* What a usable element makes of the snapshot of its id. *)
LEMMA MergedToken ==
  ASSUME FeedTypeOK, NEW e \in Elements, MergeElement(e), Usable(e)
  PROVE  /\ merged' = [merged EXCEPT ![TokenID(e)] = merged'[TokenID(e)]]
         /\ merged[TokenID(e)] = NoToken =>
              merged'[TokenID(e)] = [address |-> normalizeAddress[e.address],
                                     decimals |-> e.decimals, lists |-> {list}]
         /\ merged[TokenID(e)] # NoToken =>
              LET t == merged[TokenID(e)] IN
              merged'[TokenID(e)] =
                  [address |-> t.address,
                   decimals |-> IF t.decimals = 0 THEN e.decimals ELSE t.decimals,
                   lists |-> t.lists \cup {list}]
<1> DEFINE id == TokenID(e)
           t == merged[id]
<1>1. id \in FeedIDs /\ merged \in [FeedIDs -> Token \cup {NoToken}]
  BY UsableElement DEF FeedTypeOK
<1>2. CASE t = NoToken
  <2>1. merged' = [merged EXCEPT ![id] = ApplyFlags(buildRelayToken(e), list)]
    BY <1>2 DEF MergeElement
  <2>2. ApplyFlags(buildRelayToken(e), list)
          = [address |-> normalizeAddress[e.address], decimals |-> e.decimals,
             lists |-> {list}]
    BY DEF ApplyFlags, buildRelayToken
  <2> QED
    BY <1>1, <1>2, <2>1, <2>2
<1>3. CASE t # NoToken
  <2>1. merged' = [merged EXCEPT ![id] =
                     ApplyFlags(mergeRelayToken(t, buildRelayToken(e)), list)]
    BY <1>1, <1>3 DEF MergeElement
  <2>2. t \in Token
    BY <1>1, <1>3
  <2> DEFINE d == IF t.decimals = 0 THEN e.decimals ELSE t.decimals
  <2> DEFINE m == [address |-> t.address, decimals |-> d, lists |-> t.lists]
  <2>3. mergeRelayToken(t, buildRelayToken(e)) = m
    BY <2>2 DEF mergeRelayToken, buildRelayToken, Token
  <2>4. ApplyFlags(m, list)
          = [address |-> t.address, decimals |-> d, lists |-> t.lists \cup {list}]
    BY DEF ApplyFlags
  <2> QED
    BY <1>1, <1>3, <2>1, <2>3, <2>4
<1> QED
  BY <1>2, <1>3

(* The element in hand is usable: it is the last source of its id, and the *)
(* first one if the id had none.                                           *)
LEMMA MergeInv ==
  ASSUME FeedInv, NEW e \in Elements, MergeElement(e), Usable(e),
         NEW id \in FeedIDs, id = TokenID(e)
  PROVE  FeedInv'
<1> DEFINE n == Len(read)
           t == merged[id]
           u == merged'[id]
<1>0. FeedTypeOK
  BY DEF FeedInv
<1>1. /\ id \in FeedIDs /\ normalizeAddress[e.address] \in FeedIDs /\ e.decimals \in Int
      /\ list \in 1 .. 3 /\ n \in Nat
  BY <1>0, UsableElement, SourcesGrow DEF MergeElement, FeedTypeOK
<1>2. /\ Sources(id)' = Sources(id) \cup {n + 1}
      /\ \A i \in 1 .. n : read'[i] = read[i]
      /\ read'[n + 1].list = list /\ read'[n + 1].element = e
      /\ Sources(id) \subseteq 1 .. n
  <2>1. Sources(id)' = Sources(id) \cup {n + 1} /\ Sources(id) \subseteq 1 .. n
    BY <1>0, SourcesGrow
  <2>2. /\ \A i \in 1 .. n : read'[i] = read[i]
        /\ read'[n + 1] = [list |-> list, element |-> e]
    BY <1>0, SourcesGrow
  <2> QED
    BY <2>1, <2>2
<1>3. ASSUME NEW x \in FeedIDs, x # id
      PROVE  /\ merged'[x] = merged[x] /\ Sources(x)' = Sources(x)
             /\ \A i \in Sources(x) : read'[i] = read[i]
  <2>1. merged'[x] = merged[x]
    BY <1>0, <1>3, MergedToken DEF FeedTypeOK
  <2> QED
    BY <1>0, <1>3, <2>1, SourcesGrow
<1>4. /\ t = NoToken => u = [address |-> normalizeAddress[e.address],
                            decimals |-> e.decimals, lists |-> {list}]
      /\ t # NoToken => u = [address |-> t.address,
                            decimals |-> IF t.decimals = 0 THEN e.decimals ELSE t.decimals,
                            lists |-> t.lists \cup {list}]
  BY <1>0, MergedToken
<1>5. t \in Token \cup {NoToken}
  BY <1>0, <1>1 DEF FeedTypeOK
<1>6. u \in Token /\ u # NoToken
  <2>1. u \in Token
    BY <1>1, <1>4, <1>5 DEF Token
  <2> QED
    BY <2>1, ElementsAssumption
<1>7. FeedTypeOK'
  <2>1. merged' \in [FeedIDs -> Token \cup {NoToken}]
    BY <1>0, <1>6, MergedToken DEF FeedTypeOK
  <2>2. read' \in Seq([list : 1 .. 3, element : Elements]) /\ list' = list
    BY <1>0, <1>1 DEF FeedTypeOK, MergeElement
  <2> QED
    BY <1>0, <2>1, <2>2 DEF FeedTypeOK
<1>8. HasSources'
  <2>1. u # NoToken <=> Sources(id)' # {}
    BY <1>2, <1>6
  <2>2. \A x \in FeedIDs \ {id} : merged'[x] # NoToken <=> Sources(x)' # {}
    BY <1>3 DEF FeedInv, HasSources
  <2> QED
    BY <2>1, <2>2 DEF HasSources
<1>9. t # NoToken <=> Sources(id) # {}
  BY <1>1 DEF FeedInv, HasSources
<1>10. FirstAddressStays'
  <2>1. \E i \in Sources(id)' :
          /\ \A k \in Sources(id)' : i <= k
          /\ u.address = normalizeAddress[read'[i].element.address]
    <3>1. CASE t = NoToken
      BY <3>1, <1>1, <1>2, <1>4, <1>9
    <3>2. CASE t # NoToken
      <4>1. PICK i \in Sources(id) :
              /\ \A k \in Sources(id) : i <= k
              /\ t.address = normalizeAddress[read[i].element.address]
        BY <3>2, <1>1 DEF FeedInv, FirstAddressStays
      <4>2. i \in 1 .. n /\ read'[i] = read[i] /\ u.address = t.address
        BY <3>2, <1>2, <1>4
      <4> QED
        BY <1>1, <1>2, <4>1, <4>2
    <3> QED
      BY <3>1, <3>2
  <2>2. ASSUME NEW x \in FeedIDs \ {id}, merged'[x] # NoToken
        PROVE  \E i \in Sources(x)' :
                 /\ \A k \in Sources(x)' : i <= k
                 /\ merged'[x].address = normalizeAddress[read'[i].element.address]
    BY <2>2, <1>3 DEF FeedInv, FirstAddressStays
  <2> QED
    BY <2>1, <2>2 DEF FirstAddressStays
<1>11. DecimalsAreKnown'
  <2>1. \/ u.decimals = 0 /\ \A i \in Sources(id)' : read'[i].element.decimals = 0
        \/ \E i \in Sources(id)' :
              /\ u.decimals = read'[i].element.decimals
              /\ u.decimals # 0
              /\ \A k \in Sources(id)' : k < i => read'[k].element.decimals = 0
    <3>1. CASE t = NoToken
      BY <3>1, <1>1, <1>2, <1>4, <1>9
    <3>2. CASE t # NoToken /\ t.decimals = 0
      <4>1. u.decimals = e.decimals
        BY <3>2, <1>4
      <4>2. \A i \in Sources(id) : read[i].element.decimals = 0
        BY <3>2, <1>1 DEF FeedInv, DecimalsAreKnown
      <4> QED
        BY <1>1, <1>2, <4>1, <4>2
    <3>3. CASE t # NoToken /\ t.decimals # 0
      <4>1. PICK i \in Sources(id) :
              /\ t.decimals = read[i].element.decimals
              /\ \A k \in Sources(id) : k < i => read[k].element.decimals = 0
        BY <3>3, <1>1 DEF FeedInv, DecimalsAreKnown
      <4>2. i \in 1 .. n /\ read'[i] = read[i] /\ u.decimals = t.decimals
        BY <3>3, <1>2, <1>4
      <4> QED
        BY <3>3, <1>1, <1>2, <4>1, <4>2
    <3> QED
      BY <3>1, <3>2, <3>3
  <2>2. ASSUME NEW x \in FeedIDs \ {id}, merged'[x] # NoToken
        PROVE  \/ /\ merged'[x].decimals = 0
                  /\ \A i \in Sources(x)' : read'[i].element.decimals = 0
               \/ \E i \in Sources(x)' :
                     /\ merged'[x].decimals = read'[i].element.decimals
                     /\ merged'[x].decimals # 0
                     /\ \A k \in Sources(x)' : k < i => read'[k].element.decimals = 0
    BY <2>2, <1>3 DEF FeedInv, DecimalsAreKnown
  <2> QED
    BY <2>1, <2>2 DEF DecimalsAreKnown
<1>12. FlagsTellTheLists'
  <2>1. u.lists = {read'[i].list : i \in Sources(id)'}
    <3>1. CASE t = NoToken
      BY <3>1, <1>1, <1>2, <1>4, <1>9
    <3>2. CASE t # NoToken
      <4>1. t.lists = {read[i].list : i \in Sources(id)} /\ u.lists = t.lists \cup {list}
        BY <3>2, <1>1, <1>4 DEF FeedInv, FlagsTellTheLists
      <4> QED
        BY <1>2, <4>1
    <3> QED
      BY <3>1, <3>2
  <2>2. ASSUME NEW x \in FeedIDs \ {id}, merged'[x] # NoToken
        PROVE  merged'[x].lists = {read'[i].list : i \in Sources(x)'}
    BY <2>2, <1>3 DEF FeedInv, FlagsTellTheLists
  <2> QED
    BY <2>1, <2>2 DEF FlagsTellTheLists
<1> QED
  BY <1>7, <1>8, <1>10, <1>11, <1>12 DEF FeedInv

LEMMA FeedStepInv == FeedInv /\ [FeedNext]_feedVars => FeedInv'
<1> SUFFICES ASSUME FeedInv, [FeedNext]_feedVars PROVE FeedInv'
  OBVIOUS
<1>1. ASSUME NEW e \in Elements, MergeElement(e) PROVE FeedInv'
  BY <1>1, DropInv, MergeInv, UsableElement
<1>2. CASE NextList \/ UNCHANGED feedVars
  <2>1. merged' = merged /\ read' = read /\ (list' = list \/ (list <= 3 /\ list' = list + 1))
    BY <1>2 DEF NextList, feedVars
  <2>2. FeedTypeOK'
    BY <2>1 DEF FeedInv, FeedTypeOK
  <2>3. \A id : Sources(id)' = Sources(id)
    BY <2>1 DEF Sources
  <2> QED
    BY <2>1, <2>2, <2>3 DEF FeedInv, HasSources, FirstAddressStays, DecimalsAreKnown,
       FlagsTellTheLists
<1> QED
  BY <1>1, <1>2 DEF FeedNext

-----------------------------------------------------------------------------
(* A token is on offer if and only if some list has a complete element for *)
(* it that is switched on.                                                 *)
THEOREM OffersListed == FeedSpec => []OffersWhatIsListed
<1>1. FeedInv => OffersWhatIsListed
  <2> SUFFICES ASSUME FeedInv, NEW id \in FeedIDs
               PROVE  merged[id] # NoToken <=>
                        \E i \in 1 .. Len(read) :
                            LET e == read[i].element IN
                            /\ e.object /\ e.symbol /\ e.address # Empty /\ SwitchedOn(e)
                            /\ id = IF e.id = Empty THEN normalizeAddress[e.address] ELSE e.id
    BY DEF OffersWhatIsListed
  <2>1. ASSUME NEW i \in 1 .. Len(read)
        PROVE  isEffectiveRelayToken(read[i].element) <=> SwitchedOn(read[i].element)
    <3>1. read \in Seq(Row)
      BY DEF FeedInv, FeedTypeOK, Row
    <3>2. read[i] \in Row
      BY <3>1
    <3>3. read[i].element \in Element
      BY <3>2, ElementsAssumption DEF Row
    <3> QED
      BY <3>3, EffectiveIsOn
  <2>2. merged[id] # NoToken <=> \E i \in 1 .. Len(read) :
          Usable(read[i].element) /\ TokenID(read[i].element) = id
    BY DEF FeedInv, HasSources, Sources
  <2> QED
    BY <2>1, <2>2 DEF Usable, TokenID
<1> QED
  BY <1>1, FeedInitInv, FeedStepInv, PTL DEF FeedSpec

(* What buildRelayTokens has merged is a token of the feed or none. *)
THEOREM FeedTypes == FeedSpec => []FeedTypeOK
<1>1. FeedInv => FeedTypeOK
  BY DEF FeedInv
<1> QED
  BY <1>1, FeedInitInv, FeedStepInv, PTL DEF FeedSpec

(* mergeRelayToken never replaces an address it has. *)
THEOREM AddressStays == FeedSpec => []FirstAddressStays
<1>1. FeedInv => FirstAddressStays
  BY DEF FeedInv
<1> QED
  BY <1>1, FeedInitInv, FeedStepInv, PTL DEF FeedSpec

(* ApplyFlags: the flags of a token are the lists it stands in. *)
THEOREM FlagsFollowLists == FeedSpec => []FlagsTellTheLists
<1>1. FeedInv => FlagsTellTheLists
  BY DEF FeedInv
<1> QED
  BY <1>1, FeedInitInv, FeedStepInv, PTL DEF FeedSpec

(* mergeRelayToken takes the first decimals that are known. *)
THEOREM MergesInOrder == FeedSpec => []DecimalsAreKnown
<1>1. FeedInv => DecimalsAreKnown
  BY DEF FeedInv
<1> QED
  BY <1>1, FeedInitInv, FeedStepInv, PTL DEF FeedSpec
=============================================================================
