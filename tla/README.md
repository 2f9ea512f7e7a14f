# wf-account-job in TLA+

Models of `wf-account-job`, a Go service that keeps Relay's catalogue of chains
and tokens in a database and runs periodic tasks on asynq. Paths below are
relative to the repository (`src/`); `relay_chains.go` stands for
`internal/mqs/amq/handler/amq/relaychains/relay_chains.go`.

    tlc -workers 2 -config relay_overlap.cfg MCRelaySync      # a run
    tlapm RelaySyncProofs.tla                                 # the proofs of a module

## 1. The system

| Part | State | Operations | Talks to | What is hard |
|---|---|---|---|---|
| Relay sync handler (`relay_chains.go`) | rows of `relay_chains`, `relay_tokens`; the cached task id | `ProcessTask`: ensure the task id, fetch the feed, one transaction per chain, withdraw missing chains, withdraw tokens of withdrawn chains, write a log | Relay's HTTP API, database, asynq | overlapping runs, stale reads between statements, failure of one chain of many, failed statements in a transaction, retries, crashes |
| hello_world handler (`hello_world.go`) | task id read when the process starts | run, write a log | database, asynq | starts before the task exists |
| Task and task log RPCs (`internal/logic/task`, `internal/logic/tasklog`) | rows of `sys_tasks`, `sys_task_logs` | create, update, delete, get, list | database | `DeleteTask` against handlers that remember ids |
| InitDatabase (`init_database_logic.go`) | the tables, the two seed tasks | create the tables, count, insert twice | database | two inserts without a transaction, concurrent calls |
| InitRelayTables | the two relay tables | create them without foreign keys | database | - |
| Relay queries (`internal/logic/relay`) | none | lists with filters and pages; the client's view | database | two queries that are not one snapshot, page arithmetic |
| Periodic task manager and config provider (`dynamic_periodic_task.go`, `provider.go`) | cron entries in memory | read the enabled tasks, diff, register, enqueue | database, asynq | database errors answered as "no tasks", a malformed cron expression |
| Queue worker (`mqtask.go`, `register.go`) | the mux | deliver, retry, archive | asynq, handlers | recovery of orphaned tasks |
| `entx.WithTx` (`ent_tx.go`) | a transaction | begin, run, commit or roll back | database | panic and error paths |
| Environment loader (`envloader/load.go`) | environment, files | search, merge, expand | file system | precedence of sources |
| Service wiring (`job.go`, `service_context.go`, `config.go`, `job_server.go`, `error_handler.go`) | none | start, dispatch RPCs, translate errors | everything | - |
| ent schema, generated code | column types, validators, unique indexes | - | database | - |

What makes each correct:

* **Sync handler.** What the tables say of a chain is what *one* feed said of it;
  a token of a withdrawn chain does not stay on offer; a run that reports
  success has done all of its feed; nothing that the platform's operator set is
  overwritten, and no row is lost or gets a second owner for its address; once
  Relay stops changing the tables agree with it.
* **Task ledger** (RPCs, InitDatabase, the handlers' cached ids). A log never
  counts for a task that another handler serves; a task takes along its logs, all
  but those written while it goes, and no others; "already initialised" is said of an initialised database only.
* **What a feed offers** (`buildRelayTokens`). A token is offered exactly when a
  complete element that is switched on lists it; elements of one token are
  merged so that nothing known is lost; an address has one token.
* **Task manager.** Every enabled task fires within its delay and goes on firing
  while nobody edits it and the database answers, whatever the others look like; a
  disabled one stops; no task fires twice as often because it was changed.
* **Queries.** A walk over a list misses no row that was there when it began; a
  total and its page, read in two statements, agree; a client that fetches its
  chains and later their tokens is given those of no chain that was withdrawn or
  switched off, whatever was written in between; `enabled` is what the operator
  set last.
* **Rows.** A row says what the last element written for it said, and nothing of
  an older one; the tokens of a chain are on offer together; what a client is
  given can be shown.
* **Task RPCs.** A call takes effect at one moment or not at all, a clear answer
  is true, a refusal means that nothing was done; what a call left out of its
  request stays; every call ends, and changes at most one more thing after its
  client gave up.
* **Environment loader.** A variable of the process's environment stands, even a
  blank one; of what is left the first text among `.env`, `.env.job` and the
  built-in values wins. A profile's file is what the process goes by, and takes
  no field of the common file away.
* **ent's builders.** The last thing a builder was told counts; a clone and its
  original do not see each other.

The hazards, each at its line and with the properties that watch it, are in
`PROJECT.json`.

## 2. The modules

| Module | What it is |
|---|---|
| `RelayCatalog` | abstract: what readers of the two tables may rely on. A chain is replaced at once and only ever gains token rows; chains are withdrawn; tokens of withdrawn chains are; the operator switches `enabled`. |
| `RelaySync` | the code: `ProcessTask` and all it calls, statement by statement, for several jobs, with every error exit |
| `MCRelaySync` | feeds and constants for TLC |
| `RelaySyncProofs` | theorems about `RelaySync` and `RelayFeed` |
| `RelayFeed` | `buildRelayTokens`: what one element of the feed offers, list by list and token by token |
| `MCRelayFeed` | elements for TLC: a plain one and a variation for each thing the loop looks at |
| `RelayRows` | every kind of column: how an element becomes the rows of a chain, through the value helpers, the builders and the validators, and how a row becomes an answer |
| `MCRelayRows`, `RelayRowsProofs` | elements for TLC; theorems |
| `Paging` | the arithmetic of a page, with integers of a width |
| `RelayReaders` | the list and client RPCs and a client that walks a list, beside all that `RelayCatalog` lets writers do |
| `MCRelayReaders`, `RelayReadersProofs` | walks for TLC; theorems |
| `PeriodicTasks` | the task manager, `GetConfigs`, the task RPCs, start and stop of the process, time |
| `MCPeriodicTasks` | constants for TLC |
| `TaskLedger` | `sys_tasks`, `sys_task_logs`, InitDatabase, DeleteTask's transaction, both handlers' task ids, restarts |
| `MCTaskLedger`, `TaskLedgerProofs` | constants for TLC; theorems |
| `TaskRecords` | the columns of tasks and logs under the RPCs' partial requests, and walks over their lists |
| `MCTaskRecords`, `TaskRecordsProofs` | requests and walks for TLC; theorems |
| `TaskService` | abstract: what a client of the task RPCs may rely on |
| `TaskCalls` | the calls themselves: stub, dispatch, logic, statements, transactions, error codes, deadlines, loss |
| `MCTasks`, `TaskCallsProofs` | `TaskRecords` and `TaskCalls` for TLC; theorems about `TaskCalls` |
| `EnvLoader` | `envloader.Load`, `ResolveConfigFile`, `LoadConfig`, up to main's panic |
| `MCEnvLoader` | files and environments for TLC |
| `ProcessProofs` | theorems about `PeriodicTasks` and `EnvLoader`, what the process does besides its work |
| `EntColumns` | the columns of the four tables as ent generated them: predicates, setters, defaults, validators |
| `EntMutations` | ent's builders for writing |
| `EntQueries` | ent's builders for reading, clones, counts and pages |
| `MCEnt`, `EntProofs` | both for TLC; theorems about all three |

How they are put together:

* `RelaySync` and `RelayRows` both contain `Catalog == INSTANCE RelayCatalog`, the
  first with the five tables as they are, the second with the tables seen through
  its columns; `CatalogSpec == Catalog!Spec` is the refinement. `RelayReaders`
  EXTENDS `RelayCatalog` and takes its steps for the writers, so what clients see
  holds beside any run of the sync.
* `TaskCalls` contains `Service == INSTANCE TaskService`, with the same variables
  for the tables, requests and answers, and `ServiceSpec` is the refinement.
* `RelayFeed` makes the `tokens` of an entry of `RelaySync` and of an element of
  `RelayRows`; `Paging` serves `RelayReaders` and `TaskRecords`; `EntColumns`
  serves both modules on builders.
* `MCTasks` and `MCEnt` each check two modules that share no state in one run: one
  moves while the other stands still (`turn`). What holds of either alone holds
  of both side by side, and the sum of their states is all that has to be seen.

Operators named `X_Something` (or after their `X`) beside an `X` are plausible bugs
in `X`; no specification uses them. Each shows that a property is able to fail.

### RelaySync and relay_chains.go

A *job* is one `relay_chains` task in the queue and the run that serves it.
Several exist at a time: asynq serves many tasks in parallel, the periodic task
is enqueued without `asynq.Unique`, a failed task is retried while the next is
due, and the service may have replicas.

| State | Code |
|---|---|
| `cRows`, `cSupported`, `cEnabled` | rows of `relay_chains`, columns `supported` and `enabled` |
| `tAddress`, `tSupported` | rows of `relay_tokens` per chain and token id, their `address` and `supported` |
| `relay` | what Relay's endpoint returns now |
| `pc[j]` | where job `j` stands: `idle`, `queued`, `retry` in asynq; `chains` in the loop of `sync` (153); `insertChain`/`updateChain` after the query of `upsertRelayChain` (322); `tokens` while it writes the chain's tokens; `sweep`, `clear` before the two statements of `markTokensByChainSupport`; `log` before the log |
| `feed`, `todo`, `cur` | the fetched feed, the elements not reached, the one in hand |
| `failed` | `failCount > 0`, or the error `sync` returns |
| `rows`, `live`, `pend` | what the transaction sees of the chain's tokens, and the ids it has still to write |
| `unsup` | the ids `markTokensByChainSupport` read (652) |
| `done`, `faults`, `abandoned` | history, for the properties and the bound only |

| Action | Code |
|---|---|
| `Enqueue`, `Archive`, `Crash` | asynq and the operating system (external) |
| `ProcessTask`, `EnsureTaskIDFails`, `FetchFails` | 95-108, 125-139, 222-257 |
| `BeginTx`, `BeginTxFails` | 153-174, the loop's head |
| `WriteChain`, `RejectChain` | `upsertRelayChain` 321-372 |
| `UpsertRelayToken`, `KeepExistingID`, `RejectToken` | `upsertRelayToken` 560-638: update by id, create, update what is found by address |
| `CommitChain`, `CommitUnanswered`, `FailChain` | 374-405 and 176-192: tokens no longer listed are marked, then the commit, which succeeds, succeeds without the caller learning it, or fails |
| `MarkMissingChainsUnsupported` | 640-649 |
| `ReadUnsupportedChains`, `MarkTokensByChainSupport` | 651-660 and 662-667, two statements with a gap |
| `FailRun`, `WriteTaskLog`, `WriteTaskLogFails` | the early returns, 105-123 |
| `RelayChanges`, `SetEnabled` | Relay, the operator (external) |

Choices that matter:

* **Database.** READ COMMITTED. The first write of a chain's transaction locks
  the chain's row until the end, so two transactions of one chain follow each
  other and a private copy of the chain's tokens is exactly what the second one
  sees. `WriteChain` waits for that lock; an INSERT that lost the race is
  refused (`RejectChain`), as the primary key does. A bulk statement waits until
  no row it writes is locked and is then one step: row by row it commutes with
  the other jobs' steps, and rows inserted while it waits are counted as if they
  had been there or not. Deadlocks are faults of a statement (`FailChain`).
* **Dialect.** The repository's README asks for PostgreSQL, where a failed
  statement aborts the transaction; `DATABASE_TYPE` may name another. The
  constant `AbortsOnError` says which. Runs with `FALSE` use one job.
* **The feed** is a set of entries, taken in any order. An entry is what
  `buildRelayChain` and `buildRelayTokens` make of an element: chain id, whether
  it is disabled, token ids with addresses. `valid = FALSE` stands for values
  that pass `buildRelayChain` and that ent's validators refuse;
  `malformed` for elements that are no chain at all.
* **Left out**: names, icons, currencies and other columns no decision reads;
  the wording of logs; HTTP.

### TaskLedger

`logs` holds a pair `<<p, id>>` where the handler of pattern `p` has written at
least one row for task `id`; more rows of the kind change nothing that is
asked. `del` is `DeleteTask`'s transaction between its two statements, with the
logs it found; `slipped` (history) has those that were written for its tasks since, by
handlers that hold their ids. `hello` is `HelloWorldHandler.taskId` (`None`: the handler is
nil), `relayID` is `Handler.taskID`, `run` the id each relay_chains run works
for. `Restart` builds the handlers again, hello_world's as nil where its query
fails or finds nothing, and drops what was under way.
One process; one `DeleteTask` at a time; `Insert` is the unique index on
`pattern` and the id sequence; no foreign keys (`WithForeignKeys(false)`).

### RelayFeed

`list` and `merged` are where `buildRelayTokens` (407) is and its map of
snapshots; `read` remembers the elements for the reference definitions.
`MergeElement(e)` is one turn of `mergeRelayTokenList`'s loop (460-484),
`NextList` the end or the absence of a list (450-458). The element itself is
chosen anew at each turn, so every combination of elements within the bound is
tried. The three `OptionalBool` switches keep the difference between a key that
is missing and one whose value `getBoolValue` does not understand, which the
code treats as `false`. `merged` in the end is the `tokens` of an entry in
`RelaySync`. Texts are two or three values; `normalizeAddress` is any function
that leaves the empty text alone. Not kept: names, logos, `raw`, and the flags
that are merged by OR as `lists` is.

### PeriodicTasks

`tasks` is `sys_tasks` by pattern, each row with its expression, payload and status
(`Rows` are those that requests make); `timer` the registered entries with the ticks
left, each entry a pattern, an expression and a payload (`ConfigOf`). What belongs to the repository is `GetConfigs`, the RPCs that write tasks,
`DPTask` and `main`; the rest is asynq's manager as this code uses it, and
marked external:

* a sync validates *all* configs (an empty expression is an error) before it
  looks at any; the first sync's error is returned by `Run`, hence `StartFatal`,
  later ones are logged (`SyncRefused`);
* then entries that are no longer among the configs are unregistered and new ones
  registered (`Reconcile`); an entry keeps its timer while pattern, expression and
  payload are unchanged, for asynq's hash has all three: a task whose payload alone
  is edited starts its timer anew, and one edited more often than its delay never
  runs; an expression that cron cannot parse is logged and left out
  (`Bad`);
* `GetConfigs` never reports an error, so a failing database is a sync with no
  configs (`DatabaseFails`).

A tick is the sync interval: between two ticks the manager syncs once and what
is due runs. An expression stands for its delay, as "@every 24h" does. `since`
is history, and so are `stops` and `errors`, the failing syncs since the last one that
the database answered.

### RelayReaders

`at`, `req`, `page`, `total`, `got` are a client's walk: where it stands, its
request, the page it asks for, what the count query and the list query of that
page answered. `owed` and `off` are history: rows that matched since the walk
began and were not shown; chains that the operator switched off last. Or the
reader is a client (`at = "client"`): `known` are the chains of its last list, `news`
(history) those the sync wrote or the operator switched on since, `strangers` the chains
that its lists of tokens named and it did not know.

| Action | Code |
|---|---|
| `Ask` | a client begins to walk a list |
| `CountRows`, `ListRows`, `ReadFails` | `relay_chain_logic.go`, `relay_token_logic.go`: total and page, two statements outside a transaction |
| `NextPage`, `Finish` | the client goes on while pages are full (external) |
| `ListClientChains`, `ListClientTokens` | `client_relay_logic.go`: two RPCs, each one statement, any number of writes apart |
| `Write`, `Switch` | the steps of `RelayCatalog` |

`ClientChains` and `ClientTokens` are the answers of the client's two RPCs. One
reader is enough, for readers only read. `Skip` and `OnPage` are `Paging`'s:
`(page - 1) * size` wraps as a uint64 does, and its upper half becomes a negative
int, which PostgreSQL refuses. A client that believes the total and stops when
`page * size` reaches it may miss a row that came meanwhile, and a page so far
out that the offset wraps past zero shows early rows again; both are outside
`NoRowSkipped`, which starts at page 0 or 1 and ends at a page that is not full.
Filters by name and symbol are left out.

### RelayRows

`chains` and `tokens` are the rows with all their columns, one column for each
group that the code treats alike (the module's head says which); `at`, `e`,
`existing`, `row`, `list`, `pend` are the transaction under way, its element, and
its copies. `last`, `offer` and `fresh` are history. A JSON value is a record of a
type and a text, number or Boolean, and a text is what `TrimSpace` leaves of it
and whether it leaves anything away; `getStringValue`, `getFirstStringValue`,
`getIntValue`, `getBoolValue`, `getChainID`, `buildRelayChain` and
`buildRelayToken` are functions on them. `ChainCreate`, `ChainUpdateOne` and their
like are ent's builders (a create has defaults, an update does not; an update
writes only what it was given), the `Check` operators are its validators.

`BeginChain`, `upsertRelayChain`, `upsertRelayToken`, `CommitChain` and `Rollback`
are the transaction; `markMissingChainsUnsupported` and
`markTokensByChainSupport` are other runs' sweeps, with any set of chains they may
have read. `missed` are the rows of each chain that the second statement does not see,
because the chain's last transaction, its last two, or more, inserted them after the
statement had begun (`fresh`); `SetEnabled` is the
operator. One transaction at a time, as `RelaySync` shows that they are isolated.

Worth knowing: a `displayName` of blanks hides a good `name`, and the chain fails;
a quoted number of decimals counts as 0; `native` is told by the merged address or by
any element that was merged; `raw_data` takes a later list's value
while the other columns of a token keep the first one; no element sets
`stablecoin`.

### TaskRecords

`tasks`, `logs` are rows by id, `taskSeq`, `logSeq` the id sequences, `asked` (history)
what was last asked of each column. The walk is as in `RelayReaders`, over
`GetTaskList` or `GetTaskLogList`, which are ordered newest first; `left` and `came`
count the rows that left and joined the filtered list while it went on.
`SetNotNil` is the builders' methods of that name, `GetStatusPointer` the conversion
from uint32 to uint8 (`% Width`). The writes are one action per RPC, and
`WriteTaskLog` the handlers' own. A call that is refused changes nothing and is no
step; `TaskCalls` has those. `UpdateTask` without an id panics
on `*in.Id` (`TaskCalls` has that too). `started_at` and `finished_at` are not kept.
`DeleteTask` is atomic here; a log that slips in between its statements
(`TaskLedger`) is here one that is written afterwards.

### TaskCalls

`pc[k]` says which statement call `k` is before; `outcome[k]` is the error and value
that its logic returns, `answer[k]` the code and value its client has; `locks[k]` are
the rows its transaction locked; `late` and `seeds` are history.

| Action | Code |
|---|---|
| `Invoke`, `Dispatch`, `Respond` | `jobclient/job.go`, the stub and the handlers of `job_grpc.pb.go`, `JobServer` |
| `CreateTaskLogic`, `UpdateTaskLogic`, `GetTaskById` | the logic of that name, one statement each |
| `BeginTx`, `DeleteLogs`, `DeleteTasks`, `CommitTx` | `DeleteTaskLogic` in `entx.WithTx` |
| `CountTasks`, `InsertHelloTask`, `InsertRelayTask` | `InitDatabaseLogic`, without a transaction |
| `Fails`, `Unanswered` | a statement fails, or is done and its answer lost |
| `Expire`, `Crash` | a deadline, the loss of the process (external) |

`Code` and `DefaultEntError` are the mapping of errors; "Unknown" stands for the
codes of those that no rule maps. Calls are numbered in the order in which they are made. A
deadlock of two transactions is a statement that fails. An insert that fails takes
an id of the sequence in the database and none here. A repeated `CreateTaskLog` makes a second log, since a
log has no key of its own; the model has no such call, and no property forbids it.

### EnvLoader

A start is four steps: `LoadDotEnv`, `LoadJobEnv`, `CheckAppEnv` (built-in values, the
profile and its check) and `LoadConfig`, each of which may end in `Panic`. The
environment, both files, the YAML files and `-f` are chosen at the beginning from
the sets the instance has. `setIfAllowed`, `readFile`, `apply`, `ResolveConfigFile`,
`mergeMaps` and `ExpandEnv` are the functions of those names. A profile that has no
file serves with the common one without a word. A `Load` that fails leaves the
environment half filled, but main panics. Literal leaves, deeper maps, quoting
and the search for the project's root are left out.

### EntColumns, EntMutations, EntQueries

Most of the repository is what ent generated, and the logic above is written in
its builders. `EntColumns` says for each column of each table which predicates,
setters, defaults and validators were generated, in the tables' own terms, and gives the
predicates their meaning in SQL's logic of three values. What was generated apart for
one column, its predicates, setters, clearers, adders and checks, has to fit together:
`ColumnsAgree`, a check of the transcription, which TLC evaluates (`MCEnt`). Much of
this is more than the service uses: it calls equality, `In`, `NotIn`, `Contains` and
`Has...With` predicates, `Set...`, `SetNotNil...`, and creates, updates and deletes. The rest is
there because the builders are generated whole, and only the run `ent` reaches it.

`EntMutations` follows one column (`col`) through one builder (`b`) after another:
`New`, `Where`, `Set`, `SetNillable`, `Clear`, `Add`, `Reset`, and `Insert`, `Update`,
`Delete`, which save. A mutation keeps each column for itself, so one at a time is
no loss. PostgreSQL refuses a statement that assigns a column twice (`Twice`), which is what
becomes of a `Clear` followed by a `Set` of a text; no caller in the service clears or
adds. Sums that leave `Numbers` are cut off: an
int8 would wrap.

`EntQueries` has handles that point to builders and builders that point to
contexts, for that is where a clone could go wrong. First, Only and Exist leave
their limit behind, IDs its column, Page its order and window: `told` keeps what a
builder was told in this sense. COUNT leaves out LIMIT, fails behind an OFFSET or
with two columns, and leaves out the NULLs of a selected one; ORDER BY and
COUNT are the database's (external).

## 3. What the runs check

| Run | Instance | Shows |
|---|---|---|
| `relay_alone` | 1 job, 2 chains, 2 tokens, 7 feeds, 1 fault, PostgreSQL | `CatalogConsistent`; `SuccessIsHonest`; `SupportedChainsMirrorAFeed`, tokens of two feeds never mix; `SuccessMirrorsFeed`, after a success the tables *are* the feed. The feeds have a chain that leaves, one that is disabled, a token that moves onto another's address, one under a new id, a chain listed twice, one without tokens, invalid values, unusable elements, no chain. |
| `relay_overlap` | 2 jobs, 2 chains, 1 token, 2 feeds, 1 fault, `FairSpec` | `LeftoversAreOwed`, `EntriesAccounted`, `TxIsIsolated` when runs overlap, fail, crash and are retried; `LeftoversCleared`; `EventuallyMirrors`: wrong tables that overlapping runs leave do not last while the timer fires |
| `relay_keeps_id` | 1 job, renamed tokens, `AbortsOnError = FALSE` | the refinement `CatalogSpec`, also where `KeepExistingID` can be reached |
| `rows` | 2 chains, 2 tokens, 10 elements, sweeps and the operator beside | `RowsFollowTheFeed`, `OffersStandTogether`, `ClientsCanShow` and `CatalogSpec` for rows with all their columns |
| `feed_merge` | 19 kinds of elements, up to 3 of them over 3 lists | `OffersWhatIsListed`, `DecimalsAreKnown`, `FlagsTellTheLists` against definitions over the elements read |
| `readers` | 3 chains, 1 token id, integers of 4 bits, default page size 2, nine walks, and a client of both client RPCs | `NoRowSkipped`, `TotalIsKept`, `StrangersAreNews`, `SwitchIsTheOperators` while the sync and the operator write |
| `ledger` | 2 callers, 2 runs, 2 ids | `NoMisattribution`; `LogsGoWithTasks`, in both directions: no log of a task that stays goes, and none of a task that goes stays unless it slipped in |
| `tasks` | `TaskRecords`: 2 tasks and 3 logs, 7 walks, 2 writes beside them, statuses of 2 bits. `TaskCalls`: 2 calls of 9 kinds on all tables of up to 2 rows, with failures, lost answers, deadlines, crashes | `ColumnsAsAsked`, `SkipsOnlyForDepartures`, `RepeatsOnlyForArrivals`; `ServiceSpec` (the refinement of `TaskService`), `AtMostOneLateChange`, `EveryCallEnds`, `CallsTypeOK` (no lock is kept by a call that is over) |
| `periodic` | 2 tasks, delays 1 and 2, an empty and an unparsable expression, 2 payloads under one of the delays, 1 stop, any number of failures but never two in a row, `FairSpec` | `OnTime`, `OneEntryPerPattern`, `KeepsRunning`, `StopsRunning` |
| `env` | APP_ENV and three more variables, `.env` of up to 2 lines, `.env.job` of 1, 7 layouts of the YAML files, 3 values of `-f` | `Precedence`, `ServesItsProfile`, `NothingLost` |
| `ent` | a column of each of 14 kinds, 2 rows, 1 predicate per builder; 2 handles on a table of 3 rows, told 4 things together | `LastWordCounts`; `AnswersAsAsked` |

Type invariants that are proved (section 4) are not all checked again by a run.

The bounds. Two jobs suffice for every pair of statements to interleave and for
each of the overlap's hazards, which are pairwise (insert races, a read made
stale, an old feed over a new one). Two chains let one be withdrawn while
another is written; two tokens let an address move, be renamed or clash. One
fault can fall into any step of any run, and each run that fails is retried with
none left; two faults multiply the states and repeat the same recovery.
`MaxID = 2` in `ledger` has a task deleted and created again, which is what a stale id
needs; three (`ledger_orphans`) allow it after both were seeded.
Three elements in `feed_merge` are two that make a token and one that must not change
it, in any order and any lists; `rows` needs no bound, for any element may follow any
other. Two tasks in `periodic` are one that is watched and one that disturbs it;
a delay of two ticks is the shortest that a sync can fall into; two failing syncs in a
row leave what one leaves.
Three rows are a page, the next one, and a row that moves between them; integers
of four bits let offsets wrap and sizes turn negative within the walks. Two writes
beside a walk in `tasks` are a departure and an arrival, or two of either;
`TaskRecordsProofs` has no such bound. Two calls can meet at every statement, `MaxID = 5`
is beyond the ids they can use, and tables with up to two earlier rows make each kind
of answer possible. In `ent`, `MaxTold` lets a builder get a page's order and window
and one thing more, or a clone two things and its original two.
Symmetry is used for callers, runs, handles and contexts, never with liveness.

### Fairness

`FairSpec` of `RelaySync` is strong fairness of `Progress(j)`: asynq runs and retries what it
holds, and a database serves the transactions that wait for a row in turn, so a
statement that can be made again and again is made in the end. Faults, Relay,
the operator and the timer are not fair. `EventuallyMirrors` assumes besides that
the timer fires again (`TimerFires`, weak fairness of `Enqueue`); how far that is so is what
`PeriodicTasks` shows. `LeftoversCleared` needs no
timer: a job that failed is retried. It makes an exception for a job that
asynq archives; from then on only the timer helps.

`PeriodicTasks`' `FairSpec` is weak fairness of the process starting (the machine
restarts it), of its start (`Start \/ StartFatal`: whichever the tasks decide),
of the sync, of time and of each pattern's due entry. Failures, stops and RPCs are
not fair.

`TaskCalls`' `Fairness` is weak fairness of each call's `Progress`: the server's
goroutines run and the database serves those who wait for a row. Nothing has to
expire, fail or be lost for a call to end.

`CHECK_DEADLOCK FALSE` stands in `env` and `feed_merge`, for a start and a merge are over at
some time, and in `tasks`, where clients stop when they have made their calls.

### Disagreements between the code and what it says

The first is a run whose one property TLC finds violated; `PROJECT.json` has the
lines. The others have a configuration beside the runs' (`tlc -config ledger_nil.cfg
MCTaskLedger`), which repeats the counterexample.

* `relay_renamed_pg` - Relay gives a known address another token id. On
  PostgreSQL the fallback that "keeps existing id" asks an aborted transaction,
  so the whole chain fails on every run.
* `relay_renamed` - where the fallback works, the row keeps its
  id and the same transaction then marks it unsupported (392).
* `relay_stale_ids` - `markTokensByChainSupport` clears the tokens of a chain
  that an overlapping run has just committed as supported.
* `feed_address` (`MCRelayFeed`) - one element of the feed lists an address under two
  ids, or once without: two tokens with one address, which the unique index refuses.
* `periodic_reset` - one failed query makes the manager unregister every task
  and start its timer anew; a daily task with a failure a day never runs
  (`RunsThroughFailures`, which is `KeepsRunning` without the database that answers).
* `periodic_fatal` - a task with an empty expression, which the RPCs accept, ends
  the process at its next start and each one after.
* `ledger_orphans` - handlers remember the ids of deleted tasks (`relay_chains.go:129`)
  and write logs for them, which no later `DeleteTask` finds.
* `ledger_already` - `InitDatabase` says AlreadyInit of a database that it has
  initialised by half (`init_database_logic.go:47`, 62), and never inserts the
  other task.
* `ledger_nil` - the process starts before `InitDatabase`: the hello_world
  handler is a typed nil (`hello_world.go:33`) and panics where line 45 means to
  return an error.
* `readers_filtered` (`MCRelayReaders`) - a walk filtered by a column that the sync rewrites
  misses a row that matched all the time: one that leaves the filter pulls it to a
  page that has passed (`NoMatchSkipped`).
* `records_status`, `records_filter` (`MCTaskRecords`) - a status of 257 is stored as 1 and the task
  runs; a list of logs filtered by result 0 is not filtered, and one by 256 asks for 0.
* `env_explicit` (`MCEnvLoader`) - the README's `-f etc/job-prod.yaml` (`README.md:75`) panics, for that file has
  overrides only and an explicit file is not laid over the common one (`load.go:102`).

## 4. What is proved

Checked by TLAPS for all values of the constants: any jobs, chains, tokens, feeds,
ids, requests, files, any bounds on faults and writes. The assumptions are those
that the modules declare, which say that ids are numbers, that the "nothing" values are none of the
real ones, that inputs are of their types, and that tables and lists are finite.

| Module | Theorem | Says | Argument |
|---|---|---|---|
| `RelaySyncProofs` | `TypeCorrect` | `[]TypeOK` | inductive: a job in a transaction has an entry in hand |
| | `Consistent`, `TablesConsistent` | `[](CatalogConsistent /\ TxIsIsolated)` | `Inv == TypeOK /\ CatalogConsistent /\ TxIsIsolated`. Consistency alone is not inductive: a commit writes a private copy, which must be as consistent and start from all rows committed, hence isolation |
| | `ImplementsCatalog` | `Spec => CatalogSpec` | `StepRefines`, with `Inv`: every step is a stutter or a `RelayCatalog` step; `CommitChain` is `ReplaceChain` because its copy misses no row |
| | `LeftoversRemembered` | `[]LeftoversAreOwed` | inductive with `TypeOK`: a step that leaves a token of a withdrawn chain leaves a job that has the sweep before it, or has read that chain's id, or has failed |
| | `NoEntryIsLost`, `HonestSuccess` | `[]EntriesAccounted`, `[]SuccessIsHonest` | `EntriesAccounted` is inductive with `TypeOK`; at `log` nothing is in hand or to do |
| | `MirrorsAFeed`, `SuccessLeavesTheFeed` | for one job on a database that aborts: `[]SupportedChainsMirrorAFeed`, `[]SuccessMirrorsFeed` | `AloneInv`: what the transaction has written so far is what its entry says, and what the run has read of the unsupported chains is still so, for nobody else can support one; `LeavesInv` adds what is done of the feed. Two jobs break both (`relay_stale_ids`), hence `OneJob` |
| | `OffersListed` | `[]OffersWhatIsListed` | `merged` has exactly the ids with `Sources` (`Offered`), and a source is what the reference says: the four conditions of `isEffectiveRelayToken` come to `SwitchedOn` |
| | `MergesInOrder`, `AddressStays`, `FlagsFollowLists` | the other invariants of `RelayFeed` | `SourcesGrow`: one turn adds one place to the sources of one id; each property is kept by the merge, for lists of any length |
| `RelayRowsProofs` | `RowsFollow`, `StandTogether`, `CanShow` | the three invariants | `Inv == TypeOK /\ RowsInv /\ OffersInv /\ TxInv`: `TxInv` says of the transaction's copies what `RowsInv` says of the tables, and that what is no longer pending is written; a commit hands it over. `OffersInv` adds that what a sweep may miss is nested, so that a second sweep leaves what some one sweep would (`RemainsOfRemains`) |
| | `ImplementsCatalog` | `Spec => CatalogSpec` | every step, seen through the columns of `RelayCatalog`, is one of its steps or none |
| `RelayReadersProofs` | `NothingSkipped`, `TotalsHold` | `[]NoRowSkipped`, `[]TotalIsKept` | the position of a row in an ordered list: rows that come push it back and never forward. `AheadInv` and `PassedInv`: what is owed lies at or behind the page's offset, and a page that leaves something behind was full. No offset on the way wraps, since the table fits an int |
| | `SwitchIsKept` | `[]SwitchIsTheOperators` | only chains with a row can have been switched (`SwitchInv`) |
| | `ClientsAgree` | `[]StrangersAreNews` | `ClientInv`: what is on offer now was known or is news, a bound that each write keeps: a replacement adds its chain at most, a withdrawal none, a switch one that is on afterwards |
| `TaskRecordsProofs` | `ColumnsKept` | `[]ColumnsAsAsked` | inductive with `TypeOK` |
| | `DeparturesOnly`, `ArrivalsOnly` | `[]SkipsOnlyForDepartures`, `[]RepeatsOnlyForArrivals` | lists are newest first: of the rows owed, at most `left` have come before the page's offset (`SkipInv`); those shown and still ahead, with those shown again, are at most `came` (`RepeatInv`) |
| `TaskCallsProofs` | `ImplementsService` | `CallsSpec => ServiceSpec` | `Inv == CallsTypeOK /\ CallInv /\ Behind /\ Locked`: where a call is, what it knows and what it has taken go together; no row and no request has an id that the sequence has yet to hand out; a DELETE before its commit has locked all that is there of what it names, and nobody else has. With it `StepRefines`: a step is the one moment at which its call takes effect, an answer that is clear and true, a refusal that did nothing, or nothing to a client |
| | `LateOnce` | `[]AtMostOneLateChange` | in `Inv`: of a call that is given up, only the statement that is under way can still be executed, and it is the last (`Late`) |
| `TaskLedgerProofs` | `Attribution` | `[]NoMisattribution` | `Attributed`: ids at or above `nextID` are used by nobody, and every id a handler holds names its own kind, nothing, or a task whose pattern was changed |
| | `LogsFollowTasks` | `Spec => LogsGoWithTasks` | `DoomedOwned`: the doomed logs belong to the doomed tasks, and every log of one of these is doomed or slipped in |
| `ProcessProofs` | `OneEntry` | `[]OneEntryPerPattern` | `GetConfigs` has one configuration per pattern and `Reconcile` leaves nothing else registered |
| | `TasksAreOnTime` | `[]OnTime` | `Timely`: ticks since the last run and ticks left on the timer never add up to more than the delay and one; a task without an entry was changed, could not be read or was refused at most one tick ago |
| | `PrecedenceHolds` | `[]Precedence` | `AfterOne`, `AfterTwo`: what a variable is after each file, step by step |
| | `ProfileHolds`, `SettingsStay` | `[]ServesItsProfile`, `[]NothingLost` | with `Precedence` the profile the loader looks for is the one that is wanted; then it is about `mergeMaps` and `ExpandEnv` |
| `EntProofs` | `TheLastWordCounts` | `Spec => LastWordCounts` | `WritesInv`: the types, and that what the builder holds of the column, a value, a clear, an addition or nothing, tells what its calls came to (`WordKept`). One lemma per kind of call shows that it keeps `WordKept`; then `Insert` and `Update` write what that says, and refuse only for the reasons named |
| | `AnswersAreAsked` | `[]AnswersAsAsked` | `ToldInv`: what a builder was told is what it and its context hold, and no two builders share a context. Each question is then answered by rows of an arrangement (`WindowStands`: an offset and a limit cut a window out of any order), and leaves behind what `told` says |

The types of each specification are a theorem too: `TypeCorrect`, or `FeedTypes`,
`PeriodicTypes` and `EnvTypes` where a module has two, and for ent's builders `WritesAlways`
and a part of `ToldInv`. `PeriodicTasks` assumes of its constants that there is a longest
delay, `RelayReaders` that a table has no more rows than an int can count.

Only model-checked is liveness (`LeftoversCleared`, `EventuallyMirrors`, `KeepsRunning`,
`StopsRunning`, `EveryCallEnds`), since fairness and ENABLED are out of this prover's reach.
Every other property of a run that is meant to pass is one of the theorems above.

## 5. Not modelled, and what could follow

* **Generated code.** Most of the repository's lines are ent's and protoc's. What
  the builders, predicates, queries and pages do is modelled, a column of each kind
  standing for the others in the run; edges of builders, eager loading, traversals, GroupBy, hooks,
  interceptors, old values, bulk builders and the accessors of messages are not. Nothing in the
  service uses them, but for the edge between task and log, which `TaskRecords` has as a column.
* **Wiring.** The construction of `ServiceContext`, the client package's
  options, `scheduletask`'s one static entry, and the start and stop of the queue
  worker are straight-line code or asynq's.
* **The RPCs that get one chain or token by its key** are one read each.
* **Times, wording, logging, HTTP.**

What could follow: `TaskLedger` with several deletions at a time; `PeriodicTasks`' `Run`
as `RelaySync`'s `Enqueue`, in place of the assumption that the timer fires.
