# Specifications of DUX

DUX is a semantic layer over DuckLake: `duxd` serves queries, a semantic model,
dashboards and controlled imports over HTTP; `dux` runs one query. This directory
holds TLA+ modules of the parts whose correctness depends on the order of steps or
on an algorithm with many cases, TLC configurations that check them on small
instances, and proofs that TLAPS checks for every instance.

## Inventory

| Part | Source | State | Operations | Hard because |
|---|---|---|---|---|
| Owner service | `internal/ducklake/service.go` | one mutex, active id, jobs in memory; import, receipt and maintenance rows; inbox, staged and partial files; tables and data files in DuckLake | start an import, start maintenance, poll, close, recover | three stores written separately, crash between any two writes, ignored errors, direct writers |
| DuckLake attachment | `internal/ducklake/ducklake.go` | the catalog with its data path and options, two DuckDB handles (owner, reader) | create or attach, configure, verify, open the reader | options written one by one, other processes with other settings |
| Schema monitor, scheduler | `cmd/duxd/ducklake.go` | last version seen, two timers | poll, refresh, tick | failed refresh, version read apart from the refresh |
| HTTP handlers | `cmd/duxd/main.go` | `schema` under `schemaMu` | query, measures, relationships, date table, hidden columns, import/export, refresh | memory and metadata database updated one after the other, errors in between, a mutex held while waiting for a connection |
| Bootstrap | `internal/bootstrap/bootstrap.go` | catalog generation, refresh status | start up, import, refresh | a stored model that no longer loads |
| Semantic schema, metadata | `semantic/schema.go`, `metadata.go`, `toml.go` | tables, measures, relationships; their rows; dux.toml | add, remove, replace, load, save | three layers, quoted names, designations and flags kept twice |
| Join paths | `semantic/join.go` | none | find, validate ambiguity, propagate filters | breadth-first search with ambiguity, bare and qualified names |
| Resolver | `semantic/resolver.go`, `resolution.go` | bindings and shapes of one query | resolve, expand measures, derive shapes | cycles over redefinitions, shared slices |
| Dashboard store | `dash/store.go`, `server.go` | files, cache by size and mtime | list, get, put, delete, theme | optimistic concurrency, external edits, reads outside the mutex |
| Query executor | `executor/executor.go` | connection pool, temp tables of a session | admit, materialise VARs, run, clean up | deadlines between steps, connections reused |
| External filters | `executor/extfilter.go` | none | validate, inject | where a filter still holds for the result |
| Emitter | `emitter/` | none across queries | compile DUX to SQL | fan-out between facts and across bridges, which filter reaches what |
| Parser, value formats, dashboard validation | `parser/`, `semantic/format.go`, `dash/validate.go` | none | parse, validate | none here |
| Web client, web dashboards | `web/core/src/client.ts`, `web/app/src/dash/` | document, undo, saving state | request, retry, edit, autosave | answers out of order, conflict on save |
| Tools | `cmd/dux`, `cmd/genfuncs` | none | one query; generated list | none |

Interactions. The handlers call the owner service and the dashboard store directly.
Queries hold `schemaMu` for reading while they wait for a connection and run;
mutations and refreshes take it for writing. The scheduler and the API compete for
the service's mutex, which is tried and never waited for, except by `Close`. Direct
pipelines write to the same DuckLake catalog without asking duxd, and the monitor
follows what they do. A query passes external filters, resolver, join inference and
emitter in this order. Dashboards save with the ETag they loaded.

## Modules

| Module | What it is |
|---|---|
| `DuckLakeService` | the owner service, its stores, its clients, direct writers, crash and recovery |
| `ImportLedger`, `DuckLakeServiceLedger` | what an import promises: one outcome, contents added at once and only once; the refinement mapping |
| `SemanticModel` | schema in memory, metadata database and dux.toml, with handlers, refresh, monitor, start-up |
| `LakeAttachment` | how a process creates, attaches, configures and checks the lake |
| `QueryServer` | queries and refreshes on the pool and the mutex, above `LakeAttachment` |
| `RelationshipGraph` | names, join inference, filter propagation, filter-path validation; the routes that joins are compared with |
| `SummarizeColumns` | the plan, join trees and rows of a SUMMARIZECOLUMNS, above `RelationshipGraph` |
| `ExternalFilters` | validation and injection of filters |
| `TableShapes` | columns and lineage of table expressions, with Go's slices |
| `QueryPipeline` | one query through `ExternalFilters`, the resolver, `TableShapes`, `RelationshipGraph` and `SummarizeColumns` |
| `DashStore` | the dashboard files, the cache, the requests, git and editors, restart |
| `DashDocuments`, `DashStoreDocuments` | documents that change in one step and as asked; the refinement mapping |
| `DuckLakeServiceProofs`, `DuckLakeSettlementProofs` | theorems about the owner service: its lock, lake and receipts; how its imports end, and the refinement of the ledger |
| `DashStoreProofs`, `DashListingProofs` | theorems about the store: its writes and the refinement of the documents; its cache and listings |
| `QueryServerProofs`, `SemanticModelProofs` | theorems about the server and the attachment, and about the semantic model |
| `QueryPipelineLemmas`, `QueryPipelineProofs` | sequences, least elements, injection, the search for joins; theorems about filters, measures and joins |
| `MC...` | instances for TLC |

### DuckLakeService

State. `imports`, `receipts`, `runs` are the tables `dux_imports`,
`dux_import_files`, `dux_maintenance_runs`. `inbox`, `partial`, `staged` are the
files below the import directory and below `_imports`. `tables`, `lake`, `listed` are
the catalog: the columns of each table, the data files whose rows it holds, and
those of them `ducklake_list_files` still lists under their own path (merging files
removes them from the list and keeps the rows). `locked`, `active`, `jobs` are the
fields of `Service`; `caller`, `work`, `upkeep` are the goroutines: a request up to
the lock, an import past its row (first in the request's goroutine, from `begin`
in its own), and a maintenance run. `proc` is the life of the process.

Actions. Each is the code between two points where another actor or a crash can
be noticed. `StartImport`, `LookupKey`, `Busy`, `Admit`, `AdmitFails` are
`StartImport` up to the INSERT; the key is looked up before the lock is tried, so
the unique column matters. `BeginCopy` to `InsertReceipt` are `stageImport`, one step
per file and per receipt. `SpawnWorker` answers the client. `BeginTx`, `Commit`,
`Unlink` are `runImport`: the transaction looks at the table again and conflicts with
a direct writer's DDL. `Cleanup` is the deferred rollback of both. `FinishImport`
writes the row, then the job; `ReleaseImport` gives the lock back. Maintenance has
`StartMaintenance`, `MaintenanceBusy`, `AdmitMaintenance`, `RunMaintenance`,
`FinishMaintenance`, `ReleaseMaintenance`. `Shutdown` and `CloseReturns` are `Close`;
`Crash` and `Exit` lose the memory. `Restart`, `RecoverCommitted`, `RecoverReceipts`,
`RecoverFailed`, `RecoveryStuck`, `FinishRecovery` are `recoverInterrupted`, which may
be interrupted itself. `Publish` and the `Writer...` actions are the world outside.

Abstraction. A content stands for its SHA-256, a column list for a shape. Timeouts
are nondeterministic failures of the steps that look at the context. Requests are
validated only as far as the file count; that a name stays below the inbox
directory is not modelled. `newID` draws ids in order, which only names them.
Listing and polling read state and are left out.

### SemanticModel

State. `mem` is `semantic.Schema`: introspected tables, relationships, measures,
formats, date columns, hidden designations, and the `Hidden` flags on tables and
columns, which the code keeps beside the designations. `db` is the metadata database, whose rows
keep the spelling of a table's name (`quoted`), `toml` the dux.toml beside the server.
`pending` is what a handler does after it gave up or before it took `schemaMu`,
`monitor` the goroutine of `monitorDuckLakeSchema`, `status` the refresh status,
`lake` the tables and version of the catalog. `imported`, `laid` and `unsaved` are
history that properties and proofs speak of.

Actions. `AddMeasure` changes memory and releases the mutex; `SaveMeasure` is the
store, which may fail. `DeleteMeasure`, `DropMeasure` and `DeleteRelationship`,
`RemoveRelationship` are the deletes, store first. `SetDateTable`, `DeleteDateTable`,
`Hide`, `Unhide`, `AddRelationship` (with both error paths) and `ReplaceRelationship`
hold the mutex throughout. `ImportDocument` and `ReloadImported` are `POST /import`;
`Stopped` is what a load leaves that ends early, at a measure that does not parse or because
the store fails. `Refresh` is `POST /refresh`; the monitor is `MonitorStart`, `MonitorPoll`,
`MonitorRefresh` and `MonitorStatus`, which reads the status when the mutex is free again and
another refresh may have changed it;
`Refreshed` and `NotRefreshed` are `RefreshSchema` with what it swaps in. `Crash`,
`Startup` and `StartupImport` are the process, `ChangeTables` and `EditTOML` others.

Abstraction. Names are lower-cased, expressions and formats opaque, columns of a
relationship are part of a join, which tells relationships on other columns apart.
Listings and the export only read and are left out, and so is writing a dux.toml.

### LakeAttachment and QueryServer

`LakeAttachment`. `catalog` outlives the process; `process` is its command line and
how far it has come. `AttachOwner`, `CheckDataPath`, `SetOption` (three times), `Owned`
are `OpenOwner`, `OpenReader` the reader of the queries and of tools; `Launch` and
`Exit` begin and end a process between any two steps.

`QueryServer`. A request is `AskQuery` (blocked at `schemaMu` while a writer waits, as
Go's RWMutex has it), `Compile`, `Acquire` or `Shed` (admission), `RunVar` for each VAR,
`RunFinal`, `Close` (drop the temp tables under the query's context, give the lane
back; the tables a cancelled query leaves stay in the session as `Left`, and `RunVar`
replaces one of the same name), `Unlock`. `EndContext` is a client that leaves, or `QueryTimeout`. A refresh is
`AskRefresh`, `LockSchema`, `RefreshSchema` (which needs a lane and lists what its
session shows), `UnlockSchema`. `Stop` is the end of the process, which cuts requests.
Requests for values are programs without VARs.

### QueryPipeline and what it composes

`RelationshipGraph` holds the functions of join.go as operators: `tableNamesMatch`,
`ResolveTable`, `bfsJoin`, `InferJoinPath`, `LeafEdge`, `FilterReaches`,
`GroupingReaches`, `ValidateFilterPaths`. The queue of `bfsJoin` is taken a level at a
time (`Level`), with every walk of that length; what the code reports does not depend
on the order inside a level, except which of two errors. The levels of a search, the steps
of a leg and the targets of a query are recursive functions over `0 .. n`. The reference is
`Routes`, all sequences of relationships that lead from one table to another, and
`Shortest` of them.

`ExternalFilters` holds `resolveFilter` and `ApplyExternalFilters` on expressions that
are a sequence of functions around a core. Its reference `Guaranteed` says which
filters every row of the result satisfies.

`TableShapes` has `shapeFunc` twice: what columns result (`Result`) and where Go leaves
them (`Stored`), as slices of arrays with capacities in a heap, because a function
may hand on the slice of its argument.

`SummarizeColumns` takes a SUMMARIZECOLUMNS from its arguments (`planMeasures`,
`contextModifying`, `validateGroupKeys`) over the clusters' FROM
(`stitchedClusterFrom`: flat joins, DISTINCT key maps, EXISTS chains) to the rows that
DuckDB would return on tables of two rows, with blank foreign keys, blank-row pruning
and the stitch of clusters. An aggregate is how often each row of its table is taken.
The reference (`Ways`, `Belonging`) knows no plan: it follows filters one relationship
at a time to the aggregated table and takes each row that belongs to a cell once.

`QueryPipeline` is the state machine: `Load` (validation of the graph), `Filter`,
`PreResolve`, `Visit` and `Return` (the depth-first search over measures with its
states), `Shape` and `Shaped`, `Join`, `Summarize`. Inputs are chosen in `Init`. A reference
in a VAR or the body is a measure, an output column or a column of a VAR declared before. The
references of a measure leave out those in a table constructor, into which
`resolveMeasureExpr` does not descend.

### DashStore

State. `file` has the text and mtime of every dashboard and of the theme; `cache` and
`mu` are the fields of `Store`, `now` the clock mtimes come from. `req` is what each
client has under way, `tab` the document and ETag it got last.

Actions. A reading request is `AskRead`, then `ReadRaw` for a download or the theme
(one read, and the ETag of its bytes), or `GetRead`, `GetStat` and `stat`: `Lookup`
under the mutex, `Load` if there are no bytes yet, `StoreEntry` under the mutex again.
`AskList`, `ListStat`, `ListEnd` walk the directory and use the same `stat`. A writing
request is `AskWrite`, `Refuse` (validation), `Lock`, `Check` (the preconditions of
Put, PutTheme and Delete), then `PutWrite`, `DeleteRemove` or `WriteFails`, which release
the mutex. `ExternalEdit` and `ExternalRemove` ask nobody; `Restart` loses all but the
files and what clients hold. The answer to a PUT may be lost.

Abstraction. Texts are model values; `Pretty` is their formatting, `Valid` what the
schema accepts, an ETag the hash of a text and so injective. What a cache entry holds
is a function of the text, so it holds the text. Renaming a finished temporary file is
one step, as readers see it. Resolving a path and opening it are one step; a file that
vanishes in between gets another status code and nothing else changes. Names are
already lower-cased and one file has one identity.

## Runs

| Run | Question | Instance |
|---|---|---|
| `imports_crash` | do interleavings, retries and crashes at any step keep every promise; is the service an import ledger | two imports, two keys, two callers, two files and contents, two crashes or shutdowns |
| `imports_liveness` | does every import settle, is the lock freed, does Close end; do rows and jobs stay honest | one import, one maintenance run, two callers; lookups and writes fail, tables are created, dropped and compacted, names reused; one crash; fairness |
| `semantic_model` | do memory, store and flags agree, does the graph stay unambiguous, does the monitor bring the lake's tables in | two clients, a table and one that needs quotes, a relationship and its reverse, one measure name, a document that is ambiguous when imported, two dux.toml files, three events |
| `query_server` | does a start repair what another left of the options; do queries, timeouts and refreshes leave lanes, sessions and the mutex in order, and is everyone answered | two clients, duxd with two lanes, one with another path, one with another retention, one with too small a pool, a tool with another retention; two starts, one refresh each |
| `query_pipeline` | do filters hold, are cycles refused, are joins the one shortest tree, does each cell aggregate its rows | all graphs of up to three relationships on three tables; all bodies of up to two functions around six cores; measures that refer to each other and are redefined; summaries over two facts, a snowflake and a bridge with every CALCULATE argument |
| `dash_api` | do racing clients keep each other's saves; is the store a set of documents that change as asked | two clients, a dashboard and the theme, two texts, all mtimes alike, failing writes, lost answers, restarts |
| `dash_listing` | are cache and List right while git writes | two clients that list, PUT and DELETE among external edits, one document in two formattings, mtimes distinct, two writes at most |
| `compaction_forgets` | finding: see below | one file, the final UPDATE may fail, one maintenance run |
| `lost_measure` | finding: see below | two clients, no document, three events |
| `overridden_filter` | finding: see below | the summaries that `query_pipeline` leaves out |
| `var_lineage` | finding: see below | two columns and up to two expressions over them |
| `dash_lost_update` | finding: see below | two clients, mtimes distinct, two writes at most |

That no import, table file or lock is lost or doubled under failing statements, direct
writers and any number of everything is proved (below), and needs no run beside the two.

Properties of the owner service. `OneOwner`: lock, active id and operation in progress agree.
`RegisteredOnce`: no table holds the same content twice. `LakeMatchesReceipts`: an
import is in its table with exactly the files it has receipts for, or not at all.
`SettledTruthfully`: the status tells what the table holds. `DataFilesExist`: no
listed file is deleted. `NoZombieRow`: a row says running only while its operation
runs. `NoLeftoverPartial`: a `.partial` file belongs to a copy being written.
`JobTellsRow`: what a client polls and what a restart reads agree.
`QuietAfterClose`, `InboxKept`, `DuplicateMeansRegistered` are action properties;
`ImportsSettle`, `LockFreed`, `CloseEnds` are liveness.

Of the semantic model: `FlagsMatch` relates the flags of `GET /schema` to the
designations of `GET /export`; `GraphUnambiguous` says that without an import no
interleaving makes the live graph ambiguous, which every query relies on;
`NothingUnstored` relates memory to store, dux.toml and the requests under way;
`TablesFollowLake` is the monitor's promise, `StoredIsLive` the README's.

Of the server: `ConfiguredPasses` says that a duxd that wrote its options is never refused by
a check, from whatever mixture of options the starts before left when they died between two
calls of `set_option`; `RefusedLeavesLake` what a refused start may touch; `WriterHasPool` excludes the deadlock of a
refresh that holds the mutex and waits for a lane; `OneSchema` relates compilation to
execution; `LanesClean` sessions to queries, also on a lane where a cancelled query left
tables of the same names; `Answered` and `RefreshEnds` are liveness.

Of the pipeline: `FiltersHold`, `ResolvedAcyclic`, `JoinsSound` and `CellsExact` compare
what was injected, visited, joined and compiled with definitions that enumerate: the
guaranteed filters, reachability, all sequences of relationships, the ways filters take.

Of the dashboard store: `NoBlindOverwrite` and `RawNeverLost` say what a PUT without
an ETag, and one with an ETag from a download or an earlier PUT, may replace;
`CacheHonest` relates entries to files, `ListFresh` what a List collects to the files as
its walk found them, `ImplementsDocuments` is the refinement.

Bounds. Two imports, callers, keys, files and contents are what it takes for a
retry under the same key, a race of two keys, an import of two files of which one
fails, and a second import of a part of the first. Two stops let a recovery be
interrupted. The bounds only cut how often things happen, never which step may
follow which; `Busy` and `MaintenanceBusy` also answer when the ids are used up, so
that a bound never shows as a deadlock, and deadlock is checked in these runs and those
of the dashboard store. Keys and callers are symmetric; the runs with liveness use no
symmetry. In the semantic model an event is a request, a fault, a DDL statement, an edit
of dux.toml or a restart, and completing what was begun costs none: three are a request
with two things in its middle, and the shortest violations of the mutants take two.
In the server two clients on two lanes contend on the pool of one and fill that
of two; the second start meets the catalog of the first. In the pipeline three
relationships on three tables are a cycle, two parallel paths, or a path with an
ambiguous detour; two rows tell once from twice, a blank key from a match, and shared from
separate keys. Two clients of the
dashboard store are enough for every race of two requests, and the one that
`dash_lost_update` finds needs no third. `MaxClock` bounds the writes where mtimes are
distinct (a write beyond it can only fail), and nothing where they are all alike, which
is the worst case for the cache and unbounded in the number of writes.

Deadlock is not checked where a behaviour ends: when the events of the semantic model or
the starts of the server are used up, and at the end of a query of the pipeline.

Switches. `FaultKinds` names the statements that may fail: the lookups, the INSERT
of a row or receipt, the DELETEs, the final UPDATE. `WriterOps` names what
direct writers do. `ReuseNames` lets producers publish under a name that an import
is using. `ListMissingFails` says whether listing the files of a missing table is
an error, which the repository does not decide: the safety run takes the error,
which keeps duxd from starting, and the liveness run takes the other answer.

Fairness. In the owner service weak fairness of each goroutine that was started (the Go
scheduler), of `CloseReturns` and `Exit` (main returns), and of recovery (a supervisor
starts duxd again). In the server weak fairness of each request's steps and of the
refresh's: the scheduler, timers that fire, and DuckDB that ends a statement or is
interrupted by `QueryTimeout`; nothing is assumed of `EndContext`, nor that processes
start. In the semantic model weak fairness of the monitor's three steps, which its ticker
drives. Clients, producers, editors and direct writers owe nothing.

### Findings

`compaction_forgets`. If the UPDATE at the end of a committed import fails, the row
stays running while the process goes on (service.go:813). A compaction then merges
the imported files, so `importWasCommitted` does not find them listed after the next
restart; recovery deletes the receipts, fails the import, and a client that retries
registers the same rows again. README.md:444 promises a `409`.

`lost_measure`. `addMeasureHandler` adds the measure to memory, releases the mutex, then
saves it. A refresh in between loads a store without it and swaps memory: the measure is
stored, answered `200`, and unknown to queries until the next refresh. README.md:668 says
that measures are available immediately.

`overridden_filter`. A CALCULATE whose plain predicate is on a column that is filtered
from outside, but is no group key, is not lifted into a context of its own
(filterctx.go:316). Its predicate becomes an aggregate FILTER below the outer WHERE, so
that both hold, where filterctx.go:231 says that it replaces the outer filter.

`var_lineage`. `shapeFunc` returns its argument's slice; UNION then clears lineage in it
and ADDCOLUMNS appends to it in place when there is room. The columns of a VAR change when a
later expression uses it, where README.md:813 says lineage is retained through table
variables and set operations.

`dash_lost_update`. The JSON GET reads the bytes (store.go:293) before size and mtime
(297). After a PUT in between, an entry another request cached for the new file gives
the old document the new ETag; saving it then overwrites the PUT without a `409`.
In the same window, with no entry cached, the GET stores the ETag
and validity of the old bytes under the key of the new file. Every later GET serves
that ETag, and every save made from it is refused with `409`, until the file changes.
Reading size and mtime first would close both; `dash_listing` shows it for List, which
does so.

### Divergences without a run

Seen while modelling; the passing instances avoid those marked with the
condition they need.

- Receipts outlive the table: after a direct writer drops it, an import of the same file
  is refused as a duplicate of content no table holds, where SKILL.md:34 says that such a
  `409` means that it does. DELETE of a dashboard without If-Match removes it, where
  openapi.json:518 requires the header and documents `428`.
- `listRelationshipsHandler` (main.go:946) reads the live slice outside the mutex, in
  place updates race with it. A failed `SaveMeasure` leaves the measure live and
  answers 500 (main.go:719). `DELETE /measures` with a quoted path removes the row and
  not the measure in memory.
- What is stored may not load again: `POST /measures` has no name-conflict check
  (main.go:708) and dux.toml does (toml.go:96); measures of an imported document lose the
  quotes of their table (toml.go:182, metadata.go:494). `POST /import` commits before it
  loads, and skips `ValidateFilterPaths` and the dux.toml overlay (main.go:634), which
  README.md:1048 promises; `--import` lays the document over a schema that is not
  cleared (bootstrap.go:398); two date tables pass by import and dux.toml though
  main.go:777 says one. A relationship of dux.toml posted again as bidirectional makes the
  next refresh fail.
- The monitor takes the version it finds when it starts as loaded (ducklake.go:152),
  though the first refresh was earlier.
- executor.go:103 says temp tables are dropped on all code paths; the DROP runs under the
  query's context, so a query that was cancelled or timed out leaves them in the session
  (`LanesClean` asks an empty session only of lanes outside `cancelled`), and the next
  `GET /schema` may list them. Later queries are not hurt: EmitVarCreate replaces a table of
  the name (emitter.go:79).
- Shutdown returns from main while requests run (main.go:256). List fails when a file is
  removed during its walk (store.go:260); on a case-sensitive file system two names that
  differ in case share one identity (store.go:154).
- A bare name matches every table of that name (join.go:222), and bare and qualified names
  of one table are two to `ValidateFilterPaths`; what that does to joins is told under
  `JoinsCorrect`. README.md:1000 has filter context flow
  from the `from` table; `FilterReaches` does the opposite. TOPN and ALL over a base table
  get an external filter around them, not inside.
- Emitter, left out of the instances of `CellsExact`: a filter on a table inside a group chain
  is applied inside a LEFT JOINed key map, so rows that fail it survive under the blank
  key (stitched.go:697, README.md:970); with a longer own route a second dimension
  can be reached through an unrelated fact (stitched.go:148); flat single-cluster queries
  join a filter on another fact instead of refusing it (README.md:970); a context CTE grouped
  by a key beyond a bridge joins the bridge flat and duplicates rows (contextcte.go:394,
  README.md:1031); `ALL(t[col])` and ALLEXCEPT with `t` beyond a bridge gate rows though
  nothing filters (cluster.go:315). Beside context clusters the regular ones are rooted at the
  keys and have no rows for blank keys, which `CellsExact` excepts.

## Proofs

`DuckLakeServiceProofs` proves, for any numbers of imports, callers, keys, files,
tables and stops, from the named assumptions on the constants:

| Theorem | Statement | Condition |
|---|---|---|
| `TypeCorrect` | `Spec => []TypeOK` | |
| `MutualExclusion` | `Spec => []OneOwner` | |
| `QuietClose` | `Spec => QuietAfterClose` | |
| `FilesExist` | `Spec => []DataFilesExist` | |
| `ContentOnce` | `Spec => []RegisteredOnce` | `ListKept` |
| `AllOrNothing` | `Spec => []LakeMatchesReceipts` | `ListKept` |

`ListKept` says that no file can leave DuckLake's list while the row of its import
says running: direct writers do not compact, and the final UPDATE does not fail or
there is no maintenance. `compaction_forgets` shows what happens without it.

The argument. `TypeInv` adds to the types that a request under way has a request and
an import past its copies has a copy. `OneOwner` is inductive with it. `CopiesInPlace`
is the invariant of `FilesExist`: nothing is in the lake for an import before its
commit, so a rollback removes no listed file, and the copies it is about to register
are staged; a checkpoint removes unreferenced files only, and by `OneOwner` none
that an import is still staging. `Retired` is the invariant of `QuietClose`: Close
returns with nothing under way, and a request that comes later finds the context
cancelled before its first copy. `RegisteredOnce` follows from unique receipts and
`LakeMatchesReceipts`; the invariant `RegistrationInv` says how receipts come about:
they grow from none to those of the copies before the commit (`Planning`), name
their import and target and are unique (`Receipted`), the files of an unsettled import
are still listed (`Listed`), and a row that says running is attended while the process
runs (`Attended`). The last two are what recovery needs to tell a committed import from
one that was not, and where `ListKept` is used.

`DuckLakeSettlementProofs` proves how it ends, from the same assumptions:

| Theorem | Statement | Condition |
|---|---|---|
| `PartialsRemoved` | `Spec => []NoLeftoverPartial` | |
| `RowsAttended` | `Spec => []NoZombieRow` | the final UPDATE does not fail |
| `JobsTruthful` | `Spec => []JobTellsRow` | the final UPDATE does not fail |
| `SettledTrue` | `Spec => []SettledTruthfully` | `ListKept`, no table is dropped |
| `InboxSafe` | `Spec => InboxKept` | no name is reused, no table is dropped |
| `DuplicatesTrue` | `Spec => DuplicateMeansRegistered` | no DELETE fails, no table is dropped |
| `ServiceImplementsLedger` | `Spec => ImplementsLedger` | `ListKept`, no table is dropped |

Each condition excludes something the code does not survive. The UPDATE's error is
ignored, so the row goes on saying running while the process serves. A direct writer
that drops a table takes a succeeded import's rows with it and leaves the receipts.
The error of the DELETE after a rollback is ignored too, so a failed import's receipts
answer for content no table holds. An inbox file is removed by its name, whatever a
producer has put there since.

The argument. `Base` joins the invariants above that need no condition with `Staging`:
between the processes nothing is in memory (`Vacant`), and the program counter of an
import says what its row, copies, error and receipts are (`Stage`).
`StepOnImport` says once what any step of any actor can be to one import (its INSERT, a
step of its own, the end of the process, its recovery, or nothing it could notice),
and `ImportEffect` what a step of its own does to lake, receipts, row and job. Most
invariants after that are about a single import and have those few cases: `Tidy` for the
partial files, `Tended` and `Told` for row and job (`Kept` for maintenance), `Settling` for
the outcome, `Sources` for the inbox, `Backed` for receipts that a later import is refused by. The refinement maps the
row's status to the ledger's outcome and the lake to its registered contents. `Admit` is the
ledger's acceptance, `Commit` the one instant at which contents appear, the last UPDATE or
a recovery the outcome; all else stutters. That a commit adds nothing a target already has is
`RegisteredOnce` in the next state.

`DashStoreProofs` proves, for any numbers of clients, paths and texts and any clock:

| Theorem | Statement | Condition |
|---|---|---|
| `TypeCorrect` | `Spec => []TypeOK` | |
| `NoBlindPut` | `Spec => NoBlindOverwrite` | no external edits |
| `NoLostUpdate` | `Spec => RawNeverLost` | no external edits |
| `StoreImplementsDocuments` | `Spec => ImplementsDocuments` | no external edits |

External edits take no lock and may come between check and rename, so the condition
is needed. `dash_lost_update` shows why clients of the JSON GET get no promise: the
refinement takes a write with an ETag from there for one that does not care. `WriteInv` says of each
client that only the holder of `mu` is past `Lock`, that what `Check` allowed is still
allowed, that a header sent is the ETag held, and that an ETag held is the hash of the
document held up to formatting. The refinement maps `Check` to nothing and the rename to
the change; `AllowedIsGranted` is where the two meet.

`DashListingProofs` proves, with external edits, faults and restarts:

| Theorem | Statement | Condition |
|---|---|---|
| `CacheTrue` | `Spec => []CacheHonest` | mtimes are distinct, no client uses the JSON GET |
| `ListingsTrue` | `Spec => ListFresh` | the same |

With mtimes alike, size and mtime do not tell two texts apart; the JSON GET reads the bytes
before the key it stores them under (`dash_lost_update`). `ListInv` is the invariant: no
file and no entry has an mtime of the future, a request that has just taken size and mtime
has read nothing yet, and bytes about to be stored are the file's as long as the
file still has the key (`Loaded`). A write in between gives the file an mtime that no key
has, and so costs a stored entry its use rather than its truth.

`QueryServerProofs` proves, for any clients, programs, settings, lanes, starts and
refreshes:

| Theorem | Statement |
|---|---|
| `TypeCorrect` | `Spec => []TypeOK` |
| `PoolForWriter` | `Spec => []WriterHasPool` |
| `CompiledAndRun` | `Spec => []OneSchema` |
| `SessionsClean` | `Spec => []LanesClean` |
| `WrongPathIsHarmless` | `Spec => RefusedLeavesLake` |
| `StartRepairsOptions` | `Spec => []ConfiguredPasses` |

Their invariant is `Types /\ Lent /\ Mutex /\ Sessions`. `Lent`: a request has a lane of
the pool exactly while it runs, and no two have one lane. `Mutex`: a writer that has the
mutex has it alone, and a request past compilation saw the current version.
`Sessions`: the tables a request materialised are its own in the lane it has, and a free lane
is empty unless a context ended under one of its requests. `PathFixed` says that the options
are written only after the path was found to be the catalog's. `Written` says which of the
three options already are the process's own after so many calls, and is inductive with the
types and `PathFixed` (`WrittenStep`); `ConfiguredPasses` is its last case. `PoolForWriter` needs that duxd serves
only with a valid pool, which has a lane beside the pinned connection.

`SemanticModelProofs` proves, for any clients, tables, relationships, measures, documents
and versions of dux.toml, with layers of the right shape as the assumption about those:

| Theorem | Statement |
|---|---|
| `TypeCorrect` | `Spec => []TypeOK` |
| `FlagsAgree` | `Spec => []FlagsMatch` |
| `GraphStaysUnambiguous` | `Spec => []GraphUnambiguous` |
| `QueriesSeeStored` | `Spec => []NothingUnstored` |

The invariant adds two facts: the lake's version has not passed the number of events, and
a reload is under way only after an import (`ReloadsImported`), without which a reload
could bring in an ambiguous graph with no import on record. `UndoneAsBefore` shows that
the error paths of POST /relationships put back exactly what they found, `FewerStillValid`
that a removal cannot make a graph ambiguous (an edge that was a bridge stays one).
`NothingUnstored` is carried part by part (`LinkStored`, `MeasureStored`): a request that
changes one of memory and store first leaves the rest of itself in `pending` until the
other has followed, and no other request can take that away from it.

`QueryPipelineProofs` proves, for every query and schema of the types in `InputsAssumption`,
with any number of filters, nested functions, measures and redefinitions:

| Theorem | Statement |
|---|---|
| `FiltersApplied` | `Spec => []FiltersHold` |
| `MeasuresResolved` | `Spec => []ResolvedAcyclic` |
| `JoinsCorrect` | `Spec => [](NamesToldApart => JoinsSound)` |

Filters. `AppliedOrRefused` goes through the ways a query is accepted. Without filters there
is nothing to show. Around a base table the filters go outside everything. In a
SUMMARIZECOLUMNS they go between its group keys and the rest, below functions that return no
row their argument does not have; `InjectedAreGuaranteed` shows that the arguments the
grouping reads are then the group keys, as before, and all the filters. `Spliced` and
`Joined` are what that needs of sequences cut in two and three.

Measures. `MeasureInv` says what the depth-first visit knows. `Chain`: the stack is a path of
distinct definitions, each named by the one below. `Marked`: exactly those on the stack are
in progress. `Behind`: of each of them, the references that have been passed are
finished. `Ranked`: the finished definitions have ranks that fall along every reference. At
the end every definition in reach is finished, and a cycle would have to fall back to its own
rank (`RankedNotCircular`). A reference to one in progress closes the chain
(`LoopedCircular`), and since the chain's definitions are distinct it is no longer than
`Closure` has rounds (`ChainBounded`, `ChainReached`). `GreatestElement`, `SetInduction`
and `InitialSegment` stand in for induction and for finiteness.

Joins. `NamesToldApart` has two halves, and `JoinsSound` needs both; it is false for some
inputs of `query_pipeline` and true for others, trees of several steps among them.
The names in use must not match across tables: with tables a, x.c and y.c, a
relationship between c and a, and a query over x.c and a, `bfsJoin` follows a
relationship whose end is neither x.c nor any other one table. And relationships must
have one name for each table: with tables a and x.c, a bidirectional relationship between
a and c and another between a and x.c, `ValidateFilterPaths` accepts a second way. TLC
finds both when it is given those graphs, which are not among the inputs of the run.

`JoinInv` only says where the graph was validated and what `path` is; the argument is
about the operators, in `QueryPipelineLemmas`. `WalksFrom` are the walks of a given length;
`LevelSearches` shows of `Level` that a search that goes on (`Searching`) has in front all
walks to tables not seen before and has seen all tables nearer than that, and that one
that has found something (`Settled`) has all shortest walks; `SearchResult` says what
`bfsJoin` returns. Search and routes both go to as many steps as there are relationships,
and a shortest path has no more. `GrownIsTree` and `TargetJoined` carry the tree
through the steps of a leg and through the targets, `InferredTree` to the result.
`EndsOfWalks` and `ShortestHits` translate walks into routes, `WalkToldApart` two walks into
two routes, which gives `InferredShortest` for two tables. `BesideExist` and
`AloneIfValid` turn a route around a bidirectional relationship into what the closure of
`ValidateFilterPaths` would have reached.

These invariants were model-checked on the instances above before they were proved.

Only model-checked. `CellsExact`: plan and reference count the ways through a join tree,
and the divergences of the emitter named above are outside of its instances. `TablesFollowLake`, `Answered`, `RefreshEnds`,
`ImportsSettle`, `LockFreed` and `CloseEnds` are liveness, which with ENABLED is out of the
prover's reach. The passing runs that check a property of a conditional theorem keep its
condition, except that `query_pipeline` has inputs outside `NamesToldApart`, on which
`JoinsSound` is model-checked only; what becomes of the others is shown by
`compaction_forgets` (`ListKept`) and `dash_lost_update` (the JSON GET), and told above for the
rest.

## Plan

1. Time intelligence and rollups in `SummarizeColumns`, and the context clusters beyond a
   bridge, with the divergences above as runs once the intended meaning is settled.
2. ROW, ADDCOLUMNS and the set functions above a summary, and the values DISTINCT makes
   of them.
3. The web client's retry and the dashboards' autosave, composed with `DashStore`.
4. More proofs: the layout of `TableShapes` for functions that allocate; on top of
   `InferredTree`, that the join trees of `SummarizeColumns` multiply no row of the fact.

## Not modelled

The parser is a grammar given to a library. Of the emitter the text of the SQL, scalar
functions, rollups, computed keys, time intelligence, CALCULATE inside other arithmetic
of one measure, and the other table functions are left out: most are translations of one
construct whose meaning lies in DuckDB. Dashboard validation is a JSON schema, which
formats are valid a list; the models take both as constants. Introspection and the
conversion of values ask DuckDB. Command line tools have no state. The browser's state
in the web dashboards is not modelled; its saves are the clients of `DashStore`, and that
a shed request ran nothing, which the client's retry relies on, is part of
`QueryServer`. `PROJECT.json` lists every part with its status.
