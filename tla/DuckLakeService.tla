-------------------------- MODULE DuckLakeService --------------------------
(***************************************************************************)
(* The owner service of duxd (internal/ducklake/service.go): the controlled *)
(* import of Parquet files into DuckLake and the maintenance runs, both     *)
(* serialized by one mutex that is only ever tried, never waited for.       *)
(*                                                                          *)
(* Three stores survive a crash and are written separately: the metadata    *)
(* database (import rows, receipts, maintenance rows), the file system      *)
(* (inbox, staged copies, .partial files) and the DuckLake catalog (tables  *)
(* and the data files registered in them).  The import is a sequence of     *)
(* steps over the three, and recovery has to make sense of any prefix.      *)
(***************************************************************************)
EXTENDS Naturals, FiniteSets

CONSTANTS
  Import,        \* identifiers newID() draws for imports
  Maintenance,   \* identifiers newID() draws for maintenance runs
  Key,           \* values of the Idempotency-Key header
  File,          \* names below the inbox directory
  Content,       \* file contents, told apart by their SHA-256
  Table,         \* DuckLake tables
  Shape,         \* column lists of a file or table
  ShapeOf,       \* [Content -> Shape]
  Requests,      \* the import requests the clients send
  Caller,        \* goroutines that run a request or a scheduler tick
  None,          \* stands for nil, "" or no row
  MaxFiles,      \* cfg.MaxImportFiles
  HistoryLimit,  \* maintenance rows kept by finishMaintenance (100 in the code)
  MaxStops,      \* bound: how often the process crashes or is shut down
  FaultKinds,    \* metadata statements that may fail
  WriterOps,     \* what direct DuckLake writers do
  ReuseNames,    \* TRUE: producers may publish under a name an import is using
  ListMissingFails \* TRUE: ducklake_list_files fails for a missing table

Request == [table : Table, files : SUBSET File, create : BOOLEAN]

ASSUME IdAssumption ==
  Import \subseteq Nat /\ Maintenance \subseteq Nat /\ Import \cap Maintenance = {}
ASSUME NoneAssumption ==
  None \notin Import \cup Maintenance \cup Key \cup Content \cup Shape \cup Request
       \cup [file : File, content : Content]
ASSUME DataAssumption ==
  ShapeOf \in [Content -> Shape] /\ Requests \subseteq Request
ASSUME BoundAssumption ==
  MaxFiles \in Nat /\ HistoryLimit \in Nat /\ MaxStops \in Nat
ASSUME SwitchAssumption ==
  /\ FaultKinds \subseteq {"lookup", "row", "receipt", "delete", "finish"}
  /\ WriterOps \subseteq {"create", "drop", "compact"}
  /\ ReuseNames \in BOOLEAN /\ ListMissingFails \in BOOLEAN

VARIABLES
  \* metadata database (dux_meta)
  imports,     \* dux_imports
  receipts,    \* dux_import_files
  runs,        \* dux_maintenance_runs
  \* file system
  inbox,       \* the import directory
  partial,     \* *.partial files below _imports
  staged,      \* published copies below _imports
  \* DuckLake catalog
  tables,      \* shape of every existing table
  lake,        \* data files whose rows a table holds
  listed,      \* those still listed under the path they were added with
  \* memory of duxd
  proc,        \* life of the process and of the service's context
  locked,      \* Service.mu
  active,      \* Service.active
  jobs,        \* Service.jobs
  caller,      \* requests being served
  work,        \* StartImport past the INSERT, then the import goroutine
  upkeep,      \* maintenance goroutines
  stops        \* bound: crashes and shutdowns so far

metadata == <<imports, receipts, runs>>
files    == <<inbox, partial, staged>>
catalog  == <<tables, lake, listed>>
memory   == <<locked, active, jobs, caller, work, upkeep>>
vars     == <<metadata, files, catalog, memory, proc, stops>>
-----------------------------------------------------------------------------
Copy    == [file : File, content : Content]
Receipt == [import : Import, table : Table, file : File, content : Content]
Staged  == [import : Import, file : File, content : Content]

NoRow  == [status |-> "absent", key |-> None, request |-> None]
NoCall == [pc |-> "idle", key |-> None, request |-> None, import |-> None]
NoWork == [pc |-> "idle", copied |-> {}, cur |-> None, seen |-> None, err |-> "none"]

Status == {"absent", "running", "succeeded", "failed"}
Row  == [status : Status, key : Key \cup {None}, request : Requests \cup {None}]
Call == [pc : {"idle", "lookup", "lock", "wait", "api", "scheduled"},
         key : Key \cup {None}, request : Requests \cup {None}, import : Import \cup {None}]
WorkPc == {"idle", "copy", "check", "receipts", "begin", "commit", "unlink",
           "cleanup", "finish", "release"}
Work == [pc : WorkPc, copied : SUBSET Copy, cur : Copy \cup {None},
         seen : Shape \cup {None}, err : {"none", "duplicate", "other"}]
\* Steps of the goroutine counted by Service.wg; the earlier ones run in the caller.
InGoroutine(i) == work[i].pc \in {"begin", "commit", "unlink"}

TypeOK ==
  /\ imports \in [Import -> Row]
  /\ receipts \subseteq Receipt
  /\ runs \in [Maintenance -> Status \cup {"skipped", "trimmed"}]
  /\ inbox \in [File -> Content \cup {None}]
  /\ partial \subseteq [import : Import, file : File]
  /\ staged \subseteq Staged
  /\ tables \in [Table -> Shape \cup {None}]
  /\ lake \subseteq Receipt
  /\ listed \subseteq lake
  /\ proc \in {"down", "recovering", "up", "closing", "closed"}
  /\ locked \in BOOLEAN
  /\ active \in Import \cup Maintenance \cup {None}
  /\ jobs \in [Import \cup Maintenance -> Status]
  /\ caller \in [Caller -> Call]
  /\ work \in [Import -> Work]
  /\ upkeep \in [Maintenance -> {"idle", "run", "failed", "done", "release"}]
  /\ stops \in 0 .. MaxStops

Init ==
  /\ imports = [i \in Import |-> NoRow]
  /\ receipts = {}
  /\ runs = [m \in Maintenance |-> "absent"]
  /\ inbox = [f \in File |-> None]
  /\ partial = {} /\ staged = {}
  /\ tables \in [Table -> Shape \cup {None}]
  /\ lake = {} /\ listed = {}
  /\ proc = "up"
  /\ locked = FALSE
  /\ active = None
  /\ jobs = [j \in Import \cup Maintenance |-> "absent"]
  /\ caller = [c \in Caller |-> NoCall]
  /\ work = [i \in Import |-> NoWork]
  /\ upkeep = [m \in Maintenance |-> "idle"]
  /\ stops = 0
-----------------------------------------------------------------------------
(* Helpers shared by the steps. *)

Names(copies) == {x.file : x \in copies}
Of(i) == imports[i].request
ReceiptOf(i, x) ==
  [import |-> i, table |-> Of(i).table, file |-> x.file, content |-> x.content]
StagedOf(i, x) == [import |-> i, file |-> x.file, content |-> x.content]
ReceiptsOf(i) == {r \in receipts : r.import = i}
\* ctx.Err() == nil on a context derived from Service.ctx.
CtxLive == proc = "up"
Running == proc \in {"up", "closing", "closed"}
\* newID(): ids are drawn in ascending order, which only names them.
FreshImport(i) ==
  /\ imports[i].status = "absent"
  /\ \A k \in Import : k < i => imports[k].status # "absent"
FreshRun(m) ==
  /\ runs[m] = "absent"
  /\ \A k \in Maintenance : k < m => runs[k] # "absent"
NoFreshImport == \A i \in Import : ~FreshImport(i)
NoFreshRun    == \A m \in Maintenance : ~FreshRun(m)
\* The statement of this kind fails, where the run lets it.
Fault(kind) == kind \in FaultKinds

Return(c) == caller' = [caller EXCEPT ![c] = NoCall]
ReturnFrom(i) == caller' = [c \in Caller |-> IF caller[c].import = i THEN NoCall ELSE caller[c]]
Goto(i, pc) == work' = [work EXCEPT ![i].pc = pc]
Fail(i, err) ==
  work' = [work EXCEPT ![i] = [@ EXCEPT !.pc = "cleanup", !.cur = None, !.err = err]]
release == locked' = FALSE /\ active' = None
-----------------------------------------------------------------------------
(* StartImport, up to the moment the lock is held and the row inserted. *)

\* The client's call: the context is live and the request passes validation.
StartImport(c, k, r) ==
  /\ CtxLive
  /\ caller[c].pc = "idle"
  /\ r.files # {} /\ Cardinality(r.files) <= MaxFiles
  /\ caller' = [caller EXCEPT ![c] = [pc |-> "lookup", key |-> k, request |-> r, import |-> None]]
  /\ UNCHANGED <<metadata, files, catalog, locked, active, jobs, work, upkeep, proc, stops>>

\* The idempotency lookup reads the row before the lock is taken.  A known key
\* answers with its import, or with a conflict if the request differs.
LookupKey(c) ==
  /\ Running /\ caller[c].pc = "lookup"
  /\ LET known == \E i \in Import : imports[i].key = caller[c].key
         missing == \E f \in caller[c].request.files : inbox[f] = None
     IN \/ ~known /\ ~missing /\ caller' = [caller EXCEPT ![c].pc = "lock"]
        \/ (known \/ missing \/ Fault("lookup")) /\ Return(c)
  /\ UNCHANGED <<metadata, files, catalog, locked, active, jobs, work, upkeep, proc, stops>>

\* TryLock fails: ErrBusy.  (Or the model's import ids are used up: a bound.)
Busy(c) ==
  /\ Running /\ caller[c].pc = "lock"
  /\ locked \/ NoFreshImport
  /\ Return(c)
  /\ UNCHANGED <<metadata, files, catalog, locked, active, jobs, work, upkeep, proc, stops>>

\* UNIQUE (idempotency_key) of dux_imports.
KeyFree(k) == \A i \in Import : imports[i].key # k

\* TryLock, setActive and the INSERT.
Admit(c, i) ==
  /\ Running /\ caller[c].pc = "lock"
  /\ ~locked /\ FreshImport(i)
  /\ KeyFree(caller[c].key)
  /\ imports' = [imports EXCEPT ![i] =
       [status |-> "running", key |-> caller[c].key, request |-> caller[c].request]]
  /\ locked' = TRUE /\ active' = i
  /\ jobs' = [jobs EXCEPT ![i] = "running"]
  /\ work' = [work EXCEPT ![i] = [NoWork EXCEPT !.pc = "copy"]]
  /\ caller' = [caller EXCEPT ![c] = [NoCall EXCEPT !.pc = "wait", !.import = i]]
  /\ UNCHANGED <<receipts, runs, files, catalog, upkeep, proc, stops>>

\* Mutant: the INSERT's error returns without release().
AdmitFails_KeepsLock(c) ==
  /\ Running /\ caller[c].pc = "lock"
  /\ ~locked /\ ~NoFreshImport
  /\ ~KeyFree(caller[c].key) \/ Fault("row")
  /\ locked' = TRUE
  /\ Return(c)
  /\ UNCHANGED <<metadata, files, catalog, active, jobs, work, upkeep, proc, stops>>

\* The INSERT fails, on the unique key or otherwise: release and return.
AdmitFails(c) ==
  /\ Running /\ caller[c].pc = "lock"
  /\ ~locked /\ ~NoFreshImport
  /\ ~KeyFree(caller[c].key) \/ Fault("row")
  /\ release
  /\ Return(c)
  /\ UNCHANGED <<metadata, files, catalog, jobs, work, upkeep, proc, stops>>
-----------------------------------------------------------------------------
(* stageImport, in the caller's goroutine, lock held. *)

\* copyAndHash opens the source and creates target.partial.
BeginCopy(i, f) ==
  /\ Running /\ work[i].pc = "copy" /\ work[i].cur = None
  /\ f \in Of(i).files \ Names(work[i].copied)
  /\ CtxLive /\ inbox[f] # None
  /\ partial' = partial \cup {[import |-> i, file |-> f]}
  /\ work' = [work EXCEPT ![i].cur = [file |-> f, content |-> inbox[f]]]
  /\ UNCHANGED <<metadata, inbox, staged, catalog, locked, active, jobs, caller, upkeep, proc, stops>>

\* Mutant: the temporary file is not removed.
CopyFails_LeavesPartial(i) ==
  /\ Running /\ work[i].pc = "copy"
  /\ work' = [work EXCEPT ![i].pc = "cleanup", ![i].cur = None, ![i].err = "other", ![i].copied = {}]
  /\ UNCHANGED <<metadata, files, catalog, locked, active, jobs, caller, upkeep, proc, stops>>

\* The source is gone or changed, the deadline passed, I/O.  When safeImportPath
\* or Rename fails the files copied before are returned for the rollback; when
\* copyAndHash fails, "return nil, err" forgets them and they stay on disk.
CopyFails(i) ==
  /\ Running /\ work[i].pc = "copy"
  /\ partial' = {p \in partial : work[i].cur = None \/ p # [import |-> i, file |-> work[i].cur.file]}
  /\ \E kept \in {{}, work[i].copied} :
       work' = [work EXCEPT ![i] = [@ EXCEPT !.pc = "cleanup", !.cur = None, !.err = "other",
                                            !.copied = kept]]
  /\ UNCHANGED <<metadata, inbox, staged, catalog, locked, active, jobs, caller, upkeep, proc, stops>>

\* The content's receipt for the same table, if there is one.
Prior(i, content) == {r \in receipts : r.table = Of(i).table /\ r.content = content}

\* The copy is complete and its source unchanged: rename, remember it, and
\* look the content up in this request and in the receipts.
PublishCopy(i) ==
  /\ Running /\ work[i].pc = "copy" /\ work[i].cur # None
  /\ LET x == work[i].cur
         copied == work[i].copied \cup {x}
         again == \E y \in work[i].copied : y.content = x.content
         prior == Prior(i, x.content) # {}
     IN \E lost \in {FALSE, Fault("lookup")} :
        /\ inbox[x.file] = x.content
        /\ partial' = partial \ {[import |-> i, file |-> x.file]}
        /\ staged' = staged \cup {StagedOf(i, x)}
        /\ work' = [work EXCEPT ![i] =
             [@ EXCEPT !.cur = None, !.copied = copied,
                       !.pc = IF again \/ prior \/ lost THEN "cleanup"
                              ELSE IF Names(copied) = Of(i).files THEN "check" ELSE "copy",
                       !.err = IF again \/ lost THEN "other" ELSE IF prior THEN "duplicate" ELSE "none"]]
  /\ UNCHANGED <<metadata, inbox, catalog, locked, active, jobs, caller, upkeep, proc, stops>>

\* The columns of every copy match the table, or each other for a new table.
Compatible(i, shape) ==
  \/ shape # None /\ \A x \in work[i].copied : ShapeOf[x.content] = shape
  \/ shape = None /\ Of(i).create
                  /\ \A x, y \in work[i].copied : ShapeOf[x.content] = ShapeOf[y.content]

CheckSchema(i) ==
  /\ Running /\ work[i].pc = "check"
  /\ \/ CtxLive /\ Compatible(i, tables[Of(i).table]) /\ Goto(i, "receipts")
     \/ Fail(i, "other")
  /\ UNCHANGED <<metadata, files, catalog, locked, active, jobs, caller, upkeep, proc, stops>>

\* One INSERT per copy, each a transaction of its own.
\* UNIQUE (schema_name, table_name, sha256) of dux_import_files.
InsertReceipt(i, x) ==
  /\ Running /\ work[i].pc = "receipts"
  /\ x \in work[i].copied /\ ReceiptOf(i, x) \notin receipts
  /\ \/ Prior(i, x.content) = {} /\ receipts' = receipts \cup {ReceiptOf(i, x)} /\ UNCHANGED work
     \/ (Prior(i, x.content) # {} \/ Fault("receipt")) /\ Fail(i, "other") /\ UNCHANGED receipts
  /\ UNCHANGED <<imports, runs, files, catalog, locked, active, jobs, caller, upkeep, proc, stops>>

\* Staging is over: the caller answers 202 and the goroutine takes over.
SpawnWorker(i) ==
  /\ Running /\ work[i].pc = "receipts"
  /\ \A x \in work[i].copied : ReceiptOf(i, x) \in receipts
  /\ Goto(i, "begin")
  /\ ReturnFrom(i)
  /\ UNCHANGED <<metadata, files, catalog, locked, active, jobs, upkeep, proc, stops>>
-----------------------------------------------------------------------------
(* runImport, in its goroutine, lock still held. *)

\* BeginTx and, in its snapshot, the second look at the table.
BeginTx(i) ==
  /\ Running /\ work[i].pc = "begin"
  /\ LET shape == tables[Of(i).table] IN
     \/ /\ CtxLive /\ Compatible(i, shape)
        /\ work' = [work EXCEPT ![i] = [@ EXCEPT !.pc = "commit", !.seen = shape]]
     \/ Fail(i, "other")
  /\ UNCHANGED <<metadata, files, catalog, locked, active, jobs, caller, upkeep, proc, stops>>

\* Mutant: only the first file is registered.
Commit_FirstFile(i) ==
  /\ Running /\ work[i].pc = "commit"
  /\ LET x == CHOOSE y \in work[i].copied : TRUE IN
     /\ tables[Of(i).table] = work[i].seen
     /\ tables' = [tables EXCEPT ![Of(i).table] = ShapeOf[x.content]]
     /\ lake' = lake \cup {ReceiptOf(i, x)}
     /\ listed' = listed \cup {ReceiptOf(i, x)}
  /\ Goto(i, "unlink")
  /\ UNCHANGED <<metadata, files, locked, active, jobs, caller, upkeep, proc, stops>>

\* Mutant: the files are listed before the transaction makes their rows visible.
Commit_ListedEarly(i) ==
  /\ Running /\ work[i].pc = "commit"
  /\ listed' = listed \cup {ReceiptOf(i, x) : x \in work[i].copied}
  /\ Goto(i, "unlink")
  /\ UNCHANGED <<metadata, files, tables, lake, locked, active, jobs, caller, upkeep, proc, stops>>

\* Commit publishes the table and every data file at once.  A direct writer's
\* DDL on the table since the snapshot is a conflict.  The context is looked at
\* before the COMMIT is sent, so a shutdown can still find it under way.
Commit(i) ==
  /\ Running /\ work[i].pc = "commit"
  /\ LET t == Of(i).table
         added == {ReceiptOf(i, x) : x \in work[i].copied}
     IN \/ /\ tables[t] = work[i].seen
           /\ tables' = [tables EXCEPT ![t] =
                IF @ = None THEN ShapeOf[(CHOOSE x \in work[i].copied : TRUE).content] ELSE @]
           /\ lake' = lake \cup added
           /\ listed' = listed \cup added
           /\ Goto(i, "unlink")
        \/ Fail(i, "other") /\ UNCHANGED catalog
  /\ UNCHANGED <<metadata, files, locked, active, jobs, caller, upkeep, proc, stops>>

\* Mutant: os.Remove(file.target) where file.inbox is meant.
Unlink_Target(i, x) ==
  /\ Running /\ work[i].pc = "unlink" /\ x \in work[i].copied
  /\ staged' = staged \ {StagedOf(i, x)}
  /\ work' = [work EXCEPT ![i].copied = @ \ {x}]
  /\ UNCHANGED <<metadata, inbox, partial, catalog, locked, active, jobs, caller, upkeep, proc, stops>>

\* os.Remove of each imported inbox name, whatever is published there by now;
\* a failure is only logged.
Unlink(i, x) ==
  /\ Running /\ work[i].pc = "unlink" /\ x \in work[i].copied
  /\ inbox' \in {inbox, [inbox EXCEPT ![x.file] = None]}
  /\ work' = [work EXCEPT ![i].copied = @ \ {x}]
  /\ UNCHANGED <<metadata, partial, staged, catalog, locked, active, jobs, caller, upkeep, proc, stops>>

\* Mutant: the rollback also removes the sources.
Cleanup_RemovesInbox(i) ==
  /\ Running /\ work[i].pc = "cleanup"
  /\ staged' = staged \ {StagedOf(i, x) : x \in work[i].copied}
  /\ inbox' = [f \in File |-> IF f \in Names(work[i].copied) THEN None ELSE inbox[f]]
  /\ receipts' = receipts \ ReceiptsOf(i)
  /\ work' = [work EXCEPT ![i] = [@ EXCEPT !.pc = "finish", !.copied = {}]]
  /\ UNCHANGED <<imports, runs, partial, catalog, locked, active, jobs, caller, upkeep, proc, stops>>

\* Mutant: the rollback keeps the receipts.
Cleanup_KeepsReceipts(i) ==
  /\ Running /\ work[i].pc = "cleanup"
  /\ staged' = staged \ {StagedOf(i, x) : x \in work[i].copied}
  /\ work' = [work EXCEPT ![i] = [@ EXCEPT !.pc = "finish", !.copied = {}]]
  /\ UNCHANGED <<metadata, inbox, partial, catalog, locked, active, jobs, caller, upkeep, proc, stops>>

\* The deferred rollback of stageImport and of runImport; the DELETE's error
\* is ignored.
Cleanup(i) ==
  /\ Running /\ work[i].pc = "cleanup"
  /\ staged' = staged \ {StagedOf(i, x) : x \in work[i].copied}
  /\ \/ receipts' = receipts \ ReceiptsOf(i)
     \/ Fault("delete") /\ UNCHANGED receipts
  /\ work' = [work EXCEPT ![i] = [@ EXCEPT !.pc = "finish", !.copied = {}]]
  /\ UNCHANGED <<imports, runs, inbox, partial, catalog, locked, active, jobs, caller, upkeep, proc, stops>>

\* finishImport: the row, then the in-memory job.  If the UPDATE fails the row
\* stays running and the job says failed.
FinishImport(i) ==
  /\ Running
  /\ work[i].pc = "finish" \/ (work[i].pc = "unlink" /\ work[i].copied = {})
  /\ LET status == IF work[i].err = "none" THEN "succeeded" ELSE "failed" IN
     \/ /\ imports' = [imports EXCEPT ![i].status = status]
        /\ jobs' = [jobs EXCEPT ![i] = status]
     \/ Fault("finish") /\ jobs' = [jobs EXCEPT ![i] = "failed"] /\ UNCHANGED imports
  /\ Goto(i, "release")
  /\ UNCHANGED <<receipts, runs, files, catalog, locked, active, caller, upkeep, proc, stops>>

\* Mutant: a failed import does not release.
ReleaseImport_OnSuccess(i) ==
  /\ Running /\ work[i].pc = "release"
  /\ IF work[i].err = "none" THEN release ELSE UNCHANGED <<locked, active>>
  /\ work' = [work EXCEPT ![i] = NoWork]
  /\ ReturnFrom(i)
  /\ UNCHANGED <<metadata, files, catalog, jobs, upkeep, proc, stops>>

\* release(); a caller still waiting for its staging gets the error.
ReleaseImport(i) ==
  /\ Running /\ work[i].pc = "release"
  /\ release
  /\ work' = [work EXCEPT ![i] = NoWork]
  /\ ReturnFrom(i)
  /\ UNCHANGED <<metadata, files, catalog, jobs, upkeep, proc, stops>>
-----------------------------------------------------------------------------
(* Maintenance, asked for through the API or by the scheduler. *)

StartMaintenance(c, source) ==
  /\ CtxLive
  /\ caller[c].pc = "idle" /\ Maintenance # {}
  /\ caller' = [caller EXCEPT ![c].pc = source]
  /\ UNCHANGED <<metadata, files, catalog, locked, active, jobs, work, upkeep, proc, stops>>

\* TryLock fails: a scheduled run leaves a skipped row, an API call gets ErrBusy.
MaintenanceBusy(c) ==
  /\ Running /\ caller[c].pc \in {"api", "scheduled"}
  /\ locked \/ NoFreshRun
  /\ \/ /\ caller[c].pc = "scheduled"
        /\ \E m \in Maintenance : FreshRun(m) /\ runs' = [runs EXCEPT ![m] = "skipped"]
     \/ /\ caller[c].pc = "api" \/ NoFreshRun \/ Fault("row")
        /\ UNCHANGED runs
  /\ Return(c)
  /\ UNCHANGED <<imports, receipts, files, catalog, locked, active, jobs, work, upkeep, proc, stops>>

\* TryLock, setActive, the job and its row; on a failed INSERT, the way back.
AdmitMaintenance(c, m) ==
  /\ Running /\ caller[c].pc \in {"api", "scheduled"}
  /\ ~locked /\ FreshRun(m)
  /\ \/ /\ runs' = [runs EXCEPT ![m] = "running"]
        /\ locked' = TRUE /\ active' = m
        /\ jobs' = [jobs EXCEPT ![m] = "running"]
        /\ upkeep' = [upkeep EXCEPT ![m] = "run"]
     \/ /\ Fault("row") /\ release
        /\ UNCHANGED <<runs, jobs, upkeep>>
  /\ Return(c)
  /\ UNCHANGED <<imports, receipts, files, catalog, work, proc, stops>>

\* Published copies DuckLake does not reference under their own path.
Unreferenced ==
  {s \in staged : \A r \in listed :
     s # [import |-> r.import, file |-> r.file, content |-> r.content]}

\* ducklake_merge_adjacent_files moves the rows of some files into a merged one:
\* the rows stay, the files are no longer listed.  CHECKPOINT may also delete
\* unreferenced files that are old enough; which are is not known.
RunMaintenance(m) ==
  /\ Running /\ upkeep[m] = "run"
  /\ \E merged \in SUBSET listed :
        /\ listed' = listed \ merged
        /\ \E old \in SUBSET Unreferenced : staged' = staged \ old
  /\ \/ CtxLive /\ upkeep' = [upkeep EXCEPT ![m] = "done"]
     \/ upkeep' = [upkeep EXCEPT ![m] = "failed"]
  /\ UNCHANGED <<metadata, inbox, partial, tables, lake, locked, active, jobs, caller, work, proc, stops>>

\* The rows DELETE ... NOT IN (newest HistoryLimit) removes.
Trim(rows) ==
  LET kept == {m \in Maintenance : rows[m] \notin {"absent", "trimmed"}}
  IN [m \in Maintenance |->
        IF m \in kept /\ Cardinality({k \in kept : k > m}) >= HistoryLimit
        THEN "trimmed" ELSE rows[m]]

\* Mutant: the row is not updated.
FinishMaintenance_NoRow(m) ==
  /\ Running /\ upkeep[m] \in {"done", "failed"}
  /\ runs' = Trim(runs)
  /\ jobs' = [jobs EXCEPT ![m] = IF upkeep[m] = "done" THEN "succeeded" ELSE "failed"]
  /\ upkeep' = [upkeep EXCEPT ![m] = "release"]
  /\ UNCHANGED <<imports, receipts, files, catalog, locked, active, caller, work, proc, stops>>

\* finishMaintenance: the row (unless it was trimmed), the history, the job.
FinishMaintenance(m) ==
  /\ Running /\ upkeep[m] \in {"done", "failed"}
  /\ LET status == IF upkeep[m] = "done" THEN "succeeded" ELSE "failed"
         row == [runs EXCEPT ![m] = IF @ = "trimmed" THEN @ ELSE status]
     IN \/ /\ runs' = Trim(row) \/ (Fault("delete") /\ runs' = row)
           /\ jobs' = [jobs EXCEPT ![m] = status]
        \/ /\ Fault("finish") /\ runs' = Trim(runs)
           /\ jobs' = [jobs EXCEPT ![m] = "failed"]
  /\ upkeep' = [upkeep EXCEPT ![m] = "release"]
  /\ UNCHANGED <<imports, receipts, files, catalog, locked, active, caller, work, proc, stops>>

\* Mutant: the goroutine ends without release().
ReleaseMaintenance_Forgotten(m) ==
  /\ Running /\ upkeep[m] = "release"
  /\ upkeep' = [upkeep EXCEPT ![m] = "idle"]
  /\ UNCHANGED <<metadata, files, catalog, locked, active, jobs, caller, work, proc, stops>>

ReleaseMaintenance(m) ==
  /\ Running /\ upkeep[m] = "release"
  /\ release
  /\ upkeep' = [upkeep EXCEPT ![m] = "idle"]
  /\ UNCHANGED <<metadata, files, catalog, jobs, caller, work, proc, stops>>
-----------------------------------------------------------------------------
(* Shutdown, crash and restart. *)

\* Close cancels the context ...
Shutdown ==
  /\ proc = "up" /\ stops < MaxStops
  /\ proc' = "closing" /\ stops' = stops + 1
  /\ UNCHANGED <<metadata, files, catalog, memory>>

\* Mutant: Close does not wait.
CloseReturns_AtOnce ==
  /\ proc = "closing"
  /\ proc' = "closed"
  /\ UNCHANGED <<metadata, files, catalog, memory, stops>>

\* ... waits for the lock and then for the goroutines.
CloseReturns ==
  /\ proc = "closing"
  /\ ~locked
  /\ \A i \in Import : ~InGoroutine(i)
  /\ \A m \in Maintenance : upkeep[m] = "idle"
  /\ proc' = "closed"
  /\ UNCHANGED <<metadata, files, catalog, memory, stops>>

\* The process ends, and with it everything it held in memory.
End ==
  /\ proc' = "down"
  /\ locked' = FALSE /\ active' = None
  /\ jobs' = [j \in Import \cup Maintenance |-> "absent"]
  /\ caller' = [c \in Caller |-> NoCall]
  /\ work' = [i \in Import |-> NoWork]
  /\ upkeep' = [m \in Maintenance |-> "idle"]
  /\ UNCHANGED <<metadata, files, catalog>>

Exit  == proc = "closed" /\ End /\ UNCHANGED stops
Crash == proc # "down" /\ stops < MaxStops /\ End /\ stops' = stops + 1

\* Mutant: recovery forgets the maintenance rows.
Restart_KeepsRuns ==
  /\ proc = "down"
  /\ proc' = "recovering"
  /\ UNCHANGED <<metadata, files, catalog, memory, stops>>

\* NewService: recoverInterrupted starts by failing the running maintenance rows.
Restart ==
  /\ proc = "down"
  /\ proc' = "recovering"
  /\ runs' = [m \in Maintenance |-> IF runs[m] = "running" THEN "failed" ELSE runs[m]]
  /\ UNCHANGED <<imports, receipts, files, catalog, memory, stops>>

\* Mutant: a receipt is taken for proof of the commit.
importWasCommitted_Receipts(i) == ReceiptsOf(i) # {}

\* Mutant: looks for the inbox files, not for the staged copies.
importWasCommitted_Inbox(i) ==
  ReceiptsOf(i) # {} /\ \A r \in ReceiptsOf(i) : inbox[r.file] = r.content

\* Every receipt's target is among the files DuckLake lists for the table.
importWasCommitted(i) == ReceiptsOf(i) # {} /\ ReceiptsOf(i) \subseteq listed

\* ducklake_list_files is not asked when there is no receipt.
ListFails(i) ==
  ListMissingFails /\ ReceiptsOf(i) # {} /\ tables[Of(i).table] = None

RecoverCommitted(i) ==
  /\ proc = "recovering" /\ imports[i].status = "running"
  /\ ~ListFails(i) /\ importWasCommitted(i)
  /\ imports' = [imports EXCEPT ![i].status = "succeeded"]
  /\ UNCHANGED <<receipts, runs, files, catalog, memory, proc, stops>>

\* Not committed: first the receipts go (an error is ignored) ...
RecoverReceipts(i) ==
  /\ proc = "recovering" /\ imports[i].status = "running"
  /\ ~ListFails(i) /\ ~importWasCommitted(i) /\ ReceiptsOf(i) # {}
  /\ receipts' = receipts \ ReceiptsOf(i)
  /\ UNCHANGED <<imports, runs, files, catalog, memory, proc, stops>>

\* ... then the row is failed.
RecoverFailed(i) ==
  /\ proc = "recovering" /\ imports[i].status = "running"
  /\ ReceiptsOf(i) = {} \/ (Fault("delete") /\ ~ListFails(i) /\ ~importWasCommitted(i))
  /\ imports' = [imports EXCEPT ![i].status = "failed"]
  /\ UNCHANGED <<receipts, runs, files, catalog, memory, proc, stops>>

\* An import that cannot be verified, or a row that cannot be updated, stops
\* NewService, and duxd exits.
RecoveryStuck(i) ==
  /\ proc = "recovering" /\ imports[i].status = "running"
  /\ ListFails(i) \/ Fault("finish")
  /\ proc' = "down"
  /\ UNCHANGED <<metadata, files, catalog, memory, stops>>

\* Mutant: duxd serves before every interrupted import is settled.
FinishRecovery_Early ==
  /\ proc = "recovering"
  /\ proc' = "up"
  /\ UNCHANGED <<metadata, files, catalog, memory, stops>>

\* The walk over _imports removes the .partial files older than OrphanDelay.
FinishRecovery ==
  /\ proc = "recovering"
  /\ \A i \in Import : imports[i].status # "running"
  /\ \E old \in SUBSET partial : partial' = partial \ old
  /\ proc' = "up"
  /\ UNCHANGED <<metadata, inbox, staged, catalog, memory, stops>>
-----------------------------------------------------------------------------
(* Around the service. *)

\* A producer publishes a complete file, atomically.
Publish(f, content) ==
  /\ \/ ReuseNames
     \/ /\ inbox[f] = None
        /\ \A i \in Import : imports[i].status = "running" => f \notin Of(i).files
  /\ inbox' = [inbox EXCEPT ![f] = content]
  /\ UNCHANGED <<metadata, partial, staged, catalog, memory, proc, stops>>

\* Direct DuckLake writers change tables without asking duxd.
WriterCreate(t, shape) ==
  /\ "create" \in WriterOps /\ tables[t] = None
  /\ tables' = [tables EXCEPT ![t] = shape]
  /\ UNCHANGED <<metadata, files, lake, listed, memory, proc, stops>>

WriterDrop(t) ==
  /\ "drop" \in WriterOps /\ tables[t] # None
  /\ tables' = [tables EXCEPT ![t] = None]
  /\ lake' = {r \in lake : r.table # t}
  /\ listed' = {r \in listed : r.table # t}
  /\ UNCHANGED <<metadata, files, memory, proc, stops>>

WriterCompact(t) ==
  /\ "compact" \in WriterOps
  /\ \E merged \in SUBSET {r \in listed : r.table = t} : listed' = listed \ merged
  /\ UNCHANGED <<metadata, files, tables, lake, memory, proc, stops>>
-----------------------------------------------------------------------------
CallerStep(c) ==
  \/ \E k \in Key, r \in Requests : StartImport(c, k, r)
  \/ LookupKey(c) \/ Busy(c) \/ AdmitFails(c)
  \/ \E i \in Import : Admit(c, i)
  \/ \E source \in {"api", "scheduled"} : StartMaintenance(c, source)
  \/ MaintenanceBusy(c)
  \/ \E m \in Maintenance : AdmitMaintenance(c, m)

ImportStep(i) ==
  \/ \E f \in File : BeginCopy(i, f)
  \/ CopyFails(i) \/ PublishCopy(i) \/ CheckSchema(i)
  \/ \E x \in work[i].copied : InsertReceipt(i, x) \/ Unlink(i, x)
  \/ SpawnWorker(i) \/ BeginTx(i) \/ Commit(i)
  \/ Cleanup(i) \/ FinishImport(i) \/ ReleaseImport(i)

UpkeepStep(m) == RunMaintenance(m) \/ FinishMaintenance(m) \/ ReleaseMaintenance(m)

RecoveryStep ==
  \/ Restart \/ FinishRecovery
  \/ \E i \in Import :
       RecoverCommitted(i) \/ RecoverReceipts(i) \/ RecoverFailed(i) \/ RecoveryStuck(i)

Environment ==
  \/ \E f \in File, content \in Content : Publish(f, content)
  \/ \E t \in Table : WriterDrop(t) \/ WriterCompact(t)
  \/ \E t \in Table, shape \in Shape : WriterCreate(t, shape)

Next ==
  \/ \E c \in Caller : CallerStep(c)
  \/ \E i \in Import : ImportStep(i)
  \/ \E m \in Maintenance : UpkeepStep(m)
  \/ Shutdown \/ CloseReturns \/ Exit \/ Crash
  \/ RecoveryStep
  \/ Environment

Spec == Init /\ [][Next]_vars

\* The Go scheduler runs every started goroutine; a closed service lets main
\* return; a supervisor restarts duxd.  Clients and writers owe nothing.
Fairness ==
  /\ \A c \in Caller : WF_vars(caller[c].pc # "idle" /\ CallerStep(c))
  /\ \A i \in Import : WF_vars(ImportStep(i))
  /\ \A m \in Maintenance : WF_vars(UpkeepStep(m))
  /\ WF_vars(CloseReturns) /\ WF_vars(Exit) /\ WF_vars(RecoveryStep)

FairSpec == Spec /\ Fairness
-----------------------------------------------------------------------------
(* Properties. *)

LakeOf(i) == {r \in lake : r.import = i}

\* service.go, comment on Service: it serializes every operation owned by duxd.
\* The lock, the active id and the operation in progress always tell the same
\* story, so two operations never overlap and none leaves the lock behind.
OneOwner ==
  /\ locked <=> active # None
  /\ \A i \in Import : work[i].pc # "idle" <=> active = i
  /\ \A m \in Maintenance : upkeep[m] # "idle" <=> active = m

\* README, Parquet import API: content already registered to the target is
\* refused.  Through retries, new keys and restarts, no table ever holds the
\* rows of the same content twice.
RegisteredOnce ==
  \A r, q \in lake : r.table = q.table /\ r.content = q.content => r = q

\* An import's data files are all in the table or none is, and every one has the
\* receipt that keeps its content from being registered again.
LakeMatchesReceipts ==
  \A i \in Import : LakeOf(i) = {} \/ LakeOf(i) = ReceiptsOf(i)

\* A settled import told the truth: succeeded means that every requested file
\* is in the table, failed that none is.
SettledTruthfully ==
  \A i \in Import :
    /\ imports[i].status = "succeeded" => Names(LakeOf(i)) = Of(i).files
    /\ imports[i].status = "failed" => LakeOf(i) = {}

\* DuckLake never lists a file whose staged copy a rollback or a checkpoint
\* removed.
DataFilesExist ==
  \A r \in listed : [import |-> r.import, file |-> r.file, content |-> r.content] \in staged

\* While duxd serves, a row says running only if its operation is in progress:
\* neither a crash nor an error path leaves one behind.
NoZombieRow ==
  proc = "up" =>
    /\ \A i \in Import : imports[i].status = "running" => active = i
    /\ \A m \in Maintenance : runs[m] = "running" => active = m

\* A .partial file of an import of this process is the one being written.
NoLeftoverPartial ==
  \A p \in partial : jobs[p.import] # "absent" =>
    work[p.import].cur # None /\ work[p.import].cur.file = p.file

\* The job a client polls and the row a restart reads agree once settled.
JobTellsRow ==
  /\ \A i \in Import : jobs[i] \in {"succeeded", "failed"} => imports[i].status = jobs[i]
  /\ \A m \in Maintenance :
       jobs[m] \in {"succeeded", "failed"} => runs[m] \in {jobs[m], "trimmed"}

\* Once Close has returned, no import is registered any more and no inbox file
\* removed, though requests that passed the first check are still under way.
QuietAfterClose ==
  [][proc = "closed" =>
       /\ lake' \subseteq lake
       /\ \A f \in File : inbox'[f] = None => inbox[f] = None]_vars

\* The service removes an inbox file only when its content is in the lake.
InboxKept ==
  [][\A f \in File : inbox[f] # None /\ inbox'[f] = None =>
       \E r \in lake : r.file = f /\ r.content = inbox[f]]_vars

\* .agents/skills/dux-ducklake/SKILL.md: a 409 naming a prior import means
\* identical content already belongs to that target.
DuplicateMeansRegistered ==
  [][\A i \in Import : work[i].err # "duplicate" /\ work'[i].err = "duplicate" =>
       \E r \in lake : r.table = Of(i).table /\ r.content = work[i].cur.content]_vars

\* An accepted import ends as succeeded or failed, through crash and restart.
ImportsSettle ==
  \A i \in Import :
    imports[i].status = "running" ~> imports[i].status \in {"succeeded", "failed"}

\* The lock is always given back, so ErrBusy is temporary.
LockFreed == locked ~> ~locked

\* Close returns: the operation it waits for notices the cancelled context.
CloseEnds == proc = "closing" ~> proc # "closing"
=============================================================================
