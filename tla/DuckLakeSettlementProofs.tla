---------------------- MODULE DuckLakeSettlementProofs ----------------------
(* Theorems about how the imports and maintenance runs of DuckLakeService end: *)
(* what their rows, jobs, temporary files and inbox files tell a client, for   *)
(* any number of imports, callers, files, crashes and restarts; and that the   *)
(* service implements the import ledger.                                       *)
EXTENDS DuckLakeServiceLedger, DuckLakeServiceProofs

USE DEF metadata, files, catalog, memory

\* An import between its INSERT and its last UPDATE.
Busied == Planned \cup {"copy", "unlink", "cleanup", "finish"}

\* What the program counter of one import says of its row, copies, error and
\* receipts.
Stage(i) ==
  /\ work[i].pc # "idle" => imports[i].status # "absent"
  /\ imports[i].status = "absent" => ReceiptsOf(i) = {}
  /\ work[i].pc \in Busied => /\ imports[i].status = "running"
                              /\ Names(work[i].copied) \subseteq Of(i).files
  /\ work[i].cur # None => work[i].pc = "copy" /\ work[i].cur.file \in Of(i).files
  /\ work[i].pc \in Planned => Names(work[i].copied) = Of(i).files
  /\ work[i].pc \in Planned \cup {"copy", "unlink"} => work[i].err = "none"
  /\ work[i].pc \in {"cleanup", "finish"} => work[i].err # "none"
  /\ PlanningOf(i)

\* Between the processes nothing is in memory.
Vacant ==
  ~Running => /\ \A i \in Import : work[i].pc = "idle"
              /\ \A m \in Maintenance : upkeep[m] = "idle"
              /\ \A j \in Import \cup Maintenance : jobs[j] = "absent"

Staging == Vacant /\ \A i \in Import : Stage(i)

\* The step leaves an import alone, and does not let a process serve before the
\* import's row is settled.
Untouched(i) ==
  /\ work'[i] = work[i] /\ imports'[i] = imports[i] /\ ReceiptsOf(i)' = ReceiptsOf(i)
  /\ jobs'[i] = jobs[i]
  /\ \A p \in partial' : p.import = i => p \in partial
  /\ "drop" \notin WriterOps => LakeOf(i)' = LakeOf(i)
  /\ (Running' <=> Running) \/ (Running' /\ imports[i].status # "running")

\* Of everything a step may do, what concerns one import: its INSERT, a step of
\* its own, the end of the process, its recovery, or nothing.
LEMMA StepOnImport ==
  ASSUME TypeInv, [Next]_vars, NEW i \in Import
  PROVE  \/ \E c \in Caller : Admit(c, i)
         \/ ImportStep(i)
         \/ Exit \/ Crash
         \/ RecoverCommitted(i) \/ RecoverReceipts(i) \/ RecoverFailed(i)
         \/ Untouched(i)
<1> DEFINE Goal == \/ \E c \in Caller : Admit(c, i)
                   \/ ImportStep(i)
                   \/ Exit \/ Crash
                   \/ RecoverCommitted(i) \/ RecoverReceipts(i) \/ RecoverFailed(i)
                   \/ Untouched(i)
<1>a. /\ work \in [Import -> Work] /\ imports \in [Import -> Row] /\ lake \subseteq Receipt
      /\ jobs \in [Import \cup Maintenance -> Status]
      /\ Import \cap Maintenance = {}
  BY IdAssumption DEF TypeInv, TypeOK
<1>u. ASSUME UNCHANGED <<work, imports, receipts>>,
             lake' = lake \/ "drop" \in WriterOps,
             partial' \subseteq partial, jobs'[i] = jobs[i],
             (Running' <=> Running) \/ (Running' /\ imports[i].status # "running")
      PROVE  Untouched(i)
  BY <1>u DEF Untouched, ReceiptsOf, LakeOf
<1>1. ASSUME NEW c \in Caller, CallerStep(c) PROVE Goal
  <2>1. ASSUME NEW j \in Import, j # i, Admit(c, j) PROVE Untouched(i)
    <3>1. /\ work'[i] = work[i] /\ imports'[i] = imports[i] /\ jobs'[i] = jobs[i]
          /\ UNCHANGED <<receipts, lake, partial, proc>>
      BY <1>a, <2>1 DEF Admit
    <3> QED BY <3>1 DEF Untouched, ReceiptsOf, LakeOf, Running
  <2>2. CASE \A j \in Import : ~Admit(c, j)
    <3>1. UNCHANGED <<imports, receipts, lake, partial, work, proc>>
      BY <1>1, <2>2 DEF CallerStep, StartImport, LookupKey, Busy, AdmitFails,
         StartMaintenance, MaintenanceBusy, AdmitMaintenance
    <3>2. UNCHANGED jobs \/ \E m \in Maintenance : jobs' = [jobs EXCEPT ![m] = "running"]
      BY <1>1, <2>2 DEF CallerStep, StartImport, LookupKey, Busy, AdmitFails,
         StartMaintenance, MaintenanceBusy, AdmitMaintenance
    <3>3. jobs'[i] = jobs[i]
      BY <3>2, <1>a
    <3> QED BY <1>u, <3>1, <3>3 DEF Running
  <2> QED BY <2>1, <2>2
<1>2. ASSUME NEW j \in Import, j # i, ImportStep(j) PROVE Untouched(i)
  <2>1. work'[i] = work[i] /\ proc' = proc
    BY <1>2, ImportMoves
  <2>2. imports'[i] = imports[i] /\ jobs'[i] = jobs[i]
    BY <1>2, <1>a DEF ImportStep, BeginCopy, CopyFails, PublishCopy, CheckSchema, InsertReceipt,
       Unlink, SpawnWorker, BeginTx, Commit, Cleanup, FinishImport, ReleaseImport
  <2>3. ReceiptsOf(i)' = ReceiptsOf(i)
    <3>1. \/ UNCHANGED receipts
          \/ \E x \in work[j].copied : receipts' = receipts \cup {ReceiptOf(j, x)}
          \/ receipts' = receipts \ ReceiptsOf(j)
      BY <1>2 DEF ImportStep, BeginCopy, CopyFails, PublishCopy, CheckSchema, InsertReceipt,
         Unlink, SpawnWorker, BeginTx, Commit, Cleanup, FinishImport, ReleaseImport
    <3> QED BY <3>1, <1>2 DEF ReceiptsOf, ReceiptOf
  <2>4. LakeOf(i)' = LakeOf(i)
    <3>1. \/ UNCHANGED lake
          \/ lake' = lake \cup {ReceiptOf(j, x) : x \in work[j].copied}
      BY <1>2 DEF ImportStep, BeginCopy, CopyFails, PublishCopy, CheckSchema, InsertReceipt,
         Unlink, SpawnWorker, BeginTx, Commit, Cleanup, FinishImport, ReleaseImport
    <3> QED BY <3>1, <1>2 DEF LakeOf, ReceiptOf
  <2>5. \A p \in partial' : p.import = i => p \in partial
    <3>1. \/ partial' \subseteq partial
          \/ \E f \in File : partial' = partial \cup {[import |-> j, file |-> f]}
      BY <1>2 DEF ImportStep, BeginCopy, CopyFails, PublishCopy, CheckSchema, InsertReceipt,
         Unlink, SpawnWorker, BeginTx, Commit, Cleanup, FinishImport, ReleaseImport
    <3> QED BY <3>1, <1>2
  <2> QED BY <2>1, <2>2, <2>3, <2>4, <2>5 DEF Untouched, Running
<1>3. ASSUME NEW m \in Maintenance, UpkeepStep(m) PROVE Untouched(i)
  <2>1. /\ UNCHANGED <<work, imports, receipts, lake, partial, proc>>
        /\ \/ UNCHANGED jobs
           \/ \E status \in {"succeeded", "failed"} : jobs' = [jobs EXCEPT ![m] = status]
    BY <1>3 DEF UpkeepStep, RunMaintenance, FinishMaintenance, ReleaseMaintenance
  <2>2. jobs'[i] = jobs[i]
    BY <2>1, <1>a
  <2> QED BY <1>u, <2>1, <2>2 DEF Running
<1>4. CASE Shutdown \/ CloseReturns \/ UNCHANGED vars
  BY <1>4, <1>u DEF vars, Shutdown, CloseReturns, Running
<1>5. CASE Restart \/ FinishRecovery \/ \E j \in Import : RecoveryStuck(j)
  BY <1>5, <1>u DEF Restart, FinishRecovery, RecoveryStuck, Running
<1>6. ASSUME NEW j \in Import, j # i, RecoverCommitted(j) \/ RecoverReceipts(j) \/ RecoverFailed(j)
      PROVE  Untouched(i)
  <2>1. UNCHANGED <<work, lake, partial, jobs, proc>> /\ imports'[i] = imports[i]
    BY <1>6, <1>a DEF RecoverCommitted, RecoverReceipts, RecoverFailed
  <2>2. ReceiptsOf(i)' = ReceiptsOf(i)
    BY <1>6 DEF RecoverCommitted, RecoverReceipts, RecoverFailed, ReceiptsOf
  <2> QED BY <2>1, <2>2 DEF Untouched, LakeOf, Running
<1>7. CASE Environment
  BY <1>7, <1>u DEF Environment, Publish, WriterDrop, WriterCompact, WriterCreate, Running
<1> QED BY <1>1, <1>2, <1>3, <1>4, <1>5, <1>6, <1>7 DEF Next, RecoveryStep

\* A step of the import itself keeps its stage.
LEMMA ImportStage ==
  ASSUME TypeInv, NEW i \in Import, Stage(i), ImportStep(i)
  PROVE  Stage(i)'
<1>a. /\ work \in [Import -> Work] /\ work[i] \in Work /\ imports \in [Import -> Row]
      /\ None \notin Copy
  BY NoneAssumption DEF TypeInv, TypeOK, Copy
<1>g. ASSUME NEW pc, Goto(i, pc)
      PROVE  /\ work'[i].pc = pc /\ work'[i].copied = work[i].copied
             /\ work'[i].cur = work[i].cur /\ work'[i].err = work[i].err
  BY <1>a, <1>g DEF Goto, Work
<1>h. ASSUME Fail(i, "other"), UNCHANGED imports, work[i].pc \in Busied PROVE Stage(i)'
  <2>1. /\ work'[i].pc = "cleanup" /\ work'[i].cur = None /\ work'[i].err = "other"
        /\ work'[i].copied = work[i].copied
    BY <1>a, <1>h DEF Fail, Work
  <2> QED BY <1>h, <2>1 DEF Stage, Of, PlanningOf, Planned, Busied
<1>q. ASSUME UNCHANGED <<imports, receipts>>, work'[i].copied = work[i].copied
      PROVE  ReceiptsOf(i)' = ReceiptsOf(i) /\ ReceiptsFor(i)' = ReceiptsFor(i) /\ Of(i)' = Of(i)
  BY <1>q DEF ReceiptsOf, ReceiptsFor, ReceiptOf, Of
<1>1. ASSUME NEW f \in File, BeginCopy(i, f) PROVE Stage(i)'
  <2>1. /\ work'[i].pc = "copy" /\ work[i].pc = "copy" /\ work'[i].copied = work[i].copied
        /\ work'[i].err = work[i].err /\ work'[i].cur.file = f
    BY <1>1, <1>a DEF BeginCopy, Work
  <2>2. f \in Of(i).files /\ UNCHANGED <<imports, receipts>>
    BY <1>1 DEF BeginCopy
  <2> QED BY <2>1, <2>2, <1>q DEF Stage, PlanningOf, Planned, Busied
<1>2. CASE CopyFails(i)
  <2>1. /\ work'[i].pc = "cleanup" /\ work'[i].cur = None /\ work'[i].err = "other"
        /\ work'[i].copied \in {{}, work[i].copied} /\ work[i].pc = "copy"
        /\ UNCHANGED imports
    BY <1>2, <1>a DEF CopyFails, Work
  <2> QED BY <2>1 DEF Stage, Of, Names, PlanningOf, Planned, Busied
<1>3. CASE PublishCopy(i)
  <2> DEFINE x == work[i].cur
  <2>1. /\ work[i].pc = "copy" /\ x # None /\ x.file \in Of(i).files
        /\ UNCHANGED <<imports, receipts>> /\ ReceiptsOf(i) = {}
    BY <1>3 DEF PublishCopy, Stage, PlanningOf
  <2>2. /\ work'[i].cur = None /\ work'[i].copied = work[i].copied \cup {x}
        /\ \/ work'[i].pc = "cleanup" /\ work'[i].err # "none"
           \/ work'[i].pc \in {"check", "copy"} /\ work'[i].err = "none"
        /\ work'[i].pc = "check" => Names(work[i].copied \cup {x}) = Of(i).files
    BY <1>3, <1>a DEF PublishCopy, Work
  <2>3. Names(work'[i].copied) \subseteq Of(i).files
    BY <2>1, <2>2 DEF Stage, Names, Busied
  <2>4. Of(i)' = Of(i) /\ ReceiptsOf(i)' = {}
    BY <2>1 DEF Of, ReceiptsOf
  <2> HIDE DEF x
  <2> QED BY <2>1, <2>2, <2>3, <2>4 DEF Stage, PlanningOf, Planned, Busied
<1>4. CASE CheckSchema(i)
  <2>1. CASE Goto(i, "receipts")
    BY <1>4, <2>1, <1>g, <1>q DEF CheckSchema, Stage, PlanningOf, Planned, Busied
  <2>2. CASE Fail(i, "other")
    BY <1>4, <2>2, <1>h DEF CheckSchema, Planned, Busied
  <2> QED BY <1>4, <2>1, <2>2 DEF CheckSchema
<1>5. ASSUME NEW x \in work[i].copied, InsertReceipt(i, x) PROVE Stage(i)'
  <2>1. CASE Fail(i, "other") /\ UNCHANGED receipts
    BY <1>5, <1>h, <2>1 DEF InsertReceipt, Planned, Busied
  <2>2. CASE UNCHANGED work /\ receipts' = receipts \cup {ReceiptOf(i, x)}
    <3>1. /\ UNCHANGED <<imports, work>> /\ work[i].pc = "receipts"
          /\ Of(i)' = Of(i) /\ ReceiptsFor(i)' = ReceiptsFor(i)
      BY <1>5, <2>2 DEF InsertReceipt, Of, ReceiptsFor, ReceiptOf
    <3>2. ReceiptsOf(i)' = ReceiptsOf(i) \cup {ReceiptOf(i, x)} /\ ReceiptOf(i, x) \in ReceiptsFor(i)
      BY <2>2 DEF ReceiptsOf, ReceiptOf, ReceiptsFor
    <3> QED BY <3>1, <3>2 DEF Stage, PlanningOf
  <2> QED BY <1>5, <2>1, <2>2 DEF InsertReceipt
<1>6. ASSUME NEW x \in work[i].copied, Unlink(i, x) PROVE Stage(i)'
  <2>1. /\ work'[i].pc = "unlink" /\ work[i].pc = "unlink" /\ work'[i].err = work[i].err
        /\ work'[i].cur = work[i].cur /\ work'[i].copied \subseteq work[i].copied
        /\ UNCHANGED imports
    BY <1>6, <1>a DEF Unlink, Work
  <2> QED BY <2>1 DEF Stage, Of, Names, PlanningOf, Planned, Busied
<1>7. CASE SpawnWorker(i)
  <2>1. /\ work[i].pc = "receipts" /\ UNCHANGED <<imports, receipts>>
        /\ ReceiptsFor(i) \subseteq ReceiptsOf(i) /\ Goto(i, "begin")
    BY <1>7 DEF SpawnWorker, ReceiptsFor, ReceiptsOf, ReceiptOf
  <2> QED BY <2>1, <1>g, <1>q DEF Stage, PlanningOf, Planned, Busied
<1>8. CASE BeginTx(i)
  <2>1. CASE Fail(i, "other")
    BY <1>8, <1>h, <2>1 DEF BeginTx, Planned, Busied
  <2>2. CASE work' = [work EXCEPT ![i] = [@ EXCEPT !.pc = "commit", !.seen = tables[Of(i).table]]]
    <3>1. /\ work'[i].pc = "commit" /\ work'[i].copied = work[i].copied
          /\ work'[i].cur = work[i].cur /\ work'[i].err = work[i].err
      BY <2>2, <1>a DEF Work
    <3> QED BY <1>8, <3>1, <1>q DEF BeginTx, Stage, PlanningOf, Planned, Busied
  <2> QED BY <1>8, <2>1, <2>2 DEF BeginTx
<1>9. CASE Commit(i)
  <2>1. CASE Fail(i, "other")
    BY <1>9, <1>h, <2>1 DEF Commit, Planned, Busied
  <2>2. CASE Goto(i, "unlink")
    BY <1>9, <2>2, <1>g, <1>q DEF Commit, Stage, PlanningOf, Planned, Busied
  <2> QED BY <1>9, <2>1, <2>2 DEF Commit
<1>10. CASE Cleanup(i)
  <2>1. /\ work'[i].pc = "finish" /\ work[i].pc = "cleanup" /\ work'[i].err = work[i].err
        /\ work'[i].cur = work[i].cur /\ work'[i].copied = {} /\ UNCHANGED imports
    BY <1>10, <1>a DEF Cleanup, Work
  <2> QED BY <2>1 DEF Stage, Of, Names, PlanningOf, Planned, Busied
<1>11. CASE FinishImport(i)
  <2>1. Goto(i, "release") /\ work[i].cur = None
    BY <1>11 DEF FinishImport, Stage
  <2>2. imports'[i].status # "absent"
    BY <1>11, <1>a DEF FinishImport, Row, Stage
  <2> QED BY <2>1, <2>2, <1>g DEF Stage, PlanningOf, Planned, Busied
<1>12. CASE ReleaseImport(i)
  <2>1. /\ work'[i].pc = "idle" /\ work'[i].cur = None /\ imports'[i].status # "absent"
    BY <1>12, <1>a DEF ReleaseImport, NoWork, Stage
  <2> QED BY <2>1 DEF Stage, PlanningOf, Planned, Busied
<1> QED BY <1>1, <1>2, <1>3, <1>4, <1>5, <1>6, <1>7, <1>8, <1>9, <1>10, <1>11, <1>12
        DEF ImportStep

\* At first every import is idle.
LEMMA InitStaging == Init => Staging
BY DEF Init, Staging, Vacant, Stage, NoWork, ReceiptsOf, Running, PlanningOf, Planned, Busied

\* A fresh import has left nothing behind.
LEMMA FreshStage ==
  ASSUME TypeInv, NEW i \in Import, Stage(i), NEW c \in Caller, Admit(c, i)
  PROVE  Stage(i)'
<1>1. /\ work'[i].pc = "copy" /\ work'[i].copied = {} /\ work'[i].cur = None
      /\ work'[i].err = "none" /\ imports'[i].status = "running"
      /\ imports[i].status = "absent" /\ UNCHANGED receipts
  BY DEF Admit, FreshImport, NoWork, TypeInv, TypeOK
<1>2. ReceiptsOf(i)' = {}
  BY <1>1 DEF Stage, ReceiptsOf
<1> QED BY <1>1, <1>2 DEF Stage, Names, PlanningOf, Planned, Busied
\* The end of the process, a recovery or somebody else's step.
LEMMA OtherStage ==
  ASSUME TypeInv, Staging, NEW i \in Import,
         \/ Exit \/ Crash
         \/ RecoverCommitted(i) \/ RecoverReceipts(i) \/ RecoverFailed(i)
         \/ Untouched(i)
  PROVE  Stage(i)'
<1>1. CASE Exit \/ Crash
  <2>1. /\ work'[i].pc = "idle" /\ work'[i].cur = None
        /\ imports' = imports /\ ReceiptsOf(i)' = ReceiptsOf(i)
    BY <1>1 DEF Exit, Crash, End, NoWork, ReceiptsOf
  <2> QED BY <2>1 DEF Staging, Stage, PlanningOf, Planned, Busied
<1>2. CASE RecoverCommitted(i) \/ RecoverReceipts(i) \/ RecoverFailed(i)
  <2>1. /\ work[i].pc = "idle" /\ work[i].cur = None /\ work' = work
    BY <1>2 DEF RecoverCommitted, RecoverReceipts, RecoverFailed, Running, Staging, Vacant, Stage
  <2>2. imports'[i].status # "absent"
    BY <1>2 DEF RecoverCommitted, RecoverReceipts, RecoverFailed, TypeInv, TypeOK, Row
  <2> QED BY <2>1, <2>2 DEF Stage, PlanningOf, Planned, Busied
<1>3. CASE Untouched(i)
  <2>1. Of(i)' = Of(i) /\ ReceiptsFor(i)' = ReceiptsFor(i)
    BY <1>3 DEF Untouched, Of, ReceiptsFor, ReceiptOf
  <2> QED BY <1>3, <2>1 DEF Untouched, Staging, Stage, PlanningOf
<1> QED BY <1>1, <1>2, <1>3

\* Only the end of a process stops its operations, and none starts before the next
\* process has recovered.
LEMMA NextVacant ==
  ASSUME Vacant, [Next]_vars PROVE Vacant'
<1>1. CASE Exit \/ Crash
  BY <1>1 DEF Exit, Crash, End, NoWork, Vacant
<1>2. ASSUME NEW c \in Caller, CallerStep(c) PROVE Vacant'
  BY <1>2 DEF CallerStep, StartImport, LookupKey, Busy, AdmitFails, Admit, CtxLive,
     StartMaintenance, MaintenanceBusy, AdmitMaintenance, Running, Vacant
<1>3. ASSUME NEW i \in Import, ImportStep(i) PROVE Vacant'
  <2>1. Running /\ UNCHANGED proc
    BY <1>3 DEF ImportStep, BeginCopy, CopyFails, PublishCopy, CheckSchema, InsertReceipt,
       Unlink, SpawnWorker, BeginTx, Commit, Cleanup, FinishImport, ReleaseImport
  <2> QED BY <2>1 DEF Running, Vacant
<1>4. ASSUME NEW m \in Maintenance, UpkeepStep(m) PROVE Vacant'
  BY <1>4 DEF UpkeepStep, RunMaintenance, FinishMaintenance, ReleaseMaintenance, Running, Vacant
<1>5. CASE Shutdown \/ CloseReturns \/ RecoveryStep \/ Environment \/ UNCHANGED vars
  BY <1>5 DEF vars, Vacant, Running, Shutdown, CloseReturns, RecoveryStep, Restart, FinishRecovery,
     RecoverCommitted, RecoverReceipts, RecoverFailed, RecoveryStuck,
     Environment, Publish, WriterDrop, WriterCompact, WriterCreate
<1> QED BY <1>1, <1>2, <1>3, <1>4, <1>5 DEF Next

\* Every step keeps every import at a stage.
LEMMA NextStaging == ASSUME TypeInv, Staging, [Next]_vars PROVE Staging'
<1>1. ASSUME NEW i \in Import PROVE Stage(i)'
  BY StepOnImport, FreshStage, ImportStage, OtherStage DEF Staging
<1> QED BY <1>1, NextVacant DEF Staging

\* The step that registers the copies.
Registers(i) ==
  /\ work[i].pc = "commit" /\ work'[i].pc = "unlink" /\ work'[i].copied = work[i].copied
  /\ lake' = lake \cup ReceiptsFor(i)
  /\ UNCHANGED <<imports, receipts, jobs, inbox>>

\* The steps between the INSERT and the last UPDATE that register nothing.
Prepares(i) ==
  /\ work[i].pc \in Busied /\ work'[i].pc \in Busied
  /\ work'[i].pc = "unlink" <=> work[i].pc = "unlink"
  /\ work'[i].pc = "unlink" => work'[i].copied \subseteq work[i].copied /\ UNCHANGED receipts
  /\ work'[i].pc = "finish" => \/ receipts' = receipts \ ReceiptsOf(i)
                               \/ Fault("delete")
  /\ work'[i].pc = "finish" => work[i].pc = "cleanup"
  /\ UNCHANGED <<imports, lake, jobs>>

\* What an import step does to the row, the lake and the job.
LEMMA ImportEffect ==
  ASSUME TypeInv, NEW i \in Import, ImportStep(i)
  PROVE  Prepares(i) \/ Registers(i) \/ FinishImport(i) \/ ReleaseImport(i)
<1>a. work \in [Import -> Work] /\ work[i] \in Work
  BY DEF TypeInv, TypeOK
<1>g. ASSUME NEW pc, Goto(i, pc)
      PROVE  work'[i].pc = pc /\ work'[i].copied = work[i].copied
  BY <1>a, <1>g DEF Goto, Work
<1>h. ASSUME Fail(i, "other") PROVE work'[i].pc = "cleanup"
  BY <1>a, <1>h DEF Fail, Work
<1>1. ASSUME NEW f \in File, BeginCopy(i, f) PROVE Prepares(i)
  <2>1. work'[i].pc = "copy"
    BY <1>1, <1>a DEF BeginCopy, Work
  <2> QED BY <1>1, <2>1 DEF BeginCopy, Prepares, Busied
<1>2. CASE CopyFails(i)
  <2>1. work'[i].pc = "cleanup"
    BY <1>2, <1>a DEF CopyFails, Work
  <2> QED BY <1>2, <2>1 DEF CopyFails, Prepares, Busied
<1>3. CASE PublishCopy(i)
  <2>1. work'[i].pc \in {"cleanup", "check", "copy"}
    BY <1>3, <1>a DEF PublishCopy, Work
  <2> QED BY <1>3, <2>1 DEF PublishCopy, Prepares, Busied, Planned
<1>4. CASE CheckSchema(i)
  BY <1>4, <1>g, <1>h DEF CheckSchema, Prepares, Busied, Planned
<1>5. ASSUME NEW x \in work[i].copied, InsertReceipt(i, x) PROVE Prepares(i)
  BY <1>5, <1>h DEF InsertReceipt, Prepares, Busied, Planned
<1>6. ASSUME NEW x \in work[i].copied, Unlink(i, x) PROVE Prepares(i)
  <2>1. work'[i].pc = "unlink" /\ work'[i].copied \subseteq work[i].copied
    BY <1>6, <1>a DEF Unlink, Work
  <2> QED BY <1>6, <2>1 DEF Unlink, Prepares, Busied
<1>7. CASE SpawnWorker(i)
  BY <1>7, <1>g DEF SpawnWorker, Prepares, Busied, Planned
<1>8. CASE BeginTx(i)
  <2>1. work'[i].pc \in {"commit", "cleanup"}
    BY <1>8, <1>a, <1>h DEF BeginTx, Work
  <2> QED BY <1>8, <2>1 DEF BeginTx, Prepares, Busied, Planned
<1>9. CASE Commit(i)
  <2>1. CASE Fail(i, "other") /\ UNCHANGED catalog
    BY <1>9, <2>1, <1>h DEF Commit, Prepares, Busied, Planned
  <2>2. CASE Goto(i, "unlink") /\ lake' = lake \cup ReceiptsFor(i)
    BY <1>9, <2>2, <1>g DEF Commit, Registers
  <2> QED BY <1>9, <2>1, <2>2 DEF Commit, ReceiptsFor
<1>10. CASE Cleanup(i)
  <2>1. work'[i].pc = "finish"
    BY <1>10, <1>a DEF Cleanup, Work
  <2> QED BY <1>10, <2>1 DEF Cleanup, Prepares, Busied
<1> QED BY <1>1, <1>2, <1>3, <1>4, <1>5, <1>6, <1>7, <1>8, <1>9, <1>10 DEF ImportStep
\* The invariants every theorem below starts from.
Base == TypeInv /\ OneOwner /\ Staging

\* They hold at first and every step keeps them.
LEMMA BaseInvariant == Init => Base
BY InitTypeInv, InitOneOwner, InitStaging DEF Base

LEMMA NextBase == Base /\ [Next]_vars => Base'
BY NextTypeInv, NextOneOwner, NextStaging DEF Base
-----------------------------------------------------------------------------
(* Temporary files. *)

\* While an import's job is known or the import under way, the temporary files of the
\* import are the one it writes.
Tidy(i) ==
  /\ imports[i].status = "absent" => \A p \in partial : p.import # i
  /\ jobs[i] # "absent" \/ work[i].pc # "idle" =>
       \A p \in partial : p.import = i => work[i].cur # None /\ work[i].cur.file = p.file

\* A step of the import itself adds the file it opens and removes the one it closes.
LEMMA ImportTidy ==
  ASSUME Base, NEW i \in Import, Tidy(i), ImportStep(i)
  PROVE  Tidy(i)'
<1>a. /\ work \in [Import -> Work] /\ work[i] \in Work /\ imports \in [Import -> Row]
      /\ partial \subseteq [import : Import, file : File]
      /\ None \notin Copy /\ work[i].pc # "idle"
  BY ImportMoves, NoneAssumption DEF Base, TypeInv, TypeOK, Copy
<1>b. /\ \A p \in partial : p.import = i => work[i].cur # None /\ work[i].cur.file = p.file
      /\ imports[i].status # "absent"
      /\ work[i].cur # None => work[i].pc = "copy"
  BY <1>a DEF Tidy, Base, Staging, Stage
<1>c. imports'[i].status # "absent"
  BY <1>b, <1>a DEF Row, ImportStep, BeginCopy, CopyFails, PublishCopy, CheckSchema, InsertReceipt,
     Unlink, SpawnWorker, BeginTx, Commit, Cleanup, FinishImport, ReleaseImport
<1>1. ASSUME NEW f \in File, BeginCopy(i, f) PROVE Tidy(i)'
  <2>1. /\ work'[i].cur = [file |-> f, content |-> inbox[f]] /\ work[i].cur = None
        /\ partial' = partial \cup {[import |-> i, file |-> f]}
    BY <1>1, <1>a DEF BeginCopy, Work
  <2>2. work'[i].cur # None /\ work'[i].cur.file = f
    <3>1. inbox[f] \in Content
      BY <1>1 DEF BeginCopy, Base, TypeInv, TypeOK
    <3>2. [file |-> f, content |-> inbox[f]] \in Copy
      BY <3>1 DEF Copy
    <3> QED BY <2>1, <3>2, <1>a
  <2>3. \A p \in partial' : p.import = i => p.file = f
    BY <2>1, <1>b
  <2> QED BY <2>2, <2>3, <1>c DEF Tidy
<1>2. CASE CopyFails(i)
  <2>1. partial' = {p \in partial : work[i].cur = None \/ p # [import |-> i, file |-> work[i].cur.file]}
    BY <1>2 DEF CopyFails
  <2>2. \A p \in partial : p = [import |-> p.import, file |-> p.file]
    BY <1>a
  <2>3. \A p \in partial' : p.import # i
    BY <1>b, <2>1, <2>2
  <2> QED BY <2>3 DEF Tidy
<1>3. CASE PublishCopy(i)
  <2>1. partial' = partial \ {[import |-> i, file |-> work[i].cur.file]}
    BY <1>3 DEF PublishCopy
  <2>2. \A p \in partial : p = [import |-> p.import, file |-> p.file]
    BY <1>a
  <2>3. \A p \in partial' : p.import # i
    BY <1>b, <2>1, <2>2
  <2> QED BY <2>3 DEF Tidy
<1>4. CASE UNCHANGED partial /\ \A p \in partial : p.import # i
  BY <1>4 DEF Tidy
<1>5. CASE /\ ~CopyFails(i) /\ ~PublishCopy(i) /\ \A f \in File : ~BeginCopy(i, f)
  <2>1. UNCHANGED partial
    BY <1>5 DEF ImportStep, CheckSchema, InsertReceipt,
       Unlink, SpawnWorker, BeginTx, Commit, Cleanup, FinishImport, ReleaseImport
  <2>2. work[i].pc # "copy"
    BY <1>5 DEF ImportStep, CheckSchema, InsertReceipt,
       Unlink, SpawnWorker, BeginTx, Commit, Cleanup, FinishImport, ReleaseImport
  <2> QED BY <2>1, <2>2, <1>4, <1>b
<1> QED BY <1>1, <1>2, <1>3, <1>5

\* Every step keeps the temporary files of an import tidy.
LEMMA NextTidy ==
  ASSUME Base, [Next]_vars, NEW i \in Import, Tidy(i) PROVE Tidy(i)'
<1>1. ASSUME NEW c \in Caller, Admit(c, i) PROVE Tidy(i)'
  <2>1. imports[i].status = "absent" /\ UNCHANGED partial
    BY <1>1 DEF Admit, FreshImport
  <2> QED BY <2>1 DEF Tidy
<1>2. CASE ImportStep(i)
  BY <1>2, ImportTidy
<1>3. CASE Exit \/ Crash
  <2>1. /\ jobs'[i] = "absent" /\ work'[i].pc = "idle" /\ UNCHANGED <<imports, partial>>
    BY <1>3 DEF Exit, Crash, End, NoWork
  <2> QED BY <2>1 DEF Tidy
<1>4. CASE RecoverCommitted(i) \/ RecoverReceipts(i) \/ RecoverFailed(i)
  <2>1. UNCHANGED <<jobs, work, partial>> /\ imports[i].status = "running"
    BY <1>4 DEF RecoverCommitted, RecoverReceipts, RecoverFailed
  <2>2. jobs[i] = "absent" /\ work[i].pc = "idle"
    BY <1>4 DEF RecoverCommitted, RecoverReceipts, RecoverFailed, Running, Base, Staging, Vacant
  <2>3. imports'[i].status # "absent"
    BY <1>4 DEF RecoverCommitted, RecoverReceipts, RecoverFailed, Base, TypeInv, TypeOK, Row
  <2> QED BY <2>1, <2>2, <2>3 DEF Tidy
<1>5. CASE Untouched(i)
  BY <1>5 DEF Untouched, Tidy
<1> QED BY <1>1, <1>2, <1>3, <1>4, <1>5, StepOnImport DEF Base

\* No failed or finished copy of this process leaves its temporary file behind, with
\* any faults (service.go: copyAndHash, stageImport).
THEOREM PartialsRemoved == Spec => []NoLeftoverPartial
<1> DEFINE Inv == Base /\ \A i \in Import : Tidy(i)
<1>1. Init => Inv
  BY BaseInvariant DEF Init, Tidy
<1>2. Inv /\ [Next]_vars => Inv'
  BY NextBase, NextTidy
<1>3. Inv => NoLeftoverPartial
  <2> SUFFICES ASSUME Inv PROVE NoLeftoverPartial
    OBVIOUS
  <2>1. \A p \in partial : p.import \in Import
    BY DEF Base, TypeInv, TypeOK
  <2> QED BY <2>1 DEF Tidy, NoLeftoverPartial
<1> HIDE DEF Inv
<1> QED BY <1>1, <1>2, <1>3, PTL DEF Spec
-----------------------------------------------------------------------------
(* Rows and jobs, where the last UPDATE of an operation does not fail. *)

\* A process that serves has every running row's import under way.
Tended(i) ==
  Running /\ imports[i].status = "running" => work[i].pc \in Busied

\* A settled job says what its row says.
Told(i) == jobs[i] \in {"succeeded", "failed"} => imports[i].status = jobs[i]

\* Every step keeps the row of an import attended and its job truthful.
LEMMA NextTended ==
  ASSUME "finish" \notin FaultKinds, Base, [Next]_vars, NEW i \in Import, Tended(i), Told(i)
  PROVE  Tended(i)' /\ Told(i)'
<1>a. imports \in [Import -> Row] /\ jobs \in [Import \cup Maintenance -> Status]
      /\ work \in [Import -> Work]
  BY DEF Base, TypeInv, TypeOK
<1>1. ASSUME NEW c \in Caller, Admit(c, i) PROVE Tended(i)' /\ Told(i)'
  <2>1. work'[i].pc = "copy" /\ jobs'[i] = "running"
    BY <1>1, <1>a DEF Admit, NoWork
  <2> QED BY <2>1 DEF Tended, Told, Busied
<1>2. CASE Prepares(i) \/ Registers(i)
  BY <1>2 DEF Prepares, Registers, Tended, Told, Busied
<1>3. CASE FinishImport(i)
  <2>1. PICK status \in {"succeeded", "failed"} :
          /\ imports' = [imports EXCEPT ![i].status = status]
          /\ jobs' = [jobs EXCEPT ![i] = status]
    BY <1>3 DEF FinishImport, Fault
  <2>2. imports'[i].status = status /\ jobs'[i] = status
    BY <2>1, <1>a DEF Row
  <2> QED BY <2>2 DEF Tended, Told
<1>4. CASE ReleaseImport(i)
  <2>1. work[i].pc = "release" /\ UNCHANGED <<imports, jobs, proc>> /\ Running
    BY <1>4 DEF ReleaseImport
  <2> QED BY <2>1 DEF Tended, Told, Busied, Planned
<1>5. CASE Exit \/ Crash
  BY <1>5 DEF Exit, Crash, End, Running, Tended, Told
<1>6. CASE RecoverCommitted(i) \/ RecoverReceipts(i) \/ RecoverFailed(i)
  <2>1. UNCHANGED <<jobs, proc>> /\ ~Running /\ jobs[i] = "absent"
    BY <1>6 DEF RecoverCommitted, RecoverReceipts, RecoverFailed, Running, Base, Staging, Vacant
  <2> QED BY <2>1 DEF Running, Tended, Told
<1>7. CASE Untouched(i)
  BY <1>7 DEF Untouched, Tended, Told
<1> QED BY <1>1, <1>2, <1>3, <1>4, <1>5, <1>6, <1>7, StepOnImport, ImportEffect DEF Base

\* A running row has its run under way, and none is left when imports are recovered;
\* a settled job says what the row says, unless the history dropped the row.
Kept(m) ==
  /\ Running /\ runs[m] = "running" => upkeep[m] \in {"run", "failed", "done"}
  /\ proc = "recovering" => runs[m] # "running"
  /\ jobs[m] \in {"succeeded", "failed"} => runs[m] \in {jobs[m], "trimmed"}

\* Trimming the history changes a row to "trimmed" or not at all.
LEMMA TrimEach ==
  ASSUME NEW rows, NEW m \in Maintenance PROVE Trim(rows)[m] \in {rows[m], "trimmed"}
BY DEF Trim

\* The end of a run settles its row and job together; other rows it can only trim.
LEMMA FinishKept ==
  ASSUME "finish" \notin FaultKinds, Base, NEW m \in Maintenance, FinishMaintenance(m),
         NEW k \in Maintenance, Kept(k)
  PROVE  Kept(k)'
<1>a. /\ runs \in [Maintenance -> Status \cup {"skipped", "trimmed"}]
      /\ jobs \in [Import \cup Maintenance -> Status]
      /\ upkeep \in [Maintenance -> {"idle", "run", "failed", "done", "release"}]
  BY DEF Base, TypeInv, TypeOK
<1>1. PICK status, row :
        /\ status \in {"succeeded", "failed"}
        /\ row = [runs EXCEPT ![m] = IF @ = "trimmed" THEN @ ELSE status]
        /\ runs' = Trim(row) \/ runs' = row
        /\ jobs' = [jobs EXCEPT ![m] = status]
  BY DEF FinishMaintenance, Fault
<1>2. row[m] \in {"trimmed", status} /\ \A n \in Maintenance \ {m} : row[n] = runs[n]
  BY <1>1, <1>a
<1>3. \A n \in Maintenance : runs'[n] \in {row[n], "trimmed"}
  BY <1>1, TrimEach
<1>4. /\ jobs'[m] = status /\ \A n \in Maintenance \ {m} : jobs'[n] = jobs[n]
      /\ \A n \in Maintenance \ {m} : upkeep'[n] = upkeep[n]
      /\ proc' = proc /\ Running
  BY <1>1, <1>a DEF FinishMaintenance
<1>5. CASE k = m
  <2>1. runs'[k] \in {status, "trimmed"} /\ jobs'[k] = status
    BY <1>2, <1>3, <1>4, <1>5
  <2> QED BY <1>1, <2>1, <1>4 DEF Kept, Running
<1>6. CASE k # m
  <2>1. runs'[k] \in {runs[k], "trimmed"}
    BY <1>2, <1>3, <1>6
  <2> QED BY <2>1, <1>4, <1>6 DEF Kept, Running
<1> QED BY <1>5, <1>6

\* Every step keeps the row and the job of a run.
LEMMA NextKept ==
  ASSUME "finish" \notin FaultKinds, Base, [Next]_vars, NEW m \in Maintenance, Kept(m)
  PROVE  Kept(m)'
<1>a. /\ runs \in [Maintenance -> Status \cup {"skipped", "trimmed"}]
      /\ jobs \in [Import \cup Maintenance -> Status]
      /\ upkeep \in [Maintenance -> {"idle", "run", "failed", "done", "release"}]
      /\ Import \cap Maintenance = {}
  BY IdAssumption DEF Base, TypeInv, TypeOK
<1>u. ASSUME runs'[m] = runs[m], upkeep'[m] = upkeep[m], jobs'[m] = jobs[m],
             proc' = proc \/ (Running /\ Running')
      PROVE  Kept(m)'
  BY <1>u DEF Kept, Running
<1>1. ASSUME NEW c \in Caller, CallerStep(c) PROVE Kept(m)'
  <2>1. CASE MaintenanceBusy(c)
    <3>1. PICK rows : rows = runs' /\ (rows = runs \/ \E k \in Maintenance :
                        FreshRun(k) /\ rows = [runs EXCEPT ![k] = "skipped"])
      BY <2>1 DEF MaintenanceBusy
    <3>2. rows[m] = runs[m] \/ (runs[m] = "absent" /\ rows[m] = "skipped")
      BY <3>1, <1>a DEF FreshRun
    <3>3. UNCHANGED <<upkeep, jobs, proc>>
      BY <2>1 DEF MaintenanceBusy
    <3> QED BY <3>1, <3>2, <3>3 DEF Kept, Running
  <2>2. ASSUME NEW k \in Maintenance, AdmitMaintenance(c, k) PROVE Kept(m)'
    <3>1. CASE UNCHANGED <<runs, jobs, upkeep>>
      BY <2>2, <3>1, <1>u DEF AdmitMaintenance
    <3>2. CASE /\ runs' = [runs EXCEPT ![k] = "running"] /\ jobs' = [jobs EXCEPT ![k] = "running"]
               /\ upkeep' = [upkeep EXCEPT ![k] = "run"]
      <4>1. /\ runs'[m] = IF m = k THEN "running" ELSE runs[m]
            /\ jobs'[m] = IF m = k THEN "running" ELSE jobs[m]
            /\ upkeep'[m] = IF m = k THEN "run" ELSE upkeep[m]
        BY <3>2, <1>a
      <4>2. Running /\ proc' = proc
        BY <2>2 DEF AdmitMaintenance
      <4> QED BY <4>1, <4>2 DEF Kept, Running
    <3> QED BY <2>2, <3>1, <3>2 DEF AdmitMaintenance
  <2>3. CASE /\ ~MaintenanceBusy(c) /\ \A k \in Maintenance : ~AdmitMaintenance(c, k)
    <3>1. UNCHANGED <<runs, upkeep, proc>> /\
          (UNCHANGED jobs \/ \E i \in Import : jobs' = [jobs EXCEPT ![i] = "running"])
      BY <1>1, <2>3 DEF CallerStep, StartImport, LookupKey, Busy, AdmitFails, Admit, StartMaintenance
    <3> QED BY <3>1, <1>a, <1>u
  <2> QED BY <2>1, <2>2, <2>3
<1>2. ASSUME NEW i \in Import, ImportStep(i) PROVE Kept(m)'
  <2>1. UNCHANGED <<runs, upkeep, proc>>
    BY <1>2, ImportMoves DEF Base
  <2>2. jobs'[m] = jobs[m]
    <3>1. UNCHANGED jobs \/ \E status \in {"succeeded", "failed"} : jobs' = [jobs EXCEPT ![i] = status]
      BY <1>2, ImportEffect DEF Base, Prepares, Registers, FinishImport, ReleaseImport
    <3> QED BY <3>1, <1>a
  <2> QED BY <2>1, <2>2, <1>u
<1>3. ASSUME NEW k \in Maintenance, FinishMaintenance(k) PROVE Kept(m)'
  BY <1>3, FinishKept
<1>4. ASSUME NEW k \in Maintenance, RunMaintenance(k) \/ ReleaseMaintenance(k) PROVE Kept(m)'
  <2>1. /\ UNCHANGED <<runs, jobs, proc>> /\ Running
        /\ upkeep[k] \in {"run", "release"} /\ \E next \in {"done", "failed", "idle"} :
             /\ upkeep' = [upkeep EXCEPT ![k] = next]
             /\ next = "idle" => upkeep[k] = "release"
    BY <1>4 DEF RunMaintenance, ReleaseMaintenance
  <2>2. \/ upkeep'[m] = upkeep[m]
        \/ upkeep'[m] \in {"done", "failed"}
        \/ upkeep[m] = "release"
    BY <2>1, <1>a
  <2> QED BY <2>1, <2>2 DEF Kept, Running
<1>5. CASE Exit \/ Crash \/ Restart \/ FinishRecovery \/ \E i \in Import : RecoveryStuck(i)
  <2>1. CASE Exit \/ Crash
    BY <2>1 DEF Exit, Crash, End, Running, Kept
  <2>2. CASE Restart
    <3>1. jobs[m] = "absent" /\ ~Running
      BY <2>2 DEF Restart, Running, Base, Staging, Vacant
    <3>2. runs'[m] # "running" /\ UNCHANGED jobs /\ proc' = "recovering"
      BY <2>2 DEF Restart
    <3> QED BY <3>1, <3>2 DEF Kept, Running
  <2>3. CASE FinishRecovery \/ \E i \in Import : RecoveryStuck(i)
    BY <2>3 DEF FinishRecovery, RecoveryStuck, Running, Kept
  <2> QED BY <1>5, <2>1, <2>2, <2>3
<1>6. CASE Environment \/ \E i \in Import : RecoverCommitted(i) \/ RecoverReceipts(i) \/ RecoverFailed(i)
  BY <1>6, <1>u DEF Environment, Publish, WriterDrop, WriterCompact, WriterCreate,
     RecoverCommitted, RecoverReceipts, RecoverFailed
<1>7. CASE Shutdown \/ CloseReturns \/ UNCHANGED vars
  BY <1>7, <1>u DEF vars, Shutdown, CloseReturns, Running
<1> QED BY <1>1, <1>2, <1>3, <1>4, <1>5, <1>6, <1>7 DEF Next, UpkeepStep, RecoveryStep

\* The rows and jobs of every operation, and what they amount to.
Attending == /\ \A i \in Import : Tended(i) /\ Told(i)
             /\ \A m \in Maintenance : Kept(m)

LEMMA AttendingHolds ==
  ASSUME "finish" \notin FaultKinds PROVE Spec => [](Base /\ Attending)
<1>1. Init => Base /\ Attending
  BY BaseInvariant DEF Init, Attending, Tended, Told, Kept, NoRow
<1>2. Base /\ Attending /\ [Next]_vars => (Base /\ Attending)'
  <2> SUFFICES ASSUME Base, Attending, [Next]_vars PROVE Base' /\ Attending'
    OBVIOUS
  <2> QED BY NextBase, NextTended, NextKept DEF Attending
<1> QED BY <1>1, <1>2, PTL DEF Spec

\* If the UPDATE that ends an operation does not fail, a row of a serving process says
\* running only for the operation that holds the lock: no error path, crash or restart
\* leaves one behind (service.go: finishImport, finishMaintenance, recoverInterrupted).
THEOREM RowsAttended == "finish" \notin FaultKinds => (Spec => []NoZombieRow)
<1>1. ASSUME "finish" \notin FaultKinds PROVE Spec => []NoZombieRow
  <2>1. Base /\ Attending => NoZombieRow
    BY DEF Base, OneOwner, Attending, Tended, Kept, NoZombieRow, Running, Busied, Planned
  <2> QED BY <1>1, <2>1, AttendingHolds, PTL
<1> QED BY <1>1

\* Under the same condition a job that a client sees settled has its row settled the
\* same way (service.go: finishImport, finishMaintenance).
THEOREM JobsTruthful == "finish" \notin FaultKinds => (Spec => []JobTellsRow)
<1>1. ASSUME "finish" \notin FaultKinds PROVE Spec => []JobTellsRow
  <2>1. Base /\ Attending => JobTellsRow
    BY DEF Attending, Told, Kept, JobTellsRow
  <2> QED BY <1>1, <2>1, AttendingHolds, PTL
<1> QED BY <1>1-----------------------------------------------------------------------------
(* What a settled import tells. *)

\* The files of an import are in the lake together, and its end and its row say
\* whether they are.
Settling(i) ==
  /\ LakeOf(i) = {} \/ Names(LakeOf(i)) = Of(i).files
  /\ work[i].pc = "unlink" => LakeOf(i) # {}
  /\ work[i].pc \in Unregistered \cup {"finish"} => LakeOf(i) = {}
  /\ imports[i].status \in {"absent", "failed"} => LakeOf(i) = {}
  /\ imports[i].status = "succeeded" => LakeOf(i) # {}

\* The commit adds the files of the whole request.
LEMMA RegistersSettling ==
  ASSUME Base, NEW i \in Import, Settling(i), Registers(i)
  PROVE  Settling(i)' /\ LakeOf(i)' = ReceiptsFor(i)
<1>1. /\ work[i].copied # {} /\ Names(work[i].copied) = Of(i).files
      /\ LakeOf(i) = {} /\ imports[i].status = "running"
  BY DEF Registers, Settling, Unregistered, Base, Staging, Stage, Planned, Busied, TypeInv, Attached
<1>2. LakeOf(i)' = ReceiptsFor(i)
  <2>1. \A r \in ReceiptsFor(i) : r.import = i
    BY DEF ReceiptsFor, ReceiptOf
  <2> QED BY <1>1, <2>1 DEF Registers, LakeOf
<1>3. ReceiptsFor(i) # {} /\ Names(ReceiptsFor(i)) = Names(work[i].copied)
  <2>1. \A x \in work[i].copied : ReceiptOf(i, x).file = x.file
    BY DEF ReceiptOf
  <2> QED BY <1>1, <2>1 DEF ReceiptsFor, Names
<1>4. UNCHANGED imports /\ work'[i].pc = "unlink"
  BY DEF Registers
<1>5. Names(LakeOf(i)') = Of(i)'.files
  BY <1>1, <1>2, <1>3, <1>4 DEF Of
<1>6. Names(LakeOf(i))' = Names(LakeOf(i)')
  BY DEF Names
<1> QED BY <1>1, <1>2, <1>3, <1>4, <1>5, <1>6 DEF Settling, Unregistered

\* A row is settled by what is in the lake: the goroutine knows its commit, recovery
\* asks DuckLake.
LEMMA RecoverySettling ==
  ASSUME Base, Listed, LakeMatchesReceipts, NEW i \in Import, Settling(i)
  PROVE  /\ RecoverCommitted(i) => LakeOf(i) # {}
         /\ RecoverFailed(i) => LakeOf(i) = {}
<1>1. ASSUME RecoverCommitted(i) PROVE LakeOf(i) # {}
  <2>1. ReceiptsOf(i) # {} /\ ReceiptsOf(i) \subseteq lake
    BY <1>1 DEF RecoverCommitted, importWasCommitted, Base, TypeInv, TypeOK
  <2> QED BY <2>1 DEF ReceiptsOf, LakeOf
<1>2. ASSUME RecoverFailed(i), LakeOf(i) # {} PROVE FALSE
  <2>1. LakeOf(i) = ReceiptsOf(i) /\ LakeOf(i) \subseteq listed
    BY <1>2 DEF RecoverFailed, Listed, LakeMatchesReceipts
  <2> QED BY <1>2, <2>1 DEF RecoverFailed, importWasCommitted
<1> QED BY <1>1, <1>2

\* Every step keeps the row and the lake of an import in agreement.
LEMMA NextSettling ==
  ASSUME "drop" \notin WriterOps, Base, Listed, LakeMatchesReceipts, CopiesInPlace,
         [Next]_vars, NEW i \in Import, Settling(i)
  PROVE  Settling(i)'
<1>a. imports \in [Import -> Row] /\ work \in [Import -> Work]
  BY DEF Base, TypeInv, TypeOK
<1>s. ASSUME NEW status \in {"succeeded", "failed"}, imports' = [imports EXCEPT ![i].status = status],
             status = "succeeded" <=> LakeOf(i) # {},
             LakeOf(i)' = LakeOf(i),
             work'[i].pc = work[i].pc \/ work'[i].pc = "release"
      PROVE  Settling(i)'
  <2>1. imports'[i].status = status /\ Of(i)' = Of(i)
    BY <1>a, <1>s DEF Row, Of
  <2>2. Names(LakeOf(i))' = Names(LakeOf(i))
    BY <1>s DEF Names
  <2> QED BY <1>s, <2>1, <2>2 DEF Settling, Unregistered
<1>u. ASSUME imports'[i] = imports[i], LakeOf(i)' = LakeOf(i),
             /\ work'[i].pc = "unlink" => work[i].pc = "unlink"
             /\ work'[i].pc \in Unregistered \cup {"finish"} => LakeOf(i) = {}
      PROVE  Settling(i)'
  <2>1. Of(i)' = Of(i) /\ Names(LakeOf(i))' = Names(LakeOf(i))
    BY <1>u DEF Of, Names
  <2> QED BY <1>u, <2>1 DEF Settling
<1>1. ASSUME NEW c \in Caller, Admit(c, i) PROVE Settling(i)'
  <2>1. /\ work'[i].pc = "copy" /\ imports'[i].status = "running"
        /\ LakeOf(i)' = LakeOf(i) /\ LakeOf(i) = {}
    BY <1>1, <1>a DEF Admit, FreshImport, NoWork, LakeOf, Settling
  <2> QED BY <2>1 DEF Settling
<1>2. CASE Prepares(i)
  <2>1. LakeOf(i)' = LakeOf(i) /\ imports' = imports
    BY <1>2 DEF Prepares, LakeOf
  <2>2. CASE work'[i].pc = "unlink"
    BY <1>2, <2>1, <2>2, <1>u DEF Prepares, Unregistered
  <2>3. CASE work'[i].pc # "unlink"
    <3>1. work[i].pc \in Unregistered \cup {"finish"}
      BY <1>2, <2>3 DEF Prepares, Busied, Planned, Unregistered
    <3> QED BY <2>1, <2>3, <3>1, <1>u DEF Settling
  <2> QED BY <2>2, <2>3
<1>3. CASE Registers(i)
  BY <1>3, RegistersSettling
<1>4. CASE FinishImport(i)
  <2>1. /\ work'[i].pc = "release" /\ LakeOf(i)' = LakeOf(i)
    BY <1>4, <1>a DEF FinishImport, Goto, Work, LakeOf
  <2>2. work[i].err = "none" <=> LakeOf(i) # {}
    BY <1>4 DEF FinishImport, Base, Staging, Stage, Settling
  <2>3. CASE UNCHANGED imports
    BY <2>1, <2>3, <1>u DEF Unregistered
  <2>4. CASE imports' = [imports EXCEPT ![i].status =
                           IF work[i].err = "none" THEN "succeeded" ELSE "failed"]
    <3>1. CASE work[i].err = "none"
      BY <2>1, <2>2, <2>4, <3>1, <1>s
    <3>2. CASE work[i].err # "none"
      BY <2>1, <2>2, <2>4, <3>2, <1>s
    <3> QED BY <3>1, <3>2
  <2> QED BY <1>4, <2>3, <2>4 DEF FinishImport
<1>5. CASE ReleaseImport(i)
  <2>1. work'[i].pc = "idle" /\ LakeOf(i)' = LakeOf(i) /\ UNCHANGED imports
    BY <1>5, <1>a DEF ReleaseImport, NoWork, LakeOf
  <2> QED BY <2>1, <1>u DEF Unregistered
<1>6. CASE Exit \/ Crash
  <2>1. work'[i].pc = "idle" /\ LakeOf(i)' = LakeOf(i) /\ UNCHANGED imports
    BY <1>6 DEF Exit, Crash, End, NoWork, LakeOf
  <2> QED BY <2>1, <1>u DEF Unregistered
<1>7. CASE RecoverCommitted(i) \/ RecoverReceipts(i) \/ RecoverFailed(i)
  <2>1. LakeOf(i)' = LakeOf(i) /\ UNCHANGED work
    BY <1>7 DEF RecoverCommitted, RecoverReceipts, RecoverFailed, LakeOf
  <2>2. CASE RecoverCommitted(i)
    BY <2>1, <2>2, <1>s, RecoverySettling DEF RecoverCommitted
  <2>3. CASE RecoverFailed(i)
    BY <2>1, <2>3, <1>s, RecoverySettling DEF RecoverFailed
  <2>4. CASE RecoverReceipts(i)
    BY <2>1, <2>4, <1>u DEF RecoverReceipts, Settling
  <2> QED BY <1>7, <2>2, <2>3, <2>4
<1>8. CASE Untouched(i)
  BY <1>8, <1>u DEF Untouched, Settling
<1> QED BY <1>1, <1>2, <1>3, <1>4, <1>5, <1>6, <1>7, <1>8, StepOnImport, ImportEffect DEF Base

\* The invariant of the theorem below and of the refinement of the ledger.
SettledInv ==
  /\ Base /\ CopiesInPlace /\ DataFilesExist /\ RegistrationInv
  /\ \A i \in Import : Settling(i)

LEMMA InitSettledInv == Init => SettledInv
<1> SUFFICES ASSUME Init PROVE SettledInv
  OBVIOUS
<1>1. \A i \in Import : Settling(i)
  BY DEF Init, Settling, LakeOf, NoRow, NoWork
<1> QED BY <1>1, BaseInvariant, InitCopies, InitRegistration DEF SettledInv

LEMMA NextSettledInv ==
  ASSUME ListKept, "drop" \notin WriterOps, SettledInv, [Next]_vars PROVE SettledInv'
<1>1. Base' /\ CopiesInPlace' /\ DataFilesExist' /\ RegistrationInv'
  BY NextBase, NextCopies, NextRegistration DEF SettledInv, Base
<1>2. \A i \in Import : Settling(i)'
  BY NextSettling DEF SettledInv, RegistrationInv
<1> QED BY <1>1, <1>2 DEF SettledInv

\* If no file leaves DuckLake's list while its import's row says running, and nobody
\* drops the table, a settled import told the truth through failures at any step,
\* crashes and restarts: every requested file is in the table, or none is
\* (service.go: finishImport, importWasCommitted).
THEOREM SettledTrue ==
  ListKept /\ "drop" \notin WriterOps => (Spec => []SettledTruthfully)
<1>1. ASSUME ListKept, "drop" \notin WriterOps PROVE Spec => []SettledTruthfully
  <2>1. SettledInv /\ [Next]_vars => SettledInv'
    BY <1>1, NextSettledInv
  <2>2. SettledInv => SettledTruthfully
    BY DEF SettledInv, Settling, SettledTruthfully
  <2> QED BY <2>1, <2>2, InitSettledInv, PTL DEF Spec
<1> QED BY <1>1-----------------------------------------------------------------------------
(* The inbox. *)

\* What an import has copied is still the content of its source, and what it removes
\* is in the lake.
Sources(i) ==
  /\ work[i].pc \in Busied => \A x \in work[i].copied : inbox[x.file] \in {x.content, None}
  /\ work[i].pc = "unlink" => ReceiptsFor(i) \subseteq LakeOf(i)

\* Nobody publishes under the name of a file a running import asked for.
LEMMA InboxStep ==
  ASSUME ~ReuseNames, TypeInv, [Next]_vars, NEW i \in Import, imports[i].status = "running",
         NEW f \in Of(i).files, f \in File
  PROVE  inbox'[f] \in {inbox[f], None}
<1>a. inbox \in [File -> Content \cup {None}]
  BY DEF TypeInv, TypeOK
<1>1. ASSUME NEW j \in Import, ImportStep(j) PROVE inbox'[f] \in {inbox[f], None}
  <2>1. UNCHANGED inbox \/ \E g : inbox' = [inbox EXCEPT ![g] = None]
    BY <1>1 DEF ImportStep, BeginCopy, CopyFails, PublishCopy, CheckSchema, InsertReceipt,
       Unlink, SpawnWorker, BeginTx, Commit, Cleanup, FinishImport, ReleaseImport
  <2> QED BY <2>1, <1>a
<1>2. ASSUME NEW g \in File, NEW content \in Content, Publish(g, content)
      PROVE  inbox'[f] = inbox[f]
  <2>1. g # f /\ inbox' = [inbox EXCEPT ![g] = content]
    BY <1>2 DEF Publish
  <2> QED BY <2>1, <1>a
<1>3. CASE UNCHANGED inbox
  BY <1>3
<1> QED BY <1>1, <1>2, <1>3 DEF Next, vars, CallerStep, StartImport, LookupKey, Busy, AdmitFails,
        Admit, StartMaintenance, MaintenanceBusy, AdmitMaintenance, UpkeepStep, RunMaintenance,
        FinishMaintenance, ReleaseMaintenance, Shutdown, CloseReturns, Exit, Crash, End,
        RecoveryStep, Restart, FinishRecovery, RecoverCommitted, RecoverReceipts, RecoverFailed,
        RecoveryStuck, Environment, WriterDrop, WriterCompact, WriterCreate

\* A copy is remembered only when its source still has the content that was copied.
LEMMA CopiedStep ==
  ASSUME TypeInv, NEW i \in Import, ImportStep(i), NEW x \in work'[i].copied
  PROVE  x \in work[i].copied \/ inbox'[x.file] = x.content
<1>a. work \in [Import -> Work] /\ work[i] \in Work
  BY DEF TypeInv, TypeOK
<1>g. ASSUME NEW pc, Goto(i, pc) PROVE x \in work[i].copied
  BY <1>a, <1>g DEF Goto, Work
<1>h. ASSUME Fail(i, "other") PROVE x \in work[i].copied
  BY <1>a, <1>h DEF Fail, Work
<1>1. CASE PublishCopy(i)
  <2>1. /\ work'[i].copied = work[i].copied \cup {work[i].cur}
        /\ inbox[work[i].cur.file] = work[i].cur.content /\ UNCHANGED inbox
    BY <1>1, <1>a DEF PublishCopy, Work
  <2> QED BY <2>1
<1>2. CASE CopyFails(i)
  <2>1. work'[i].copied \in {{}, work[i].copied}
    BY <1>2, <1>a DEF CopyFails, Work
  <2> QED BY <2>1
<1>3. ASSUME NEW f \in File, BeginCopy(i, f) PROVE x \in work[i].copied
  BY <1>3, <1>a DEF BeginCopy, Work
<1>4. CASE CheckSchema(i) \/ SpawnWorker(i)
  BY <1>4, <1>g, <1>h DEF CheckSchema, SpawnWorker
<1>5. ASSUME NEW y \in work[i].copied, InsertReceipt(i, y) PROVE x \in work[i].copied
  BY <1>5, <1>h DEF InsertReceipt
<1>6. ASSUME NEW y \in work[i].copied, Unlink(i, y) PROVE x \in work[i].copied
  <2>1. work'[i].copied = work[i].copied \ {y}
    BY <1>6, <1>a DEF Unlink, Work
  <2> QED BY <2>1
<1>7. CASE BeginTx(i)
  <2>1. CASE work' = [work EXCEPT ![i] = [@ EXCEPT !.pc = "commit", !.seen = tables[Of(i).table]]]
    BY <2>1, <1>a DEF Work
  <2> QED BY <1>7, <2>1, <1>h DEF BeginTx
<1>8. CASE Commit(i)
  BY <1>8, <1>g, <1>h DEF Commit
<1>9. CASE Cleanup(i)
  <2>1. work'[i].copied = {}
    BY <1>9, <1>a DEF Cleanup, Work
  <2> QED BY <2>1
<1>10. CASE FinishImport(i)
  BY <1>10, <1>g DEF FinishImport
<1>11. CASE ReleaseImport(i)
  <2>1. work'[i].copied = {}
    BY <1>11, <1>a DEF ReleaseImport, NoWork
  <2> QED BY <2>1
<1> QED BY <1>1, <1>2, <1>3, <1>4, <1>5, <1>6, <1>7, <1>8, <1>9, <1>10, <1>11 DEF ImportStep

\* Every step keeps the sources of an import.
LEMMA NextSources ==
  ASSUME ~ReuseNames, "drop" \notin WriterOps, Base, [Next]_vars, NEW i \in Import, Sources(i)
  PROVE  Sources(i)'
<1>a. work \in [Import -> Work]
  BY DEF Base, TypeInv, TypeOK
<1>b. ASSUME work[i].pc \in Busied, NEW x \in work[i].copied
      PROVE  inbox'[x.file] \in {x.content, None}
  <2>1. /\ imports[i].status = "running" /\ x.file \in Of(i).files /\ x.file \in File
        /\ inbox[x.file] \in {x.content, None}
    BY <1>a, <1>b DEF Base, Staging, Stage, Names, Sources, Work, Copy
  <2> QED BY <2>1, InboxStep DEF Base
<1>r. ASSUME UNCHANGED imports, work'[i].copied \subseteq work[i].copied
      PROVE  ReceiptsFor(i)' \subseteq ReceiptsFor(i)
  BY <1>r DEF ReceiptsFor, ReceiptOf, Of
<1>1. ASSUME NEW c \in Caller, Admit(c, i) PROVE Sources(i)'
  <2>1. work'[i].pc = "copy" /\ work'[i].copied = {}
    BY <1>1, <1>a DEF Admit, NoWork
  <2> QED BY <2>1 DEF Sources
<1>2. CASE ImportStep(i) /\ work'[i].pc \in Busied
  <2>1. work[i].pc \in Busied
    BY <1>2, <1>a, ImportEffect
       DEF Base, Prepares, Registers, FinishImport, ReleaseImport, Goto, Work, NoWork, Busied, Planned
  <2>2. \A x \in work'[i].copied : inbox'[x.file] \in {x.content, None}
    BY <1>2, <1>b, <2>1, CopiedStep DEF Base
  <2>3. ASSUME work'[i].pc = "unlink" PROVE ReceiptsFor(i)' \subseteq LakeOf(i)'
    <3>1. CASE Prepares(i)
      BY <2>3, <3>1, <1>r DEF Prepares, Sources, LakeOf
    <3>2. CASE Registers(i)
      <4>1. \A r \in ReceiptsFor(i) : r.import = i
        BY DEF ReceiptsFor, ReceiptOf
      <4> QED BY <3>2, <4>1, <1>r DEF Registers, LakeOf
    <3>3. CASE FinishImport(i) \/ ReleaseImport(i)
      BY <2>3, <3>3, <1>a DEF FinishImport, ReleaseImport, Goto, Work, NoWork
    <3> QED BY <1>2, <3>1, <3>2, <3>3, ImportEffect DEF Base
  <2> QED BY <2>2, <2>3 DEF Sources
<1>3. CASE work'[i].pc \notin Busied
  BY <1>3 DEF Sources, Busied
<1>4. CASE Exit \/ Crash
  <2>1. work'[i].pc = "idle"
    BY <1>4 DEF Exit, Crash, End, NoWork
  <2> QED BY <2>1, <1>3 DEF Busied, Planned
<1>5. CASE RecoverCommitted(i) \/ RecoverReceipts(i) \/ RecoverFailed(i)
  <2>1. work'[i].pc = "idle"
    BY <1>5 DEF RecoverCommitted, RecoverReceipts, RecoverFailed, Running, Base, Staging, Vacant
  <2> QED BY <2>1, <1>3 DEF Busied, Planned
<1>6. CASE Untouched(i)
  <2>1. ReceiptsFor(i)' = ReceiptsFor(i)
    BY <1>6 DEF Untouched, ReceiptsFor, ReceiptOf, Of
  <2> QED BY <1>6, <1>b, <2>1 DEF Untouched, Sources
<1> QED BY <1>1, <1>2, <1>3, <1>4, <1>5, <1>6, StepOnImport DEF Base

\* Only the import that registered it removes a file from the inbox.
LEMMA RemovalStep ==
  ASSUME TypeInv, [Next]_vars, NEW f \in File, inbox[f] # None, inbox'[f] = None
  PROVE  \E i \in Import : \E x \in work[i].copied : work[i].pc = "unlink" /\ x.file = f
<1>a. inbox \in [File -> Content \cup {None}] /\ None \notin Content
  BY NoneAssumption DEF TypeInv, TypeOK
<1>1. ASSUME NEW i \in Import, NEW x \in work[i].copied, Unlink(i, x)
      PROVE  work[i].pc = "unlink" /\ x.file = f
  BY <1>1, <1>a DEF Unlink
<1>2. ASSUME NEW g \in File, NEW content \in Content, Publish(g, content) PROVE FALSE
  BY <1>2, <1>a DEF Publish
<1>3. CASE UNCHANGED inbox
  BY <1>3
<1>4. ASSUME NEW i \in Import, ImportStep(i) PROVE \/ \E x \in work[i].copied : Unlink(i, x)
                                                   \/ UNCHANGED inbox
  BY <1>4 DEF ImportStep, BeginCopy, CopyFails, PublishCopy, CheckSchema, InsertReceipt,
     SpawnWorker, BeginTx, Commit, Cleanup, FinishImport, ReleaseImport
<1> QED BY <1>1, <1>2, <1>3, <1>4 DEF Next, vars, CallerStep, StartImport, LookupKey, Busy, AdmitFails,
        Admit, StartMaintenance, MaintenanceBusy, AdmitMaintenance, UpkeepStep, RunMaintenance,
        FinishMaintenance, ReleaseMaintenance, Shutdown, CloseReturns, Exit, Crash, End,
        RecoveryStep, Restart, FinishRecovery, RecoverCommitted, RecoverReceipts, RecoverFailed,
        RecoveryStuck, Environment, WriterDrop, WriterCompact, WriterCreate

\* If producers do not publish under a name an import is using, and nobody drops the
\* table, a file leaves the inbox only when its content is in the lake, whatever else
\* fails (service.go: stageImport's source check, runImport's os.Remove).
THEOREM InboxSafe == ~ReuseNames /\ "drop" \notin WriterOps => (Spec => InboxKept)
<1>1. ASSUME ~ReuseNames, "drop" \notin WriterOps PROVE Spec => InboxKept
  <2> DEFINE Inv == Base /\ \A i \in Import : Sources(i)
             Kind == \A f \in File : inbox[f] # None /\ inbox'[f] = None =>
                       \E r \in lake : r.file = f /\ r.content = inbox[f]
  <2>1. Init => Inv
    BY BaseInvariant DEF Init, Sources, NoWork, Busied, Planned
  <2>2. Inv /\ [Next]_vars => Inv'
    BY <1>1, NextBase, NextSources
  <2>3. Inv /\ [Next]_vars => Kind
    <3> SUFFICES ASSUME Inv, [Next]_vars, NEW f \in File, inbox[f] # None, inbox'[f] = None
                 PROVE  \E r \in lake : r.file = f /\ r.content = inbox[f]
      OBVIOUS
    <3>1. PICK i \in Import : \E x \in work[i].copied : work[i].pc = "unlink" /\ x.file = f
      BY RemovalStep DEF Base
    <3>2. PICK x \in work[i].copied : work[i].pc = "unlink" /\ x.file = f
      BY <3>1
    <3>3. inbox[f] = x.content /\ ReceiptOf(i, x) \in lake
      BY <3>2 DEF Sources, Busied, ReceiptsFor, LakeOf
    <3> QED BY <3>2, <3>3 DEF ReceiptOf
  <2>4. Inv /\ [Next]_vars => [Kind]_vars
    BY <2>3
  <2> HIDE DEF Inv, Kind
  <2>5. Spec => [][Kind]_vars
    BY <2>1, <2>2, <2>4, PTL DEF Spec
  <2> QED BY <2>5 DEF InboxKept, Kind
<1> QED BY <1>1-----------------------------------------------------------------------------
(* Duplicates. *)

\* The receipts of an import that is not about to commit or roll back are in the lake.
Backed(i) ==
  /\ Running /\ work[i].pc \notin {"receipts", "begin", "commit", "cleanup"} =>
       ReceiptsOf(i) \subseteq LakeOf(i)
  /\ ~Running /\ imports[i].status # "running" => ReceiptsOf(i) \subseteq LakeOf(i)

\* Every step keeps the receipts of an import backed.
LEMMA NextBacked ==
  ASSUME "delete" \notin FaultKinds, "drop" \notin WriterOps, Base, [Next]_vars,
         NEW i \in Import, Backed(i)
  PROVE  Backed(i)'
<1>a. work \in [Import -> Work] /\ listed \subseteq lake
  BY DEF Base, TypeInv, TypeOK
<1>b. Stage(i) /\ Stage(i)'
  BY NextBase DEF Base, Staging
<1>e. ReceiptsOf(i)' = {} => Backed(i)'
  BY DEF Backed
<1>u. ASSUME Running, Running', UNCHANGED <<receipts, lake>>,
             work[i].pc \notin {"receipts", "begin", "commit", "cleanup"}
      PROVE  Backed(i)'
  BY <1>u DEF Backed, ReceiptsOf, LakeOf
<1>1. ASSUME NEW c \in Caller, Admit(c, i) PROVE Backed(i)'
  <2>1. work'[i].pc = "copy"
    BY <1>1, <1>a DEF Admit, NoWork
  <2> QED BY <2>1, <1>b, <1>e DEF Stage, PlanningOf
<1>2. CASE ImportStep(i)
  <2>0. Running /\ Running'
    BY <1>2, ImportMoves DEF Base, Running, ImportStep, BeginCopy, CopyFails, PublishCopy,
       CheckSchema, InsertReceipt, Unlink, SpawnWorker, BeginTx, Commit, Cleanup, FinishImport,
       ReleaseImport
  <2>1. CASE Prepares(i)
    <3>1. CASE work'[i].pc \in {"copy", "check"}
      BY <3>1, <1>b, <1>e DEF Stage, PlanningOf
    <3>2. CASE work'[i].pc \in {"receipts", "begin", "commit", "cleanup"}
      BY <3>2, <2>0 DEF Backed
    <3>3. CASE work'[i].pc = "unlink"
      BY <2>0, <2>1, <3>3, <1>u DEF Prepares
    <3>4. CASE work'[i].pc = "finish"
      <4>1. receipts' = receipts \ ReceiptsOf(i)
        BY <2>1, <3>4 DEF Prepares, Fault
      <4>2. ReceiptsOf(i)' = {}
        BY <4>1 DEF ReceiptsOf
      <4> QED BY <4>2, <1>e
    <3> QED BY <2>1, <3>1, <3>2, <3>3, <3>4 DEF Prepares, Busied, Planned
  <2>2. CASE Registers(i)
    <3>1. ReceiptsOf(i)' \subseteq ReceiptsFor(i) /\ \A r \in ReceiptsFor(i) : r.import = i
      BY <2>2, <1>b DEF Registers, Stage, PlanningOf, ReceiptsOf, ReceiptsFor, ReceiptOf
    <3>2. ReceiptsOf(i)' \subseteq LakeOf(i)'
      BY <2>2, <3>1 DEF Registers, LakeOf
    <3> QED BY <2>0, <3>2 DEF Backed
  <2>3. CASE FinishImport(i) \/ ReleaseImport(i)
    BY <2>0, <2>3, <1>u DEF FinishImport, ReleaseImport
  <2> QED BY <1>2, <2>1, <2>2, <2>3, ImportEffect DEF Base
<1>3. CASE Exit \/ Crash
  <2>1. ~Running' /\ UNCHANGED <<imports, receipts, lake>>
    BY <1>3 DEF Exit, Crash, End, Running
  <2>2. imports[i].status # "running" => work[i].pc \notin Busied
    BY <1>b DEF Stage
  <2>3. imports[i].status # "running" => ReceiptsOf(i) \subseteq LakeOf(i)
    BY <2>2 DEF Backed, Busied, Planned
  <2> QED BY <2>1, <2>3 DEF Backed, ReceiptsOf, LakeOf
<1>4. CASE RecoverCommitted(i)
  <2>1. ReceiptsOf(i) \subseteq LakeOf(i) /\ UNCHANGED <<receipts, lake>>
    BY <1>4, <1>a DEF RecoverCommitted, importWasCommitted, ReceiptsOf, LakeOf
  <2>2. ReceiptsOf(i)' \subseteq LakeOf(i)'
    BY <2>1 DEF ReceiptsOf, LakeOf
  <2> QED BY <2>2 DEF Backed
<1>5. CASE RecoverReceipts(i) \/ RecoverFailed(i)
  <2>1. ReceiptsOf(i)' = {}
    BY <1>5 DEF RecoverReceipts, RecoverFailed, Fault, ReceiptsOf
  <2> QED BY <2>1, <1>e
<1>6. CASE Untouched(i)
  <2>1. ~Running => work[i].pc = "idle"
    BY DEF Base, Staging, Vacant
  <2> QED BY <1>6, <2>1 DEF Untouched, Backed
<1> QED BY <1>1, <1>2, <1>3, <1>4, <1>5, <1>6, StepOnImport DEF Base

\* Only a copy whose content has a receipt for the target is called a duplicate.
LEMMA DuplicateStep ==
  ASSUME TypeInv, [Next]_vars, NEW i \in Import,
         work[i].err # "duplicate", work'[i].err = "duplicate"
  PROVE  Running /\ work[i].pc = "copy" /\ Prior(i, work[i].cur.content) # {}
<1>a. work \in [Import -> Work] /\ work[i] \in Work
  BY DEF TypeInv, TypeOK
<1>g. ASSUME NEW pc, Goto(i, pc) PROVE FALSE
  BY <1>a, <1>g DEF Goto, Work
<1>h. ASSUME Fail(i, "other") PROVE FALSE
  BY <1>a, <1>h DEF Fail, Work
<1>1. CASE PublishCopy(i)
  <2>1. Prior(i, work[i].cur.content) # {}
    BY <1>1, <1>a DEF PublishCopy, Work
  <2> QED BY <1>1, <2>1 DEF PublishCopy
<1>2. ASSUME NEW f \in File, BeginCopy(i, f) PROVE FALSE
  BY <1>2, <1>a DEF BeginCopy, Work
<1>3. CASE CopyFails(i)
  <2>1. work'[i].err = "other"
    BY <1>3, <1>a DEF CopyFails, Work
  <2> QED BY <2>1
<1>4. ASSUME NEW x \in work[i].copied, InsertReceipt(i, x) PROVE FALSE
  BY <1>4, <1>h DEF InsertReceipt
<1>5. ASSUME NEW x \in work[i].copied, Unlink(i, x) PROVE FALSE
  BY <1>5, <1>a DEF Unlink, Work
<1>6. ASSUME BeginTx(i) PROVE FALSE
  <2>1. CASE work' = [work EXCEPT ![i] = [@ EXCEPT !.pc = "commit", !.seen = tables[Of(i).table]]]
    BY <2>1, <1>a DEF Work
  <2> QED BY <1>6, <2>1, <1>h DEF BeginTx
<1>7. ASSUME CheckSchema(i) \/ SpawnWorker(i) \/ Commit(i) \/ FinishImport(i) PROVE FALSE
  BY <1>7, <1>g, <1>h DEF CheckSchema, SpawnWorker, Commit, FinishImport
<1>8. ASSUME Cleanup(i) PROVE FALSE
  BY <1>8, <1>a DEF Cleanup, Work
<1>9. ASSUME ReleaseImport(i) PROVE FALSE
  BY <1>9, <1>a DEF ReleaseImport, NoWork
<1>10. ASSUME NEW c \in Caller, Admit(c, i) PROVE FALSE
  BY <1>10, <1>a DEF Admit, NoWork
<1>11. ASSUME Exit \/ Crash PROVE FALSE
  BY <1>11 DEF Exit, Crash, End, NoWork
<1>12. ASSUME RecoverCommitted(i) \/ RecoverReceipts(i) \/ RecoverFailed(i) PROVE FALSE
  BY <1>12 DEF RecoverCommitted, RecoverReceipts, RecoverFailed
<1> QED BY <1>1, <1>2, <1>3, <1>4, <1>5, <1>6, <1>7, <1>8, <1>9, <1>10, <1>11, <1>12,
        StepOnImport DEF ImportStep, Untouched

\* If the rollback's DELETE does not fail and nobody drops the table, an import refused
\* as a duplicate has its content in the target, however the imports before it ended
\* (service.go: stageImport; the receipts of an import that failed are deleted).
THEOREM DuplicatesTrue ==
  "delete" \notin FaultKinds /\ "drop" \notin WriterOps => (Spec => DuplicateMeansRegistered)
<1>1. ASSUME "delete" \notin FaultKinds, "drop" \notin WriterOps
      PROVE  Spec => DuplicateMeansRegistered
  <2> DEFINE Inv == Base /\ \A i \in Import : Backed(i)
             Named == \A i \in Import : work[i].err # "duplicate" /\ work'[i].err = "duplicate" =>
                        \E r \in lake : r.table = Of(i).table /\ r.content = work[i].cur.content
  <2>1. Init => Inv
    BY BaseInvariant DEF Init, Backed, ReceiptsOf
  <2>2. Inv /\ [Next]_vars => Inv'
    BY <1>1, NextBase, NextBacked
  <2>3. Inv /\ [Next]_vars => Named
    <3> SUFFICES ASSUME Inv, [Next]_vars, NEW i \in Import,
                        work[i].err # "duplicate", work'[i].err = "duplicate"
                 PROVE  \E r \in lake : r.table = Of(i).table /\ r.content = work[i].cur.content
      OBVIOUS
    <3>1. Running /\ work[i].pc = "copy" /\ Prior(i, work[i].cur.content) # {}
      BY DuplicateStep DEF Base
    <3>2. PICK r \in receipts : r.table = Of(i).table /\ r.content = work[i].cur.content
      BY <3>1 DEF Prior
    <3>3. r.import \in Import /\ r \in ReceiptsOf(r.import)
      BY <3>2 DEF Base, TypeInv, TypeOK, Receipt, ReceiptsOf
    <3>4. r.import # i
      BY <3>1, <3>3 DEF Base, Staging, Stage, PlanningOf
    <3>5. work[r.import].pc = "idle"
      BY <3>1, <3>3, <3>4 DEF Base, OneOwner
    <3>6. r \in LakeOf(r.import)
      BY <3>1, <3>3, <3>5 DEF Backed
    <3> QED BY <3>2, <3>6 DEF LakeOf
  <2>4. Inv /\ [Next]_vars => [Named]_vars
    BY <2>3
  <2> HIDE DEF Inv, Named
  <2>5. Spec => [][Named]_vars
    BY <2>1, <2>2, <2>4, PTL DEF Spec
  <2> QED BY <2>5 DEF DuplicateMeansRegistered, Named
<1> QED BY <1>1

-----------------------------------------------------------------------------
(* The ledger: every step of DuckLakeService is a step of ImportLedger or      *)
(* changes nothing a client sees.                                              *)

\* The outcome a row stands for.
OutcomeOf(i) ==
  CASE imports[i].status = "absent"  -> "none"
    [] imports[i].status = "running" -> "pending"
    [] OTHER -> imports[i].status

\* One entry per file in the lake.
EntryOf(r) == [import |-> r.import, table |-> r.table, content |-> r.content]

LEMMA OutcomeEach == Outcome = [i \in Import |-> OutcomeOf(i)]
BY DEF Outcome, OutcomeOf

LEMMA RegisteredEach == Registered = {EntryOf(r) : r \in lake}
BY DEF Registered, EntryOf

\* The outcomes of the four states of a row.
LEMMA OutcomeCases ==
  ASSUME NEW i \in Import
  PROVE  /\ imports[i].status = "absent" => OutcomeOf(i) = "none"
         /\ imports[i].status = "running" => OutcomeOf(i) = "pending"
         /\ imports[i].status \notin {"absent", "running"} => OutcomeOf(i) = imports[i].status
BY DEF OutcomeOf

\* An import has an entry exactly if it has files in the lake.
LEMMA AddedEach ==
  ASSUME NEW i \in Import
  PROVE  {e \in Registered : e.import = i} = {} <=> LakeOf(i) = {}
<1>1. \A r : EntryOf(r).import = r.import
  BY DEF EntryOf
<1>2. \A e \in Registered : \E r \in lake : e.import = r.import
  BY <1>1, RegisteredEach
<1>3. \A r \in lake : EntryOf(r) \in Registered
  BY RegisteredEach
<1> QED BY <1>1, <1>2, <1>3 DEF LakeOf

\* Steps a client does not see.
LEMMA Stutters ==
  ASSUME \A i \in Import : imports'[i].status = imports[i].status, lake' = lake
  PROVE  UNCHANGED <<Outcome, Registered>>
<1>1. \A i \in Import : OutcomeOf(i)' = OutcomeOf(i)
  BY DEF OutcomeOf
<1>2. Outcome' = [i \in Import |-> OutcomeOf(i)']
  BY DEF Outcome, OutcomeOf
<1> QED BY <1>1, <1>2, OutcomeEach DEF Registered

\* A step that changes the outcome of one import.
LEMMA Moves ==
  ASSUME imports \in [Import -> Row], NEW i \in Import, NEW row,
         imports' = [imports EXCEPT ![i] = row], lake' = lake
  PROVE  Outcome' = [Outcome EXCEPT ![i] = OutcomeOf(i)'] /\ UNCHANGED Registered
<1>1. \A j \in Import \ {i} : OutcomeOf(j)' = OutcomeOf(j)
  BY DEF OutcomeOf
<1>2. Outcome' = [j \in Import |-> OutcomeOf(j)']
  BY DEF Outcome, OutcomeOf
<1> QED BY <1>1, <1>2, OutcomeEach DEF Registered

\* At first no import has an outcome.
LEMMA InitMaps == Init => Ledger!Init
<1> SUFFICES ASSUME Init PROVE Ledger!Init
  OBVIOUS
<1>1. \A i \in Import : OutcomeOf(i) = "none"
  BY OutcomeCases DEF Init, NoRow
<1>2. Registered = {}
  BY DEF Init, Registered
<1> QED BY <1>1, <1>2, OutcomeEach DEF Ledger!Init

\* The INSERT of the row accepts the import.
LEMMA AdmitMaps ==
  ASSUME SettledInv, NEW i \in Import, NEW c \in Caller, Admit(c, i)
  PROVE  Ledger!Accept(i)
<1>1. imports \in [Import -> Row]
  BY DEF SettledInv, Base, TypeInv, TypeOK
<1> DEFINE row == [status |-> "running", key |-> caller[c].key, request |-> caller[c].request]
<1>2. imports' = [imports EXCEPT ![i] = row] /\ row.status = "running"
  BY DEF Admit
<1> HIDE DEF row
<1>3. lake' = lake /\ imports[i].status = "absent" /\ imports'[i].status = "running"
  BY <1>1, <1>2 DEF Admit, FreshImport
<1>4. OutcomeOf(i)' = "pending" /\ OutcomeOf(i) = "none"
  BY <1>3 DEF OutcomeOf
<1>5. Outcome' = [Outcome EXCEPT ![i] = "pending"] /\ UNCHANGED Registered
  BY <1>1, <1>2, <1>3, <1>4, Moves
<1> QED BY <1>4, <1>5, OutcomeEach DEF Ledger!Accept

\* A row is settled by what is in the lake.
LEMMA SettleMaps ==
  ASSUME SettledInv, NEW i \in Import, imports[i].status = "running",
         NEW status \in {"succeeded", "failed"},
         imports' = [imports EXCEPT ![i].status = status],
         status = "succeeded" <=> LakeOf(i) # {}, lake' = lake
  PROVE  Ledger!Settle(i)
<1>1. imports \in [Import -> Row]
  BY DEF SettledInv, Base, TypeInv, TypeOK
<1>2. /\ imports' = [imports EXCEPT ![i] = [imports[i] EXCEPT !.status = status]]
      /\ imports'[i].status = status
  BY <1>1 DEF Row
<1>3. OutcomeOf(i)' = status /\ OutcomeOf(i) = "pending"
  BY <1>2 DEF OutcomeOf
<1>4. Outcome' = [Outcome EXCEPT ![i] = status] /\ UNCHANGED Registered
  BY <1>1, <1>2, <1>3, Moves
<1>5. status = IF Ledger!Added(i) = {} THEN "failed" ELSE "succeeded"
  BY AddedEach DEF Ledger!Added
<1> QED BY <1>3, <1>4, <1>5, OutcomeEach DEF Ledger!Settle
\* The commit registers the contents of the whole request, none of them in the target
\* before.
LEMMA CommitMaps ==
  ASSUME SettledInv, RegisteredOnce', NEW i \in Import, Registers(i)
  PROVE  \E t \in Table, contents \in SUBSET Content : Ledger!Register(i, t, contents)
<1> DEFINE t == Of(i).table
           contents == {x.content : x \in work[i].copied}
<1>1. /\ t \in Table /\ work[i].copied \subseteq Copy /\ work[i].copied # {}
      /\ imports[i].status = "running" /\ LakeOf(i) = {}
  <2>1. Base /\ Settling(i) /\ work[i].pc = "commit"
    BY DEF SettledInv, Registers
  <2>2. work[i].copied \subseteq Copy /\ Of(i) \in Requests /\ work[i].copied # {}
    BY <2>1 DEF Base, TypeInv, TypeOK, Attached, Work, Planned, Of
  <2> QED BY <2>1, <2>2, DataAssumption
          DEF Request, Base, Staging, Stage, Settling, Unregistered, Busied, Planned
<1>2. contents \in SUBSET Content /\ contents # {}
  BY <1>1 DEF Copy
<1>3. lake' = lake \cup ReceiptsFor(i) /\ UNCHANGED imports
  BY DEF Registers
<1>4. {EntryOf(r) : r \in ReceiptsFor(i)} = {[import |-> i, table |-> t, content |-> x] : x \in contents}
  <2> DEFINE Entry(x) == [import |-> i, table |-> t, content |-> x]
  <2>1. \A x \in work[i].copied : EntryOf(ReceiptOf(i, x)) = Entry(x.content)
    BY DEF EntryOf, ReceiptOf
  <2> HIDE DEF Entry
  <2>2. {EntryOf(r) : r \in ReceiptsFor(i)} = {Entry(x) : x \in contents}
    BY <2>1 DEF ReceiptsFor
  <2> QED BY <2>2 DEF Entry
<1>5. Registered' = Registered \cup {[import |-> i, table |-> t, content |-> x] : x \in contents}
  <2>1. Registered' = {EntryOf(r) : r \in lake'}
    BY DEF Registered, EntryOf
  <2> QED BY <1>3, <1>4, <2>1, RegisteredEach
<1>6. \A e \in Registered : e.table = t => e.content \notin contents
  <2> SUFFICES ASSUME NEW e \in Registered, e.table = t, e.content \in contents PROVE FALSE
    OBVIOUS
  <2>1. PICK r \in lake : e = EntryOf(r)
    BY RegisteredEach
  <2>2. PICK x \in work[i].copied : x.content = e.content
    OBVIOUS
  <2>3. r.import # i /\ r.table = t /\ r.content = x.content
    BY <1>1, <2>1, <2>2 DEF EntryOf, LakeOf
  <2>4. /\ ReceiptOf(i, x) \in lake' /\ r \in lake'
        /\ ReceiptOf(i, x).import = i /\ ReceiptOf(i, x).table = t
        /\ ReceiptOf(i, x).content = x.content
    BY <1>3 DEF ReceiptsFor, ReceiptOf
  <2> QED BY <2>3, <2>4 DEF RegisteredOnce
<1>7. Ledger!Added(i) = {}
  BY <1>1, AddedEach DEF Ledger!Added
<1>8. Outcome[i] = "pending" /\ UNCHANGED Outcome
  BY <1>1, <1>3, OutcomeCases, OutcomeEach DEF Outcome
<1> HIDE DEF t, contents
<1>9. Ledger!Register(i, t, contents)
  BY <1>2, <1>5, <1>6, <1>7, <1>8 DEF Ledger!Register
<1> QED BY <1>1, <1>2, <1>9

\* The steps of an import: the commit registers, the last UPDATE settles, the others
\* are not seen.
LEMMA ImportMaps ==
  ASSUME SettledInv, RegisteredOnce', NEW i \in Import, ImportStep(i)
  PROVE  Ledger!Next \/ UNCHANGED <<Outcome, Registered>>
<1>1. CASE Prepares(i)
  BY <1>1, Stutters DEF Prepares
<1>2. CASE Registers(i)
  BY <1>2, CommitMaps DEF Ledger!Next
<1>3. CASE FinishImport(i)
  <2>1. lake' = lake
    BY <1>3 DEF FinishImport
  <2>2. Base /\ Settling(i) /\ Stage(i)
    BY DEF SettledInv, Base, Staging
  <2>3. imports[i].status = "running" /\ (work[i].err = "none" <=> LakeOf(i) # {})
    BY <1>3, <2>2 DEF FinishImport, Stage, Settling, Busied
  <2>4. CASE UNCHANGED imports
    BY <2>1, <2>4, Stutters
  <2>5. CASE imports' = [imports EXCEPT ![i].status =
                           IF work[i].err = "none" THEN "succeeded" ELSE "failed"]
    <3>1. CASE work[i].err = "none"
      BY <2>1, <2>3, <2>5, <3>1, SettleMaps DEF Ledger!Next
    <3>2. CASE work[i].err # "none"
      BY <2>1, <2>3, <2>5, <3>2, SettleMaps DEF Ledger!Next
    <3> QED BY <3>1, <3>2
  <2> QED BY <1>3, <2>4, <2>5 DEF FinishImport
<1>4. CASE ReleaseImport(i)
  BY <1>4, Stutters DEF ReleaseImport
<1> QED BY <1>1, <1>2, <1>3, <1>4, ImportEffect DEF SettledInv, Base

\* Recovery settles what the crash left open, and by what is in the lake.
LEMMA RecoveryMaps ==
  ASSUME SettledInv, RecoveryStep
  PROVE  Ledger!Next \/ UNCHANGED <<Outcome, Registered>>
<1>1. ASSUME NEW i \in Import, RecoverCommitted(i) \/ RecoverFailed(i) PROVE Ledger!Next
  <2>1. /\ RecoverCommitted(i) => LakeOf(i) # {}
        /\ RecoverFailed(i) => LakeOf(i) = {}
    BY RecoverySettling DEF SettledInv, RegistrationInv
  <2>2. imports[i].status = "running" /\ lake' = lake
    BY <1>1 DEF RecoverCommitted, RecoverFailed
  <2>3. CASE RecoverCommitted(i)
    BY <2>1, <2>2, <2>3, SettleMaps DEF RecoverCommitted, Ledger!Next
  <2>4. CASE RecoverFailed(i)
    BY <2>1, <2>2, <2>4, SettleMaps DEF RecoverFailed, Ledger!Next
  <2> QED BY <1>1, <2>3, <2>4
<1>2. ASSUME NEW i \in Import, RecoverReceipts(i) \/ RecoveryStuck(i)
      PROVE  UNCHANGED <<Outcome, Registered>>
  BY <1>2, Stutters DEF RecoverReceipts, RecoveryStuck
<1>3. CASE Restart \/ FinishRecovery
  BY <1>3, Stutters DEF Restart, FinishRecovery
<1> QED BY <1>1, <1>2, <1>3 DEF RecoveryStep

\* Every step of the service is a step of the ledger or is not seen.
LEMMA StepMaps ==
  ASSUME "drop" \notin WriterOps, SettledInv, RegisteredOnce', [Next]_vars
  PROVE  Ledger!Next \/ UNCHANGED <<Outcome, Registered>>
<1>1. ASSUME NEW c \in Caller, CallerStep(c)
      PROVE  Ledger!Next \/ UNCHANGED <<Outcome, Registered>>
  <2>1. ASSUME NEW i \in Import, Admit(c, i) PROVE Ledger!Next
    BY <2>1, AdmitMaps DEF Ledger!Next
  <2>2. CASE \A i \in Import : ~Admit(c, i)
    <3>1. UNCHANGED <<imports, lake>>
      BY <1>1, <2>2 DEF CallerStep, StartImport, LookupKey, Busy, AdmitFails,
         StartMaintenance, MaintenanceBusy, AdmitMaintenance
    <3> QED BY <3>1, Stutters
  <2> QED BY <2>1, <2>2
<1>2. ASSUME NEW m \in Maintenance, UpkeepStep(m) PROVE UNCHANGED <<Outcome, Registered>>
  BY <1>2, Stutters DEF UpkeepStep, RunMaintenance, FinishMaintenance, ReleaseMaintenance
<1>3. CASE Shutdown \/ CloseReturns \/ Exit \/ Crash \/ UNCHANGED vars
  BY <1>3, Stutters DEF vars, Shutdown, CloseReturns, Exit, Crash, End
<1>4. CASE Environment
  <2>1. \A t \in Table : ~WriterDrop(t)
    BY DEF WriterDrop
  <2> QED BY <1>4, <2>1, Stutters DEF Environment, Publish, WriterCompact, WriterCreate
<1> QED BY <1>1, <1>2, <1>3, <1>4, ImportMaps, RecoveryMaps DEF Next

\* Under the conditions of SettledTrue the service, with its lock, receipts, retries,
\* crashes and recovery, shows its clients nothing but the ledger: every accepted import
\* has one outcome, adds its contents at one instant or never, and adds no content a
\* target already has (service.go: StartImport, runImport, recoverInterrupted).
THEOREM ServiceImplementsLedger ==
  ListKept /\ "drop" \notin WriterOps => (Spec => ImplementsLedger)
<1>1. ASSUME ListKept, "drop" \notin WriterOps PROVE Spec => ImplementsLedger
  <2>1. Init => SettledInv /\ Ledger!Init
    BY InitSettledInv, InitMaps
  <2>2. SettledInv /\ [Next]_vars => SettledInv'
    BY <1>1, NextSettledInv
  <2>3. SettledInv => RegisteredOnce
    BY RegistrationIsOnce DEF SettledInv, Base
  <2>4. SettledInv /\ RegisteredOnce' /\ [Next]_vars => [Ledger!Next]_<<Outcome, Registered>>
    BY <1>1, StepMaps
  <2> QED BY <2>1, <2>2, <2>3, <2>4, PTL DEF Spec, ImplementsLedger, Ledger!Spec
<1> QED BY <1>1
=============================================================================
