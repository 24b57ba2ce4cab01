----------------------- MODULE DuckLakeServiceProofs -----------------------
(* Theorems about DuckLakeService, for any number of imports, callers, files  *)
(* and tables.                                                                *)
EXTENDS DuckLakeService, TLAPS

Planned == {"check", "receipts", "begin", "commit"}

\* What the steps rely on beyond types: a request under way has a request, and
\* an import past the copies has at least one.
Attached ==
  /\ \A c \in Caller : caller[c].pc \in {"lookup", "lock"} => caller[c].request \in Requests
  /\ \A i \in Import : work[i].pc # "idle" => imports[i].request \in Requests
  /\ \A i \in Import : work[i].pc \in Planned => work[i].copied # {}

TypeInv == TypeOK /\ Attached

\* An import before its commit.
Unregistered == {"copy", "check", "receipts", "begin", "commit", "cleanup"}

\* Nothing is in the lake for an import that has not committed, and the copies it
\* is about to register are there.
CopiesInPlace ==
  /\ \A i \in Import : work[i].pc # "idle" => imports[i].status # "absent"
  /\ \A r \in lake : imports[r.import].status # "absent"
  /\ \A i \in Import : work[i].pc \in Unregistered => LakeOf(i) = {}
  /\ \A i \in Import : work[i].pc \in Planned \cup {"copy"} =>
       \A x \in work[i].copied : StagedOf(i, x) \in staged

\* After Close, only requests that were already past the first check move, and
\* they find the context cancelled before their first copy.
Retired ==
  proc = "closed" => \A i \in Import :
    /\ work[i].pc \in {"idle", "copy", "cleanup", "finish", "release"}
    /\ work[i].pc = "copy" => work[i].cur = None

\* Between the processes nothing runs, and while one runs a row that says running
\* has its import in progress, unless a result could not be written.
Attended ==
  /\ ~Running => \A i \in Import : work[i].pc = "idle"
  /\ "finish" \notin FaultKinds /\ Running =>
       \A i \in Import : imports[i].status = "running" => work[i].pc \notin {"idle", "release"}

\* A receipt names its import and target, and no content has two for one target.
Receipted ==
  /\ \A r \in receipts : imports[r.import].status # "absent" /\ r.table = Of(r.import).table
  /\ \A r, q \in receipts : r.table = q.table /\ r.content = q.content => r = q

\* The receipts of an import grow from none to those of its copies, and only then
\* does it commit.
Planning ==
  \A i \in Import :
    /\ work[i].pc \in {"copy", "check"} => ReceiptsOf(i) = {}
    /\ work[i].pc \in {"receipts", "begin", "commit"} =>
         ReceiptsOf(i) \subseteq {ReceiptOf(i, x) : x \in work[i].copied}
    /\ work[i].pc \in {"begin", "commit"} =>
         {ReceiptOf(i, x) : x \in work[i].copied} \subseteq ReceiptsOf(i)

\* What recovery needs: the files of an import not yet settled are still listed.
Listed ==
  \A i \in Import : imports[i].status = "running" => LakeOf(i) \subseteq listed

RegistrationInv == Attended /\ Receipted /\ Planning /\ Listed /\ LakeMatchesReceipts

\* Files leave DuckLake's list through maintenance or a direct writer.  Recovery is
\* sound if neither can happen between a commit and the row that records it.
ListKept == ("finish" \notin FaultKinds \/ Maintenance = {}) /\ "compact" \notin WriterOps

USE DEF metadata, files, catalog, memory

\* The initial state is well typed.
LEMMA InitTypeInv == Init => TypeInv
<1> SUFFICES ASSUME Init PROVE TypeInv
  OBVIOUS
<1> USE DEF Init
<1>1. imports \in [Import -> Row]
  BY DEF Row, Status, NoRow
<1>2. caller \in [Caller -> Call]
  BY DEF Call, NoCall
<1>3. work \in [Import -> Work]
  BY DEF Work, NoWork, WorkPc
<1>4. jobs \in [Import \cup Maintenance -> Status]
  BY DEF Status
<1>5. runs \in [Maintenance -> Status \cup {"skipped", "trimmed"}]
  BY DEF Status
<1>6. Attached
  BY DEF Attached, Planned, NoCall, NoWork
<1>7. stops \in 0 .. MaxStops
  BY BoundAssumption
<1> QED BY <1>1, <1>2, <1>3, <1>4, <1>5, <1>6, <1>7 DEF TypeInv, TypeOK

\* A step that gives one caller another record of the right shape.
LEMMA CallerStepTyped ==
  ASSUME TypeInv, NEW c \in Caller, NEW x \in Call,
         x.pc \in {"lookup", "lock"} => x.request \in Requests,
         caller' = [caller EXCEPT ![c] = x],
         UNCHANGED <<work, imports>>
  PROVE  caller' \in [Caller -> Call] /\ Attached'
<1>1. caller \in [Caller -> Call] /\ Attached
  BY DEF TypeInv, TypeOK
<1>2. caller' \in [Caller -> Call]
  BY <1>1
<1>3. \A d \in Caller : caller'[d] = IF d = c THEN x ELSE caller[d]
  BY <1>1
<1> QED BY <1>1, <1>2, <1>3 DEF Attached

\* A step that gives one import another record of the right shape.
LEMMA WorkStepTyped ==
  ASSUME TypeInv, NEW i \in Import, NEW w \in Work,
         w.pc # "idle" => work[i].pc # "idle",
         w.pc \in Planned => w.copied # {},
         work' = [work EXCEPT ![i] = w],
         \A j \in Import : imports'[j].request = imports[j].request,
         caller' = caller \/ ReturnFrom(i)
  PROVE  work' \in [Import -> Work] /\ caller' \in [Caller -> Call] /\ Attached'
<1>1. work \in [Import -> Work] /\ caller \in [Caller -> Call] /\ Attached
  BY DEF TypeInv, TypeOK
<1>2. work' \in [Import -> Work]
  BY <1>1
<1>3. \A j \in Import : work'[j] = IF j = i THEN w ELSE work[j]
  BY <1>1
<1>4. NoCall \in Call /\ NoCall.pc = "idle"
  BY DEF NoCall, Call
<1>5. /\ caller' \in [Caller -> Call]
      /\ \A c \in Caller : caller'[c] \in {caller[c], NoCall}
  BY <1>1, <1>4 DEF ReturnFrom
<1> QED BY <1>1, <1>2, <1>3, <1>4, <1>5 DEF Attached

\* The steps of a caller.
LEMMA CallerTypeInv ==
  ASSUME TypeInv, NEW c \in Caller, CallerStep(c)
  PROVE  TypeInv'
<1>0. NoCall \in Call /\ NoCall.pc = "idle"
  BY DEF NoCall, Call
<1>a. caller \in [Caller -> Call] /\ caller[c] \in Call
  BY DEF TypeInv, TypeOK
<1>b. UNCHANGED <<work, imports>> /\ Return(c) => caller' \in [Caller -> Call] /\ Attached'
  BY <1>0, CallerStepTyped DEF Return
<1>1. ASSUME NEW k \in Key, NEW r \in Requests, StartImport(c, k, r) PROVE TypeInv'
  <2> DEFINE x == [pc |-> "lookup", key |-> k, request |-> r, import |-> None]
  <2>1. x \in Call /\ x.request \in Requests
    BY DEF Call
  <2>2. caller' = [caller EXCEPT ![c] = x]
    BY <1>1 DEF StartImport
  <2> HIDE DEF x
  <2>3. caller' \in [Caller -> Call] /\ Attached'
    BY <1>1, <2>1, <2>2, CallerStepTyped DEF StartImport
  <2> QED BY <1>1, <2>3 DEF StartImport, TypeInv, TypeOK
<1>2. CASE LookupKey(c)
  <2>1. caller' \in [Caller -> Call] /\ Attached'
    <3>1. CASE Return(c)
      BY <1>2, <1>b, <3>1 DEF LookupKey
    <3>2. CASE caller' = [caller EXCEPT ![c].pc = "lock"]
      <4> DEFINE x == [caller[c] EXCEPT !.pc = "lock"]
      <4>1. x \in Call /\ x.request = caller[c].request
        BY <1>a DEF Call
      <4>2. x.request \in Requests
        BY <1>2, <4>1 DEF LookupKey, TypeInv, Attached
      <4>3. caller' = [caller EXCEPT ![c] = x]
        BY <3>2
      <4> HIDE DEF x
      <4> QED BY <1>2, <4>1, <4>2, <4>3, CallerStepTyped DEF LookupKey
    <3> QED BY <1>2, <3>1, <3>2 DEF LookupKey
  <2> QED BY <1>2, <2>1 DEF LookupKey, TypeInv, TypeOK
<1>3. CASE Busy(c)
  BY <1>3, <1>b DEF Busy, TypeInv, TypeOK
<1>4. CASE AdmitFails(c)
  BY <1>4, <1>b DEF AdmitFails, release, TypeInv, TypeOK
<1>5. ASSUME NEW i \in Import, Admit(c, i) PROVE TypeInv'
  <2> DEFINE x == [NoCall EXCEPT !.pc = "wait", !.import = i]
             w == [NoWork EXCEPT !.pc = "copy"]
             row == [status |-> "running", key |-> caller[c].key, request |-> caller[c].request]
  <2>1. caller[c].request \in Requests
    BY <1>5 DEF Admit, TypeInv, Attached
  <2>2. x \in Call /\ x.pc = "wait" /\ w \in Work /\ w.pc = "copy" /\ row \in Row
    BY <1>a, <2>1 DEF Call, NoCall, Work, NoWork, WorkPc, Row, Status
  <2>3. /\ caller' = [caller EXCEPT ![c] = x]
        /\ work' = [work EXCEPT ![i] = w]
        /\ imports' = [imports EXCEPT ![i] = row]
    BY <1>5 DEF Admit
  <2>4. row.request \in Requests
    BY <2>1
  <2> HIDE DEF x, w, row
  <2>5. /\ caller' \in [Caller -> Call] /\ work' \in [Import -> Work]
        /\ imports' \in [Import -> Row]
    BY <2>2, <2>3 DEF TypeInv, TypeOK
  <2>6. Attached'
    <3>1. \A d \in Caller : caller'[d] = IF d = c THEN x ELSE caller[d]
      BY <2>3, <1>a
    <3>2. \A j \in Import : /\ work'[j] = IF j = i THEN w ELSE work[j]
                            /\ imports'[j] = IF j = i THEN row ELSE imports[j]
      BY <2>3 DEF TypeInv, TypeOK
    <3> QED BY <3>1, <3>2, <2>2, <2>4 DEF Attached, Planned, TypeInv
  <2>7. jobs' \in [Import \cup Maintenance -> Status] /\ locked' \in BOOLEAN
        /\ active' \in Import \cup Maintenance \cup {None}
    BY <1>5 DEF Admit, TypeInv, TypeOK, Status
  <2> QED BY <1>5, <2>5, <2>6, <2>7 DEF Admit, TypeInv, TypeOK
<1>6. ASSUME NEW source \in {"api", "scheduled"}, StartMaintenance(c, source) PROVE TypeInv'
  <2> DEFINE x == [caller[c] EXCEPT !.pc = source]
  <2>1. x \in Call /\ x.pc = source
    BY <1>a DEF Call
  <2>2. caller' = [caller EXCEPT ![c] = x]
    BY <1>6 DEF StartMaintenance
  <2> HIDE DEF x
  <2>3. caller' \in [Caller -> Call] /\ Attached'
    BY <1>6, <2>1, <2>2, CallerStepTyped DEF StartMaintenance
  <2> QED BY <1>6, <2>3 DEF StartMaintenance, TypeInv, TypeOK
<1>7. CASE MaintenanceBusy(c)
  <2>1. runs' \in [Maintenance -> Status \cup {"skipped", "trimmed"}]
    BY <1>7 DEF MaintenanceBusy, TypeInv, TypeOK
  <2> QED BY <1>7, <1>b, <2>1 DEF MaintenanceBusy, TypeInv, TypeOK
<1>8. ASSUME NEW m \in Maintenance, AdmitMaintenance(c, m) PROVE TypeInv'
  <2>1. runs' \in [Maintenance -> Status \cup {"skipped", "trimmed"}]
    BY <1>8 DEF AdmitMaintenance, Status, TypeInv, TypeOK
  <2>2. jobs' \in [Import \cup Maintenance -> Status]
    BY <1>8 DEF AdmitMaintenance, Status, TypeInv, TypeOK
  <2>3. upkeep' \in [Maintenance -> {"idle", "run", "failed", "done", "release"}]
    BY <1>8 DEF AdmitMaintenance, TypeInv, TypeOK
  <2>4. locked' \in BOOLEAN /\ active' \in Import \cup Maintenance \cup {None}
    BY <1>8 DEF AdmitMaintenance, release
  <2> QED BY <1>8, <1>b, <2>1, <2>2, <2>3, <2>4 DEF AdmitMaintenance, TypeInv, TypeOK
<1> QED BY <1>1, <1>2, <1>3, <1>4, <1>5, <1>6, <1>7, <1>8 DEF CallerStep

\* The steps of an import past its row.
LEMMA ImportTypeInv ==
  ASSUME TypeInv, NEW i \in Import, ImportStep(i)
  PROVE  TypeInv'
<1> DEFINE Moved == work' \in [Import -> Work] /\ caller' \in [Caller -> Call] /\ Attached'
<1>a. /\ work \in [Import -> Work] /\ work[i] \in Work
      /\ work[i].pc \in Planned => work[i].copied # {}
  BY DEF TypeInv, TypeOK, Attached
<1>b. work[i].pc # "idle" => Of(i) \in Requests /\ Of(i).table \in Table
  BY DataAssumption DEF Of, Request, TypeInv, Attached
<1>c. \A x \in work[i].copied : /\ x \in Copy
                                /\ work[i].pc # "idle" => ReceiptOf(i, x) \in Receipt
  BY <1>a, <1>b DEF Work, Copy, ReceiptOf, Receipt
<1>g. ASSUME NEW pc \in WorkPc \ {"idle"}, Goto(i, pc), work[i].pc # "idle",
             pc \in Planned => work[i].copied # {}, UNCHANGED caller,
             \A j \in Import : imports'[j].request = imports[j].request
      PROVE  Moved
  <2> DEFINE w == [work[i] EXCEPT !.pc = pc]
  <2>1. w \in Work /\ w.pc = pc /\ w.copied = work[i].copied
    BY <1>a DEF Work
  <2>2. work' = [work EXCEPT ![i] = w]
    BY <1>g DEF Goto
  <2> HIDE DEF w
  <2> QED BY <1>g, <2>1, <2>2, WorkStepTyped
<1>h. ASSUME Fail(i, "other"), work[i].pc # "idle", UNCHANGED <<caller, imports>>
      PROVE  Moved
  <2> DEFINE w == [work[i] EXCEPT !.pc = "cleanup", !.cur = None, !.err = "other"]
  <2>1. w \in Work /\ w.pc = "cleanup"
    BY <1>a DEF Work, WorkPc
  <2>2. work' = [work EXCEPT ![i] = w]
    BY <1>h DEF Fail
  <2> HIDE DEF w
  <2> QED BY <1>h, <2>1, <2>2, WorkStepTyped DEF Planned
<1> HIDE DEF Moved
<1>1. ASSUME NEW f \in File, BeginCopy(i, f) PROVE TypeInv'
  <2> DEFINE x == [file |-> f, content |-> inbox[f]]
             w == [work[i] EXCEPT !.cur = x]
  <2>1. x \in Copy
    BY <1>1 DEF BeginCopy, Copy, TypeInv, TypeOK
  <2>2. w \in Work /\ w.pc = "copy" /\ work[i].pc = "copy"
    BY <1>1, <1>a, <2>1 DEF BeginCopy, Work
  <2>3. work' = [work EXCEPT ![i] = w] /\ UNCHANGED <<caller, imports>>
    BY <1>1 DEF BeginCopy
  <2> HIDE DEF x, w
  <2>4. Moved
    BY <2>2, <2>3, WorkStepTyped DEF Planned, Moved
  <2>5. partial' \subseteq [import : Import, file : File]
    BY <1>1 DEF BeginCopy, TypeInv, TypeOK
  <2> QED BY <1>1, <2>4, <2>5 DEF Moved, BeginCopy, TypeInv, TypeOK
<1>2. CASE CopyFails(i)
  <2>1. PICK kept \in {{}, work[i].copied} :
          work' = [work EXCEPT ![i] = [@ EXCEPT !.pc = "cleanup", !.cur = None,
                                               !.err = "other", !.copied = kept]]
    BY <1>2 DEF CopyFails
  <2> DEFINE w == [work[i] EXCEPT !.pc = "cleanup", !.cur = None, !.err = "other", !.copied = kept]
  <2>2. w \in Work /\ w.pc = "cleanup"
    BY <1>a DEF Work, WorkPc
  <2>3. work' = [work EXCEPT ![i] = w] /\ UNCHANGED <<caller, imports>> /\ work[i].pc = "copy"
    BY <1>2, <2>1 DEF CopyFails
  <2> HIDE DEF w
  <2>4. Moved
    BY <2>2, <2>3, WorkStepTyped DEF Planned, Moved
  <2>5. partial' \subseteq partial
    BY <1>2 DEF CopyFails
  <2> QED BY <1>2, <2>4, <2>5 DEF Moved, CopyFails, TypeInv, TypeOK
<1>3. CASE PublishCopy(i)
  <2> DEFINE x == work[i].cur
             copied == work[i].copied \cup {x}
  <2>1. x \in Copy /\ work[i].pc = "copy"
    BY <1>3, <1>a DEF PublishCopy, Work
  <2>2. PICK pc \in {"cleanup", "check", "copy"}, err \in {"other", "duplicate", "none"} :
          work' = [work EXCEPT ![i] =
                     [@ EXCEPT !.cur = None, !.copied = copied, !.pc = pc, !.err = err]]
    BY <1>3 DEF PublishCopy
  <2> DEFINE w == [work[i] EXCEPT !.cur = None, !.copied = copied, !.pc = pc, !.err = err]
  <2>3. w \in Work /\ w.pc # "idle" /\ w.copied # {}
    BY <1>a, <2>1 DEF Work, WorkPc
  <2>4. work' = [work EXCEPT ![i] = w] /\ UNCHANGED <<caller, imports>>
    BY <1>3, <2>2 DEF PublishCopy
  <2> HIDE DEF w
  <2>5. Moved
    BY <2>1, <2>3, <2>4, WorkStepTyped DEF Moved
  <2>6. staged' = staged \cup {StagedOf(i, x)} /\ StagedOf(i, x) \in Staged
    BY <1>3, <2>1 DEF PublishCopy, StagedOf, Staged, Copy
  <2>7. partial' \subseteq partial
    BY <1>3 DEF PublishCopy
  <2> HIDE DEF x
  <2> QED BY <1>3, <2>5, <2>6, <2>7 DEF Moved, PublishCopy, TypeInv, TypeOK
<1>4. CASE CheckSchema(i)
  <2>1. Moved
    BY <1>4, <1>a, <1>g, <1>h DEF CheckSchema, WorkPc, Planned
  <2> QED BY <1>4, <2>1 DEF Moved, CheckSchema, TypeInv, TypeOK
<1>5. ASSUME NEW x \in work[i].copied, InsertReceipt(i, x) PROVE TypeInv'
  <2>1. CASE UNCHANGED work /\ receipts' = receipts \cup {ReceiptOf(i, x)}
    <3>1. ReceiptOf(i, x) \in Receipt
      BY <1>5, <1>c DEF InsertReceipt
    <3>2. Attached'
      BY <1>5, <2>1 DEF InsertReceipt, TypeInv, Attached
    <3> QED BY <1>5, <2>1, <3>1, <3>2 DEF InsertReceipt, TypeInv, TypeOK
  <2>2. CASE Fail(i, "other") /\ UNCHANGED receipts
    <3>1. Moved
      BY <1>5, <1>h, <2>2 DEF InsertReceipt
    <3> QED BY <1>5, <2>2, <3>1 DEF Moved, InsertReceipt, TypeInv, TypeOK
  <2> QED BY <1>5, <2>1, <2>2 DEF InsertReceipt
<1>6. ASSUME NEW x \in work[i].copied, Unlink(i, x) PROVE TypeInv'
  <2> DEFINE w == [work[i] EXCEPT !.copied = @ \ {x}]
  <2>1. w \in Work /\ w.pc = "unlink" /\ work[i].pc = "unlink"
    BY <1>6, <1>a DEF Unlink, Work
  <2>2. work' = [work EXCEPT ![i] = w] /\ UNCHANGED <<caller, imports>>
    BY <1>6 DEF Unlink
  <2> HIDE DEF w
  <2>3. Moved
    BY <2>1, <2>2, WorkStepTyped DEF Moved, Planned
  <2>4. inbox' \in [File -> Content \cup {None}]
    BY <1>6 DEF Unlink, TypeInv, TypeOK
  <2> QED BY <1>6, <2>3, <2>4 DEF Moved, Unlink, TypeInv, TypeOK
<1>7. CASE SpawnWorker(i)
  <2> DEFINE w == [work[i] EXCEPT !.pc = "begin"]
  <2>1. w \in Work /\ w.pc = "begin" /\ w.copied # {} /\ work[i].pc = "receipts"
    BY <1>7, <1>a DEF SpawnWorker, Work, WorkPc, Planned
  <2>2. work' = [work EXCEPT ![i] = w] /\ ReturnFrom(i) /\ UNCHANGED imports
    BY <1>7 DEF SpawnWorker, Goto
  <2> HIDE DEF w
  <2>3. Moved
    BY <2>1, <2>2, WorkStepTyped DEF Moved
  <2> QED BY <1>7, <2>3 DEF Moved, SpawnWorker, TypeInv, TypeOK
<1>8. CASE BeginTx(i)
  <2> DEFINE shape == tables[Of(i).table]
             w == [work[i] EXCEPT !.pc = "commit", !.seen = shape]
  <2>1. shape \in Shape \cup {None} /\ work[i].pc = "begin" /\ UNCHANGED <<caller, imports>>
    BY <1>8, <1>b DEF BeginTx, TypeInv, TypeOK
  <2>2. w \in Work /\ w.pc = "commit" /\ w.copied # {}
    BY <1>a, <2>1 DEF Work, WorkPc, Planned
  <2>3. work' = [work EXCEPT ![i] = w] \/ Fail(i, "other")
    BY <1>8 DEF BeginTx
  <2> HIDE DEF w, shape
  <2>4. Moved
    <3>1. CASE work' = [work EXCEPT ![i] = w]
      BY <2>1, <2>2, <3>1, WorkStepTyped DEF Moved
    <3>2. CASE Fail(i, "other")
      BY <2>1, <3>2, <1>h
    <3> QED BY <2>3, <3>1, <3>2
  <2> QED BY <1>8, <2>4 DEF Moved, BeginTx, TypeInv, TypeOK
<1>9. CASE Commit(i)
  <2> DEFINE added == {ReceiptOf(i, x) : x \in work[i].copied}
             first == CHOOSE x \in work[i].copied : TRUE
  <2>1. Moved
    BY <1>9, <1>g, <1>h DEF Commit, WorkPc, Planned
  <2>2. added \subseteq Receipt
    BY <1>9, <1>c DEF Commit
  <2>3. first \in Copy
    BY <1>9, <1>a, <1>c DEF Commit, Planned
  <2>4. ShapeOf[first.content] \in Shape
    BY <2>3, DataAssumption DEF Copy
  <2>5. /\ tables' \in [Table -> Shape \cup {None}]
        /\ \/ lake' = lake \cup added /\ listed' = listed \cup added
           \/ UNCHANGED <<lake, listed>>
    <3> DEFINE made == [tables EXCEPT ![Of(i).table] =
                          IF @ = None THEN ShapeOf[first.content] ELSE @]
    <3>1. \/ tables' = made /\ lake' = lake \cup added /\ listed' = listed \cup added
          \/ UNCHANGED catalog
      BY <1>9 DEF Commit
    <3>2. tables \in [Table -> Shape \cup {None}]
      BY DEF TypeInv, TypeOK
    <3> HIDE DEF added, first
    <3>3. made \in [Table -> Shape \cup {None}]
      BY <3>2, <2>4
    <3> QED BY <3>1, <3>2, <3>3
  <2> HIDE DEF added, first
  <2> QED BY <1>9, <2>1, <2>2, <2>5 DEF Moved, Commit, TypeInv, TypeOK
<1>10. CASE Cleanup(i)
  <2> DEFINE w == [work[i] EXCEPT !.pc = "finish", !.copied = {}]
  <2>1. w \in Work /\ w.pc = "finish" /\ work[i].pc = "cleanup"
    BY <1>10, <1>a DEF Cleanup, Work, WorkPc
  <2>2. work' = [work EXCEPT ![i] = w] /\ UNCHANGED <<caller, imports>>
    BY <1>10 DEF Cleanup
  <2> HIDE DEF w
  <2>3. Moved
    BY <2>1, <2>2, WorkStepTyped DEF Moved, Planned
  <2>4. staged' \subseteq staged /\ receipts' \subseteq receipts
    BY <1>10 DEF Cleanup
  <2> QED BY <1>10, <2>3, <2>4 DEF Moved, Cleanup, TypeInv, TypeOK
<1>11. CASE FinishImport(i)
  <2> DEFINE status == IF work[i].err = "none" THEN "succeeded" ELSE "failed"
  <2>1. /\ imports' \in [Import -> Row]
        /\ \A j \in Import : imports'[j].request = imports[j].request
        /\ jobs' \in [Import \cup Maintenance -> Status]
    <3>1. status \in Status /\ "failed" \in Status
      BY DEF Status
    <3>2. imports \in [Import -> Row] /\ jobs \in [Import \cup Maintenance -> Status]
      BY DEF TypeInv, TypeOK
    <3>3. imports' \in {imports, [imports EXCEPT ![i].status = status]}
      BY <1>11 DEF FinishImport
    <3>4. jobs' \in {[jobs EXCEPT ![i] = status], [jobs EXCEPT ![i] = "failed"]}
      BY <1>11 DEF FinishImport
    <3> HIDE DEF status
    <3> QED BY <3>1, <3>2, <3>3, <3>4 DEF Row
  <2>2. work[i].pc # "idle" /\ Goto(i, "release") /\ UNCHANGED caller
    BY <1>11 DEF FinishImport
  <2>3. Moved
    BY <1>g, <2>1, <2>2 DEF WorkPc, Planned
  <2> QED BY <1>11, <2>1, <2>3 DEF Moved, FinishImport, TypeInv, TypeOK
<1>12. CASE ReleaseImport(i)
  <2>1. NoWork \in Work /\ NoWork.pc = "idle"
    BY DEF NoWork, Work, WorkPc
  <2>2. Moved
    BY <1>12, <2>1, WorkStepTyped DEF ReleaseImport, Moved, Planned
  <2> QED BY <1>12, <2>2 DEF Moved, ReleaseImport, release, TypeInv, TypeOK
<1> QED BY <1>1, <1>2, <1>3, <1>4, <1>5, <1>6, <1>7, <1>8, <1>9, <1>10, <1>11, <1>12
        DEF ImportStep

\* The maintenance goroutine.
LEMMA UpkeepTypeInv ==
  ASSUME TypeInv, NEW m \in Maintenance, UpkeepStep(m)
  PROVE  TypeInv'
<1>a. UNCHANGED <<caller, work, imports>> => Attached'
  BY DEF TypeInv, Attached
<1>1. CASE RunMaintenance(m)
  <2>1. listed' \subseteq listed /\ staged' \subseteq staged
    BY <1>1 DEF RunMaintenance
  <2>2. upkeep' \in [Maintenance -> {"idle", "run", "failed", "done", "release"}]
    BY <1>1 DEF RunMaintenance, TypeInv, TypeOK
  <2> QED BY <1>1, <1>a, <2>1, <2>2 DEF RunMaintenance, TypeInv, TypeOK
<1>2. CASE FinishMaintenance(m)
  <2> DEFINE R == Status \cup {"skipped", "trimmed"}
  <2>1. \A rows \in [Maintenance -> R] : Trim(rows) \in [Maintenance -> R]
    BY DEF Trim
  <2>2. runs \in [Maintenance -> R] /\ jobs \in [Import \cup Maintenance -> Status]
    BY DEF TypeInv, TypeOK
  <2>3. PICK status \in {"succeeded", "failed"} :
          LET row == [runs EXCEPT ![m] = IF @ = "trimmed" THEN @ ELSE status]
          IN /\ runs' \in {row, Trim(row), Trim(runs)}
             /\ jobs' \in {[jobs EXCEPT ![m] = status], [jobs EXCEPT ![m] = "failed"]}
    BY <1>2 DEF FinishMaintenance
  <2> DEFINE row == [runs EXCEPT ![m] = IF @ = "trimmed" THEN @ ELSE status]
  <2>4. row \in [Maintenance -> R]
    BY <2>2 DEF Status
  <2>5. runs' \in {row, Trim(row), Trim(runs)}
    BY <2>3
  <2> HIDE DEF row, R
  <2>6. runs' \in [Maintenance -> R]
    BY <2>1, <2>2, <2>4, <2>5
  <2>7. jobs' \in [Import \cup Maintenance -> Status]
    BY <2>2, <2>3 DEF Status
  <2>8. upkeep' \in [Maintenance -> {"idle", "run", "failed", "done", "release"}]
    BY <1>2 DEF FinishMaintenance, TypeInv, TypeOK
  <2> QED BY <1>2, <1>a, <2>6, <2>7, <2>8 DEF R, FinishMaintenance, TypeInv, TypeOK
<1>3. CASE ReleaseMaintenance(m)
  BY <1>3, <1>a DEF ReleaseMaintenance, release, TypeInv, TypeOK
<1> QED BY <1>1, <1>2, <1>3 DEF UpkeepStep

\* Shutdown, exit and crash.
LEMMA EndTypeInv ==
  ASSUME TypeInv, Shutdown \/ CloseReturns \/ Exit \/ Crash
  PROVE  TypeInv'
<1>1. CASE Shutdown
  BY <1>1, BoundAssumption DEF Shutdown, TypeInv, TypeOK, Attached
<1>2. CASE CloseReturns
  BY <1>2 DEF CloseReturns, TypeInv, TypeOK, Attached
<1>3. CASE End /\ stops' \in 0 .. MaxStops
  <2>1. NoCall \in Call /\ NoCall.pc = "idle" /\ NoWork \in Work /\ NoWork.pc = "idle"
    BY DEF NoCall, Call, NoWork, Work, WorkPc
  <2>2. /\ caller' \in [Caller -> Call] /\ work' \in [Import -> Work]
        /\ \A c \in Caller : caller'[c] = NoCall
        /\ \A i \in Import : work'[i] = NoWork
    BY <1>3, <2>1 DEF End
  <2>3. Attached'
    BY <2>1, <2>2 DEF Attached, Planned
  <2>4. /\ jobs' \in [Import \cup Maintenance -> Status]
        /\ upkeep' \in [Maintenance -> {"idle", "run", "failed", "done", "release"}]
    BY <1>3 DEF End, Status
  <2> QED BY <1>3, <2>2, <2>3, <2>4 DEF End, TypeInv, TypeOK
<1>4. stops' \in 0 .. MaxStops \/ Shutdown \/ CloseReturns
  BY BoundAssumption DEF Exit, Crash, TypeInv, TypeOK
<1> QED BY <1>1, <1>2, <1>3, <1>4 DEF Exit, Crash

\* Restart and recovery.
LEMMA RecoveryTypeInv ==
  ASSUME TypeInv, RecoveryStep
  PROVE  TypeInv'
<1>1. CASE Restart
  <2>1. runs' \in [Maintenance -> Status \cup {"skipped", "trimmed"}]
    BY <1>1 DEF Restart, Status, TypeInv, TypeOK
  <2> QED BY <1>1, <2>1 DEF Restart, TypeInv, TypeOK, Attached
<1>2. CASE FinishRecovery
  BY <1>2 DEF FinishRecovery, TypeInv, TypeOK, Attached
<1>3. ASSUME NEW i \in Import, NEW status \in {"succeeded", "failed"},
             imports' = [imports EXCEPT ![i].status = status],
             UNCHANGED <<receipts, runs, files, catalog, memory, proc, stops>>
      PROVE  TypeInv'
  <2>1. imports \in [Import -> Row] /\ status \in Status
    BY DEF TypeInv, TypeOK, Status
  <2>2. /\ imports' \in [Import -> Row]
        /\ \A j \in Import : imports'[j].request = imports[j].request
    BY <1>3, <2>1 DEF Row
  <2>3. Attached'
    BY <1>3, <2>2 DEF TypeInv, Attached
  <2> QED BY <1>3, <2>2, <2>3 DEF TypeInv, TypeOK
<1>4. ASSUME NEW i \in Import, RecoverReceipts(i) PROVE TypeInv'
  BY <1>4 DEF RecoverReceipts, TypeInv, TypeOK, Attached
<1>5. ASSUME NEW i \in Import, RecoveryStuck(i) PROVE TypeInv'
  BY <1>5 DEF RecoveryStuck, TypeInv, TypeOK, Attached
<1> QED BY <1>1, <1>2, <1>3, <1>4, <1>5 DEF RecoveryStep, RecoverCommitted, RecoverFailed

\* Producers and direct writers.
LEMMA EnvironmentTypeInv ==
  ASSUME TypeInv, Environment
  PROVE  TypeInv'
<1>1. ASSUME NEW f \in File, NEW content \in Content, Publish(f, content) PROVE TypeInv'
  BY <1>1 DEF Publish, TypeInv, TypeOK, Attached
<1>2. ASSUME NEW t \in Table, WriterDrop(t) PROVE TypeInv'
  BY <1>2 DEF WriterDrop, TypeInv, TypeOK, Attached
<1>3. ASSUME NEW t \in Table, WriterCompact(t) PROVE TypeInv'
  BY <1>3 DEF WriterCompact, TypeInv, TypeOK, Attached
<1>4. ASSUME NEW t \in Table, NEW shape \in Shape, WriterCreate(t, shape) PROVE TypeInv'
  BY <1>4 DEF WriterCreate, TypeInv, TypeOK, Attached
<1> QED BY <1>1, <1>2, <1>3, <1>4 DEF Environment

\* Every step keeps the types.
LEMMA NextTypeInv == TypeInv /\ [Next]_vars => TypeInv'
<1> SUFFICES ASSUME TypeInv, [Next]_vars PROVE TypeInv'
  OBVIOUS
<1>1. CASE UNCHANGED vars
  BY <1>1 DEF vars, TypeInv, TypeOK, Attached
<1> QED BY <1>1, CallerTypeInv, ImportTypeInv, UpkeepTypeInv, EndTypeInv, RecoveryTypeInv,
           EnvironmentTypeInv DEF Next

\* Every reachable state is well typed, and every operation under way has the
\* request, the row and the copies its next step needs (service.go, all steps).
THEOREM TypeCorrect == Spec => []TypeOK
<1>1. Spec => []TypeInv
  BY InitTypeInv, NextTypeInv, PTL DEF Spec
<1>2. TypeInv => TypeOK
  BY DEF TypeInv
<1> QED BY <1>1, <1>2, PTL
-----------------------------------------------------------------------------
(* One owner. *)

\* An import step moves its own import only, which stays under way until release.
LEMMA ImportMoves ==
  ASSUME TypeInv, NEW i \in Import, ImportStep(i)
  PROVE  /\ work[i].pc # "idle"
         /\ \A j \in Import \ {i} : work'[j] = work[j]
         /\ UNCHANGED <<upkeep, proc, runs>>
         /\ \/ work'[i].pc # "idle" /\ UNCHANGED <<locked, active>>
            \/ ReleaseImport(i)
<1> DEFINE Goal == /\ work[i].pc # "idle"
                   /\ \A j \in Import \ {i} : work'[j] = work[j]
                   /\ UNCHANGED <<upkeep, proc, runs>>
                   /\ \/ work'[i].pc # "idle" /\ UNCHANGED <<locked, active>>
                      \/ ReleaseImport(i)
<1>a. work \in [Import -> Work] /\ work[i] \in Work
  BY DEF TypeInv, TypeOK
<1>b. ASSUME NEW w, work' = [work EXCEPT ![i] = w]
      PROVE  work'[i] = w /\ \A j \in Import \ {i} : work'[j] = work[j]
  BY <1>a, <1>b
<1>g. ASSUME NEW pc, Goto(i, pc)
      PROVE  work'[i].pc = pc /\ \A j \in Import \ {i} : work'[j] = work[j]
  BY <1>a, <1>g DEF Goto, Work
<1>h. ASSUME Fail(i, "other")
      PROVE  work'[i].pc = "cleanup" /\ \A j \in Import \ {i} : work'[j] = work[j]
  BY <1>a, <1>h DEF Fail, Work
<1>1. ASSUME NEW f \in File, BeginCopy(i, f) PROVE Goal
  BY <1>1, <1>a DEF BeginCopy, Work
<1>2. CASE CopyFails(i)
  BY <1>2, <1>a DEF CopyFails, Work
<1>3. CASE PublishCopy(i)
  <2>1. PICK pc \in {"cleanup", "check", "copy"} :
          work'[i].pc = pc /\ \A j \in Import \ {i} : work'[j] = work[j]
    BY <1>3, <1>a DEF PublishCopy, Work
  <2> QED BY <1>3, <2>1 DEF PublishCopy
<1>4. CASE CheckSchema(i)
  BY <1>4, <1>g, <1>h DEF CheckSchema
<1>5. ASSUME NEW x \in work[i].copied, InsertReceipt(i, x) PROVE Goal
  BY <1>5, <1>h DEF InsertReceipt
<1>6. ASSUME NEW x \in work[i].copied, Unlink(i, x) PROVE Goal
  BY <1>6, <1>a DEF Unlink, Work
<1>7. CASE SpawnWorker(i)
  BY <1>7, <1>g DEF SpawnWorker
<1>8. CASE BeginTx(i)
  BY <1>8, <1>a, <1>h DEF BeginTx, Work
<1>9. CASE Commit(i)
  BY <1>9, <1>g, <1>h DEF Commit
<1>10. CASE Cleanup(i)
  BY <1>10, <1>a DEF Cleanup, Work
<1>11. CASE FinishImport(i)
  BY <1>11, <1>g DEF FinishImport
<1>12. CASE ReleaseImport(i)
  BY <1>12, <1>b DEF ReleaseImport
<1> QED BY <1>1, <1>2, <1>3, <1>4, <1>5, <1>6, <1>7, <1>8, <1>9, <1>10, <1>11, <1>12
        DEF ImportStep

\* At first nothing is under way and the lock is free.
LEMMA InitOneOwner == Init => OneOwner
BY NoneAssumption DEF Init, OneOwner, NoWork

\* Every step keeps the lock, the active id and the work in agreement.
LEMMA NextOneOwner == TypeInv /\ OneOwner /\ [Next]_vars => OneOwner'
<1> SUFFICES ASSUME TypeInv, OneOwner, [Next]_vars PROVE OneOwner'
  OBVIOUS
<1>a. /\ work \in [Import -> Work]
      /\ upkeep \in [Maintenance -> {"idle", "run", "failed", "done", "release"}]
  BY DEF TypeInv, TypeOK
<1>b. Import \cap Maintenance = {} /\ None \notin Import \cup Maintenance
  BY IdAssumption, NoneAssumption
<1>u. UNCHANGED <<locked, active, work, upkeep>> => OneOwner'
  BY DEF OneOwner
<1>1. ASSUME NEW c \in Caller, CallerStep(c) PROVE OneOwner'
  <2>1. ASSUME NEW i \in Import, Admit(c, i) PROVE OneOwner'
    <3>1. \A j \in Import : work'[j].pc = IF j = i THEN "copy" ELSE work[j].pc
      BY <2>1, <1>a DEF Admit, NoWork
    <3> QED BY <2>1, <3>1, <1>b DEF Admit, OneOwner
  <2>2. ASSUME NEW m \in Maintenance, AdmitMaintenance(c, m) PROVE OneOwner'
    <3>1. CASE release /\ UNCHANGED <<upkeep>>
      BY <2>2, <3>1, <1>b DEF AdmitMaintenance, release, OneOwner
    <3>2. CASE locked' = TRUE /\ active' = m /\ upkeep' = [upkeep EXCEPT ![m] = "run"]
      <4>1. \A n \in Maintenance : upkeep'[n] = IF n = m THEN "run" ELSE upkeep[n]
        BY <3>2, <1>a
      <4> QED BY <2>2, <3>2, <4>1, <1>b DEF AdmitMaintenance, OneOwner
    <3> QED BY <2>2, <3>1, <3>2 DEF AdmitMaintenance
  <2>3. CASE AdmitFails(c)
    BY <2>3 DEF AdmitFails, release, OneOwner
  <2>4. (LookupKey(c) \/ Busy(c) \/ MaintenanceBusy(c)) => OneOwner'
    BY <1>u DEF LookupKey, Busy, MaintenanceBusy
  <2>5. ASSUME NEW k \in Key, NEW r \in Requests, StartImport(c, k, r) PROVE OneOwner'
    BY <1>u, <2>5 DEF StartImport
  <2>6. ASSUME NEW source \in {"api", "scheduled"}, StartMaintenance(c, source) PROVE OneOwner'
    BY <1>u, <2>6 DEF StartMaintenance
  <2> QED BY <1>1, <2>1, <2>2, <2>3, <2>4, <2>5, <2>6 DEF CallerStep
<1>2. ASSUME NEW i \in Import, ImportStep(i) PROVE OneOwner'
  <2>1. CASE ReleaseImport(i)
    <3>1. \A j \in Import : work'[j].pc = IF j = i THEN "idle" ELSE work[j].pc
      BY <2>1, <1>a DEF ReleaseImport, NoWork
    <3>2. active = i
      BY <2>1 DEF ReleaseImport, OneOwner
    <3> QED BY <2>1, <3>1, <3>2, <1>b DEF ReleaseImport, release, OneOwner
  <2>2. CASE ~ReleaseImport(i)
    BY <1>2, <2>2, ImportMoves DEF OneOwner
  <2> QED BY <2>1, <2>2
<1>3. ASSUME NEW m \in Maintenance, UpkeepStep(m) PROVE OneOwner'
  <2>1. active = m /\ UNCHANGED work
    BY <1>3 DEF UpkeepStep, RunMaintenance, FinishMaintenance, ReleaseMaintenance, OneOwner
  <2>2. PICK next \in {"done", "failed", "release", "idle"} :
          /\ upkeep' = [upkeep EXCEPT ![m] = next]
          /\ IF next = "idle" THEN release ELSE UNCHANGED <<locked, active>>
    BY <1>3 DEF UpkeepStep, RunMaintenance, FinishMaintenance, ReleaseMaintenance
  <2>3. \A n \in Maintenance : upkeep'[n] = IF n = m THEN next ELSE upkeep[n]
    BY <2>2, <1>a
  <2> QED BY <2>1, <2>2, <2>3, <1>b DEF release, OneOwner
<1>4. CASE Exit \/ Crash
  BY <1>4, <1>b DEF Exit, Crash, End, NoWork, OneOwner
<1>5. CASE Shutdown \/ CloseReturns \/ RecoveryStep \/ Environment
  BY <1>5, <1>u DEF Shutdown, CloseReturns, RecoveryStep, Restart, FinishRecovery,
     RecoverCommitted, RecoverReceipts, RecoverFailed, RecoveryStuck,
     Environment, Publish, WriterDrop, WriterCompact, WriterCreate
<1>6. CASE UNCHANGED vars
  BY <1>6, <1>u DEF vars
<1> QED BY <1>1, <1>2, <1>3, <1>4, <1>5, <1>6 DEF Next

\* The lock, the active id and the one operation in progress always agree, for any
\* number of callers, imports and restarts (service.go: TryLock, setActive, release).
THEOREM MutualExclusion == Spec => []OneOwner
<1>1. Init => TypeInv /\ OneOwner
  BY InitTypeInv, InitOneOwner
<1>2. TypeInv /\ OneOwner /\ [Next]_vars => (TypeInv /\ OneOwner)'
  BY NextTypeInv, NextOneOwner
<1> QED BY <1>1, <1>2, PTL DEF Spec
-----------------------------------------------------------------------------
(* After Close. *)

\* The service does not start closed.
LEMMA InitRetired == Init => Retired
BY DEF Init, Retired

\* Close returns with nothing under way, and a cancelled context starts no copy.
LEMMA NextRetired ==
  ASSUME TypeInv, OneOwner, Retired, [Next]_vars
  PROVE  Retired'
<1>a. work \in [Import -> Work]
  BY DEF TypeInv, TypeOK
<1>u. UNCHANGED <<proc, work>> => Retired'
  BY DEF Retired
<1>1. ASSUME NEW c \in Caller, CallerStep(c) PROVE Retired'
  <2>1. ASSUME NEW i \in Import, Admit(c, i) PROVE Retired'
    <3>1. /\ work'[i].pc = "copy" /\ work'[i].cur = None
          /\ \A j \in Import \ {i} : work'[j] = work[j]
      BY <2>1, <1>a DEF Admit, NoWork
    <3> QED BY <2>1, <3>1 DEF Admit, Retired
  <2>2. CASE \A i \in Import : ~Admit(c, i)
    <3>1. UNCHANGED <<proc, work>>
      BY <1>1, <2>2 DEF CallerStep, StartImport, LookupKey, Busy, AdmitFails,
         StartMaintenance, MaintenanceBusy, AdmitMaintenance
    <3> QED BY <1>u, <3>1
  <2> QED BY <2>1, <2>2
<1>2. ASSUME NEW i \in Import, ImportStep(i), proc = "closed" PROVE Retired'
  <2>1. work[i].pc \in {"copy", "cleanup", "finish", "release"}
        /\ (work[i].pc = "copy" => work[i].cur = None)
    BY <1>2, ImportMoves DEF Retired
  <2>2. CASE CopyFails(i)
    <3>1. work'[i].pc = "cleanup" /\ \A j \in Import \ {i} : work'[j] = work[j]
      BY <2>2, <1>a DEF CopyFails, Work
    <3> QED BY <2>2, <3>1 DEF CopyFails, Retired
  <2>3. CASE Cleanup(i)
    <3>1. work'[i].pc = "finish" /\ \A j \in Import \ {i} : work'[j] = work[j]
      BY <2>3, <1>a DEF Cleanup, Work
    <3> QED BY <2>3, <3>1 DEF Cleanup, Retired
  <2>4. CASE FinishImport(i)
    <3>1. work'[i].pc = "release" /\ \A j \in Import \ {i} : work'[j] = work[j]
      BY <2>4, <1>a DEF FinishImport, Goto, Work
    <3> QED BY <2>4, <3>1 DEF FinishImport, Retired
  <2>5. CASE ReleaseImport(i)
    <3>1. work'[i].pc = "idle" /\ \A j \in Import \ {i} : work'[j] = work[j]
      BY <2>5, <1>a DEF ReleaseImport, NoWork
    <3> QED BY <2>5, <3>1 DEF ReleaseImport, Retired
  <2> QED BY <1>2, <2>1, <2>2, <2>3, <2>4, <2>5 DEF ImportStep, BeginCopy, CtxLive,
          PublishCopy, CheckSchema, InsertReceipt, Unlink, SpawnWorker, BeginTx, Commit
<1>3. ASSUME NEW m \in Maintenance, UpkeepStep(m) PROVE Retired'
  BY <1>3, <1>u DEF UpkeepStep, RunMaintenance, FinishMaintenance, ReleaseMaintenance
<1>4. CASE CloseReturns
  <2>1. \A i \in Import : work[i].pc = "idle"
    BY <1>4, NoneAssumption DEF CloseReturns, OneOwner
  <2> QED BY <1>4, <2>1 DEF CloseReturns, Retired
<1>5. CASE Shutdown \/ Exit \/ Crash \/ RecoveryStep
  <2>1. proc' # "closed" \/ UNCHANGED <<proc, work>>
    BY <1>5 DEF Shutdown, Exit, Crash, End, RecoveryStep, Restart, FinishRecovery,
       RecoverCommitted, RecoverReceipts, RecoverFailed, RecoveryStuck
  <2> QED BY <1>u, <2>1 DEF Retired
<1>6. CASE Environment \/ UNCHANGED vars
  BY <1>6, <1>u DEF vars, Environment, Publish, WriterDrop, WriterCompact, WriterCreate
<1>7. ASSUME NEW i \in Import, ImportStep(i), proc # "closed" PROVE Retired'
  BY <1>7, ImportMoves DEF Retired
<1> QED BY <1>1, <1>2, <1>3, <1>4, <1>5, <1>6, <1>7 DEF Next

\* No step of a closed service registers anything or removes an inbox file.
LEMMA RetiredIsQuiet ==
  ASSUME TypeInv, Retired, [Next]_vars, proc = "closed"
  PROVE  /\ lake' \subseteq lake
         /\ \A f \in File : inbox'[f] = None => inbox[f] = None
<1>1. ASSUME NEW i \in Import, ImportStep(i) PROVE UNCHANGED <<lake, inbox>>
  <2>1. work[i].pc \notin {"commit", "unlink"}
    BY <1>1, ImportMoves DEF Retired
  <2> QED BY <1>1, <2>1 DEF ImportStep, BeginCopy, CopyFails, PublishCopy, CheckSchema,
          InsertReceipt, Unlink, SpawnWorker, BeginTx, Commit, Cleanup, FinishImport, ReleaseImport
<1>2. ASSUME NEW c \in Caller, CallerStep(c) PROVE UNCHANGED <<lake, inbox>>
  BY <1>2 DEF CallerStep, StartImport, LookupKey, Busy, Admit, AdmitFails,
     StartMaintenance, MaintenanceBusy, AdmitMaintenance
<1>3. ASSUME NEW m \in Maintenance, UpkeepStep(m) PROVE UNCHANGED <<lake, inbox>>
  BY <1>3 DEF UpkeepStep, RunMaintenance, FinishMaintenance, ReleaseMaintenance
<1>4. CASE Shutdown \/ CloseReturns \/ Exit \/ Crash \/ RecoveryStep \/ UNCHANGED vars
  BY <1>4 DEF vars, Shutdown, CloseReturns, Exit, Crash, End, RecoveryStep, Restart,
     FinishRecovery, RecoverCommitted, RecoverReceipts, RecoverFailed, RecoveryStuck
<1>5. ASSUME NEW f \in File, NEW content \in Content, Publish(f, content)
      PROVE  lake' = lake /\ \A g \in File : inbox'[g] \in {inbox[g], content}
  BY <1>5 DEF Publish, TypeInv, TypeOK
<1>6. CASE Environment
  BY <1>5, <1>6, NoneAssumption DEF Environment, WriterDrop, WriterCompact, WriterCreate
<1> QED BY <1>1, <1>2, <1>3, <1>4, <1>6 DEF Next

\* Once Close has returned nothing is registered and no inbox file is removed, by
\* however many requests were past the first context check (service.go: Close).
THEOREM QuietClose == Spec => QuietAfterClose
<1> DEFINE Inv == TypeInv /\ OneOwner /\ Retired
<1>1. Init => Inv
  BY InitTypeInv, InitOneOwner, InitRetired
<1>2. Inv /\ [Next]_vars => Inv'
  BY NextTypeInv, NextOneOwner, NextRetired
<1>3. Inv /\ [Next]_vars =>
        [proc = "closed" =>
           /\ lake' \subseteq lake
           /\ \A f \in File : inbox'[f] = None => inbox[f] = None]_vars
  BY RetiredIsQuiet
<1> HIDE DEF Inv
<1> QED BY <1>1, <1>2, <1>3, PTL DEF Spec, QuietAfterClose
-----------------------------------------------------------------------------
(* The files DuckLake lists. *)

\* What an import step other than the commit may do to its copies.
LEMMA CopyStep ==
  ASSUME CopiesInPlace, DataFilesExist, NEW i \in Import,
         \A j \in Import \ {i} : work'[j] = work[j],
         UNCHANGED <<lake, listed>>, staged \subseteq staged',
         \A j \in Import : imports[j].status # "absent" => imports'[j].status # "absent",
         lake \subseteq Receipt, work[i].pc # "idle",
         work'[i].pc \in Unregistered => work[i].pc \in Unregistered,
         work'[i].pc \in Planned \cup {"copy"} =>
           \A x \in work'[i].copied : StagedOf(i, x) \in staged'
  PROVE  CopiesInPlace' /\ DataFilesExist'
<1>1. DataFilesExist'
  BY DEF DataFilesExist
<1>2. \A r \in lake' : imports'[r.import].status # "absent"
  BY DEF CopiesInPlace, Receipt
<1>3. \A j \in Import : work'[j].pc \in Unregistered => LakeOf(j)' = {}
  BY DEF CopiesInPlace, LakeOf
<1>4. ASSUME NEW j \in Import, work'[j].pc \in Planned \cup {"copy"}, NEW x \in work'[j].copied
      PROVE  StagedOf(j, x) \in staged'
  <2>1. CASE j = i
    BY <2>1, <1>4
  <2>2. CASE j # i
    BY <2>2, <1>4 DEF CopiesInPlace
  <2> QED BY <2>1, <2>2
<1> QED BY <1>1, <1>2, <1>3, <1>4 DEF CopiesInPlace, StagedOf

\* The steps of an import past its row.
LEMMA ImportCopies ==
  ASSUME TypeInv, CopiesInPlace, DataFilesExist, NEW i \in Import, ImportStep(i)
  PROVE  CopiesInPlace' /\ DataFilesExist'
<1> DEFINE Goal == CopiesInPlace' /\ DataFilesExist'
<1>a. /\ work \in [Import -> Work] /\ work[i] \in Work /\ lake \subseteq Receipt
      /\ work[i].pc # "idle"
      /\ \A j \in Import \ {i} : work'[j] = work[j]
  BY ImportMoves DEF TypeInv, TypeOK
<1>b. work[i].pc \in Planned \cup {"copy"} => \A x \in work[i].copied : StagedOf(i, x) \in staged
  BY DEF CopiesInPlace
<1> HIDE DEF Goal
<1>1. ASSUME NEW f \in File, BeginCopy(i, f) PROVE Goal
  <2>1. work'[i].pc = "copy" /\ work'[i].copied = work[i].copied
    BY <1>1, <1>a DEF BeginCopy, Work
  <2> QED BY <1>1, <1>a, <1>b, <2>1, CopyStep DEF BeginCopy, Unregistered, Goal
<1>2. CASE CopyFails(i)
  <2>1. work'[i].pc = "cleanup"
    BY <1>2, <1>a DEF CopyFails, Work
  <2> QED BY <1>2, <1>a, <2>1, CopyStep DEF CopyFails, Unregistered, Planned, Goal
<1>3. CASE PublishCopy(i)
  <2>1. /\ work[i].pc = "copy"
        /\ work'[i].copied = work[i].copied \cup {work[i].cur}
        /\ staged' = staged \cup {StagedOf(i, work[i].cur)}
    BY <1>3, <1>a DEF PublishCopy, Work
  <2>2. \A x \in work'[i].copied : StagedOf(i, x) \in staged'
    BY <1>b, <2>1
  <2> QED BY <1>3, <1>a, <2>1, <2>2, CopyStep DEF PublishCopy, Unregistered, Goal
<1>4. ASSUME NEW pc \in Planned, work[i].pc \in Planned, work'[i].pc = pc,
             work'[i].copied = work[i].copied, UNCHANGED <<lake, listed, staged, imports>>
      PROVE  Goal
  BY <1>4, <1>a, <1>b, CopyStep DEF Unregistered, Planned, Goal
<1>5. ASSUME work'[i].pc \in {"cleanup"}, work[i].pc \in Planned,
             UNCHANGED <<lake, listed, staged, imports>>
      PROVE  Goal
  BY <1>5, <1>a, CopyStep DEF Unregistered, Planned, Goal
<1>g. ASSUME NEW pc, Goto(i, pc) PROVE work'[i].pc = pc /\ work'[i].copied = work[i].copied
  BY <1>a, <1>g DEF Goto, Work
<1>h. ASSUME Fail(i, "other") PROVE work'[i].pc = "cleanup"
  BY <1>a, <1>h DEF Fail, Work
<1>6. CASE CheckSchema(i)
  BY <1>6, <1>4, <1>5, <1>g, <1>h DEF CheckSchema, Planned, Goal
<1>7. ASSUME NEW x \in work[i].copied, InsertReceipt(i, x) PROVE Goal
  BY <1>7, <1>4, <1>5, <1>h DEF InsertReceipt, Planned, Goal
<1>8. CASE SpawnWorker(i)
  BY <1>8, <1>4, <1>g DEF SpawnWorker, Planned, Goal
<1>9. CASE BeginTx(i)
  <2>1. \/ work'[i].pc = "commit" /\ work'[i].copied = work[i].copied
        \/ work'[i].pc = "cleanup"
    BY <1>9, <1>a, <1>h DEF BeginTx, Work
  <2> QED BY <1>9, <2>1, <1>4, <1>5 DEF BeginTx, Planned, Goal
<1>10. CASE Commit(i)
  <2> DEFINE added == {ReceiptOf(i, x) : x \in work[i].copied}
  <2>1. CASE Fail(i, "other") /\ UNCHANGED catalog
    BY <1>10, <2>1, <1>5, <1>h DEF Commit, Planned, Goal
  <2>2. CASE Goto(i, "unlink") /\ lake' = lake \cup added /\ listed' = listed \cup added
    <3>0. work[i].pc = "commit" /\ UNCHANGED <<imports, staged>> /\ work'[i].pc = "unlink"
      BY <1>10, <2>2, <1>g DEF Commit
    <3>1. \A r \in added : /\ r.import = i
                           /\ [import |-> r.import, file |-> r.file, content |-> r.content] \in staged
      BY <3>0, <1>b DEF ReceiptOf, StagedOf, Planned
    <3>2. imports[i].status # "absent"
      BY <3>0 DEF CopiesInPlace
    <3> HIDE DEF added
    <3>3. DataFilesExist'
      BY <2>2, <3>0, <3>1 DEF DataFilesExist
    <3>4. \A j \in Import : work'[j].pc \in Unregistered => LakeOf(j)' = {}
      BY <2>2, <3>0, <3>1, <1>a DEF CopiesInPlace, Unregistered, LakeOf
    <3>5. \A r \in lake' : imports'[r.import].status # "absent"
      BY <2>2, <3>0, <3>1, <3>2 DEF CopiesInPlace
    <3>6. \A j \in Import : work'[j].pc \in Planned \cup {"copy"} =>
            \A x \in work'[j].copied : StagedOf(j, x) \in staged'
      BY <3>0, <1>a DEF CopiesInPlace, Planned
    <3>7. \A j \in Import : work'[j].pc # "idle" => imports'[j].status # "absent"
      BY <3>0, <3>2, <1>a DEF CopiesInPlace
    <3> QED BY <3>3, <3>4, <3>5, <3>6, <3>7 DEF CopiesInPlace, StagedOf, Goal
  <2> QED BY <1>10, <2>1, <2>2 DEF Commit
<1>11. ASSUME NEW x \in work[i].copied, Unlink(i, x) PROVE Goal
  <2>1. work'[i].pc = "unlink"
    BY <1>11, <1>a DEF Unlink, Work
  <2> QED BY <1>11, <1>a, <2>1, CopyStep DEF Unlink, Unregistered, Planned, Goal
<1>12. CASE Cleanup(i)
  <2>1. work'[i].pc = "finish" /\ work[i].pc = "cleanup" /\ UNCHANGED <<imports, lake, listed>>
    BY <1>12, <1>a DEF Cleanup, Work
  <2>2. \A s \in staged : s.import # i => s \in staged'
    BY <1>12 DEF Cleanup, StagedOf
  <2>3. \A r \in lake : r.import # i
    BY <2>1 DEF CopiesInPlace, Unregistered, LakeOf
  <2>4. listed \subseteq lake
    BY DEF TypeInv, TypeOK
  <2>5. DataFilesExist'
    BY <2>1, <2>2, <2>3, <2>4 DEF DataFilesExist
  <2>6. ASSUME NEW j \in Import, work'[j].pc \in Planned \cup {"copy"}, NEW x \in work'[j].copied
        PROVE  StagedOf(j, x) \in staged'
    <3>1. j # i /\ StagedOf(j, x) \in staged
      BY <2>1, <2>6, <1>a DEF CopiesInPlace, Planned
    <3> QED BY <3>1, <2>2 DEF StagedOf
  <2> QED BY <2>1, <2>5, <2>6, <1>a DEF CopiesInPlace, Unregistered, LakeOf, StagedOf, Goal
<1>13. CASE FinishImport(i)
  <2>1. work'[i].pc = "release"
    BY <1>13, <1>g DEF FinishImport
  <2>2. \A j \in Import : imports[j].status # "absent" => imports'[j].status # "absent"
    BY <1>13 DEF FinishImport, TypeInv, TypeOK, Row
  <2> QED BY <1>13, <1>a, <2>1, <2>2, CopyStep DEF FinishImport, Unregistered, Planned, Goal
<1>14. CASE ReleaseImport(i)
  <2>1. work'[i].pc = "idle"
    BY <1>14, <1>a DEF ReleaseImport, NoWork
  <2> QED BY <1>14, <1>a, <2>1, CopyStep DEF ReleaseImport, Unregistered, Planned, Goal
<1> QED BY <1>1, <1>2, <1>3, <1>6, <1>7, <1>8, <1>9, <1>10, <1>11, <1>12, <1>13, <1>14
        DEF ImportStep, Goal

\* At first there is no copy and no file in the lake.
LEMMA InitCopies == Init => CopiesInPlace /\ DataFilesExist
BY DEF Init, CopiesInPlace, DataFilesExist, NoWork, LakeOf, Planned, Unregistered

\* Every step keeps the copies of an import and the files DuckLake lists.
LEMMA NextCopies ==
  ASSUME TypeInv, OneOwner, CopiesInPlace, DataFilesExist, [Next]_vars
  PROVE  CopiesInPlace' /\ DataFilesExist'
<1> DEFINE Goal == CopiesInPlace' /\ DataFilesExist'
<1>a. work \in [Import -> Work] /\ lake \subseteq Receipt /\ imports \in [Import -> Row]
  BY DEF TypeInv, TypeOK
<1>u. ASSUME UNCHANGED <<work, staged>>, lake' \subseteq lake, listed' \subseteq listed,
             \A j \in Import : imports[j].status # "absent" => imports'[j].status # "absent"
      PROVE  Goal
  <2>1. DataFilesExist'
    BY <1>u DEF DataFilesExist
  <2> QED BY <1>u, <1>a, <2>1 DEF CopiesInPlace, LakeOf, StagedOf, Receipt
<1> HIDE DEF Goal
<1>1. ASSUME NEW c \in Caller, CallerStep(c) PROVE Goal
  <2>1. ASSUME NEW i \in Import, Admit(c, i) PROVE Goal
    <3>1. /\ work'[i].pc = "copy" /\ work'[i].copied = {}
          /\ \A j \in Import \ {i} : work'[j] = work[j]
      BY <2>1, <1>a DEF Admit, NoWork
    <3>2. /\ imports'[i].status = "running" /\ imports[i].status = "absent"
          /\ \A j \in Import \ {i} : imports'[j] = imports[j]
          /\ UNCHANGED <<lake, listed, staged>>
      BY <2>1, <1>a DEF Admit, FreshImport
    <3>3. LakeOf(i) = {}
      BY <3>2 DEF CopiesInPlace, LakeOf
    <3>4. DataFilesExist'
      BY <3>2 DEF DataFilesExist
    <3>5. \A r \in lake' : imports'[r.import].status # "absent"
      BY <3>2, <1>a DEF CopiesInPlace, Receipt
    <3>6. \A j \in Import : /\ work'[j].pc # "idle" => imports'[j].status # "absent"
                            /\ work'[j].pc \in Unregistered => LakeOf(j)' = {}
      BY <3>1, <3>2, <3>3 DEF CopiesInPlace, LakeOf
    <3>7. \A j \in Import : work'[j].pc \in Planned \cup {"copy"} =>
            \A x \in work'[j].copied : StagedOf(j, x) \in staged'
      BY <3>1, <3>2 DEF CopiesInPlace
    <3> QED BY <3>4, <3>5, <3>6, <3>7 DEF CopiesInPlace, StagedOf, Goal
  <2>2. CASE \A i \in Import : ~Admit(c, i)
    <3>1. UNCHANGED <<work, files, catalog, imports>>
      BY <1>1, <2>2 DEF CallerStep, StartImport, LookupKey, Busy, AdmitFails,
         StartMaintenance, MaintenanceBusy, AdmitMaintenance
    <3> QED BY <1>u, <3>1
  <2> QED BY <2>1, <2>2
<1>2. ASSUME NEW i \in Import, ImportStep(i) PROVE Goal
  BY <1>2, ImportCopies DEF Goal
<1>3. ASSUME NEW m \in Maintenance, RunMaintenance(m) PROVE Goal
  <2>1. \A i \in Import : work[i].pc = "idle"
    BY <1>3, IdAssumption DEF RunMaintenance, OneOwner
  <2>2. /\ UNCHANGED <<imports, work, lake>> /\ listed' \subseteq listed
        /\ \A s \in staged : s \notin Unreferenced => s \in staged'
    BY <1>3 DEF RunMaintenance
  <2>3. DataFilesExist'
    BY <2>2 DEF DataFilesExist, Unreferenced
  <2> QED BY <2>1, <2>2, <2>3 DEF CopiesInPlace, Planned, Unregistered, LakeOf, StagedOf, Goal
<1>4. ASSUME NEW m \in Maintenance, FinishMaintenance(m) \/ ReleaseMaintenance(m) PROVE Goal
  BY <1>4, <1>u DEF FinishMaintenance, ReleaseMaintenance
<1>5. CASE Exit \/ Crash
  <2>1. /\ \A i \in Import : work'[i].pc = "idle"
        /\ UNCHANGED <<imports, lake, listed, staged>>
    BY <1>5 DEF Exit, Crash, End, NoWork
  <2> QED BY <2>1 DEF CopiesInPlace, DataFilesExist, Planned, Unregistered, LakeOf, StagedOf, Goal
<1>6. CASE RecoveryStep
  <2>1. ASSUME NEW i \in Import, RecoverCommitted(i) \/ RecoverFailed(i) PROVE Goal
    BY <2>1, <1>a, <1>u DEF RecoverCommitted, RecoverFailed, Row
  <2>2. ASSUME NEW i \in Import, RecoverReceipts(i) \/ RecoveryStuck(i) PROVE Goal
    BY <2>2, <1>u DEF RecoverReceipts, RecoveryStuck
  <2>3. CASE Restart \/ FinishRecovery
    BY <2>3, <1>u DEF Restart, FinishRecovery, Goal
  <2> QED BY <1>6, <2>1, <2>2, <2>3 DEF RecoveryStep, Goal
<1>7. CASE Environment \/ Shutdown \/ CloseReturns \/ UNCHANGED vars
  BY <1>7, <1>u DEF vars, Goal, Shutdown, CloseReturns,
     Environment, Publish, WriterDrop, WriterCompact, WriterCreate
<1> QED BY <1>1, <1>2, <1>3, <1>4, <1>5, <1>6, <1>7 DEF Next, UpkeepStep, Goal

\* No rollback, checkpoint, crash or recovery ever removes a staged copy DuckLake
\* still reads, with any faults and any direct writers (service.go: stageImport,
\* runImport, runMaintenance).
THEOREM FilesExist == Spec => []DataFilesExist
<1> DEFINE Inv == TypeInv /\ OneOwner /\ CopiesInPlace /\ DataFilesExist
<1>1. Init => Inv
  BY InitTypeInv, InitOneOwner, InitCopies
<1>2. Inv /\ [Next]_vars => Inv'
  BY NextTypeInv, NextOneOwner, NextCopies
<1>3. Inv => DataFilesExist
  OBVIOUS
<1> HIDE DEF Inv
<1> QED BY <1>1, <1>2, <1>3, PTL DEF Spec
-----------------------------------------------------------------------------
(* Registered once. *)

ReceiptsFor(i) == {ReceiptOf(i, x) : x \in work[i].copied}

PlanningOf(i) ==
  /\ work[i].pc \in {"copy", "check"} => ReceiptsOf(i) = {}
  /\ work[i].pc \in {"receipts", "begin", "commit"} => ReceiptsOf(i) \subseteq ReceiptsFor(i)
  /\ work[i].pc \in {"begin", "commit"} => ReceiptsFor(i) \subseteq ReceiptsOf(i)

\* Planning, one import at a time.
LEMMA PlanningEach == Planning <=> \A i \in Import : PlanningOf(i)
BY DEF Planning, PlanningOf, ReceiptsFor

\* An import step that touches neither the receipts nor the lake.
LEMMA PlainStep ==
  ASSUME RegistrationInv, Running, NEW i \in Import,
         \A j \in Import \ {i} : work'[j] = work[j],
         UNCHANGED <<imports, receipts, lake, listed, proc>>,
         work'[i].pc \in {"idle", "release"} => work[i].pc \in {"idle", "release"},
         PlanningOf(i)'
  PROVE  RegistrationInv'
<1>1. Attended'
  BY DEF RegistrationInv, Attended, Running
<1>2. \A j \in Import : PlanningOf(j)'
  BY PlanningEach DEF RegistrationInv, PlanningOf, ReceiptsOf, ReceiptsFor, ReceiptOf, Of
<1>3. Planning'
  BY <1>2 DEF Planning, PlanningOf, ReceiptsFor
<1>4. Receipted' /\ Listed' /\ LakeMatchesReceipts'
  BY DEF RegistrationInv, Receipted, Of, Listed, LakeMatchesReceipts, LakeOf, ReceiptsOf
<1> QED BY <1>1, <1>3, <1>4 DEF RegistrationInv

\* A new receipt is unique because its content had none for the target.
LEMMA InsertReceiptRegistration ==
  ASSUME TypeInv, CopiesInPlace, RegistrationInv, NEW i \in Import, work[i].pc = "receipts",
         NEW x \in work[i].copied, Prior(i, x.content) = {},
         receipts' = receipts \cup {ReceiptOf(i, x)},
         UNCHANGED <<imports, work, lake, listed, proc>>
  PROVE  RegistrationInv'
<1> DEFINE new == ReceiptOf(i, x)
<1>1. /\ new.import = i /\ new.table = Of(i).table /\ new.content = x.content
      /\ new \in ReceiptsFor(i) /\ imports[i].status # "absent"
  BY DEF ReceiptOf, ReceiptsFor, CopiesInPlace
<1>2. \A r \in receipts : r.table = new.table => r.content # new.content
  BY <1>1 DEF Prior
<1> HIDE DEF new
<1>3. Attended' /\ Listed'
  BY DEF RegistrationInv, Attended, Running, Listed, LakeOf
<1>4. Receipted'
  BY <1>1, <1>2 DEF new, RegistrationInv, Receipted, Of
<1>5. \A j \in Import : ReceiptsOf(j)' = IF j = i THEN ReceiptsOf(j) \cup {new} ELSE ReceiptsOf(j)
  BY <1>1 DEF new, ReceiptsOf
<1>6. LakeMatchesReceipts'
  BY <1>5 DEF RegistrationInv, LakeMatchesReceipts, LakeOf, CopiesInPlace, Unregistered
<1>7. \A j \in Import : ReceiptsFor(j)' = ReceiptsFor(j)
  BY DEF ReceiptsFor, ReceiptOf, Of
<1>8. \A j \in Import : PlanningOf(j)'
  BY <1>1, <1>5, <1>7, PlanningEach DEF RegistrationInv, PlanningOf
<1>9. Planning'
  BY <1>8 DEF Planning, PlanningOf, ReceiptsFor
<1> QED BY <1>3, <1>4, <1>6, <1>9 DEF RegistrationInv

\* The rollback, of the process that failed or of the next one.
LEMMA RollbackRegistration ==
  ASSUME RegistrationInv, NEW i \in Import, LakeOf(i) = {},
         receipts' = receipts \ ReceiptsOf(i),
         UNCHANGED <<imports, lake, listed, proc>>,
         \A j \in Import \ {i} : work'[j] = work[j],
         work'[i].pc \in {"idle", "finish"},
         work'[i].pc = "idle" => work[i].pc = "idle",
         work'[i].pc = "finish" => Running
  PROVE  RegistrationInv'
<1>1. Attended'
  BY DEF RegistrationInv, Attended, Running
<1>2. Receipted'
  BY DEF RegistrationInv, Receipted, Of
<1>3. Listed'
  BY DEF RegistrationInv, Listed, LakeOf
<1>4. \A j \in Import \ {i} : ReceiptsOf(j)' = ReceiptsOf(j)
  BY DEF ReceiptsOf
<1>5. LakeMatchesReceipts'
  BY <1>4 DEF RegistrationInv, LakeMatchesReceipts, LakeOf
<1>6. \A j \in Import : PlanningOf(j)'
  BY <1>4, PlanningEach DEF RegistrationInv, PlanningOf, ReceiptsFor, ReceiptOf, Of
<1>7. Planning'
  BY <1>6 DEF Planning, PlanningOf, ReceiptsFor
<1> QED BY <1>1, <1>2, <1>3, <1>5, <1>7 DEF RegistrationInv

\* The commit adds exactly the files that have a receipt.
LEMMA CommitRegistration ==
  ASSUME CopiesInPlace, RegistrationInv, Running, NEW i \in Import, work[i].pc = "commit",
         lake' = lake \cup ReceiptsFor(i), listed' = listed \cup ReceiptsFor(i),
         work'[i].pc = "unlink", \A j \in Import \ {i} : work'[j] = work[j],
         UNCHANGED <<imports, receipts, proc>>
  PROVE  RegistrationInv'
<1>1. ReceiptsFor(i) = ReceiptsOf(i) /\ LakeOf(i) = {}
  BY PlanningEach DEF RegistrationInv, PlanningOf, CopiesInPlace, Unregistered
<1>2. \A r \in ReceiptsFor(i) : r.import = i
  BY DEF ReceiptsFor, ReceiptOf
<1>3. \A j \in Import : LakeOf(j)' = IF j = i THEN ReceiptsOf(i) ELSE LakeOf(j)
  BY <1>1, <1>2 DEF LakeOf
<1>4. Attended' /\ Receipted'
  BY DEF RegistrationInv, Attended, Running, Receipted, Of
<1>5. Listed'
  BY <1>1, <1>3 DEF RegistrationInv, Listed
<1>6. LakeMatchesReceipts'
  BY <1>3 DEF RegistrationInv, LakeMatchesReceipts, ReceiptsOf
<1>7. \A j \in Import : PlanningOf(j)'
  BY PlanningEach DEF RegistrationInv, PlanningOf, ReceiptsOf, ReceiptsFor, ReceiptOf, Of
<1>8. Planning'
  BY <1>7 DEF Planning, PlanningOf, ReceiptsFor
<1> QED BY <1>4, <1>5, <1>6, <1>8 DEF RegistrationInv

\* A row is settled.
LEMMA SettleRegistration ==
  ASSUME RegistrationInv, imports \in [Import -> Row], receipts \subseteq Receipt,
         NEW i \in Import, NEW status \in {"succeeded", "failed"},
         imports' = [imports EXCEPT ![i].status = status],
         \A j \in Import \ {i} : work'[j] = work[j],
         UNCHANGED <<receipts, lake, listed, proc>>,
         \/ work'[i].pc = "release" /\ Running
         \/ work'[i] = work[i]
  PROVE  RegistrationInv'
<1>1. /\ \A j \in Import : imports'[j].request = imports[j].request
      /\ \A j \in Import \ {i} : imports'[j].status = imports[j].status
      /\ imports'[i].status = status
  BY DEF Row
<1>2. Attended'
  BY <1>1 DEF RegistrationInv, Attended, Running
<1>3. Receipted'
  <2>1. \A r \in receipts : imports'[r.import].status # "absent" /\ r.table = Of(r.import)'.table
    BY <1>1 DEF RegistrationInv, Receipted, Of, Receipt
  <2> QED BY <2>1 DEF RegistrationInv, Receipted
<1>4. Listed' /\ LakeMatchesReceipts'
  BY <1>1 DEF RegistrationInv, Listed, LakeMatchesReceipts, LakeOf, ReceiptsOf
<1>5. \A j \in Import : PlanningOf(j)'
  BY <1>1, PlanningEach DEF RegistrationInv, PlanningOf, ReceiptsOf, ReceiptsFor, ReceiptOf, Of
<1>6. Planning'
  BY <1>5 DEF Planning, PlanningOf, ReceiptsFor
<1> QED BY <1>2, <1>3, <1>4, <1>6 DEF RegistrationInv

\* The steps of an import past its row.
LEMMA ImportRegistration ==
  ASSUME TypeInv, OneOwner, CopiesInPlace, RegistrationInv, NEW i \in Import, ImportStep(i)
  PROVE  RegistrationInv'
<1>a. /\ work \in [Import -> Work] /\ work[i] \in Work /\ work[i].pc # "idle"
      /\ \A j \in Import \ {i} : work'[j] = work[j]
  BY ImportMoves DEF TypeInv, TypeOK
<1>b. PlanningOf(i)
  BY PlanningEach DEF RegistrationInv
<1>g. ASSUME NEW pc, Goto(i, pc) PROVE work'[i].pc = pc /\ work'[i].copied = work[i].copied
  BY <1>a, <1>g DEF Goto, Work
<1>h. ASSUME Fail(i, "other") PROVE work'[i].pc = "cleanup"
  BY <1>a, <1>h DEF Fail, Work
<1>p. ASSUME Running, UNCHANGED <<imports, receipts, lake, listed, proc>>,
             work'[i].pc \notin {"idle", "release"}, PlanningOf(i)'
      PROVE  RegistrationInv'
  BY <1>p, <1>a, PlainStep
<1>q. ASSUME UNCHANGED <<imports, receipts>>, work'[i].copied = work[i].copied
      PROVE  ReceiptsOf(i)' = ReceiptsOf(i) /\ ReceiptsFor(i)' = ReceiptsFor(i)
  BY <1>q DEF ReceiptsOf, ReceiptsFor, ReceiptOf, Of
<1>1. ASSUME NEW f \in File, BeginCopy(i, f) PROVE RegistrationInv'
  <2>1. work'[i].pc = "copy" /\ work[i].pc = "copy"
    BY <1>1, <1>a DEF BeginCopy, Work
  <2>2. PlanningOf(i)'
    BY <1>1, <1>b, <2>1 DEF BeginCopy, PlanningOf, ReceiptsOf
  <2> QED BY <1>1, <1>p, <2>1, <2>2 DEF BeginCopy
<1>2. CASE CopyFails(i)
  <2>1. work'[i].pc = "cleanup"
    BY <1>2, <1>a DEF CopyFails, Work
  <2> QED BY <1>2, <1>p, <2>1 DEF CopyFails, PlanningOf
<1>3. CASE PublishCopy(i)
  <2>1. work'[i].pc \in {"cleanup", "check", "copy"} /\ work[i].pc = "copy"
    BY <1>3, <1>a DEF PublishCopy, Work
  <2>2. PlanningOf(i)'
    BY <1>3, <1>b, <2>1 DEF PublishCopy, PlanningOf, ReceiptsOf
  <2> QED BY <1>3, <1>p, <2>1, <2>2 DEF PublishCopy
<1>4. CASE CheckSchema(i)
  <2>1. CASE Goto(i, "receipts")
    <3>1. PlanningOf(i)'
      BY <1>4, <1>b, <1>g, <1>q, <2>1 DEF CheckSchema, PlanningOf
    <3> QED BY <1>4, <1>g, <1>p, <2>1, <3>1 DEF CheckSchema
  <2>2. CASE Fail(i, "other")
    BY <1>4, <1>h, <1>p, <2>2 DEF CheckSchema, PlanningOf
  <2> QED BY <1>4, <2>1, <2>2 DEF CheckSchema
<1>5. ASSUME NEW x \in work[i].copied, InsertReceipt(i, x) PROVE RegistrationInv'
  <2>1. CASE Fail(i, "other") /\ UNCHANGED receipts
    BY <1>5, <1>h, <1>p, <2>1 DEF InsertReceipt, PlanningOf
  <2> QED BY <1>5, <2>1, InsertReceiptRegistration DEF InsertReceipt
<1>6. ASSUME NEW x \in work[i].copied, Unlink(i, x) PROVE RegistrationInv'
  <2>1. work'[i].pc = "unlink"
    BY <1>6, <1>a DEF Unlink, Work
  <2> QED BY <1>6, <1>p, <2>1 DEF Unlink, PlanningOf
<1>7. CASE SpawnWorker(i)
  <2>1. work'[i].pc = "begin" /\ work'[i].copied = work[i].copied
    BY <1>7, <1>g DEF SpawnWorker
  <2>2. ReceiptsFor(i) \subseteq ReceiptsOf(i)
    BY <1>7 DEF SpawnWorker, ReceiptsFor, ReceiptsOf, ReceiptOf
  <2>3. PlanningOf(i)'
    BY <1>7, <1>b, <1>q, <2>1, <2>2 DEF SpawnWorker, PlanningOf
  <2> QED BY <1>7, <1>p, <2>1, <2>3 DEF SpawnWorker
<1>8. CASE BeginTx(i)
  <2>1. \/ work'[i].pc = "commit" /\ work'[i].copied = work[i].copied
        \/ work'[i].pc = "cleanup"
    BY <1>8, <1>a, <1>h DEF BeginTx, Work
  <2>2. PlanningOf(i)'
    BY <1>8, <1>b, <1>q, <2>1 DEF BeginTx, PlanningOf
  <2> QED BY <1>8, <1>p, <2>1, <2>2 DEF BeginTx
<1>9. CASE Commit(i)
  <2>1. CASE Fail(i, "other") /\ UNCHANGED catalog
    BY <1>9, <1>h, <1>p, <2>1 DEF Commit, PlanningOf
  <2>2. CASE /\ Goto(i, "unlink")
             /\ lake' = lake \cup ReceiptsFor(i) /\ listed' = listed \cup ReceiptsFor(i)
    BY <1>9, <1>a, <1>g, <2>2, CommitRegistration DEF Commit
  <2> QED BY <1>9, <2>1, <2>2 DEF Commit, ReceiptsFor
<1>10. CASE Cleanup(i)
  <2>1. work'[i].pc = "finish"
    BY <1>10, <1>a DEF Cleanup, Work
  <2>2. LakeOf(i) = {}
    BY <1>10 DEF Cleanup, CopiesInPlace, Unregistered
  <2>3. CASE UNCHANGED receipts
    BY <1>10, <1>p, <2>1, <2>3 DEF Cleanup, PlanningOf
  <2>4. CASE receipts' = receipts \ ReceiptsOf(i)
    BY <1>10, <1>a, <2>1, <2>2, <2>4, RollbackRegistration DEF Cleanup
  <2> QED BY <1>10, <2>3, <2>4 DEF Cleanup
<1>11. CASE FinishImport(i)
  <2>1. work'[i].pc = "release" /\ UNCHANGED <<receipts, lake, listed, proc>> /\ Running
    BY <1>11, <1>g DEF FinishImport
  <2>2. CASE UNCHANGED imports /\ "finish" \in FaultKinds
    <3>1. Attended'
      BY <1>a, <2>1, <2>2 DEF RegistrationInv, Attended, Running
    <3>2. Receipted' /\ Listed' /\ LakeMatchesReceipts'
      BY <2>1, <2>2 DEF RegistrationInv, Receipted, Of, Listed, LakeMatchesReceipts, LakeOf, ReceiptsOf
    <3>3. \A j \in Import : PlanningOf(j)'
      BY <1>a, <2>1, <2>2, PlanningEach
         DEF RegistrationInv, PlanningOf, ReceiptsOf, ReceiptsFor, ReceiptOf, Of
    <3>4. Planning'
      BY <3>3 DEF Planning, PlanningOf, ReceiptsFor
    <3> QED BY <3>1, <3>2, <3>4 DEF RegistrationInv
  <2>3. ASSUME NEW status \in {"succeeded", "failed"},
               imports' = [imports EXCEPT ![i].status = status]
        PROVE  RegistrationInv'
    BY <1>a, <2>1, <2>3, SettleRegistration DEF TypeInv, TypeOK
  <2> QED BY <1>11, <2>2, <2>3 DEF FinishImport, Fault
<1>12. CASE ReleaseImport(i)
  <2>1. work'[i].pc = "idle" /\ work[i].pc = "release"
    BY <1>12, <1>a DEF ReleaseImport, NoWork
  <2> QED BY <1>12, <1>a, <2>1, PlainStep DEF ReleaseImport, PlanningOf
<1> QED BY <1>1, <1>2, <1>3, <1>4, <1>5, <1>6, <1>7, <1>8, <1>9, <1>10, <1>11, <1>12
        DEF ImportStep

\* A fresh import has neither receipts nor files.
LEMMA AdmitRegistration ==
  ASSUME TypeInv, CopiesInPlace, RegistrationInv,
         NEW c \in Caller, NEW i \in Import, Admit(c, i)
  PROVE  RegistrationInv'
<1>1. /\ work'[i].pc = "copy"
      /\ \A j \in Import \ {i} : work'[j] = work[j] /\ imports'[j] = imports[j]
      /\ imports[i].status = "absent"
      /\ UNCHANGED <<receipts, lake, listed, proc>> /\ Running
  BY DEF Admit, FreshImport, NoWork, TypeInv, TypeOK
<1>2. ReceiptsOf(i) = {} /\ LakeOf(i) = {} /\ receipts \subseteq Receipt
  BY <1>1 DEF RegistrationInv, Receipted, CopiesInPlace, ReceiptsOf, LakeOf, TypeInv, TypeOK
<1>3. Attended'
  BY <1>1 DEF RegistrationInv, Attended, Running
<1>4. Receipted'
  BY <1>1, <1>2 DEF RegistrationInv, Receipted, ReceiptsOf, Of, Receipt
<1>5. Listed'
  BY <1>1, <1>2 DEF RegistrationInv, Listed, LakeOf
<1>6. LakeMatchesReceipts'
  BY <1>1 DEF RegistrationInv, LakeMatchesReceipts, LakeOf, ReceiptsOf
<1>7. \A j \in Import : PlanningOf(j)'
  BY <1>1, <1>2, PlanningEach DEF RegistrationInv, PlanningOf, ReceiptsOf, ReceiptsFor, ReceiptOf, Of
<1>8. Planning'
  BY <1>7 DEF Planning, PlanningOf, ReceiptsFor
<1> QED BY <1>3, <1>4, <1>5, <1>6, <1>8 DEF RegistrationInv

\* At first there are no receipts.
LEMMA InitRegistration == Init => RegistrationInv
BY DEF Init, RegistrationInv, Attended, Receipted, Planning, Listed, LakeMatchesReceipts,
   NoRow, NoWork, Running, LakeOf, ReceiptsOf

\* Every step keeps receipts, lake and list consistent, if the list is kept.
LEMMA NextRegistration ==
  ASSUME ListKept, TypeInv, OneOwner, CopiesInPlace, RegistrationInv, [Next]_vars
  PROVE  RegistrationInv'
<1>a. /\ imports \in [Import -> Row] /\ receipts \subseteq Receipt
      /\ listed \subseteq lake
  BY DEF TypeInv, TypeOK
<1>u. ASSUME UNCHANGED <<imports, receipts, lake, listed, work>>,
             proc' = proc \/ (Running /\ Running')
      PROVE  RegistrationInv'
  BY <1>u DEF RegistrationInv, Attended, Running, Receipted, Of, Planning, ReceiptOf, Listed,
     LakeMatchesReceipts, LakeOf, ReceiptsOf
<1>1. ASSUME NEW c \in Caller, CallerStep(c) PROVE RegistrationInv'
  <2>1. ASSUME NEW i \in Import, Admit(c, i) PROVE RegistrationInv'
    BY <2>1, AdmitRegistration
  <2>2. CASE \A i \in Import : ~Admit(c, i)
    <3>1. UNCHANGED <<imports, receipts, catalog, work, proc>>
      BY <1>1, <2>2 DEF CallerStep, StartImport, LookupKey, Busy, AdmitFails,
         StartMaintenance, MaintenanceBusy, AdmitMaintenance
    <3> QED BY <1>u, <3>1
  <2> QED BY <2>1, <2>2
<1>2. ASSUME NEW i \in Import, ImportStep(i) PROVE RegistrationInv'
  BY <1>2, ImportRegistration
<1>3. ASSUME NEW m \in Maintenance, RunMaintenance(m) PROVE RegistrationInv'
  <2>1. UNCHANGED <<imports, receipts, lake, work, proc>> /\ Running
    BY <1>3 DEF RunMaintenance
  <2>2. \A i \in Import : work[i].pc = "idle"
    BY <1>3, IdAssumption DEF RunMaintenance, OneOwner
  <2>3. \A i \in Import : imports[i].status # "running"
    BY <2>1, <2>2 DEF ListKept, RegistrationInv, Attended
  <2>4. Listed'
    BY <2>1, <2>3 DEF Listed
  <2> QED BY <2>1, <2>4 DEF RegistrationInv, Attended, Running, Receipted, Of, Planning,
          ReceiptOf, LakeMatchesReceipts, LakeOf, ReceiptsOf
<1>4. ASSUME NEW m \in Maintenance, FinishMaintenance(m) \/ ReleaseMaintenance(m)
      PROVE  RegistrationInv'
  BY <1>4, <1>u DEF FinishMaintenance, ReleaseMaintenance
<1>5. CASE Exit \/ Crash \/ Restart \/ \E i \in Import : RecoveryStuck(i)
  <2>1. /\ proc' \in {"down", "recovering"} /\ \A i \in Import : work'[i].pc = "idle"
        /\ UNCHANGED <<imports, receipts, lake, listed>>
    BY <1>5 DEF Exit, Crash, End, NoWork, Restart, RecoveryStuck, RegistrationInv, Attended, Running
  <2> QED BY <2>1 DEF RegistrationInv, Attended, Running, Receipted, Of, Planning, Listed,
          LakeMatchesReceipts, LakeOf, ReceiptsOf
<1>6. CASE FinishRecovery
  BY <1>6 DEF FinishRecovery, RegistrationInv, Attended, Running, Receipted, Of, Planning,
     ReceiptOf, Listed, LakeMatchesReceipts, LakeOf, ReceiptsOf
<1>7. ASSUME NEW i \in Import, RecoverCommitted(i) \/ RecoverFailed(i) PROVE RegistrationInv'
  BY <1>7, <1>a, SettleRegistration DEF RecoverCommitted, RecoverFailed
<1>8. ASSUME NEW i \in Import, RecoverReceipts(i) PROVE RegistrationInv'
  <2>1. work[i].pc = "idle" /\ UNCHANGED <<imports, lake, listed, proc, work>>
    BY <1>8 DEF RecoverReceipts, Running, RegistrationInv, Attended
  <2>2. LakeOf(i) = {}
    BY <1>8 DEF RecoverReceipts, importWasCommitted, RegistrationInv, Listed, LakeMatchesReceipts
  <2> QED BY <1>8, <2>1, <2>2, RollbackRegistration DEF RecoverReceipts
<1>9. CASE Environment
  <2>1. ASSUME NEW t \in Table, WriterDrop(t) PROVE RegistrationInv'
    <3>1. /\ UNCHANGED <<imports, receipts, work, proc>>
          /\ lake' = {r \in lake : r.table # t} /\ listed' = {r \in listed : r.table # t}
      BY <2>1 DEF WriterDrop
    <3>2. \A i \in Import : \A r \in ReceiptsOf(i) : r.table = Of(i).table
      BY DEF RegistrationInv, Receipted, ReceiptsOf
    <3>3. ASSUME NEW i \in Import PROVE LakeOf(i)' \in {{}, LakeOf(i)}
      <4>1. LakeOf(i) \subseteq ReceiptsOf(i)
        BY DEF RegistrationInv, LakeMatchesReceipts
      <4>2. CASE Of(i).table = t
        BY <3>1, <3>2, <4>1, <4>2 DEF LakeOf
      <4>3. CASE Of(i).table # t
        BY <3>1, <3>2, <4>1, <4>3 DEF LakeOf
      <4> QED BY <4>2, <4>3
    <3>4. LakeMatchesReceipts'
      BY <3>1, <3>3 DEF RegistrationInv, LakeMatchesReceipts, ReceiptsOf
    <3>5. Listed'
      BY <3>1 DEF RegistrationInv, Listed, LakeOf
    <3> QED BY <3>1, <3>4, <3>5 DEF RegistrationInv, Attended, Running, Receipted, Of, Planning,
            ReceiptOf, ReceiptsOf
  <2>2. ASSUME NEW t \in Table PROVE ~WriterCompact(t)
    BY DEF ListKept, WriterCompact
  <2> QED BY <1>9, <1>u, <2>1, <2>2 DEF Environment, Publish, WriterCreate
<1>10. CASE Shutdown \/ CloseReturns \/ UNCHANGED vars
  BY <1>10, <1>u DEF vars, Shutdown, CloseReturns, Running
<1> QED BY <1>1, <1>2, <1>3, <1>4, <1>5, <1>6, <1>7, <1>8, <1>9, <1>10
        DEF Next, UpkeepStep, RecoveryStep

\* Unique receipts and a lake that matches them register no content twice.
LEMMA RegistrationIsOnce ==
  ASSUME TypeInv, RegistrationInv PROVE RegisteredOnce /\ LakeMatchesReceipts
<1>1. lake \subseteq receipts
  BY DEF RegistrationInv, LakeMatchesReceipts, LakeOf, ReceiptsOf, TypeInv, TypeOK, Receipt
<1> QED BY <1>1 DEF RegistrationInv, Receipted, RegisteredOnce

\* The invariant of the two theorems below.
LEMMA RegistrationHolds ==
  ASSUME ListKept PROVE Spec => [](RegisteredOnce /\ LakeMatchesReceipts)
<1> DEFINE Inv == TypeInv /\ OneOwner /\ CopiesInPlace /\ DataFilesExist /\ RegistrationInv
<1>1. Init => Inv
  BY InitTypeInv, InitOneOwner, InitCopies, InitRegistration
<1>2. Inv /\ [Next]_vars => Inv'
  BY NextTypeInv, NextOneOwner, NextCopies, NextRegistration
<1>3. Inv => RegisteredOnce /\ LakeMatchesReceipts
  BY RegistrationIsOnce
<1> HIDE DEF Inv
<1> QED BY <1>1, <1>2, <1>3, PTL DEF Spec

\* Through retries, new keys, crashes at any step, failing statements and direct
\* writers that create and drop tables, no table holds the rows of one content twice,
\* if no file leaves DuckLake's list while the row of its import says running
\* (service.go: Prior, InsertReceipt, recoverInterrupted).
THEOREM ContentOnce == ListKept => (Spec => []RegisteredOnce)
<1>1. ASSUME ListKept PROVE Spec => []RegisteredOnce
  BY <1>1, RegistrationHolds, PTL
<1> QED BY <1>1

\* Under the same condition an import is in its table with every file and receipt or
\* not at all: the receipts written before the transaction match what it adds.
THEOREM AllOrNothing == ListKept => (Spec => []LakeMatchesReceipts)
<1>1. ASSUME ListKept PROVE Spec => []LakeMatchesReceipts
  BY <1>1, RegistrationHolds, PTL
<1> QED BY <1>1
=============================================================================
