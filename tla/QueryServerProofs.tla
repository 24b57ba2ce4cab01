-------------------------- MODULE QueryServerProofs --------------------------
(***************************************************************************)
(* Proofs about QueryServer for every set of clients, programs and         *)
(* settings.  The inductive invariant has four parts: the types, how lanes *)
(* are lent, who may be where while the mutex is held, and what the        *)
(* sessions contain.  PathFixed and Written are inductive beside it.        *)
(***************************************************************************)
EXTENDS QueryServer, TLAPS

Session == [VarNames -> Clients \cup {None, Left}]

Types ==
  /\ AttachmentTypeOK
  /\ phase \in [Clients -> Phases]
  /\ request \in [Clients -> [program : Programs \cup {<<>>}, done : Nat, seen : 0 .. MaxRefreshes]]
  /\ lane \in [Clients -> Lanes \cup {None}] /\ ctx \in [Clients -> {"live", "done"}]
  /\ created \in [Clients -> SUBSET VarNames]
  /\ answer \in [Clients -> {"ok", "busy", "failed", None}]
  /\ temps \in [Lanes -> Session] /\ cancelled \subseteq Lanes
  /\ writer \in {"none", "announced", "locked", "done"} /\ version \in 0 .. MaxRefreshes /\ listed \subseteq VarNames
  /\ writer \in {"announced", "locked"} => version < MaxRefreshes

Lent ==
  /\ \A c \in Clients : lane[c] # None <=> phase[c] \in {"running", "closing"}
  /\ \A c, d \in Clients : lane[c] # None /\ lane[c] = lane[d] => c = d
  /\ \A c \in Clients : lane[c] # None => lane[c] \in Pool

\* Only duxd has requests, its pool has a lane, and whoever may be between the
\* read lock and its unlock, it is not there with the writer.
Mutex ==
  /\ process.stage # "down" => validateConfig(process.cfg)
  /\ ~Serving => writer = "none" /\ \A c \in Clients : phase[c] = "idle"
  /\ writer \in {"locked", "done"} => \A c \in Clients : ~Holding(c)
  /\ OneSchema

\* A session holds the tables of the request that has its lane as that request made
\* them and, on a lane where no context ended, no others; the request that has such
\* a lane has a live context.
Sessions ==
  /\ \A c \in Clients : IF phase[c] \in {"running", "closing"}
                       THEN \A name \in created[c] : temps[lane[c]][name] = c ELSE created[c] = {}
  /\ \A l \in Lanes \ cancelled : ~Taken(l) => temps[l] = NoTables
  /\ \A c \in Clients : lane[c] # None /\ lane[c] \notin cancelled => ctx[c] = "live" /\ Tables(temps[lane[c]]) \subseteq created[c]
  /\ cancelled = {} => listed = {}

IInv == Types /\ Lent /\ Mutex /\ Sessions

Untouched == UNCHANGED <<queries, refreshes>>

LEMMA OffType == Off \in [stage : {"down", "pinned", "attached", "configuring", "owned", "serving"}, cfg : Settings, configured : 0 .. 3]
  BY SettingsAssumption DEF Off

LEMMA InitInvariant == Init => IInv
<1> SUFFICES ASSUME Init PROVE IInv
  OBVIOUS
<1> USE DEF Init, AttachmentInit, Idle
<1>1. Types
  <2>1. AttachmentTypeOK
    BY OffType, StartsAssumption, AttachmentNoneAssumption DEF AttachmentTypeOK, NoCatalog
  <2>2. request \in [Clients -> [program : Programs \cup {<<>>}, done : Nat, seen : 0 .. MaxRefreshes]]
    BY RefreshesAssumption DEF NoRequest
  <2>3. phase \in [Clients -> Phases] /\ ctx \in [Clients -> {"live", "done"}]
    BY DEF Phases
  <2>4. lane \in [Clients -> Lanes \cup {None}] /\ answer \in [Clients -> {"ok", "busy", "failed", None}]
    OBVIOUS
  <2>5. created \in [Clients -> SUBSET VarNames] /\ temps \in [Lanes -> Session] /\ listed \subseteq VarNames /\ cancelled \subseteq Lanes
    BY DEF Session, NoTables
  <2>6. version \in 0 .. MaxRefreshes
    BY RefreshesAssumption
  <2> QED
    BY <2>1, <2>2, <2>3, <2>4, <2>5, <2>6 DEF Types
<1>2. Lent
  <2>1. \A c \in Clients : lane[c] = None /\ phase[c] = "idle"
    OBVIOUS
  <2> QED
    BY <2>1 DEF Lent
<1>3. Mutex
  BY DEF Mutex, OneSchema, Holding, Off
<1>4. Sessions
  <2>1. \A c \in Clients : lane[c] = None /\ phase[c] = "idle" /\ created[c] = {}
    OBVIOUS
  <2>2. listed = {} /\ \A l \in Lanes : temps[l] = NoTables
    OBVIOUS
  <2> QED
    BY <2>1, <2>2 DEF Sessions
<1> QED
  BY <1>1, <1>2, <1>3, <1>4 DEF IInv

(* The attachment moves only while nobody is served. *)

LEMMA AttachType ==
  ASSUME AttachmentTypeOK, (\E cfg \in Settings : Launch(cfg)) \/ Attach \/ Exit
  PROVE  AttachmentTypeOK'
<1> USE DEF AttachmentTypeOK
<1>1. ASSUME NEW cfg \in Settings, Launch(cfg) PROVE AttachmentTypeOK'
  BY <1>1, StartsAssumption DEF Launch
<1>2. CASE AttachOwner
  BY <1>2, SettingsAssumption DEF AttachOwner, At, NoCatalog
<1>3. CASE CheckDataPath
  BY <1>3 DEF CheckDataPath, At
<1>4. CASE SetOption
  <2>1. process' \in [stage : {"down", "pinned", "attached", "configuring", "owned", "serving"}, cfg : Settings, configured : 0 .. 3]
    BY <1>4 DEF SetOption
  <2>2. catalog' \in [path : Paths \cup {None}, inline : {"default", "0"}, expire : Durations \cup {None}, delete : Durations \cup {None}]
    <3>1. process.configured \in {0, 1, 2} /\ process.cfg \in Settings
      BY <1>4 DEF SetOption
    <3>2. process.cfg.expire \in Durations /\ process.cfg.delete \in Durations
      BY <3>1, SettingsAssumption
    <3>3. CASE process.configured = 0
      BY <1>4, <3>3 DEF SetOption
    <3>4. CASE process.configured = 1
      BY <1>4, <3>2, <3>4 DEF SetOption
    <3>5. CASE process.configured = 2
      BY <1>4, <3>2, <3>5 DEF SetOption
    <3> QED
      BY <3>1, <3>3, <3>4, <3>5
  <2> QED
    BY <1>4, <2>1, <2>2 DEF SetOption
<1>5. CASE Owned
  BY <1>5 DEF Owned, At
<1>6. CASE OpenReader
  BY <1>6 DEF OpenReader, At
<1>7. CASE Exit
  BY <1>7, OffType DEF Exit
<1> QED
  BY <1>1, <1>2, <1>3, <1>4, <1>5, <1>6, <1>7 DEF Attach

LEMMA AttachKeeps ==
  ASSUME IInv, (\E cfg \in Settings : Launch(cfg)) \/ Attach, Untouched
  PROVE  IInv'
<1> USE DEF Untouched, queries, refreshes
<1>1. process.stage # "serving" /\ (process'.stage # "down" => validateConfig(process'.cfg))
  <2>1. ASSUME NEW cfg \in Settings, Launch(cfg)
        PROVE  process.stage # "serving" /\ (process'.stage # "down" => validateConfig(process'.cfg))
    BY <2>1 DEF Launch
  <2>2. CASE Attach
    <3>1. process.stage \in {"pinned", "attached", "configuring", "owned"}
      BY <2>2 DEF Attach, AttachOwner, CheckDataPath, SetOption, Owned, OpenReader
    <3>2. process'.cfg = process.cfg
      BY <2>2 DEF Attach, AttachOwner, CheckDataPath, SetOption, Owned, OpenReader, At, IInv, Types, AttachmentTypeOK
    <3> QED
      BY <3>1, <3>2 DEF IInv, Mutex
  <2> QED
    BY <2>1, <2>2
<1>2. writer = "none" /\ \A c \in Clients : phase[c] = "idle" /\ lane[c] = None
  BY <1>1 DEF IInv, Mutex, Lent, Serving
<1>3. Types'
  <2>1. AttachmentTypeOK'
    BY AttachType DEF IInv, Types
  <2> QED
    BY <2>1 DEF IInv, Types
<1>4. Lent'
  BY <1>2 DEF Lent
<1>5. Mutex'
  BY <1>1, <1>2 DEF Mutex, OneSchema, Holding
<1>6. Sessions'
  BY DEF IInv, Sessions, Taken
<1> QED
  BY <1>3, <1>4, <1>5, <1>6 DEF IInv

LEMMA StopKeeps == ASSUME IInv, Stop PROVE IInv'
<1> USE DEF Stop
<1>1. Types'
  <2>1. AttachmentTypeOK'
    BY AttachType DEF IInv, Types
  <2>2. request' \in [Clients -> [program : Programs \cup {<<>>}, done : Nat, seen : 0 .. MaxRefreshes]]
    BY RefreshesAssumption DEF NoRequest
  <2>3. phase' \in [Clients -> Phases] /\ ctx' \in [Clients -> {"live", "done"}]
    BY DEF Phases
  <2>4. lane' \in [Clients -> Lanes \cup {None}] /\ answer' \in [Clients -> {"ok", "busy", "failed", None}]
    OBVIOUS
  <2>5. created' \in [Clients -> SUBSET VarNames] /\ temps' \in [Lanes -> Session] /\ listed' \subseteq VarNames /\ cancelled' \subseteq Lanes
    BY DEF Session, NoTables
  <2>6. version' \in 0 .. MaxRefreshes
    BY RefreshesAssumption
  <2> QED
    BY <2>1, <2>2, <2>3, <2>4, <2>5, <2>6 DEF Types
<1>2. \A c \in Clients : lane'[c] = None /\ phase'[c] = "idle" /\ created'[c] = {}
  OBVIOUS
<1>3. Lent'
  BY <1>2 DEF Lent
<1>4. Mutex'
  BY <1>2 DEF Mutex, OneSchema, Holding, Exit, Off
<1>5. Sessions'
  <2>1. listed' = {} /\ \A l \in Lanes : temps'[l] = NoTables
    OBVIOUS
  <2> QED
    BY <1>2, <2>1 DEF Sessions
<1> QED
  BY <1>1, <1>3, <1>4, <1>5 DEF IInv

(* A request steps while the process is serving and stays. *)

LEMMA ElementType == ASSUME NEW S, NEW s \in Seq(S), NEW i \in 1 .. Len(s) PROVE s[i] \in S
  OBVIOUS

LEMMA NextVarType ==
  ASSUME Types, NEW c \in Clients, request[c].done < Len(request[c].program)
  PROVE  NextVar(c).name \in VarNames
<1> DEFINE var == [name : VarNames, table : BOOLEAN]
           program == request[c].program
           done == request[c].done
<1>1. program \in Programs \cup {<<>>} /\ done \in Nat
  BY DEF Types
<1>2. <<>> \in Seq(var)
  OBVIOUS
<1>3. program \in Seq(var)
  BY <1>1, <1>2, ProgramsAssumption
<1>4. done + 1 \in 1 .. Len(program)
  <2>1. Len(program) \in Nat
    BY <1>3
  <2> QED
    BY <1>1, <2>1
<1>5. program[done + 1] \in var
  <2> HIDE DEF var, program, done
  <2> QED
    BY <1>3, <1>4, ElementType
<1> QED
  BY <1>5 DEF NextVar

LEMMA RequestUpdates ==
  ASSUME Types, NEW c \in Clients
  PROVE  /\ [request EXCEPT ![c].seen = version] \in [Clients -> [program : Programs \cup {<<>>}, done : Nat, seen : 0 .. MaxRefreshes]]
         /\ [request EXCEPT ![c].done = @ + 1] \in [Clients -> [program : Programs \cup {<<>>}, done : Nat, seen : 0 .. MaxRefreshes]]
<1> DEFINE R == [program : Programs \cup {<<>>}, done : Nat, seen : 0 .. MaxRefreshes]
<1>1. request \in [Clients -> R] /\ version \in 0 .. MaxRefreshes
  BY DEF Types
<1>2. [request[c] EXCEPT !.seen = version] \in R
  BY <1>1
<1>3. [request[c] EXCEPT !.done = request[c].done + 1] \in R
  <2>1. request[c] \in R /\ request[c].done \in Nat
    BY <1>1
  <2>2. \A n \in Nat : [request[c] EXCEPT !.done = n] \in R
    BY <2>1
  <2> QED
    BY <2>1, <2>2
<1>4. \A x \in R : [request EXCEPT ![c] = x] \in [Clients -> R]
  <2> HIDE DEF R
  <2> QED
    BY <1>1
<1>5. [request EXCEPT ![c].seen = version] = [request EXCEPT ![c] = [request[c] EXCEPT !.seen = version]]
  OBVIOUS
<1>6. [request EXCEPT ![c].done = @ + 1] = [request EXCEPT ![c] = [request[c] EXCEPT !.done = request[c].done + 1]]
  OBVIOUS
<1> QED
  BY <1>2, <1>3, <1>4, <1>5, <1>6, Zenon

LEMMA StepTypes ==
  ASSUME Types, NEW c \in Clients,
         (\E program \in Programs : AskQuery(c, program)) \/ Step(c) \/ EndContext(c)
  PROVE  Types'
<1> USE DEF Types, attachment, refreshes, To
<1>1. ASSUME UNCHANGED attachment PROVE AttachmentTypeOK'
  BY <1>1 DEF AttachmentTypeOK
<1>2. ASSUME NEW program \in Programs, AskQuery(c, program) PROVE Types'
  BY <1>1, <1>2, RefreshesAssumption DEF AskQuery, Phases, NoRequest
<1>3. CASE Compile(c)
  <2>1. UNCHANGED <<attachment, refreshes, lane, ctx, created, temps, cancelled>>
    BY <1>3 DEF Compile
  <2>2. phase' \in [Clients -> Phases] /\ answer' \in [Clients -> {"ok", "busy", "failed", None}]
    BY <1>3 DEF Compile, Phases
  <2>3. request' = [request EXCEPT ![c].seen = version]
    BY <1>3 DEF Compile
  <2> QED
    BY <1>1, <2>1, <2>2, <2>3, RequestUpdates
<1>4. CASE Acquire(c)
  BY <1>1, <1>4 DEF Acquire, Phases, Free, Pool
<1>5. CASE Shed(c)
  BY <1>1, <1>5 DEF Shed, Phases
<1>6. CASE RunVar(c)
  <2> DEFINE table == IF NextVar(c).table THEN {NextVar(c).name} ELSE {}
             made == IF NextVar(c).table THEN [temps EXCEPT ![lane[c]] = Create(@, NextVar(c).name, c)] ELSE temps
  <2>1. table \subseteq VarNames
    BY <1>6, NextVarType DEF RunVar
  <2>2. made \in [Lanes -> Session]
    BY <2>1 DEF Create, Session
  <2>3. [created EXCEPT ![c] = @ \cup table] \in [Clients -> SUBSET VarNames]
    BY <2>1
  <2>4. temps' \in {temps, made} /\ created' \in {created, [created EXCEPT ![c] = @ \cup table]}
    BY <1>6 DEF RunVar
  <2>5. request' \in [Clients -> [program : Programs \cup {<<>>}, done : Nat, seen : 0 .. MaxRefreshes]]
    <3>1. request' = request \/ request' = [request EXCEPT ![c].done = @ + 1]
      BY <1>6, Zenon DEF RunVar
    <3>2. [request EXCEPT ![c].done = @ + 1] \in [Clients -> [program : Programs \cup {<<>>}, done : Nat, seen : 0 .. MaxRefreshes]]
      BY RequestUpdates, Zenon
    <3> QED
      BY <3>1, <3>2, Zenon
  <2>6. phase' \in [Clients -> Phases] /\ answer' \in [Clients -> {"ok", "busy", "failed", None}]
    BY <1>6 DEF RunVar, Phases
  <2> HIDE DEF made, table
  <2>7. UNCHANGED <<attachment, refreshes, lane, ctx, cancelled>>
    BY <1>6 DEF RunVar
  <2> QED
    BY <1>1, <2>2, <2>3, <2>4, <2>5, <2>6, <2>7
<1>7. CASE RunFinal(c)
  BY <1>1, <1>7 DEF RunFinal, Phases
<1>8. CASE Close(c)
  <2>1. temps' \in [Lanes -> Session]
    <3>1. PICK kept \in Undropped(c) : temps' = [temps EXCEPT ![lane[c]] = GivenBack(c, kept)]
      BY <1>8 DEF Close
    <3>2. lane[c] \in Lanes => GivenBack(c, kept) \in Session
      BY DEF GivenBack, Session
    <3> QED
      BY <3>1, <3>2
  <2> QED
    BY <1>1, <1>8, <2>1 DEF Close, Phases
<1>9. CASE Unlock(c)
  BY <1>1, <1>9, RefreshesAssumption DEF Unlock, Phases, NoRequest
<1>10. CASE EndContext(c)
  <2>1. {lane[c]} \ {None} \subseteq Lanes
    OBVIOUS
  <2> QED
    BY <1>1, <1>10, <2>1 DEF EndContext
<1> QED
  BY <1>2, <1>3, <1>4, <1>5, <1>6, <1>7, <1>8, <1>9, <1>10 DEF Step

\* Nobody but c has its lane, and a lane no client has is taken by none.
LEMMA OtherLane ==
  ASSUME Lent, NEW c \in Clients, lane[c] # None, NEW d \in Clients, d # c
  PROVE  lane[d] # lane[c]
  BY DEF Lent

LEMMA LaneInLanes == ASSUME Types, Lent, NEW c \in Clients, lane[c] # None PROVE lane[c] \in Lanes
  BY DEF Types, Lent, Pool

LEMMA StepLent ==
  ASSUME Types, Lent, NEW c \in Clients,
         (\E program \in Programs : AskQuery(c, program)) \/ Step(c) \/ EndContext(c)
  PROVE  Lent'
<1>1. ASSUME UNCHANGED <<process, lane>>, NEW p, phase' = [phase EXCEPT ![c] = p],
             p \in {"running", "closing"} <=> phase[c] \in {"running", "closing"}
      PROVE  Lent'
  BY <1>1 DEF Types, Lent, Pool
<1> USE DEF attachment, refreshes, To
<1>2. ASSUME NEW program \in Programs, AskQuery(c, program) PROVE Lent'
  BY <1>1, <1>2 DEF AskQuery
<1>3. CASE Compile(c)
  BY <1>1, <1>3 DEF Compile
<1>4. CASE Acquire(c)
  <2>1. PICK l \in Free : lane' = [lane EXCEPT ![c] = l]
    BY <1>4 DEF Acquire
  <2>2. l \in Pool /\ l # None /\ Pool' = Pool /\ \A d \in Clients : lane[d] # l
    BY <1>4, <2>1, NoLaneAssumption DEF Acquire, Free, Pool, Taken, Lanes
  <2> QED
    BY <1>4, <2>1, <2>2 DEF Acquire, Types, Lent
<1>5. CASE Shed(c)
  BY <1>1, <1>5 DEF Shed
<1>6. CASE RunVar(c)
  <2>1. UNCHANGED <<process, lane>> /\ (phase' = phase \/ phase' = [phase EXCEPT ![c] = "closing"]) /\ phase[c] = "running"
    BY <1>6, Zenon DEF RunVar
  <2>2. CASE phase' = phase
    BY <2>1, <2>2 DEF Lent, Pool
  <2> QED
    BY <1>1, <2>1, <2>2
<1>7. CASE RunFinal(c)
  BY <1>1, <1>7 DEF RunFinal
<1>8. CASE Close(c)
  <2>1. Pool' = Pool
    BY <1>8 DEF Close, Pool
  <2> QED
    BY <1>8, <2>1 DEF Close, Types, Lent
<1>9. CASE Unlock(c)
  BY <1>1, <1>9 DEF Unlock
<1>10. CASE EndContext(c)
  BY <1>10 DEF EndContext, Lent, Pool
<1> QED
  BY <1>2, <1>3, <1>4, <1>5, <1>6, <1>7, <1>8, <1>9, <1>10 DEF Step

LEMMA StepMutex ==
  ASSUME Types, Mutex, NEW c \in Clients,
         (\E program \in Programs : AskQuery(c, program)) \/ Step(c) \/ EndContext(c)
  PROVE  Mutex'
<1>1. ASSUME UNCHANGED <<process, writer, version>>, Serving, NEW p, phase' = [phase EXCEPT ![c] = p],
             \A d \in Clients \ {c} : request'[d] = request[d],
             p \in {"compiling", "waiting", "running", "closing", "unlocking"} => Holding(c) \/ writer = "none",
             p \in {"waiting", "running"} => request'[c].seen = version
      PROVE  Mutex'
  BY <1>1 DEF Types, Mutex, OneSchema, Holding, Serving
<1>2. phase[c] # "idle" => Serving
  BY DEF Mutex
<1> USE DEF attachment, refreshes, To, Types
<1>3. ASSUME NEW program \in Programs, AskQuery(c, program) PROVE Mutex'
  BY <1>1, <1>3 DEF AskQuery
<1>4. CASE Compile(c)
  BY <1>1, <1>2, <1>4 DEF Compile, Holding
<1>5. CASE Acquire(c)
  BY <1>1, <1>2, <1>5 DEF Acquire, Holding, Mutex, OneSchema
<1>6. CASE Shed(c)
  BY <1>1, <1>2, <1>6 DEF Shed, Holding
<1>7. CASE RunVar(c)
  <2>1. /\ UNCHANGED <<process, writer, version>> /\ phase[c] = "running"
        /\ phase' = phase \/ phase' = [phase EXCEPT ![c] = "closing"]
        /\ request' = request \/ request' = [request EXCEPT ![c].done = @ + 1]
    BY <1>7, Zenon DEF RunVar
  <2>2. \A d \in Clients : request'[d].seen = request[d].seen
    <3>1. request \in [Clients -> [program : Programs \cup {<<>>}, done : Nat, seen : 0 .. MaxRefreshes]]
      OBVIOUS
    <3>2. ASSUME request' = [request EXCEPT ![c].done = @ + 1], NEW d \in Clients PROVE request'[d].seen = request[d].seen
      BY <3>1, <3>2
    <3> QED
      BY <2>1, <3>2
  <2>3. \A d \in Clients : phase'[d] = phase[d] \/ (phase[d] = "running" /\ phase'[d] = "closing")
    BY <2>1
  <2> QED
    BY <1>2, <2>1, <2>2, <2>3 DEF Mutex, OneSchema, Holding, Serving
<1>8. CASE RunFinal(c)
  BY <1>1, <1>2, <1>8 DEF RunFinal, Holding
<1>9. CASE Close(c)
  BY <1>1, <1>2, <1>9 DEF Close, Holding
<1>10. CASE Unlock(c)
  BY <1>1, <1>2, <1>10 DEF Unlock, Holding
<1>11. CASE EndContext(c)
  BY <1>11 DEF EndContext, Mutex, OneSchema, Holding, Serving
<1> QED
  BY <1>3, <1>4, <1>5, <1>6, <1>7, <1>8, <1>9, <1>10, <1>11 DEF Step

LEMMA StepSessions ==
  ASSUME Types, Lent, Sessions, NEW c \in Clients,
         (\E program \in Programs : AskQuery(c, program)) \/ Step(c) \/ EndContext(c)
  PROVE  Sessions'
<1>1. ASSUME UNCHANGED <<lane, created, temps, cancelled, listed>>,
             NEW p, phase' = [phase EXCEPT ![c] = p],
             p \in {"running", "closing"} <=> phase[c] \in {"running", "closing"},
             \A d \in Clients : lane[d] # None => ctx'[d] = ctx[d]
      PROVE  Sessions'
  <2>1. \A d \in Clients : phase'[d] \in {"running", "closing"} <=> phase[d] \in {"running", "closing"}
    BY <1>1 DEF Types
  <2>2. \A l \in Lanes : Taken(l)' <=> Taken(l)
    BY <1>1 DEF Taken
  <2> QED
    BY <1>1, <2>1, <2>2 DEF Sessions
<1> USE DEF attachment, refreshes, To
<1>2. ASSUME NEW program \in Programs, AskQuery(c, program) PROVE Sessions'
  BY <1>1, <1>2 DEF AskQuery
<1>3. CASE Compile(c)
  BY <1>1, <1>3 DEF Compile
<1>4. CASE Acquire(c)
  <2>1. PICK l \in Free : lane' = [lane EXCEPT ![c] = l]
    BY <1>4 DEF Acquire
  <2>2. l \in Lanes /\ ~Taken(l)
    BY DEF Free, Pool
  <2>3. /\ UNCHANGED <<ctx, created, temps, cancelled, listed>> /\ created[c] = {}
        /\ ctx[c] = "live" /\ lane[c] = None /\ lane'[c] = l /\ phase'[c] = "running"
        /\ \A d \in Clients \ {c} : lane'[d] = lane[d] /\ phase'[d] = phase[d]
    BY <1>4, <2>1 DEF Acquire, Types, Lent, Sessions
  <2>4. \A m \in Lanes : ~Taken(m)' => ~Taken(m)
    BY <2>3, NoLaneAssumption DEF Taken, Lanes
  <2>5. l \notin cancelled => Tables(temps[l]) = {}
    BY <2>2 DEF Sessions, Tables, NoTables
  <2> QED
    BY <2>2, <2>3, <2>4, <2>5 DEF Sessions
<1>5. CASE Shed(c)
  BY <1>1, <1>5 DEF Shed
<1>6. CASE RunVar(c)
  <2> DEFINE table == IF NextVar(c).table THEN {NextVar(c).name} ELSE {}
             made == IF NextVar(c).table THEN [temps EXCEPT ![lane[c]] = Create(@, NextVar(c).name, c)] ELSE temps
  <2>1. /\ UNCHANGED <<lane, ctx, cancelled, listed>> /\ phase[c] = "running"
        /\ phase' = phase \/ phase' = [phase EXCEPT ![c] = "closing"]
        /\ \/ ctx[c] = "live" /\ temps' = made /\ created' = [created EXCEPT ![c] = @ \cup table]
           \/ UNCHANGED <<temps, created>>
           \/ ctx[c] # "live" /\ temps' = made /\ created' = created
    BY <1>6, Zenon DEF RunVar
  <2>2. lane[c] # None /\ lane[c] \in Lanes
    BY <2>1, LaneInLanes DEF Lent
  <2>3. table \subseteq VarNames
    BY <1>6, NextVarType DEF RunVar
  <2>4. /\ \A name \in VarNames : made[lane[c]][name] = IF name \in table THEN c ELSE temps[lane[c]][name]
        /\ \A l \in Lanes \ {lane[c]} : made[l] = temps[l]
    BY <2>2, <2>3 DEF Create, Types, Session
  <2> HIDE DEF made, table
  <2>5. \A d \in Clients : phase'[d] \in {"running", "closing"} <=> phase[d] \in {"running", "closing"}
    BY <2>1 DEF Types
  <2>6. \A d \in Clients \ {c} : lane[d] # lane[c]
    BY <2>2, OtherLane
  <2>7. \A l \in Lanes : Taken(l)' <=> Taken(l)
    BY <2>1 DEF Taken
  <2>8. \A l \in Lanes \ {lane[c]} : temps'[l] = temps[l]
    BY <2>1, <2>4
  <2>9. \A d \in Clients \ {c} : created'[d] = created[d] /\ (lane[d] # None => temps'[lane[d]] = temps[lane[d]])
    BY <2>1, <2>6, <2>8, LaneInLanes DEF Types
  <2>10. Taken(lane[c])
    BY DEF Taken
  <2>11. \A name \in created'[c] : temps'[lane[c]][name] = c
    <3>1. \A name \in created[c] : name \in VarNames /\ temps[lane[c]][name] = c
      BY <2>1 DEF Types, Sessions
    <3>2. CASE UNCHANGED <<temps, created>>
      BY <3>1, <3>2
    <3>3. CASE temps' = made /\ created'[c] \subseteq created[c] \cup table
      BY <2>3, <2>4, <3>1, <3>3
    <3> QED
      BY <2>1, <3>2, <3>3 DEF Types
  <2>12. lane[c] \notin cancelled => Tables(temps'[lane[c]]) \subseteq created'[c]
    <3>1. lane[c] \notin cancelled => ctx[c] = "live" /\ Tables(temps[lane[c]]) \subseteq created[c]
      BY <2>2 DEF Sessions
    <3>2. ASSUME ctx[c] = "live", NEW name \in VarNames, temps'[lane[c]][name] # None, Tables(temps[lane[c]]) \subseteq created[c]
          PROVE  name \in created'[c]
      <4>1. CASE temps' = made /\ created' = [created EXCEPT ![c] = @ \cup table]
        BY <2>4, <3>2, <4>1 DEF Tables, Types
      <4>2. CASE UNCHANGED <<temps, created>>
        BY <3>2, <4>2 DEF Tables
      <4> QED
        BY <2>1, <3>2, <4>1, <4>2
    <3> QED
      BY <3>1, <3>2 DEF Tables
  <2>13. \A d \in Clients : phase'[d] \in {"running", "closing"} => lane[d] # None
    BY <2>5 DEF Lent
  <2>14. \A d \in Clients : IF phase'[d] \in {"running", "closing"}
                           THEN \A name \in created'[d] : temps'[lane'[d]][name] = d ELSE created'[d] = {}
    BY <2>1, <2>5, <2>9, <2>11, <2>13 DEF Sessions
  <2>15. \A l \in Lanes \ cancelled : ~Taken(l)' => temps'[l] = NoTables
    BY <2>1, <2>7, <2>8, <2>10 DEF Sessions
  <2>16. \A d \in Clients : lane'[d] # None /\ lane'[d] \notin cancelled =>
                             ctx'[d] = "live" /\ Tables(temps'[lane'[d]]) \subseteq created'[d]
    BY <2>1, <2>2, <2>9, <2>12 DEF Sessions
  <2> QED
    BY <2>1, <2>14, <2>15, <2>16 DEF Sessions
<1>7. CASE RunFinal(c)
  BY <1>1, <1>7 DEF RunFinal
<1>8. CASE Close(c)
  <2>1. lane[c] # None /\ lane[c] \in Lanes
    BY <1>8, LaneInLanes DEF Close, Lent
  <2>2. PICK kept \in Undropped(c) : temps' = [temps EXCEPT ![lane[c]] = GivenBack(c, kept)]
    BY <1>8 DEF Close
  <2>3. /\ UNCHANGED <<ctx, cancelled, listed>> /\ lane'[c] = None /\ created'[c] = {} /\ phase'[c] = "unlocking"
        /\ \A d \in Clients \ {c} : lane'[d] = lane[d] /\ created'[d] = created[d] /\ phase'[d] = phase[d]
    BY <1>8 DEF Close, Types
  <2>4. \A d \in Clients \ {c} : lane[d] # lane[c]
    BY <2>1, OtherLane
  <2>5. \A l \in Lanes \ {lane[c]} : temps'[l] = temps[l] /\ (Taken(l) => Taken(l)')
    BY <2>2, <2>3 DEF Types, Taken
  <2>6. \A d \in Clients \ {c} : lane[d] # None => temps'[lane[d]] = temps[lane[d]]
    BY <2>4, <2>5, LaneInLanes
  <2>7. lane[c] \notin cancelled => temps'[lane[c]] = NoTables
    <3>1. lane[c] \notin cancelled => kept = {} /\ Tables(temps[lane[c]]) \subseteq created[c]
      BY <2>1, <2>2 DEF Undropped, Sessions
    <3>2. lane[c] \notin cancelled => \A name \in VarNames : name \in created[c] \/ temps[lane[c]][name] = None
      BY <3>1 DEF Tables
    <3>3. temps'[lane[c]] = GivenBack(c, kept)
      BY <2>1, <2>2 DEF Types
    <3>4. c # None
      BY MakersAssumption
    <3> QED
      BY <3>1, <3>2, <3>3, <3>4 DEF GivenBack, NoTables
  <2>8. \A d \in Clients : IF phase'[d] \in {"running", "closing"}
                          THEN \A name \in created'[d] : temps'[lane'[d]][name] = d ELSE created'[d] = {}
    BY <2>3, <2>6 DEF Sessions, Lent
  <2>9. \A l \in Lanes \ cancelled : ~Taken(l)' => temps'[l] = NoTables
    BY <2>5, <2>7 DEF Sessions
  <2> QED
    BY <2>3, <2>6, <2>8, <2>9 DEF Sessions
<1>9. CASE Unlock(c)
  BY <1>1, <1>9 DEF Unlock, Types, Lent
<1>10. CASE EndContext(c)
  <2>1. /\ UNCHANGED <<phase, lane, created, temps, listed>> /\ cancelled \subseteq cancelled'
        /\ lane[c] # None => lane[c] \in cancelled'
    BY <1>10 DEF EndContext
  <2>2. \A d \in Clients \ {c} : ctx'[d] = ctx[d]
    BY <1>10 DEF EndContext, Types
  <2> QED
    BY <2>1, <2>2 DEF Sessions, Taken
<1> QED
  BY <1>2, <1>3, <1>4, <1>5, <1>6, <1>7, <1>8, <1>9, <1>10 DEF Step

LEMMA RefreshKeeps ==
  ASSUME IInv, AskRefresh \/ RefreshStep
  PROVE  IInv'
<1>1. Types /\ Lent /\ Mutex /\ Sessions
  BY DEF IInv
<1> USE DEF attachment, queries
<1>2. ASSUME UNCHANGED <<attachment, queries>>,
             writer' \in {"none", "announced", "locked", "done"}, version' \in 0 .. MaxRefreshes,
             writer' \in {"announced", "locked"} => version' < MaxRefreshes, Serving, writer' \in {"locked", "done"} => \A c \in Clients : ~Holding(c),
             version' = version \/ \A c \in Clients : ~Holding(c),
             listed' \subseteq VarNames, cancelled = {} => listed' = {}
      PROVE  IInv'
  <2>1. Types'
    BY <1>1, <1>2 DEF Types, AttachmentTypeOK
  <2>2. Lent'
    BY <1>1, <1>2 DEF Lent, Pool
  <2>3. Mutex'
    BY <1>1, <1>2 DEF Mutex, OneSchema, Holding, Serving
  <2>4. Sessions'
    BY <1>1, <1>2 DEF Sessions, Taken
  <2> QED
    BY <2>1, <2>2, <2>3, <2>4 DEF IInv
<1>3. writer # "none" => Serving
  BY <1>1 DEF Mutex
<1>4. /\ version \in 0 .. MaxRefreshes /\ listed \subseteq VarNames
      /\ writer \in {"announced", "locked"} => version < MaxRefreshes
      /\ cancelled = {} => listed = {}
  BY <1>1 DEF Types, Sessions
<1>5. CASE AskRefresh
  BY <1>2, <1>4, <1>5 DEF AskRefresh
<1>6. CASE LockSchema
  BY <1>2, <1>3, <1>4, <1>6 DEF LockSchema
<1>7. CASE RefreshSchema
  <2>1. \A c \in Clients : ~Holding(c)
    BY <1>1, <1>7 DEF RefreshSchema, Mutex
  <2>2. PICK l \in Free : \/ version' = version + 1 /\ listed' = Tables(temps[l])
                         \/ UNCHANGED <<version, listed>>
    BY <1>7 DEF RefreshSchema
  <2>3. Tables(temps[l]) \subseteq VarNames /\ (cancelled = {} => Tables(temps[l]) = {})
    <3>1. l \in Lanes /\ ~Taken(l)
      BY DEF Free, Pool
    <3>2. cancelled = {} => temps[l] = NoTables
      BY <1>1, <3>1 DEF Sessions
    <3> QED
      BY <3>2 DEF Tables, NoTables
  <2>4. CASE version' = version + 1 /\ listed' = Tables(temps[l])
    <3>1. version' \in 0 .. MaxRefreshes
      BY <1>4, <1>7, <2>4, RefreshesAssumption DEF RefreshSchema
    <3> QED
      BY <1>2, <1>3, <1>7, <2>1, <2>3, <2>4, <3>1 DEF RefreshSchema
  <2>5. CASE UNCHANGED <<version, listed>>
    BY <1>2, <1>3, <1>4, <1>7, <2>1, <2>5 DEF RefreshSchema
  <2> QED
    BY <2>2, <2>4, <2>5
<1>8. CASE UnlockSchema
  <2>1. Serving /\ writer' = "none"
    BY <1>3, <1>8 DEF UnlockSchema
  <2>2. UNCHANGED <<attachment, request, lane, ctx, created, answer, temps, cancelled, version, listed>>
    BY <1>8 DEF UnlockSchema
  <2>3. /\ phase' \in [Clients -> Phases]
        /\ \A c \in Clients : phase'[c] = phase[c] \/ (phase[c] = "blocked" /\ phase'[c] = "compiling")
    BY <1>1, <1>8 DEF UnlockSchema, Types, Phases
  <2>4. Types'
    BY <1>1, <2>1, <2>2, <2>3 DEF Types, AttachmentTypeOK
  <2>5. Lent'
    BY <1>1, <2>2, <2>3 DEF Lent, Pool
  <2>6. Mutex'
    BY <1>1, <2>1, <2>2, <2>3 DEF Mutex, OneSchema, Holding, Serving
  <2>7. Sessions'
    BY <1>1, <2>2, <2>3 DEF Sessions, Taken
  <2> QED
    BY <2>4, <2>5, <2>6, <2>7 DEF IInv
<1> QED
  BY <1>5, <1>6, <1>7, <1>8 DEF RefreshStep

LEMMA StutterKeeps == ASSUME IInv, UNCHANGED vars PROVE IInv'
<1> USE DEF vars, attachment, queries, refreshes
<1>1. Types'
  BY DEF IInv, Types, AttachmentTypeOK
<1>2. Lent'
  BY DEF IInv, Lent, Pool
<1>3. Mutex'
  BY DEF IInv, Mutex, OneSchema, Holding, Serving
<1>4. Sessions'
  BY DEF IInv, Sessions, Taken
<1> QED
  BY <1>1, <1>2, <1>3, <1>4 DEF IInv

LEMMA NextInvariant == IInv /\ [Next]_vars => IInv'
<1> SUFFICES ASSUME IInv, [Next]_vars PROVE IInv'
  OBVIOUS
<1>1. ASSUME NEW cfg \in Settings, Launch(cfg), UNCHANGED <<queries, refreshes>> PROVE IInv'
  BY <1>1, AttachKeeps DEF Untouched
<1>2. CASE Attach /\ UNCHANGED <<queries, refreshes>>
  BY <1>2, AttachKeeps DEF Untouched
<1>3. CASE Stop
  BY <1>3, StopKeeps
<1>4. ASSUME NEW c \in Clients, (\E program \in Programs : AskQuery(c, program)) \/ Step(c) \/ EndContext(c)
      PROVE  IInv'
  BY <1>4, StepTypes, StepLent, StepMutex, StepSessions DEF IInv
<1>5. CASE AskRefresh \/ RefreshStep
  BY <1>5, RefreshKeeps
<1>6. CASE UNCHANGED vars
  BY <1>6, StutterKeeps
<1> QED
  BY <1>1, <1>2, <1>3, <1>4, <1>5, <1>6 DEF Next

LEMMA Invariance == Spec => []IInv
  BY InitInvariant, NextInvariant, PTL DEF Spec

-----------------------------------------------------------------------------
\* Whatever requests, refreshes, timeouts and restarts do, a lane is lent to one
\* request at a time and only while it runs, and never one outside the pool.
THEOREM TypeCorrect == Spec => []TypeOK
<1>1. IInv => TypeOK
  BY DEF IInv, Types, Session, Lent, TypeOK
<1> QED
  BY <1>1, Invariance, PTL

\* A refresh that holds schemaMu has every lane of a pool that is not empty: its
\* introspection, which waits without a timeout, waits for no query.
THEOREM PoolForWriter == Spec => []WriterHasPool
<1>1. IInv => WriterHasPool
  <2> SUFFICES ASSUME IInv, writer \in {"locked", "done"} PROVE Free = Pool /\ Pool # {}
    BY DEF WriterHasPool
  <2>1. \A c \in Clients : lane[c] = None
    BY DEF IInv, Lent, Mutex, Holding
  <2>2. Free = Pool
    BY <2>1, NoLaneAssumption DEF Free, Pool, Taken, Lanes
  <2>3. process.stage = "serving" /\ process.cfg \in Settings
    BY DEF IInv, Mutex, Serving, Types, AttachmentTypeOK
  <2>4. validateConfig(process.cfg) /\ process.cfg.connections \in Nat
    BY <2>3, SettingsAssumption DEF IInv, Mutex
  <2>5. MaxConnections(process.cfg) >= 2 /\ MaxConnections(process.cfg) \in Nat
    BY <2>4 DEF validateConfig, MaxConnections, MinMaxConnections, DefaultMaxConnections
  <2>6. MaxLanes >= 1 /\ MaxLanes \in Nat
    BY <2>3, <2>5, LanesAssumption
  <2>7. 1 \in Pool
    BY <2>5, <2>6 DEF Pool, Lanes
  <2> QED
    BY <2>2, <2>7
<1> QED
  BY <1>1, Invariance, PTL

\* A query runs against the schema it was compiled with, however long it waited.
THEOREM CompiledAndRun == Spec => []OneSchema
<1>1. IInv => OneSchema
  BY DEF IInv, Mutex
<1> QED
  BY <1>1, Invariance, PTL

\* A query finds its VARs in its session as it made them, whatever cancelled ones
\* left there, and a lane keeps none as long as no context ended under a query on it.
THEOREM SessionsClean == Spec => []LanesClean
<1>1. IInv => LanesClean
  BY DEF IInv, Sessions, LanesClean, OwnTables, Pool, Tables, NoTables
<1> QED
  BY <1>1, Invariance, PTL

-----------------------------------------------------------------------------
\* The data path has been compared before an option is written.
PathFixed == process.stage = "configuring" => verifyDataPath(process.cfg)

LEMMA PathFixedStep == AttachmentTypeOK /\ PathFixed /\ [Next]_vars => PathFixed'
<1> SUFFICES ASSUME AttachmentTypeOK, PathFixed, [Next]_vars PROVE PathFixed'
  OBVIOUS
<1> USE DEF PathFixed, verifyDataPath, AttachmentTypeOK
<1>1. ASSUME UNCHANGED attachment PROVE PathFixed'
  BY <1>1 DEF attachment
<1>2. ASSUME NEW cfg \in Settings, Launch(cfg) PROVE PathFixed'
  BY <1>2 DEF Launch
<1>3. CASE AttachOwner
  BY <1>3 DEF AttachOwner, At
<1>4. CASE CheckDataPath
  BY <1>4 DEF CheckDataPath, At
<1>5. CASE SetOption
  <2>1. catalog'.path = catalog.path /\ process'.cfg = process.cfg
    BY <1>5 DEF SetOption
  <2> QED
    BY <1>5, <2>1 DEF SetOption
<1>6. CASE Owned \/ OpenReader
  BY <1>6 DEF Owned, OpenReader, At
<1>7. CASE Stop
  BY <1>7 DEF Stop, Exit, Off
<1>8. ASSUME NEW c \in Clients, (\E program \in Programs : AskQuery(c, program)) \/ Step(c) \/ EndContext(c)
      PROVE  PathFixed'
  BY <1>1, <1>8 DEF AskQuery, Step, Compile, Acquire, Shed, RunVar, RunFinal, Close, Unlock, EndContext
<1>9. CASE AskRefresh \/ RefreshStep
  BY <1>1, <1>9 DEF AskRefresh, RefreshStep, LockSchema, RefreshSchema, UnlockSchema
<1>10. CASE UNCHANGED vars
  BY <1>1, <1>10 DEF vars
<1> QED
  BY <1>2, <1>3, <1>4, <1>5, <1>6, <1>7, <1>8, <1>9, <1>10 DEF Next, Attach

LEMMA PathFixedAlways == Spec => []PathFixed
<1>1. Init => PathFixed
  BY DEF Init, AttachmentInit, PathFixed, Off
<1>2. TypeOK => AttachmentTypeOK
  BY DEF TypeOK
<1> QED
  BY <1>1, <1>2, PathFixedStep, TypeCorrect, PTL DEF Spec

LEMMA CatalogStep ==
  ASSUME AttachmentTypeOK, PathFixed, [Next]_vars, catalog.path # None, catalog' # catalog
  PROVE  catalog'.path = catalog.path /\ process.cfg.path = catalog.path
<1>1. SetOption
  BY DEF Next, Attach, Launch, AttachOwner, CheckDataPath, Owned, OpenReader, Stop, Exit, AskQuery, Step, Compile, Acquire,
         Shed, RunVar, RunFinal, Close, Unlock, EndContext, AskRefresh, RefreshStep, LockSchema, RefreshSchema, UnlockSchema,
         vars, attachment
<1> QED
  BY <1>1 DEF SetOption, PathFixed, verifyDataPath, AttachmentTypeOK

\* A process with a wrong data path changes nothing of a lake that exists, however
\* far its start gets.
THEOREM WrongPathIsHarmless == Spec => RefusedLeavesLake
<1>1. TypeOK => AttachmentTypeOK
  BY DEF TypeOK
<1>2. AttachmentTypeOK /\ PathFixed /\ [Next]_vars =>
        [catalog.path # None /\ catalog' # catalog =>
           catalog'.path = catalog.path /\ process.cfg.path = catalog.path]_attachment
  BY CatalogStep
<1> QED
  BY <1>1, <1>2, TypeCorrect, PathFixedAlways, PTL DEF Spec, RefusedLeavesLake

(* The options: what a start has written stays written until it ends. *)

\* The part of the settings that the owner has reached, one option after the other.
Written ==
  process.cfg.owner =>
    /\ process.configured >= 1 => catalog.inline = "0" /\ verifyDataPath(process.cfg)
    /\ process.configured >= 2 => catalog.expire = process.cfg.expire
    /\ process.configured >= 3 => catalog.delete = process.cfg.delete
    /\ process.stage \in {"down", "pinned", "attached"} => process.configured = 0

LEMMA WrittenStep == AttachmentTypeOK /\ PathFixed /\ Written /\ [Next]_vars => Written'
<1> SUFFICES ASSUME AttachmentTypeOK, PathFixed, Written, [Next]_vars PROVE Written'
  OBVIOUS
<1> USE DEF Written, verifyDataPath, AttachmentTypeOK
<1>1. ASSUME UNCHANGED attachment PROVE Written'
  BY <1>1 DEF attachment
<1>2. ASSUME NEW cfg \in Settings, Launch(cfg) PROVE Written'
  BY <1>2 DEF Launch
<1>3. CASE AttachOwner
  <2>1. process'.configured = process.configured /\ process'.cfg = process.cfg /\ process'.stage = "attached"
    BY <1>3 DEF AttachOwner, At
  <2>2. process.cfg.owner => process.configured = 0
    BY <1>3 DEF AttachOwner
  <2> QED
    BY <2>1, <2>2
<1>4. CASE CheckDataPath \/ Owned \/ OpenReader
  <2>1. /\ process'.configured = process.configured /\ process'.cfg = process.cfg /\ catalog' = catalog
        /\ process'.stage \in {"configuring", "owned", "serving"}
    BY <1>4 DEF CheckDataPath, Owned, OpenReader, At
  <2> QED
    BY <2>1
<1>5. CASE SetOption
  <2>1. /\ process.configured \in {0, 1, 2} /\ process'.configured = process.configured + 1
        /\ process'.cfg = process.cfg /\ process'.stage = "configuring" /\ verifyDataPath(process.cfg)
    BY <1>5 DEF SetOption, PathFixed
  <2>2. CASE process.configured = 0
    BY <1>5, <2>1, <2>2 DEF SetOption
  <2>3. CASE process.configured = 1
    BY <1>5, <2>1, <2>3 DEF SetOption
  <2>4. CASE process.configured = 2
    BY <1>5, <2>1, <2>4 DEF SetOption
  <2> QED
    BY <2>1, <2>2, <2>3, <2>4
<1>6. CASE Stop
  BY <1>6 DEF Stop, Exit, Off
<1>7. ASSUME NEW c \in Clients, (\E program \in Programs : AskQuery(c, program)) \/ Step(c) \/ EndContext(c)
      PROVE  Written'
  BY <1>1, <1>7 DEF AskQuery, Step, Compile, Acquire, Shed, RunVar, RunFinal, Close, Unlock, EndContext
<1>8. CASE AskRefresh \/ RefreshStep
  BY <1>1, <1>8 DEF AskRefresh, RefreshStep, LockSchema, RefreshSchema, UnlockSchema
<1>9. CASE UNCHANGED vars
  BY <1>1, <1>9 DEF vars
<1> QED
  BY <1>2, <1>3, <1>4, <1>5, <1>6, <1>7, <1>8, <1>9 DEF Next, Attach

\* Whatever mixture of options earlier processes left, and however often they died
\* between two of them, the start that writes its own to the end passes every check
\* that follows.
THEOREM StartRepairsOptions == Spec => []ConfiguredPasses
<1>1. Init => Written
  BY DEF Init, AttachmentInit, Written, Off
<1>2. TypeOK => AttachmentTypeOK
  BY DEF TypeOK
<1>3. Written => ConfiguredPasses
  BY DEF Written, ConfiguredPasses, verifySettings
<1> QED
  BY <1>1, <1>2, <1>3, WrittenStep, TypeCorrect, PathFixedAlways, PTL DEF Spec
=============================================================================
