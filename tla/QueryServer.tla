---------------------------- MODULE QueryServer ----------------------------
(***************************************************************************)
(* Queries and schema refreshes on the pool of DuckDB connections: POST    *)
(* /query, GET /values and POST /refresh (cmd/duxd/main.go), the executor  *)
(* (executor/executor.go) and the runtime they run on (LakeAttachment).    *)
(*                                                                         *)
(* One of the pool's connections is pinned, the others are the lanes.  A   *)
(* request holds schemaMu for reading from before it compiles until its    *)
(* lane is back; a refresh holds it for writing.  The mutex is Go's: one   *)
(* writer at a time announces itself, from then on readers block, and its  *)
(* unlock admits all of them at once.                                      *)
(*                                                                         *)
(* A program is the sequence of a query's VARs [name, table]; a request    *)
(* for values has none.  Names, SQL and rows are opaque.                   *)
(***************************************************************************)
EXTENDS LakeAttachment, Sequences, FiniteSets

CONSTANTS
  Clients,
  Programs, VarNames,
  Left,         \* the maker of a table whose request is over
  MaxLanes,     \* lanes of the largest pool
  MaxRefreshes  \* bound: schema refreshes of one process

ASSUME LanesAssumption == MaxLanes \in Nat /\ \A cfg \in Settings : MaxConnections(cfg) - 1 <= MaxLanes
ASSUME NoLaneAssumption == None \notin 1 .. MaxLanes
ASSUME RefreshesAssumption == MaxRefreshes \in Nat
ASSUME MakersAssumption == {None, Left} \cap Clients = {}
ASSUME ProgramsAssumption == Programs \subseteq Seq([name : VarNames, table : BOOLEAN])

VARIABLES
  phase,    \* client -> idle, blocked, compiling, waiting, running, closing, unlocking
  request,  \* client -> its program, the VARs done and the schema version compiled with
  lane,     \* client -> its connection, None without one
  ctx,      \* client -> live, or done: it disconnected, or QueryTimeout has passed
  created,  \* client -> the temp tables it has to drop
  answer,   \* client -> the answer to be written, None while there is none
  temps,    \* lane -> the temp tables of its session: name -> maker, None without one
  writer,   \* none, announced, locked or done: the refresh at the mutex
  version,  \* refreshes of the live schema
  listed,   \* the temp tables the live schema lists
  cancelled \* history: the lanes whose request's context ended

queries == <<phase, request, lane, ctx, created, answer, temps, cancelled>>
refreshes == <<writer, version, listed>>
vars == <<attachment, queries, refreshes>>

Serving == process.stage = "serving" /\ process.cfg.owner
Lanes == 1 .. MaxLanes
Pool == {l \in Lanes : l < MaxConnections(process.cfg)}
Taken(l) == \E c \in Clients : lane[c] = l
\* Mutant: a lane is lent again.
Free_Lent == Pool
Free == {l \in Pool : ~Taken(l)}

\* Mutants: the mutex is released once compiled, or before the lane is back.
Holding_ToCompile(c) == phase[c] = "compiling"
Holding_ToClose(c) == phase[c] \in {"compiling", "waiting", "running"}
Holding(c) == phase[c] \in {"compiling", "waiting", "running", "closing", "unlocking"}

NoTables == [name \in VarNames |-> None]
Tables(session) == {name \in VarNames : session[name] # None}

NoRequest == [program |-> <<>>, done |-> 0, seen |-> 0]
To(c, p) == phase' = [phase EXCEPT ![c] = p]

Idle == /\ phase = [c \in Clients |-> "idle"] /\ request = [c \in Clients |-> NoRequest]
        /\ lane = [c \in Clients |-> None] /\ ctx = [c \in Clients |-> "live"]
        /\ created = [c \in Clients |-> {}] /\ answer = [c \in Clients |-> None]
        /\ temps = [l \in Lanes |-> NoTables] /\ cancelled = {}
        /\ writer = "none" /\ version = 0 /\ listed = {}

Init == AttachmentInit /\ Idle

\* The process dies, or is told to stop: ListenAndServe returns at once, so main
\* returns without waiting for the requests that Shutdown still waits for.
Stop == /\ Exit
        /\ phase' = [c \in Clients |-> "idle"] /\ request' = [c \in Clients |-> NoRequest]
        /\ lane' = [c \in Clients |-> None] /\ ctx' = [c \in Clients |-> "live"]
        /\ created' = [c \in Clients |-> {}] /\ answer' = [c \in Clients |-> None]
        /\ temps' = [l \in Lanes |-> NoTables] /\ cancelled' = {}
        /\ writer' = "none" /\ version' = 0 /\ listed' = {}

(* A request, up to its lane. *)

\* Mutant: a reader passes a writer that waits.
AskQuery_Barges(c, program) ==
  /\ Serving /\ phase[c] = "idle"
  /\ request' = [request EXCEPT ![c] = [NoRequest EXCEPT !.program = program]]
  /\ To(c, IF writer \in {"none", "announced"} THEN "compiling" ELSE "blocked")
  /\ UNCHANGED <<attachment, refreshes, lane, ctx, created, answer, temps, cancelled>>
AskQuery(c, program) ==
  /\ Serving /\ phase[c] = "idle"
  /\ request' = [request EXCEPT ![c] = [NoRequest EXCEPT !.program = program]]
  /\ To(c, IF writer = "none" THEN "compiling" ELSE "blocked")
  /\ UNCHANGED <<attachment, refreshes, lane, ctx, created, answer, temps, cancelled>>

\* Parse, external filters, resolve; a failure answers 400.
Compile(c) ==
  /\ phase[c] = "compiling"
  /\ \/ To(c, "waiting") /\ UNCHANGED answer
     \/ To(c, "unlocking") /\ answer' = [answer EXCEPT ![c] = "failed"]
  /\ request' = [request EXCEPT ![c].seen = version]
  /\ UNCHANGED <<attachment, refreshes, lane, ctx, created, temps, cancelled>>

Acquire(c) ==
  /\ phase[c] = "waiting" /\ ctx[c] = "live"
  /\ \E l \in Free : lane' = [lane EXCEPT ![c] = l]
  /\ To(c, "running")
  /\ UNCHANGED <<attachment, refreshes, request, ctx, created, answer, temps, cancelled>>

\* AdmissionTimeout, which may race a lane that just became free, answers 503; a
\* caller that gave up gets no answer that matters.
Shed(c) ==
  /\ phase[c] = "waiting"
  /\ To(c, "unlocking")
  /\ answer' = [answer EXCEPT ![c] = IF ctx[c] = "live" THEN "busy" ELSE "failed"]
  /\ UNCHANGED <<attachment, refreshes, request, lane, ctx, created, temps, cancelled>>

(* Running.  A context that ended interrupts the statement, which may yet have
   had its effect; every error goes through the deferred calls. *)

NextVar(c) == request[c].program[request[c].done + 1]

\* CREATE OR REPLACE TEMP TABLE.  Mutant: IF NOT EXISTS, which keeps what is there.
Create_IfNotExists(session, name, c) == IF session[name] = None THEN [session EXCEPT ![name] = c] ELSE session
Create(session, name, c) == [session EXCEPT ![name] = c]

RunVar(c) ==
  /\ phase[c] = "running" /\ request[c].done < Len(request[c].program)
  /\ LET table == IF NextVar(c).table THEN {NextVar(c).name} ELSE {}
         made == IF NextVar(c).table THEN [temps EXCEPT ![lane[c]] = Create(@, NextVar(c).name, c)] ELSE temps
     IN  \/ /\ ctx[c] = "live" /\ temps' = made
            /\ created' = [created EXCEPT ![c] = @ \cup table]
            /\ request' = [request EXCEPT ![c].done = @ + 1]
            /\ UNCHANGED <<phase, answer>>
         \/ /\ \/ UNCHANGED temps
               \/ ctx[c] # "live" /\ temps' = made
            /\ To(c, "closing") /\ answer' = [answer EXCEPT ![c] = "failed"]
            /\ UNCHANGED <<created, request>>
  /\ UNCHANGED <<attachment, refreshes, lane, ctx, cancelled>>

\* The query after its VARs, and its rows.
RunFinal(c) ==
  /\ phase[c] = "running" /\ request[c].done = Len(request[c].program)
  /\ \/ ctx[c] = "live" /\ answer' = [answer EXCEPT ![c] = "ok"]
     \/ answer' = [answer EXCEPT ![c] = "failed"]
  /\ To(c, "closing")
  /\ UNCHANGED <<attachment, refreshes, request, lane, ctx, created, temps, cancelled>>

\* The client may leave at any time; QueryTimeout counts from the lane.
EndContext(c) ==
  /\ phase[c] \notin {"idle", "unlocking"} /\ ctx[c] = "live"
  /\ ctx' = [ctx EXCEPT ![c] = "done"]
  /\ cancelled' = cancelled \cup ({lane[c]} \ {None})
  /\ UNCHANGED <<attachment, refreshes, phase, request, lane, created, answer, temps>>

\* The tables are dropped under the query's own context, errors ignored; then the
\* lane goes back, with the tables that were not.
Undropped(c) == IF ctx[c] = "live" THEN {{}} ELSE SUBSET created[c]
GivenBack(c, kept) ==
  [name \in VarNames |-> IF name \in created[c] \ kept THEN None
                         ELSE IF temps[lane[c]][name] = c THEN Left ELSE temps[lane[c]][name]]

Close(c) ==
  /\ phase[c] = "closing"
  /\ \E kept \in Undropped(c) : temps' = [temps EXCEPT ![lane[c]] = GivenBack(c, kept)]
  /\ created' = [created EXCEPT ![c] = {}] /\ lane' = [lane EXCEPT ![c] = None]
  /\ To(c, "unlocking")
  /\ UNCHANGED <<attachment, refreshes, request, ctx, answer, cancelled>>

Unlock(c) ==
  /\ phase[c] = "unlocking"
  /\ To(c, "idle") /\ request' = [request EXCEPT ![c] = NoRequest]
  /\ ctx' = [ctx EXCEPT ![c] = "live"] /\ answer' = [answer EXCEPT ![c] = None]
  /\ UNCHANGED <<attachment, refreshes, lane, created, temps, cancelled>>

(* POST /refresh and the monitor. *)

AskRefresh ==
  /\ Serving /\ writer = "none" /\ version < MaxRefreshes
  /\ writer' = "announced"
  /\ UNCHANGED <<attachment, queries, version, listed>>

LockSchema ==
  /\ writer = "announced" /\ \A c \in Clients : ~Holding(c)
  /\ writer' = "locked"
  /\ UNCHANGED <<attachment, queries, version, listed>>

\* The introspection waits for a lane without a limit, and lists what the session
\* of that lane shows; replaceSchema follows when everything loaded.
RefreshSchema ==
  /\ writer = "locked"
  /\ \E l \in Free : \/ version' = version + 1 /\ listed' = Tables(temps[l])
                     \/ UNCHANGED <<version, listed>>
  /\ writer' = "done"
  /\ UNCHANGED <<attachment, queries>>

\* Mutant: an unlock that admits nobody.
UnlockSchema_NoReader == writer = "done" /\ writer' = "none" /\ UNCHANGED <<attachment, queries, version, listed>>
UnlockSchema ==
  /\ writer = "done" /\ writer' = "none"
  /\ phase' = [c \in Clients |-> IF phase[c] = "blocked" THEN "compiling" ELSE phase[c]]
  /\ UNCHANGED <<attachment, request, lane, ctx, created, answer, temps, cancelled, version, listed>>

-----------------------------------------------------------------------------
Step(c) == Compile(c) \/ Acquire(c) \/ Shed(c) \/ RunVar(c) \/ RunFinal(c) \/ Close(c) \/ Unlock(c)
RefreshStep == LockSchema \/ RefreshSchema \/ UnlockSchema

Next ==
  \/ \E cfg \in Settings : Launch(cfg) /\ UNCHANGED <<queries, refreshes>>
  \/ Attach /\ UNCHANGED <<queries, refreshes>>
  \/ Stop
  \/ \E c \in Clients : \/ \E program \in Programs : AskQuery(c, program)
                        \/ Step(c)
                        \/ EndContext(c)
  \/ AskRefresh
  \/ RefreshStep

Spec == Init /\ [][Next]_vars

\* The Go scheduler and DuckDB run what can run; QueryTimeout interrupts what
\* would not end, and the timer of Shed fires.
FairSpec == Spec /\ (\A c \in Clients : WF_vars(Step(c))) /\ WF_vars(RefreshStep)

-----------------------------------------------------------------------------
Phases == {"idle", "blocked", "compiling", "waiting", "running", "closing", "unlocking"}

\* Every variable has its type, a request has a lane exactly while it runs, and no
\* lane is lent twice or outside the pool.
TypeOK ==
  /\ AttachmentTypeOK
  /\ phase \in [Clients -> Phases]
  /\ request \in [Clients -> [program : Programs \cup {<<>>}, done : Nat, seen : 0 .. MaxRefreshes]]
  /\ lane \in [Clients -> Lanes \cup {None}] /\ ctx \in [Clients -> {"live", "done"}]
  /\ created \in [Clients -> SUBSET VarNames]
  /\ answer \in [Clients -> {"ok", "busy", "failed", None}]
  /\ temps \in [Lanes -> [VarNames -> Clients \cup {None, Left}]] /\ cancelled \subseteq Lanes
  /\ writer \in {"none", "announced", "locked", "done"} /\ version \in 0 .. MaxRefreshes /\ listed \subseteq VarNames
  /\ \A c \in Clients : lane[c] # None <=> phase[c] \in {"running", "closing"}
  /\ \A c, d \in Clients : lane[c] # None /\ lane[c] = lane[d] => c = d
  /\ \A c \in Clients : lane[c] # None => lane[c] \in Pool

\* The refresh that holds the mutex finds the whole pool free: its introspection,
\* which waits for a lane without a timeout, cannot wait behind a query.
WriterHasPool == writer \in {"locked", "done"} => Free = Pool /\ Pool # {}

\* A query is executed against the schema version it was compiled with, however
\* long it waited for its lane.
OneSchema == \A c \in Clients : phase[c] \in {"waiting", "running"} => request[c].seen = version

\* A VAR that a running query materialised is in its session as that query made
\* it, whatever an earlier one left there under the name and the others do.
OwnTables == \A c \in Clients : phase[c] = "running" => \A name \in created[c] : temps[lane[c]][name] = c

\* Queries do not see each other's tables: each finds its own, also on a lane where
\* a cancelled one left tables of the same names; a lane whose requests all kept
\* their contexts is given back with none, and unless some context ended under a
\* query a refresh lists none as tables of the lake.
LanesClean ==
  /\ OwnTables
  /\ \A l \in Pool \ cancelled : ~Taken(l) => Tables(temps[l]) = {}
  /\ cancelled = {} => listed = {}

\* Every request ends, under contention for lanes and the mutex, with timeouts and
\* clients that leave.
Answered == \A c \in Clients : phase[c] # "idle" ~> phase[c] = "idle"

\* A refresh gets the mutex and ends, however many queries arrive.
RefreshEnds == writer # "none" ~> writer = "none"
=============================================================================
