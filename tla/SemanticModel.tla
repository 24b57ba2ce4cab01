--------------------------- MODULE SemanticModel ---------------------------
(***************************************************************************)
(* The semantic model duxd keeps three times: the live schema in memory    *)
(* (semantic/schema.go), the metadata database (semantic/metadata.go) and  *)
(* dux.toml (semantic/toml.go), with the handlers that edit it             *)
(* (cmd/duxd/main.go), the refresh that rebuilds it (internal/bootstrap)   *)
(* and the monitor of the lake's DDL (cmd/duxd/ducklake.go).               *)
(*                                                                         *)
(* A handler that holds schemaMu throughout is one action; the store has   *)
(* one connection and each of its calls is one transaction.  A handler     *)
(* that releases the mutex, or takes it late, is one action for each part  *)
(* and `pending` holds the part still to come.  Expressions, formats and   *)
(* columns are opaque, names are lower-cased.  The order of relationships  *)
(* on different columns, which only a listing shows, is left out.          *)
(***************************************************************************)
EXTENDS Naturals, Sequences, FiniteSets

CONSTANTS
  Clients,
  Tables,          \* tables the lake may hold
  Quoted,          \* those whose names need single quotes in the language
  Joins,           \* endpoints of relationships: [from, to, cols]
  MeasureNames, Exprs, Formats,
  DateColumns,     \* table -> its DATE or TIMESTAMP columns
  Objects,         \* what can be hidden: [table, column], column "" for a table
  Documents,       \* the dux.toml files that may be imported
  TomlFiles,       \* what the dux.toml beside the server may hold
  FirstTables,     \* the lake's tables when the server starts
  None,
  MaxEvents        \* bound: requests, faults, restarts, DDL and edits in a behaviour

ASSUME NoneAssumption == None \notin Exprs \cup Formats \cup UNION {DateColumns[t] : t \in Tables}
ASSUME JoinsAssumption == \A j \in Joins : {j.from, j.to} \subseteq Tables
ASSUME QuotedAssumption == Quoted \subseteq Tables
ASSUME ObjectsAssumption == \A o \in Objects : o.table \in Tables
ASSUME FirstAssumption == FirstTables \subseteq Tables /\ MaxEvents \in Nat

VARIABLES
  mem,       \* the live schema
  db,        \* the metadata database
  toml,      \* the dux.toml file
  lake,      \* the lake's tables and schema version
  up,        \* the server runs
  pending,   \* client -> the part of its request still to come
  monitor,   \* the schema monitor: version it knows, version it loads, whether it has tried
  status,    \* Runtime.refreshErr and refreshWarn
  imported,  \* history: the ways a document has been imported, "post" or "start"
  laid,      \* history: the dux.toml the last refresh laid over the store
  unsaved,   \* history: measures in memory whose SaveMeasure failed
  events     \* the number of events so far, up to MaxEvents

vars == <<mem, db, toml, lake, up, pending, monitor, status, imported, laid, unsaved, events>>
history == <<imported, laid, unsaved>>

Keys == [table : Tables, name : MeasureNames]
Rows == [table : Tables, name : MeasureNames, quoted : BOOLEAN]
\* The row a request with a correct spelling of the table reads or writes.
RowOf(k) == [table |-> k.table, name |-> k.name, quoted |-> k.table \in Quoted]

\* A layer is what a document or the store adds to a schema; rels[j] holds the
\* bidirectional flag of every relationship declared on the columns j.
Dates == UNION {DateColumns[t] : t \in Tables}
Layer == [rels : [Joins -> Seq(BOOLEAN)], measures : [Keys -> Exprs \cup {None}], formats : [Keys -> Formats \cup {None}],
          dates : [Tables -> Dates \cup {None}], hidden : SUBSET Objects]
EmptyLayer == [rels |-> [j \in Joins |-> <<>>], measures |-> [k \in Keys |-> None],
               formats |-> [k \in Keys |-> None], dates |-> [t \in Tables |-> None], hidden |-> {}]
EmptyStore == [rels |-> [j \in Joins |-> <<>>], measures |-> [r \in Rows |-> None],
               formats |-> [r \in Rows |-> None], dates |-> [t \in Tables |-> None], hidden |-> {}]

ASSUME DocumentsAssumption == Documents \cup TomlFiles \subseteq Layer

\* What a request still has to do after its first part.
Rest == [op : {"save"}, key : Keys, expr : Exprs, format : Formats \cup {None}]
          \cup [op : {"drop"}, row : Rows] \cup [op : {"unlink"}, join : Joins] \cup [op : {"reload"}]
ASSUME RestAssumption == None \notin Rest

AsLayer(store) == [store EXCEPT !.measures = [k \in Keys |-> store.measures[RowOf(k)]],
                                !.formats = [k \in Keys |-> store.formats[RowOf(k)]]]

Introspected(tables) ==
  [tables |-> tables, rels |-> EmptyLayer.rels, measures |-> EmptyLayer.measures,
   formats |-> EmptyLayer.formats, dates |-> EmptyLayer.dates, hidden |-> {}, flags |-> {}]

Over(f, g) == [x \in DOMAIN f |-> IF g[x] = None THEN f[x] ELSE g[x]]

\* Mutant: tables are flagged instead of what they hide.
Flagged_Tables(tables, hidden) == {o.table : o \in hidden}
Flagged(tables, hidden) == {o \in hidden : o.table \in tables}

\* A layer without a format for a measure leaves the format below it in place.
Overlay(schema, layer) ==
  [schema EXCEPT !.rels = [j \in Joins |-> schema.rels[j] \o layer.rels[j]],
                 !.measures = Over(schema.measures, layer.measures),
                 !.formats = Over(schema.formats, layer.formats),
                 !.dates = Over(schema.dates, layer.dates),
                 !.hidden = schema.hidden \cup layer.hidden,
                 !.flags = schema.flags \cup Flagged(schema.tables, layer.hidden)]

\* Mutants: the schema keeps its flags, or its measures.
ClearMetadata_KeepFlags(schema) == [Introspected(schema.tables) EXCEPT !.flags = schema.flags]
ClearMetadata_KeepMeasures(schema) == [Introspected(schema.tables) EXCEPT !.measures = schema.measures]
ClearMetadata(schema) == Introspected(schema.tables)

\* A stored measure is parsed again as MEASURE table[name] = ..., which a table
\* name that lost its quotes does not survive.
Unparsable(store) == \E r \in Rows : store.measures[r] # None /\ r.table \in Quoted /\ ~r.quoted

\* What a load of the store that ends early has laid over a schema: it reads
\* relationships, measures, date tables and hidden objects in this order, and
\* which rows of the query it ends in came before is left open.
Some(f, kept, none) == [x \in DOMAIN f |-> IF x \in kept THEN f[x] ELSE none]
AtRelationships(layer) == {[EmptyLayer EXCEPT !.rels = Some(layer.rels, kept, <<>>)] : kept \in SUBSET Joins}
AtMeasures(layer) ==
  {[EmptyLayer EXCEPT !.rels = layer.rels, !.measures = Some(layer.measures, kept, None),
                      !.formats = Some(layer.formats, kept, None)] : kept \in SUBSET Keys}
AtDateTables(layer) == {[layer EXCEPT !.dates = Some(layer.dates, kept, None), !.hidden = {}] : kept \in SUBSET Tables}
AtHidden(layer) == {[layer EXCEPT !.hidden = kept] : kept \in SUBSET layer.hidden}
Stopped(store) ==
  LET layer == AsLayer(store)
  IN  AtRelationships(layer) \cup AtMeasures(layer)
        \cup IF Unparsable(store) THEN {} ELSE AtDateTables(layer) \cup AtHidden(layer)

\* MeasureNameConflict, for the measures of a document laid over others.
NameConflict(below, layer) ==
  \E k \in Keys : layer[k] # None
    /\ \E other \in Keys \ {k} : other.name = k.name /\ (below[other] # None \/ layer[other] # None)

\* The search of ValidateFilterPaths, decided by what it cannot reach: a set of
\* tables around one end that no other relationship leaves.
Edges(rels) == UNION {{[join |-> j, at |-> i] : i \in DOMAIN rels[j]} : j \in Joins}
Bridge(e, rels) == \E side \in SUBSET Tables :
  /\ e.join.from \in side /\ e.join.to \notin side
  /\ \A other \in Edges(rels) \ {e} : other.join.from \in side <=> other.join.to \in side
ValidateFilterPaths(rels) == \A e \in Edges(rels) : rels[e.join][e.at] => Bridge(e, rels)

SchemaReferenceWarning(schema) ==
  \/ \E j \in Joins : schema.rels[j] # <<>> /\ ~({j.from, j.to} \subseteq schema.tables)
  \/ \E k \in Keys : schema.measures[k] # None /\ k.table \notin schema.tables

\* What RefreshSchema builds, and whether it succeeds.
Loaded == Overlay(Overlay(Introspected(lake.tables), AsLayer(db)), toml)
Loadable == /\ ~Unparsable(db)
            /\ ~NameConflict(AsLayer(db).measures, toml.measures)
            /\ ValidateFilterPaths(Loaded.rels)

\* LoadDuxTOMLBytes on an empty schema, then ReplaceAllFromSchema: the measures
\* lose their quotes, two relationships on the same columns break UNIQUE.
Readable(d) == ~NameConflict(EmptyLayer.measures, d.measures)
Storable(d) == \A j \in Joins : Len(d.rels[j]) <= 1
AsStore(d) == [d EXCEPT !.measures = [r \in Rows |-> IF r.quoted THEN None ELSE d.measures[[table |-> r.table, name |-> r.name]]],
                        !.formats = [r \in Rows |-> IF r.quoted THEN None ELSE d.formats[[table |-> r.table, name |-> r.name]]]]

-----------------------------------------------------------------------------
Count == events < MaxEvents /\ events' = events + 1
Idle(c) == up /\ pending[c] = None
Later(c, rest) == pending' = [pending EXCEPT ![c] = rest]

Init ==
  /\ db = EmptyStore
  /\ toml \in TomlFiles
  /\ lake = [tables |-> FirstTables, version |-> 0]
  /\ Loadable
  /\ mem = Loaded
  /\ up = TRUE
  /\ pending = [c \in Clients |-> None]
  /\ monitor = [on |-> FALSE, known |-> None, seen |-> None, done |-> FALSE]
  /\ status = [failed |-> FALSE, warning |-> SchemaReferenceWarning(Loaded)]
  /\ imported = {} /\ laid = toml /\ unsaved = {}
  /\ events = 0

(* POST and DELETE /measures *)

AddMeasure(c, k, e, f) ==
  /\ Idle(c) /\ Count
  /\ mem' = [mem EXCEPT !.measures[k] = e, !.formats[k] = f]
  /\ Later(c, [op |-> "save", key |-> k, expr |-> e, format |-> f])
  /\ UNCHANGED <<db, toml, lake, up, monitor, status, history>>

SaveMeasure(c) ==
  /\ up /\ pending[c] # None /\ pending[c].op = "save"
  /\ LET p == pending[c] row == RowOf(p.key)
     IN  \/ /\ db' = [db EXCEPT !.measures[row] = p.expr, !.formats[row] = p.format]
            /\ unsaved' = unsaved \ {p.key} /\ UNCHANGED events
         \/ Count /\ unsaved' = unsaved \cup {p.key} /\ UNCHANGED db
  /\ Later(c, None)
  /\ UNCHANGED <<mem, toml, lake, up, monitor, status, imported, laid>>

\* The path names the table with or without quotes; the store compares the text.
DeleteMeasure(c, r) ==
  /\ Idle(c) /\ Count
  /\ r.quoted => r.table \in Quoted
  /\ db' = [db EXCEPT !.measures[r] = None, !.formats[r] = None]
  /\ Later(c, [op |-> "drop", row |-> r])
  /\ UNCHANGED <<mem, toml, lake, up, monitor, status, history>>

\* Memory has no measure under a name with quotes; formats are found either way.
DropMeasure(c) ==
  /\ up /\ pending[c] # None /\ pending[c].op = "drop"
  /\ LET r == pending[c].row k == [table |-> r.table, name |-> r.name]
     IN  /\ mem' = [mem EXCEPT !.measures[k] = IF r.quoted THEN @ ELSE None, !.formats[k] = None]
         /\ unsaved' = IF r.quoted THEN unsaved ELSE unsaved \ {k}
  /\ Later(c, None)
  /\ UNCHANGED <<db, toml, lake, up, monitor, status, imported, laid, events>>

(* POST and DELETE /datetable, /hidden: under the mutex; a store that fails
   leaves everything as it was, which is a stuttering step. *)

OneDate(t, column) == [x \in Tables |-> IF x = t THEN column ELSE None]

SetDateTable(t, column) ==
  /\ up /\ Count /\ t \in mem.tables
  /\ db' = [db EXCEPT !.dates = OneDate(t, column)]
  /\ mem' = [mem EXCEPT !.dates = OneDate(t, column)]
  /\ UNCHANGED <<toml, lake, up, pending, monitor, status, history>>

DeleteDateTable ==
  /\ up /\ Count
  /\ db' = [db EXCEPT !.dates = EmptyLayer.dates]
  /\ mem' = [mem EXCEPT !.dates = EmptyLayer.dates]
  /\ UNCHANGED <<toml, lake, up, pending, monitor, status, history>>

Hide(o) ==
  /\ up /\ Count /\ o.table \in mem.tables
  /\ db' = [db EXCEPT !.hidden = @ \cup {o}]
  /\ mem' = [mem EXCEPT !.hidden = @ \cup {o}, !.flags = @ \cup {o}]
  /\ UNCHANGED <<toml, lake, up, pending, monitor, status, history>>

Unhide(o) ==
  /\ up /\ Count /\ o.table \in mem.tables
  /\ db' = [db EXCEPT !.hidden = @ \ {o}]
  /\ mem' = [mem EXCEPT !.hidden = @ \ {o}, !.flags = @ \ {o}]
  /\ UNCHANGED <<toml, lake, up, pending, monitor, status, history>>

(* POST, replace and DELETE /relationships *)

\* The first relationship on these columns is updated; without one, one is added.
Upsert(entries, bidi) == IF entries = <<>> THEN <<bidi>> ELSE [entries EXCEPT ![1] = bidi]
\* What the error paths make of the upserted entries.
Undo_KeepsFlag(before, entries) == IF before = <<>> THEN <<>> ELSE entries
Undo(before, entries) == IF before = <<>> THEN <<>> ELSE [entries EXCEPT ![1] = before[1]]

AddRelationship(j, bidi) ==
  /\ up /\ Count
  /\ LET tried == [mem.rels EXCEPT ![j] = Upsert(@, bidi)]
         undone == [tried EXCEPT ![j] = Undo(mem.rels[j], @)]
     IN  \/ /\ ValidateFilterPaths(tried)
            /\ mem' = [mem EXCEPT !.rels = tried]
            /\ db' = [db EXCEPT !.rels[j] = <<bidi>>]
         \/ \* ambiguous, or the store failed
            mem' = [mem EXCEPT !.rels = undone] /\ UNCHANGED db
  /\ UNCHANGED <<toml, lake, up, pending, monitor, status, history>>

Reverse(j, other) == other.from = j.to /\ other.to = j.from /\ other.cols = j.cols

\* The store refuses the exchange when it lost the old row or has the new one.
ReplaceRelationship(old, new, bidi) ==
  /\ up /\ Count
  /\ mem.rels[old] # <<>>
  /\ \A j \in Joins \ {old} : mem.rels[j] # <<>> => ~Reverse(new, j)
  /\ LET without == [mem.rels EXCEPT ![old] = <<>>]
         candidate == [without EXCEPT ![new] = Append(@, bidi)]
     IN  /\ ValidateFilterPaths(candidate)
         /\ db.rels[old] # <<>> /\ (new # old => db.rels[new] = <<>>)
         /\ mem' = [mem EXCEPT !.rels = candidate]
         /\ db' = [db EXCEPT !.rels = [db.rels EXCEPT ![old] = <<>>, ![new] = <<bidi>>]]
  /\ UNCHANGED <<toml, lake, up, pending, monitor, status, history>>

DeleteRelationship(c, j) ==
  /\ Idle(c) /\ Count
  /\ db' = [db EXCEPT !.rels[j] = <<>>]
  /\ Later(c, [op |-> "unlink", join |-> j])
  /\ UNCHANGED <<mem, toml, lake, up, monitor, status, history>>

RemoveRelationship(c) ==
  /\ up /\ pending[c] # None /\ pending[c].op = "unlink"
  /\ mem' = [mem EXCEPT !.rels[pending[c].join] = <<>>]
  /\ Later(c, None)
  /\ UNCHANGED <<db, toml, lake, up, monitor, status, history, events>>

(* POST /import *)

ImportDocument(c, d) ==
  /\ Idle(c) /\ Count
  /\ Readable(d) /\ Storable(d)
  /\ db' = AsStore(d)
  /\ imported' = imported \cup {"post"}
  /\ Later(c, [op |-> "reload"])
  /\ UNCHANGED <<mem, toml, lake, up, monitor, status, laid, unsaved>>

\* Without dux.toml and without ValidateFilterPaths.  A measure that does not
\* parse ends the load, and so does the store failing: the request answers 500
\* and the cleared schema keeps what came before.
ReloadImported(c) ==
  /\ up /\ pending[c] # None /\ pending[c].op = "reload"
  /\ \/ /\ ~Unparsable(db) /\ UNCHANGED events
        /\ mem' = Overlay(ClearMetadata(mem), AsLayer(db))
     \/ /\ Unparsable(db) /\ UNCHANGED events
        /\ \E part \in AtMeasures(AsLayer(db)) : mem' = Overlay(ClearMetadata(mem), part)
     \/ /\ Count
        /\ \E part \in Stopped(db) : mem' = Overlay(ClearMetadata(mem), part)
  /\ unsaved' = {}
  /\ Later(c, None)
  /\ UNCHANGED <<db, toml, lake, up, monitor, status, imported, laid>>

(* RefreshSchema, then replaceSchema, under the mutex.  It reads the store in
   four queries: an import that commits between them reloads memory after it. *)

Refreshed ==
  /\ Loadable
  /\ mem' = [Loaded EXCEPT !.flags = Flagged(Loaded.tables, Loaded.hidden)]
  /\ status' = [failed |-> FALSE, warning |-> SchemaReferenceWarning(Loaded)]
  /\ laid' = toml /\ unsaved' = {}

NotRefreshed ==
  /\ status' = [status EXCEPT !.failed = TRUE]
  /\ UNCHANGED <<mem, laid, unsaved>>

Refresh ==
  /\ up /\ Count
  /\ Refreshed \/ NotRefreshed
  /\ UNCHANGED <<db, toml, lake, up, pending, monitor, imported>>

\* The monitor starts some time after the first refresh with the version it then
\* finds, or none when it cannot read it.
MonitorStart ==
  /\ up /\ ~monitor.on
  /\ \/ monitor' = [on |-> TRUE, known |-> lake.version, seen |-> None, done |-> FALSE] /\ UNCHANGED events
     \/ monitor' = [on |-> TRUE, known |-> None, seen |-> None, done |-> FALSE] /\ Count
  /\ UNCHANGED <<mem, db, toml, lake, up, pending, status, history>>

\* It reads the schema version, then refreshes if it does not know it.
MonitorPoll ==
  /\ up /\ monitor.on /\ monitor.seen = None /\ monitor.known # lake.version
  /\ monitor' = [monitor EXCEPT !.seen = lake.version]
  /\ UNCHANGED <<mem, db, toml, lake, up, pending, status, history, events>>

\* A fault is DuckDB or the store failing.
MonitorRefresh ==
  /\ up /\ monitor.seen # None /\ ~monitor.done
  /\ \/ Refreshed /\ UNCHANGED events
     \/ NotRefreshed /\ ((~Loadable /\ UNCHANGED events) \/ Count)
  /\ monitor' = [monitor EXCEPT !.done = TRUE]
  /\ UNCHANGED <<db, toml, lake, up, pending, imported>>

\* Mutant: the version becomes known whether or not the refresh succeeded.
MonitorStatus_KnownAnyway ==
  /\ up /\ monitor.done
  /\ monitor' = [monitor EXCEPT !.known = monitor.seen, !.seen = None, !.done = FALSE]
  /\ UNCHANGED <<mem, db, toml, lake, up, pending, status, history, events>>

\* The version becomes known unless the status says a refresh failed, which by
\* now may be another one: the mutex was given back in between.
MonitorStatus ==
  /\ up /\ monitor.done
  /\ monitor' = [monitor EXCEPT !.known = IF status.failed THEN @ ELSE monitor.seen, !.seen = None, !.done = FALSE]
  /\ UNCHANGED <<mem, db, toml, lake, up, pending, status, history, events>>

(* The process dies and starts again; --import puts a document in the store and
   lays it over the schema already loaded. *)

Crash ==
  /\ up /\ Count /\ up' = FALSE
  /\ pending' = [c \in Clients |-> None]
  /\ monitor' = [on |-> FALSE, known |-> None, seen |-> None, done |-> FALSE]
  /\ mem' = Introspected({}) /\ laid' = EmptyLayer /\ unsaved' = {}
  /\ UNCHANGED <<db, toml, lake, status, imported>>

Startup ==
  /\ ~up /\ Refreshed
  /\ up' = TRUE
  /\ UNCHANGED <<db, toml, lake, pending, monitor, imported, events>>

StartupImport(d) ==
  /\ ~up /\ Count /\ Loadable /\ Readable(d) /\ Storable(d)
  /\ db' = AsStore(d)
  /\ imported' = imported \cup {"start"}
  /\ status' = [failed |-> FALSE, warning |-> SchemaReferenceWarning(Loaded)]
  /\ \/ /\ ~Unparsable(AsStore(d))
        /\ mem' = Overlay(Loaded, AsLayer(AsStore(d))) /\ laid' = toml
        /\ up' = TRUE
     \/ UNCHANGED <<mem, laid, up>>
  /\ UNCHANGED <<toml, lake, pending, monitor, unsaved>>

(* Others change the lake's tables and edit dux.toml. *)

ChangeTables(tables) ==
  /\ Count /\ tables # lake.tables
  /\ lake' = [tables |-> tables, version |-> lake.version + 1]
  /\ UNCHANGED <<mem, db, toml, up, pending, monitor, status, history>>

EditTOML(d) ==
  /\ Count /\ toml' = d /\ d # toml
  /\ UNCHANGED <<mem, db, lake, up, pending, monitor, status, history>>

Next ==
  \/ \E c \in Clients : \/ \E k \in Keys, e \in Exprs, f \in Formats \cup {None} : AddMeasure(c, k, e, f)
                        \/ SaveMeasure(c)
                        \/ \E r \in Rows : DeleteMeasure(c, r)
                        \/ DropMeasure(c)
                        \/ \E j \in Joins : DeleteRelationship(c, j)
                        \/ RemoveRelationship(c)
                        \/ \E d \in Documents : ImportDocument(c, d)
                        \/ ReloadImported(c)
  \/ \E t \in Tables : \E column \in DateColumns[t] : SetDateTable(t, column)
  \/ DeleteDateTable
  \/ \E o \in Objects : Hide(o)
  \/ \E o \in Objects : Unhide(o)
  \/ \E j \in Joins, bidi \in BOOLEAN : AddRelationship(j, bidi)
  \/ \E old \in Joins, new \in Joins, bidi \in BOOLEAN : ReplaceRelationship(old, new, bidi)
  \/ Refresh
  \/ MonitorStart
  \/ MonitorPoll
  \/ MonitorRefresh
  \/ MonitorStatus
  \/ Crash
  \/ Startup
  \/ \E d \in Documents : StartupImport(d)
  \/ \E tables \in SUBSET Tables : ChangeTables(tables)
  \/ \E d \in TomlFiles : EditTOML(d)

Spec == Init /\ [][Next]_vars
FairSpec == Spec /\ WF_vars(MonitorPoll) /\ WF_vars(MonitorRefresh) /\ WF_vars(MonitorStatus)

-----------------------------------------------------------------------------
Store == [rels : [Joins -> Seq(BOOLEAN)], measures : [Rows -> Exprs \cup {None}], formats : [Rows -> Formats \cup {None}],
          dates : [Tables -> Dates \cup {None}], hidden : SUBSET Objects]

Schema == [tables : SUBSET Tables, rels : [Joins -> Seq(BOOLEAN)], measures : [Keys -> Exprs \cup {None}],
           formats : [Keys -> Formats \cup {None}], dates : [Tables -> Dates \cup {None}], hidden : SUBSET Objects,
           flags : SUBSET Objects]

\* Memory, store, file and monitor are well typed.
TypeOK ==
  /\ mem \in Schema /\ db \in Store /\ toml \in TomlFiles /\ laid \in TomlFiles \cup {EmptyLayer}
  /\ lake \in [tables : SUBSET Tables, version : 0 .. MaxEvents]
  /\ pending \in [Clients -> Rest \cup {None}]
  /\ monitor \in [on : BOOLEAN, known : 0 .. MaxEvents \cup {None}, seen : 0 .. MaxEvents \cup {None}, done : BOOLEAN]
  /\ status \in [failed : BOOLEAN, warning : BOOLEAN]
  /\ imported \subseteq {"post", "start"} /\ unsaved \subseteq Keys
  /\ up \in BOOLEAN /\ events \in 0 .. MaxEvents

\* The Hidden flags GET /schema shows are those of the designations GET /export
\* writes: whichever handler, import or refresh changed either.
FlagsMatch == mem.flags = Flagged(mem.tables, mem.hidden)

\* Unless a document was imported, no interleaving of the handlers, refreshes,
\* edits of dux.toml and restarts makes the live relationships ambiguous: the
\* error paths put back what they changed and nothing unvalidated is swapped in.
GraphUnambiguous == imported = {} => ValidateFilterPaths(mem.rels)

Busy(op) == {c \in Clients : pending[c] # None /\ pending[c].op = op}

\* What queries see is stored: a relationship or measure in memory is in the
\* store or in the dux.toml it was built with, or a request that adds or
\* removes it is still under way.  Excepted are measures whose save was answered
\* 500, tables whose name needs quotes, and a start with --import.
NothingUnstored ==
  up /\ "start" \notin imported /\ Busy("reload") = {} =>
    /\ \A j \in Joins : mem.rels[j] # <<>> =>
         \/ db.rels[j] # <<>> \/ laid.rels[j] # <<>>
         \/ \E c \in Busy("unlink") : pending[c].join = j
    /\ \A k \in Keys : mem.measures[k] # None /\ k.table \notin Quoted /\ k \notin unsaved =>
         \/ db.measures[RowOf(k)] # None \/ laid.measures[k] # None
         \/ \E c \in Busy("save") : pending[c].key = k
         \/ \E c \in Busy("drop") : pending[c].row = RowOf(k)

\* While the running monitor does not know the lake's schema version, the live
\* schema will still get the lake's tables, whichever refreshes fail meanwhile,
\* unless the server dies or the model no longer loads.
TablesFollowLake ==
  up /\ monitor.on /\ monitor.known # lake.version ~> ~up \/ mem.tables = lake.tables \/ ~Loadable

\* README: measures are available immediately.  With no request under way and
\* no import, a stored measure is in the live schema.
StoredIsLive ==
  up /\ imported = {} /\ (\A c \in Clients : pending[c] = None) =>
    \A k \in Keys : db.measures[RowOf(k)] # None => mem.measures[k] # None
=============================================================================
