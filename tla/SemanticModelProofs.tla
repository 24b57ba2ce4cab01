------------------------ MODULE SemanticModelProofs ------------------------
(***************************************************************************)
(* Proofs about SemanticModel for every set of clients, tables,            *)
(* relationships, measures and documents, and for any number of events.    *)
(* The properties are inductive together with the types and with the fact  *)
(* that a reload is under way only after an import.                        *)
(***************************************************************************)
EXTENDS SemanticModel, TLAPS

Types == TypeOK /\ lake.version <= events

ReloadsImported == Busy("reload") # {} => imported # {}

IInv == Types /\ FlagsMatch /\ ReloadsImported /\ GraphUnambiguous /\ NothingUnstored

-----------------------------------------------------------------------------
(* Layers and what is built from them. *)

LEMMA EmptyLayerType == EmptyLayer \in Layer
  BY DEF EmptyLayer, Layer

LEMMA EmptyStoreType == EmptyStore \in Store
  BY DEF EmptyStore, Store

LEMMA RowOfType == ASSUME NEW k \in Keys PROVE RowOf(k) \in Rows
  BY DEF RowOf, Keys, Rows

LEMMA AsLayerType == ASSUME NEW store \in Store PROVE AsLayer(store) \in Layer
<1>1. store.measures \in [Rows -> Exprs \cup {None}] /\ store.formats \in [Rows -> Formats \cup {None}]
  BY DEF Store
<1>2. [k \in Keys |-> store.measures[RowOf(k)]] \in [Keys -> Exprs \cup {None}]
  BY <1>1, RowOfType
<1>3. [k \in Keys |-> store.formats[RowOf(k)]] \in [Keys -> Formats \cup {None}]
  BY <1>1, RowOfType
<1> QED
  BY <1>2, <1>3 DEF AsLayer, Layer, Store

LEMMA AsLayerParts ==
  ASSUME NEW store \in Store
  PROVE  /\ AsLayer(store).rels = store.rels
         /\ \A k \in Keys : AsLayer(store).measures[k] = store.measures[RowOf(k)]
  BY DEF AsLayer, Store

LEMMA AsStoreType == ASSUME NEW d \in Layer PROVE AsStore(d) \in Store
<1> DEFINE KeyOf(r) == [table |-> r.table, name |-> r.name]
<1>1. \A r \in Rows : KeyOf(r) \in Keys
  BY DEF Rows, Keys
<1>2. d.measures \in [Keys -> Exprs \cup {None}] /\ d.formats \in [Keys -> Formats \cup {None}]
  BY DEF Layer
<1>3. [r \in Rows |-> IF r.quoted THEN None ELSE d.measures[KeyOf(r)]] \in [Rows -> Exprs \cup {None}]
  BY <1>1, <1>2
<1>4. [r \in Rows |-> IF r.quoted THEN None ELSE d.formats[KeyOf(r)]] \in [Rows -> Formats \cup {None}]
  BY <1>1, <1>2
<1> QED
  BY <1>3, <1>4 DEF AsStore, Store, Layer

LEMMA IntrospectedType ==
  ASSUME NEW tables \in SUBSET Tables
  PROVE  /\ Introspected(tables) \in Schema
         /\ Introspected(tables).rels = [j \in Joins |-> <<>>]
         /\ Introspected(tables).measures = [k \in Keys |-> None]
         /\ Introspected(tables).flags = {} /\ Introspected(tables).hidden = {}
  BY DEF Introspected, EmptyLayer, Schema

LEMMA OverType ==
  ASSUME NEW D, NEW S, NEW f \in [D -> S], NEW g \in [D -> S]
  PROVE  Over(f, g) \in [D -> S]
  BY DEF Over

LEMMA OverlayType ==
  ASSUME NEW schema \in Schema, NEW layer \in Layer
  PROVE  /\ Overlay(schema, layer) \in Schema
         /\ Overlay(schema, layer).tables = schema.tables
         /\ \A j \in Joins : Overlay(schema, layer).rels[j] = schema.rels[j] \o layer.rels[j]
         /\ Overlay(schema, layer).measures = Over(schema.measures, layer.measures)
         /\ Overlay(schema, layer).hidden = schema.hidden \cup layer.hidden
         /\ Overlay(schema, layer).flags = schema.flags \cup Flagged(schema.tables, layer.hidden)
<1> DEFINE rels == [j \in Joins |-> schema.rels[j] \o layer.rels[j]]
           measures == Over(schema.measures, layer.measures)
           formats == Over(schema.formats, layer.formats)
           dates == Over(schema.dates, layer.dates)
<1>1. rels \in [Joins -> Seq(BOOLEAN)]
  BY DEF Schema, Layer
<1>2. measures \in [Keys -> Exprs \cup {None}]
  BY OverType DEF Schema, Layer
<1>3. formats \in [Keys -> Formats \cup {None}]
  BY OverType DEF Schema, Layer
<1>4. dates \in [Tables -> Dates \cup {None}]
  BY OverType DEF Schema, Layer
<1>5. Flagged(schema.tables, layer.hidden) \in SUBSET Objects
  BY DEF Flagged, Layer
<1>6. Overlay(schema, layer) = [schema EXCEPT !.rels = rels, !.measures = measures, !.formats = formats, !.dates = dates,
                                  !.hidden = schema.hidden \cup layer.hidden,
                                  !.flags = schema.flags \cup Flagged(schema.tables, layer.hidden)]
  BY DEF Overlay
<1> HIDE DEF rels, measures, formats, dates
<1>7. Overlay(schema, layer) \in Schema
  BY <1>1, <1>2, <1>3, <1>4, <1>5, <1>6 DEF Schema, Layer
<1>8. /\ Overlay(schema, layer).rels = rels /\ Overlay(schema, layer).tables = schema.tables
      /\ Overlay(schema, layer).measures = measures
      /\ Overlay(schema, layer).hidden = schema.hidden \cup layer.hidden
      /\ Overlay(schema, layer).flags = schema.flags \cup Flagged(schema.tables, layer.hidden)
  BY <1>6 DEF Schema
<1> QED
  BY <1>7, <1>8 DEF rels, measures

LEMMA TomlType == TypeOK => toml \in Layer /\ laid \in Layer
  BY DocumentsAssumption, EmptyLayerType DEF TypeOK

LEMMA LoadedType ==
  ASSUME db \in Store, toml \in Layer, lake.tables \in SUBSET Tables
  PROVE  /\ Loaded \in Schema
         /\ \A j \in Joins : Loaded.rels[j] # <<>> => db.rels[j] # <<>> \/ toml.rels[j] # <<>>
         /\ \A k \in Keys : Loaded.measures[k] # None => db.measures[RowOf(k)] # None \/ toml.measures[k] # None
<1> DEFINE first == Introspected(lake.tables)
           middle == Overlay(first, AsLayer(db))
           layer == AsLayer(db)
<1>1. first \in Schema /\ first.rels = [j \in Joins |-> <<>>] /\ first.measures = [k \in Keys |-> None]
  BY IntrospectedType
<1>2. layer \in Layer /\ layer.rels = db.rels /\ \A k \in Keys : layer.measures[k] = db.measures[RowOf(k)]
  BY AsLayerType, AsLayerParts
<1>3. toml \in Layer
  OBVIOUS
<1> HIDE DEF first, layer
<1>4. /\ middle \in Schema /\ \A j \in Joins : middle.rels[j] = first.rels[j] \o layer.rels[j]
      /\ middle.measures = Over(first.measures, layer.measures)
  BY <1>1, <1>2, OverlayType DEF layer, first
<1>5. Loaded = Overlay(middle, toml)
  BY DEF Loaded, first, layer
<1> HIDE DEF middle
<1>6. /\ Loaded \in Schema /\ \A j \in Joins : Loaded.rels[j] = middle.rels[j] \o toml.rels[j]
      /\ Loaded.measures = Over(middle.measures, toml.measures)
  BY <1>3, <1>4, <1>5, OverlayType
<1>7. ASSUME NEW j \in Joins, Loaded.rels[j] # <<>> PROVE db.rels[j] # <<>> \/ toml.rels[j] # <<>>
  <2>1. first.rels[j] = <<>> /\ layer.rels[j] = db.rels[j]
    BY <1>1, <1>2
  <2>2. (<<>> \o <<>>) \o <<>> = <<>>
    OBVIOUS
  <2> QED
    BY <1>4, <1>6, <1>7, <2>1, <2>2
<1>8. ASSUME NEW k \in Keys, Loaded.measures[k] # None PROVE db.measures[RowOf(k)] # None \/ toml.measures[k] # None
  <2>1. first.measures[k] = None /\ layer.measures[k] = db.measures[RowOf(k)]
    BY <1>1, <1>2
  <2>2. middle.measures[k] = IF layer.measures[k] = None THEN first.measures[k] ELSE layer.measures[k]
    BY <1>1, <1>4 DEF Over
  <2>3. middle.measures \in [Keys -> Exprs \cup {None}]
    BY <1>4 DEF Schema
  <2>4. Loaded.measures[k] = IF toml.measures[k] = None THEN middle.measures[k] ELSE toml.measures[k]
    BY <1>6, <2>3 DEF Over
  <2> QED
    BY <1>8, <2>1, <2>2, <2>4
<1> QED
  BY <1>6, <1>7, <1>8

LEMMA WarningType == ASSUME NEW schema PROVE SchemaReferenceWarning(schema) \in BOOLEAN
  BY DEF SchemaReferenceWarning

\* What a refresh, a poll of the monitor and a start have in common.
LEMMA RefreshedKeeps ==
  ASSUME TypeOK, Refreshed
  PROVE  /\ mem' \in Schema /\ laid' = toml /\ laid' \in TomlFiles /\ unsaved' = {}
         /\ status' \in [failed : BOOLEAN, warning : BOOLEAN]
         /\ FlagsMatch' /\ ValidateFilterPaths(mem'.rels)
         /\ \A j \in Joins : mem'.rels[j] # <<>> => db.rels[j] # <<>> \/ laid'.rels[j] # <<>>
         /\ \A k \in Keys : mem'.measures[k] # None => db.measures[RowOf(k)] # None \/ laid'.measures[k] # None
<1> DEFINE flags == Flagged(Loaded.tables, Loaded.hidden)
<1>1. /\ Loaded \in Schema
      /\ \A j \in Joins : Loaded.rels[j] # <<>> => db.rels[j] # <<>> \/ toml.rels[j] # <<>>
      /\ \A k \in Keys : Loaded.measures[k] # None => db.measures[RowOf(k)] # None \/ toml.measures[k] # None
  BY LoadedType, TomlType DEF TypeOK
<1>2. flags \subseteq Objects
  BY <1>1 DEF Flagged, Schema
<1>3. mem' = [Loaded EXCEPT !.flags = flags] /\ laid' = toml /\ unsaved' = {}
  BY DEF Refreshed
<1>4. ValidateFilterPaths(Loaded.rels)
  BY DEF Refreshed, Loadable
<1>5. status' \in [failed : BOOLEAN, warning : BOOLEAN]
  BY WarningType DEF Refreshed
<1> HIDE DEF flags
<1>6. mem' \in Schema
  BY <1>1, <1>2, <1>3 DEF Schema
<1>7. mem'.rels = Loaded.rels /\ mem'.measures = Loaded.measures /\ mem'.tables = Loaded.tables
      /\ mem'.hidden = Loaded.hidden /\ mem'.flags = flags
  BY <1>1, <1>3 DEF Schema
<1>8. FlagsMatch'
  BY <1>7 DEF FlagsMatch, flags
<1>9. laid' \in TomlFiles
  BY <1>3 DEF TypeOK
<1>10. \A j \in Joins : mem'.rels[j] # <<>> => db.rels[j] # <<>> \/ laid'.rels[j] # <<>>
  BY <1>1, <1>3, <1>7
<1>11. \A k \in Keys : mem'.measures[k] # None => db.measures[RowOf(k)] # None \/ laid'.measures[k] # None
  BY <1>1, <1>3, <1>7
<1> QED
  BY <1>3, <1>4, <1>5, <1>6, <1>7, <1>8, <1>9, <1>10, <1>11

-----------------------------------------------------------------------------
(* The initial state. *)

LEMMA FlagsOverlaid ==
  ASSUME NEW schema \in Schema, NEW layer \in Layer, schema.flags = Flagged(schema.tables, schema.hidden)
  PROVE  Overlay(schema, layer).flags = Flagged(Overlay(schema, layer).tables, Overlay(schema, layer).hidden)
<1> DEFINE over == Overlay(schema, layer)
<1>1. /\ over.tables = schema.tables /\ over.hidden = schema.hidden \cup layer.hidden
      /\ over.flags = schema.flags \cup Flagged(schema.tables, layer.hidden)
  BY OverlayType
<1> HIDE DEF over
<1>2. over.flags = Flagged(over.tables, over.hidden)
  BY <1>1 DEF Flagged
<1> QED
  BY <1>2 DEF over

LEMMA LoadedFlags ==
  ASSUME db \in Store, toml \in Layer, lake.tables \in SUBSET Tables
  PROVE  Loaded.flags = Flagged(Loaded.tables, Loaded.hidden)
<1> DEFINE first == Introspected(lake.tables)
           middle == Overlay(first, AsLayer(db))
<1>1. first \in Schema /\ first.flags = Flagged(first.tables, first.hidden)
  BY IntrospectedType DEF Flagged
<1>2. AsLayer(db) \in Layer
  BY AsLayerType
<1>3. middle \in Schema
  BY <1>1, <1>2, OverlayType
<1>4. middle.flags = Flagged(middle.tables, middle.hidden)
  BY <1>1, <1>2, FlagsOverlaid
<1>5. Overlay(middle, toml).flags = Flagged(Overlay(middle, toml).tables, Overlay(middle, toml).hidden)
  BY <1>3, <1>4, FlagsOverlaid
<1> QED
  BY <1>5 DEF Loaded

LEMMA InitInvariant == Init => IInv
<1> SUFFICES ASSUME Init PROVE IInv
  OBVIOUS
<1>1. /\ db = EmptyStore /\ toml \in TomlFiles /\ lake = [tables |-> FirstTables, version |-> 0] /\ Loadable /\ mem = Loaded
      /\ up = TRUE /\ pending = [c \in Clients |-> None] /\ monitor = [on |-> FALSE, known |-> None, seen |-> None, done |-> FALSE]
      /\ status = [failed |-> FALSE, warning |-> SchemaReferenceWarning(Loaded)]
      /\ imported = {} /\ laid = toml /\ unsaved = {} /\ events = 0
  BY DEF Init
<1>2. db \in Store /\ toml \in Layer /\ lake.tables \in SUBSET Tables
  BY <1>1, EmptyStoreType, DocumentsAssumption, FirstAssumption
<1>3. mem \in Schema
  BY <1>1, <1>2, LoadedType
<1>4. status \in [failed : BOOLEAN, warning : BOOLEAN]
  BY <1>1, WarningType
<1>5. lake \in [tables : SUBSET Tables, version : 0 .. MaxEvents] /\ events \in 0 .. MaxEvents /\ lake.version <= events
  BY <1>1, FirstAssumption
<1>6. Types
  BY <1>1, <1>2, <1>3, <1>4, <1>5 DEF Types, TypeOK
<1>7. FlagsMatch
  BY <1>1, <1>2, LoadedFlags DEF FlagsMatch
<1>8. ReloadsImported
  BY <1>1 DEF ReloadsImported, Busy
<1>9. GraphUnambiguous
  BY <1>1 DEF GraphUnambiguous, Loadable
<1>10. NothingUnstored
  BY <1>1, <1>2, LoadedType DEF NothingUnstored
<1> QED
  BY <1>6, <1>7, <1>8, <1>9, <1>10 DEF IInv

-----------------------------------------------------------------------------
(* The types, action by action. *)

\* With the same lake.
LEMMA SameLake ==
  ASSUME Types, Count \/ UNCHANGED events, lake' = lake
  PROVE  /\ events' \in 0 .. MaxEvents /\ lake' \in [tables : SUBSET Tables, version : 0 .. MaxEvents]
         /\ lake'.version <= events'
<1>1. events \in 0 .. MaxEvents /\ lake.version \in 0 .. MaxEvents /\ lake.version <= events /\ MaxEvents \in Nat
  BY FirstAssumption DEF Types, TypeOK
<1>2. CASE Count
  BY <1>1, <1>2 DEF Count, Types, TypeOK
<1>3. CASE UNCHANGED events
  BY <1>1, <1>3 DEF Types, TypeOK
<1> QED
  BY <1>2, <1>3

LEMMA StoredMeasure ==
  ASSUME NEW store \in Store, NEW row \in Rows, NEW e \in Exprs \cup {None}, NEW f \in Formats \cup {None}
  PROVE  [store EXCEPT !.measures[row] = e, !.formats[row] = f] \in Store
  BY DEF Store

LEMMA MeasureTypes ==
  ASSUME Types, NEW c \in Clients,
         \/ \E k \in Keys, e \in Exprs, f \in Formats \cup {None} : AddMeasure(c, k, e, f)
         \/ SaveMeasure(c)
         \/ \E r \in Rows : DeleteMeasure(c, r)
         \/ DropMeasure(c)
  PROVE  Types'
<1> USE DEF Types, TypeOK
<1>1. ASSUME NEW k \in Keys, NEW e \in Exprs, NEW f \in Formats \cup {None}, AddMeasure(c, k, e, f)
      PROVE  Types'
  <2>1. mem' \in Schema
    BY <1>1 DEF AddMeasure, Schema
  <2>2. pending' \in [Clients -> Rest \cup {None}]
    BY <1>1 DEF AddMeasure, Later, Rest
  <2>3. (Count \/ UNCHANGED events) /\ lake' = lake
    BY <1>1 DEF AddMeasure
  <2> QED
    BY <1>1, <2>1, <2>2, <2>3, SameLake DEF AddMeasure, history
<1>2. CASE SaveMeasure(c)
  <2> DEFINE p == pending[c]
             row == RowOf(p.key)
  <2>1. pending[c] \in Rest /\ pending[c].op = "save"
    BY <1>2 DEF SaveMeasure
  <2>2. pending[c].key \in Keys /\ pending[c].expr \in Exprs /\ pending[c].format \in Formats \cup {None}
    BY <2>1 DEF Rest
  <2>3. RowOf(pending[c].key) \in Rows
    BY <2>2, RowOfType
  <2>4. db' \in Store
    <3>1. db' = db \/ db' = [db EXCEPT !.measures[row] = p.expr, !.formats[row] = p.format]
      BY <1>2 DEF SaveMeasure
    <3>2. [db EXCEPT !.measures[row] = p.expr, !.formats[row] = p.format] \in Store
      BY <2>2, <2>3, StoredMeasure
    <3> QED
      BY <3>1, <3>2
  <2>5. pending' \in [Clients -> Rest \cup {None}]
    BY <1>2 DEF SaveMeasure, Later
  <2>6. unsaved' \subseteq Keys
    BY <1>2, <2>2 DEF SaveMeasure
  <2>7. (Count \/ UNCHANGED events) /\ lake' = lake
    BY <1>2 DEF SaveMeasure
  <2> QED
    BY <1>2, <2>4, <2>5, <2>6, <2>7, SameLake DEF SaveMeasure
<1>3. ASSUME NEW r \in Rows, DeleteMeasure(c, r) PROVE Types'
  <2>1. db' \in Store
    BY <1>3 DEF DeleteMeasure, Store
  <2>2. pending' \in [Clients -> Rest \cup {None}]
    BY <1>3 DEF DeleteMeasure, Later, Rest
  <2>3. (Count \/ UNCHANGED events) /\ lake' = lake
    BY <1>3 DEF DeleteMeasure
  <2> QED
    BY <1>3, <2>1, <2>2, <2>3, SameLake DEF DeleteMeasure, history
<1>4. CASE DropMeasure(c)
  <2> DEFINE r == pending[c].row
             k == [table |-> r.table, name |-> r.name]
  <2>1. pending[c] \in Rest /\ pending[c].op = "drop"
    BY <1>4 DEF DropMeasure
  <2>2. r \in Rows
    BY <2>1 DEF Rest
  <2>3. k \in Keys
    BY <2>2 DEF Rows, Keys
  <2>4. /\ mem' = [mem EXCEPT !.measures[k] = IF r.quoted THEN @ ELSE None, !.formats[k] = None]
        /\ unsaved' \subseteq unsaved
    BY <1>4 DEF DropMeasure
  <2>5. mem.measures[k] \in Exprs \cup {None}
    BY <2>3 DEF Schema
  <2> HIDE DEF k, r
  <2>6. mem' \in Schema
    BY <2>3, <2>4, <2>5 DEF Schema
  <2>7. pending' \in [Clients -> Rest \cup {None}]
    BY <1>4 DEF DropMeasure, Later
  <2>8. UNCHANGED events /\ lake' = lake
    BY <1>4 DEF DropMeasure
  <2> QED
    BY <1>4, <2>4, <2>6, <2>7, <2>8, SameLake DEF DropMeasure
<1> QED
  BY <1>1, <1>2, <1>3, <1>4

LEMMA DesignationTypes ==
  ASSUME Types,
         \/ \E t \in Tables : \E column \in DateColumns[t] : SetDateTable(t, column)
         \/ DeleteDateTable
         \/ \E o \in Objects : Hide(o)
         \/ \E o \in Objects : Unhide(o)
  PROVE  Types'
<1> USE DEF Types, TypeOK
<1>1. ASSUME NEW t \in Tables, NEW column \in DateColumns[t], SetDateTable(t, column) PROVE Types'
  <2>1. OneDate(t, column) \in [Tables -> Dates \cup {None}]
    BY DEF OneDate, Dates
  <2>2. mem' \in Schema /\ db' \in Store
    BY <1>1, <2>1 DEF SetDateTable, Schema, Store
  <2>3. (Count \/ UNCHANGED events) /\ lake' = lake
    BY <1>1 DEF SetDateTable
  <2> QED
    BY <1>1, <2>2, <2>3, SameLake DEF SetDateTable, history
<1>2. CASE DeleteDateTable
  <2>1. EmptyLayer.dates \in [Tables -> Dates \cup {None}]
    BY DEF EmptyLayer
  <2>2. mem' \in Schema /\ db' \in Store
    BY <1>2, <2>1 DEF DeleteDateTable, Schema, Store
  <2>3. (Count \/ UNCHANGED events) /\ lake' = lake
    BY <1>2 DEF DeleteDateTable
  <2> QED
    BY <1>2, <2>2, <2>3, SameLake DEF DeleteDateTable, history
<1>3. ASSUME NEW o \in Objects, Hide(o) PROVE Types'
  <2>1. mem' \in Schema /\ db' \in Store
    BY <1>3 DEF Hide, Schema, Store
  <2>2. (Count \/ UNCHANGED events) /\ lake' = lake
    BY <1>3 DEF Hide
  <2> QED
    BY <1>3, <2>1, <2>2, SameLake DEF Hide, history
<1>4. ASSUME NEW o \in Objects, Unhide(o) PROVE Types'
  <2>1. mem' \in Schema /\ db' \in Store
    BY <1>4 DEF Unhide, Schema, Store
  <2>2. (Count \/ UNCHANGED events) /\ lake' = lake
    BY <1>4 DEF Unhide
  <2> QED
    BY <1>4, <2>1, <2>2, SameLake DEF Unhide, history
<1> QED
  BY <1>1, <1>2, <1>3, <1>4

LEMMA PutBack ==
  ASSUME NEW D, NEW S, NEW f \in [D -> S], NEW x \in D, NEW v \in S
  PROVE  [[f EXCEPT ![x] = v] EXCEPT ![x] = f[x]] = f
  OBVIOUS

LEMMA UndoneAsBefore ==
  ASSUME NEW before \in Seq(BOOLEAN), NEW bidi \in BOOLEAN
  PROVE  /\ Upsert(before, bidi) \in Seq(BOOLEAN)
         /\ Undo(before, Upsert(before, bidi)) = before
<1>1. CASE before = <<>>
  BY <1>1 DEF Upsert, Undo
<1>2. CASE before # <<>>
  <2>1. 1 \in 1 .. Len(before) /\ before[1] \in BOOLEAN
    BY <1>2
  <2>2. [before EXCEPT ![1] = bidi] \in Seq(BOOLEAN)
    BY <2>1
  <2>3. [[before EXCEPT ![1] = bidi] EXCEPT ![1] = before[1]] = before
    <3>1. before \in [1 .. Len(before) -> BOOLEAN]
      OBVIOUS
    <3> QED
      BY <2>1, <3>1, PutBack
  <2> QED
    BY <1>2, <2>2, <2>3 DEF Upsert, Undo
<1> QED
  BY <1>1, <1>2

\* The error paths of POST put the relationship back as it was.
LEMMA AddOrNot ==
  ASSUME mem \in Schema, NEW j \in Joins, NEW bidi \in BOOLEAN, AddRelationship(j, bidi)
  PROVE  \/ mem' = mem /\ db' = db
         \/ /\ mem' = [mem EXCEPT !.rels = [mem.rels EXCEPT ![j] = Upsert(@, bidi)]]
            /\ ValidateFilterPaths(mem'.rels) /\ db' = [db EXCEPT !.rels[j] = <<bidi>>]
            /\ mem'.rels \in [Joins -> Seq(BOOLEAN)]
<1> DEFINE tried == [mem.rels EXCEPT ![j] = Upsert(@, bidi)]
           undone == [tried EXCEPT ![j] = Undo(mem.rels[j], @)]
<1>1. \/ ValidateFilterPaths(tried) /\ mem' = [mem EXCEPT !.rels = tried] /\ db' = [db EXCEPT !.rels[j] = <<bidi>>]
      \/ mem' = [mem EXCEPT !.rels = undone] /\ UNCHANGED db
  BY DEF AddRelationship
<1>2. mem.rels \in [Joins -> Seq(BOOLEAN)]
  BY DEF Schema
<1>3. undone = mem.rels
  BY <1>2, UndoneAsBefore
<1>4. tried \in [Joins -> Seq(BOOLEAN)]
  BY <1>2, UndoneAsBefore
<1> HIDE DEF undone, tried
<1>5. CASE mem' = [mem EXCEPT !.rels = undone] /\ UNCHANGED db
  BY <1>3, <1>5 DEF Schema
<1>6. CASE ValidateFilterPaths(tried) /\ mem' = [mem EXCEPT !.rels = tried] /\ db' = [db EXCEPT !.rels[j] = <<bidi>>]
  <2>1. mem'.rels = tried
    BY <1>6 DEF Schema
  <2>2. mem' = [mem EXCEPT !.rels = [mem.rels EXCEPT ![j] = Upsert(@, bidi)]]
    BY <1>6 DEF tried
  <2> QED
    BY <1>4, <1>6, <2>1, <2>2
<1> QED
  BY <1>1, <1>5, <1>6

LEMMA RelationshipTypes ==
  ASSUME Types,
         \/ \E j \in Joins, bidi \in BOOLEAN : AddRelationship(j, bidi)
         \/ \E old \in Joins, new \in Joins, bidi \in BOOLEAN : ReplaceRelationship(old, new, bidi)
         \/ \E c \in Clients : (\E j \in Joins : DeleteRelationship(c, j)) \/ RemoveRelationship(c)
  PROVE  Types'
<1> USE DEF Types, TypeOK
<1>1. ASSUME NEW j \in Joins, NEW bidi \in BOOLEAN, AddRelationship(j, bidi) PROVE Types'
  <2>1. mem' \in Schema /\ db' \in Store
    <3>1. <<bidi>> \in Seq(BOOLEAN)
      OBVIOUS
    <3>2. CASE mem' = mem /\ db' = db
      BY <3>2
    <3>3. CASE /\ mem' = [mem EXCEPT !.rels = [mem.rels EXCEPT ![j] = Upsert(@, bidi)]]
               /\ db' = [db EXCEPT !.rels[j] = <<bidi>>] /\ mem'.rels \in [Joins -> Seq(BOOLEAN)]
      <4>1. [mem.rels EXCEPT ![j] = Upsert(@, bidi)] \in [Joins -> Seq(BOOLEAN)]
        BY UndoneAsBefore DEF Schema
      <4>2. mem' \in Schema
        BY <3>3, <4>1 DEF Schema
      <4>3. db' \in Store
        BY <3>1, <3>3 DEF Store
      <4> QED
        BY <4>2, <4>3
    <3> QED
      BY <1>1, <3>2, <3>3, AddOrNot
  <2>2. (Count \/ UNCHANGED events) /\ lake' = lake
    BY <1>1 DEF AddRelationship
  <2> QED
    BY <1>1, <2>1, <2>2, SameLake DEF AddRelationship, history
<1>2. ASSUME NEW old \in Joins, NEW new \in Joins, NEW bidi \in BOOLEAN, ReplaceRelationship(old, new, bidi) PROVE Types'
  <2> DEFINE without == [mem.rels EXCEPT ![old] = <<>>]
             candidate == [without EXCEPT ![new] = Append(@, bidi)]
             stored == [db.rels EXCEPT ![old] = <<>>, ![new] = <<bidi>>]
  <2>1. candidate \in [Joins -> Seq(BOOLEAN)] /\ stored \in [Joins -> Seq(BOOLEAN)]
    <3>1. without \in [Joins -> Seq(BOOLEAN)] /\ <<bidi>> \in Seq(BOOLEAN) /\ <<>> \in Seq(BOOLEAN)
      BY DEF Schema
    <3>2. Append(without[new], bidi) \in Seq(BOOLEAN)
      <4>1. without[new] \in Seq(BOOLEAN)
        BY <3>1
      <4> HIDE DEF without
      <4> QED
        BY <4>1
    <3>3. db.rels \in [Joins -> Seq(BOOLEAN)]
      BY DEF Store
    <3> QED
      BY <3>1, <3>2, <3>3
  <2>2. mem' = [mem EXCEPT !.rels = candidate] /\ db' = [db EXCEPT !.rels = stored]
    BY <1>2 DEF ReplaceRelationship
  <2> HIDE DEF candidate, stored
  <2>3. mem' \in Schema /\ db' \in Store
    BY <2>1, <2>2 DEF Schema, Store
  <2>4. (Count \/ UNCHANGED events) /\ lake' = lake
    BY <1>2 DEF ReplaceRelationship
  <2> QED
    BY <1>2, <2>3, <2>4, SameLake DEF ReplaceRelationship, history
<1>3. ASSUME NEW c \in Clients, NEW j \in Joins, DeleteRelationship(c, j) PROVE Types'
  <2>1. db' \in Store
    <3>1. <<>> \in Seq(BOOLEAN)
      OBVIOUS
    <3> QED
      BY <1>3, <3>1 DEF DeleteRelationship, Store
  <2>2. pending' \in [Clients -> Rest \cup {None}]
    BY <1>3 DEF DeleteRelationship, Later, Rest
  <2>3. (Count \/ UNCHANGED events) /\ lake' = lake
    BY <1>3 DEF DeleteRelationship
  <2> QED
    BY <1>3, <2>1, <2>2, <2>3, SameLake DEF DeleteRelationship, history
<1>4. ASSUME NEW c \in Clients, RemoveRelationship(c) PROVE Types'
  <2>1. mem' \in Schema
    <3>1. <<>> \in Seq(BOOLEAN)
      OBVIOUS
    <3> QED
      BY <1>4, <3>1 DEF RemoveRelationship, Schema
  <2>2. pending' \in [Clients -> Rest \cup {None}]
    BY <1>4 DEF RemoveRelationship, Later
  <2>3. UNCHANGED events /\ lake' = lake
    BY <1>4 DEF RemoveRelationship
  <2> QED
    BY <1>4, <2>1, <2>2, <2>3, SameLake DEF RemoveRelationship, history
<1> QED
  BY <1>1, <1>2, <1>3, <1>4

\* What a load of the store over a cleared schema gives, also one cut short.
LEMMA OverCleared ==
  ASSUME NEW schema \in Schema, NEW layer \in Layer
  PROVE  LET over == Overlay(ClearMetadata(schema), layer)
         IN  /\ over \in Schema /\ over.flags = Flagged(over.tables, over.hidden)
             /\ \A j \in Joins : over.rels[j] = layer.rels[j]
             /\ \A k \in Keys : over.measures[k] # None => layer.measures[k] # None
<1> DEFINE cleared == ClearMetadata(schema)
           over == Overlay(cleared, layer)
<1>1. schema.tables \in SUBSET Tables
  BY DEF Schema
<1>2. /\ cleared \in Schema /\ cleared.rels = [j \in Joins |-> <<>>] /\ cleared.measures = [k \in Keys |-> None]
      /\ cleared.flags = Flagged(cleared.tables, cleared.hidden)
  BY <1>1, IntrospectedType DEF ClearMetadata, Flagged
<1> HIDE DEF cleared
<1>3. /\ over \in Schema /\ \A j \in Joins : over.rels[j] = cleared.rels[j] \o layer.rels[j]
      /\ over.measures = Over(cleared.measures, layer.measures)
  BY <1>2, OverlayType
<1>4. over.flags = Flagged(over.tables, over.hidden)
  BY <1>2, FlagsOverlaid
<1> HIDE DEF over
<1>5. ASSUME NEW j \in Joins PROVE over.rels[j] = layer.rels[j]
  <2>1. layer.rels[j] \in Seq(BOOLEAN)
    BY DEF Layer
  <2>2. <<>> \o layer.rels[j] = layer.rels[j]
    BY <2>1
  <2> QED
    BY <1>2, <1>3, <2>2
<1>6. ASSUME NEW k \in Keys, over.measures[k] # None PROVE layer.measures[k] # None
  BY <1>2, <1>3, <1>6 DEF Over
<1> QED
  BY <1>3, <1>4, <1>5, <1>6 DEF over, cleared

\* A load that ends early lays a layer over the schema that holds nothing the
\* store does not.
LEMMA StoppedType ==
  ASSUME db \in Store, NEW part \in Stopped(db) \cup AtMeasures(AsLayer(db))
  PROVE  /\ part \in Layer
         /\ \A j \in Joins : part.rels[j] # <<>> => db.rels[j] # <<>>
         /\ \A k \in Keys : part.measures[k] # None => db.measures[RowOf(k)] # None
<1> DEFINE layer == AsLayer(db)
<1>1. layer \in Layer /\ layer.rels = db.rels /\ \A k \in Keys : layer.measures[k] = db.measures[RowOf(k)]
  BY AsLayerType, AsLayerParts
<1>2. part \in AtRelationships(layer) \cup AtMeasures(layer) \cup AtDateTables(layer) \cup AtHidden(layer)
  BY DEF Stopped
<1> HIDE DEF layer
<1>3. EmptyLayer \in Layer /\ \A k \in Keys : EmptyLayer.measures[k] = None
  BY EmptyLayerType DEF EmptyLayer
<1>4. ASSUME NEW kept \in SUBSET Joins, part = [EmptyLayer EXCEPT !.rels = Some(layer.rels, kept, <<>>)]
      PROVE  /\ part \in Layer /\ part.measures = EmptyLayer.measures
             /\ \A j \in Joins : part.rels[j] # <<>> => layer.rels[j] # <<>>
  <2>1. layer.rels \in [Joins -> Seq(BOOLEAN)] /\ <<>> \in Seq(BOOLEAN)
    BY <1>1 DEF Layer
  <2>2. /\ Some(layer.rels, kept, <<>>) \in [Joins -> Seq(BOOLEAN)]
        /\ \A j \in Joins : Some(layer.rels, kept, <<>>)[j] # <<>> => layer.rels[j] # <<>>
    BY <2>1 DEF Some
  <2> QED
    BY <1>3, <1>4, <2>2 DEF Layer
<1>5. ASSUME NEW kept \in SUBSET Keys,
             part = [EmptyLayer EXCEPT !.rels = layer.rels, !.measures = Some(layer.measures, kept, None),
                                       !.formats = Some(layer.formats, kept, None)]
      PROVE  /\ part \in Layer /\ part.rels = layer.rels
             /\ \A k \in Keys : part.measures[k] # None => layer.measures[k] # None
  <2>1. layer.measures \in [Keys -> Exprs \cup {None}] /\ layer.formats \in [Keys -> Formats \cup {None}]
    BY <1>1 DEF Layer
  <2>2. /\ Some(layer.measures, kept, None) \in [Keys -> Exprs \cup {None}]
        /\ Some(layer.formats, kept, None) \in [Keys -> Formats \cup {None}]
        /\ \A k \in Keys : Some(layer.measures, kept, None)[k] # None => layer.measures[k] # None
    BY <2>1 DEF Some
  <2> QED
    BY <1>1, <1>3, <1>5, <2>2 DEF Layer
<1>6. ASSUME NEW kept \in SUBSET Tables, part = [layer EXCEPT !.dates = Some(layer.dates, kept, None), !.hidden = {}]
      PROVE  part \in Layer /\ part.rels = layer.rels /\ part.measures = layer.measures
  <2>1. Some(layer.dates, kept, None) \in [Tables -> Dates \cup {None}]
    BY <1>1 DEF Layer, Some
  <2> QED
    BY <1>1, <1>6, <2>1 DEF Layer
<1>7. ASSUME NEW kept \in SUBSET layer.hidden, part = [layer EXCEPT !.hidden = kept]
      PROVE  part \in Layer /\ part.rels = layer.rels /\ part.measures = layer.measures
  <2>1. kept \subseteq Objects
    BY <1>1 DEF Layer
  <2> QED
    BY <1>1, <1>7, <2>1 DEF Layer
<1>8. /\ part \in Layer
      /\ \A j \in Joins : part.rels[j] # <<>> => layer.rels[j] # <<>>
      /\ \A k \in Keys : part.measures[k] # None => layer.measures[k] # None
  <2>1. CASE part \in AtRelationships(layer)
    BY <1>3, <1>4, <2>1 DEF AtRelationships
  <2>2. CASE part \in AtMeasures(layer)
    BY <1>5, <2>2 DEF AtMeasures
  <2>3. CASE part \in AtDateTables(layer)
    BY <1>6, <2>3 DEF AtDateTables
  <2>4. CASE part \in AtHidden(layer)
    BY <1>7, <2>4 DEF AtHidden
  <2> QED
    BY <1>2, <2>1, <2>2, <2>3, <2>4
<1> QED
  BY <1>1, <1>8

LEMMA Reloaded ==
  ASSUME mem \in Schema, db \in Store, NEW c \in Clients, ReloadImported(c)
  PROVE  /\ mem' \in Schema /\ FlagsMatch'
         /\ \A j \in Joins : mem'.rels[j] # <<>> => db.rels[j] # <<>>
         /\ \A k \in Keys : mem'.measures[k] # None => db.measures[RowOf(k)] # None
<1>1. /\ AsLayer(db) \in Layer /\ AsLayer(db).rels = db.rels
      /\ \A k \in Keys : AsLayer(db).measures[k] = db.measures[RowOf(k)]
  BY AsLayerType, AsLayerParts
<1>2. \E part \in {AsLayer(db)} \cup Stopped(db) \cup AtMeasures(AsLayer(db)) : mem' = Overlay(ClearMetadata(mem), part)
  BY DEF ReloadImported
<1>3. PICK part \in {AsLayer(db)} \cup Stopped(db) \cup AtMeasures(AsLayer(db)) : mem' = Overlay(ClearMetadata(mem), part)
  BY <1>2
<1>4. /\ part \in Layer
      /\ \A j \in Joins : part.rels[j] # <<>> => db.rels[j] # <<>>
      /\ \A k \in Keys : part.measures[k] # None => db.measures[RowOf(k)] # None
  <2>1. CASE part = AsLayer(db)
    BY <1>1, <2>1
  <2>2. CASE part \in Stopped(db) \cup AtMeasures(AsLayer(db))
    BY <2>2, StoppedType
  <2> QED
    BY <1>3, <2>1, <2>2
<1>5. /\ mem' \in Schema /\ mem'.flags = Flagged(mem'.tables, mem'.hidden)
      /\ \A j \in Joins : mem'.rels[j] = part.rels[j]
      /\ \A k \in Keys : mem'.measures[k] # None => part.measures[k] # None
  BY <1>3, <1>4, OverCleared
<1> QED
  BY <1>4, <1>5 DEF FlagsMatch

LEMMA ImportTypes ==
  ASSUME Types,
         \/ \E c \in Clients : (\E d \in Documents : ImportDocument(c, d)) \/ ReloadImported(c)
         \/ \E d \in Documents : StartupImport(d)
  PROVE  Types'
<1> USE DEF Types, TypeOK
<1>1. ASSUME NEW c \in Clients, NEW d \in Documents, ImportDocument(c, d) PROVE Types'
  <2>1. db' \in Store
    BY <1>1, AsStoreType, DocumentsAssumption DEF ImportDocument
  <2>2. pending' \in [Clients -> Rest \cup {None}]
    BY <1>1 DEF ImportDocument, Later, Rest
  <2>3. (Count \/ UNCHANGED events) /\ lake' = lake
    BY <1>1 DEF ImportDocument
  <2> QED
    BY <1>1, <2>1, <2>2, <2>3, SameLake DEF ImportDocument
<1>2. ASSUME NEW c \in Clients, ReloadImported(c) PROVE Types'
  <2>1. mem' \in Schema
    BY <1>2, Reloaded
  <2>2. pending' \in [Clients -> Rest \cup {None}]
    BY <1>2 DEF ReloadImported, Later
  <2>3. (Count \/ UNCHANGED events) /\ lake' = lake /\ unsaved' = {}
    BY <1>2 DEF ReloadImported
  <2>4. UNCHANGED <<db, toml, up, monitor, status, imported, laid>>
    BY <1>2 DEF ReloadImported
  <2> QED
    BY <2>1, <2>2, <2>3, <2>4, SameLake
<1>3. ASSUME NEW d \in Documents, StartupImport(d) PROVE Types'
  <2>1. AsStore(d) \in Store /\ db' = AsStore(d)
    BY <1>3, AsStoreType, DocumentsAssumption DEF StartupImport
  <2>2. Overlay(Loaded, AsLayer(AsStore(d))) \in Schema
    BY <2>1, AsLayerType, OverlayType, LoadedType, TomlType
  <2>3. mem' \in Schema /\ laid' \in TomlFiles \cup {EmptyLayer} /\ up' \in BOOLEAN
    BY <1>3, <2>2 DEF StartupImport
  <2>4. status' \in [failed : BOOLEAN, warning : BOOLEAN]
    BY <1>3, WarningType DEF StartupImport
  <2>5. (Count \/ UNCHANGED events) /\ lake' = lake /\ imported' = imported \cup {"start"}
    BY <1>3 DEF StartupImport
  <2>6. UNCHANGED <<toml, pending, monitor, unsaved>>
    BY <1>3 DEF StartupImport
  <2> QED
    BY <2>1, <2>3, <2>4, <2>5, <2>6, SameLake
<1> QED
  BY <1>1, <1>2, <1>3

LEMMA NotRefreshedType == Types /\ NotRefreshed => status' \in [failed : BOOLEAN, warning : BOOLEAN]
  BY DEF Types, TypeOK, NotRefreshed

LEMMA MonitorType ==
  ASSUME NEW known, known = None \/ known \in 0 .. MaxEvents
  PROVE  [on |-> TRUE, known |-> known, seen |-> None, done |-> FALSE]
           \in [on : BOOLEAN, known : 0 .. MaxEvents \cup {None}, seen : 0 .. MaxEvents \cup {None}, done : BOOLEAN]
  OBVIOUS

LEMMA MonitorTypes ==
  ASSUME Types, Refresh \/ MonitorStart \/ MonitorPoll \/ MonitorRefresh \/ MonitorStatus
  PROVE  Types'
<1> USE DEF Types, TypeOK
<1>1. CASE Refresh
  <2>1. mem' \in Schema /\ laid' \in TomlFiles \cup {EmptyLayer} /\ unsaved' \subseteq Keys /\ status' \in [failed : BOOLEAN, warning : BOOLEAN]
    BY <1>1, RefreshedKeeps, NotRefreshedType DEF Refresh, NotRefreshed
  <2>2. (Count \/ UNCHANGED events) /\ lake' = lake
    BY <1>1 DEF Refresh
  <2> QED
    BY <1>1, <2>1, <2>2, SameLake DEF Refresh
<1>2. CASE MonitorStart
  <2>1. monitor' \in [on : BOOLEAN, known : 0 .. MaxEvents \cup {None}, seen : 0 .. MaxEvents \cup {None}, done : BOOLEAN]
    <3>1. lake.version \in 0 .. MaxEvents
      OBVIOUS
    <3>2. \/ monitor' = [on |-> TRUE, known |-> lake.version, seen |-> None, done |-> FALSE]
          \/ monitor' = [on |-> TRUE, known |-> None, seen |-> None, done |-> FALSE]
      BY <1>2 DEF MonitorStart
    <3> QED
      BY <3>1, <3>2, MonitorType
  <2>2. (Count \/ UNCHANGED events) /\ lake' = lake
    BY <1>2 DEF MonitorStart
  <2> QED
    BY <1>2, <2>1, <2>2, SameLake DEF MonitorStart, history
<1>3. CASE MonitorPoll
  <2>1. monitor' \in [on : BOOLEAN, known : 0 .. MaxEvents \cup {None}, seen : 0 .. MaxEvents \cup {None}, done : BOOLEAN]
    BY <1>3 DEF MonitorPoll
  <2>2. (Count \/ UNCHANGED events) /\ lake' = lake
    BY <1>3 DEF MonitorPoll
  <2> QED
    BY <1>3, <2>1, <2>2, SameLake DEF MonitorPoll, history
<1>4. CASE MonitorRefresh
  <2>1. mem' \in Schema /\ laid' \in TomlFiles \cup {EmptyLayer} /\ unsaved' \subseteq Keys /\ status' \in [failed : BOOLEAN, warning : BOOLEAN]
    BY <1>4, RefreshedKeeps, NotRefreshedType DEF MonitorRefresh, NotRefreshed
  <2>2. monitor' \in [on : BOOLEAN, known : 0 .. MaxEvents \cup {None}, seen : 0 .. MaxEvents \cup {None}, done : BOOLEAN]
    BY <1>4 DEF MonitorRefresh
  <2>3. (Count \/ UNCHANGED events) /\ lake' = lake
    BY <1>4 DEF MonitorRefresh
  <2> QED
    BY <1>4, <2>1, <2>2, <2>3, SameLake DEF MonitorRefresh
<1>5. CASE MonitorStatus
  <2>1. monitor' \in [on : BOOLEAN, known : 0 .. MaxEvents \cup {None}, seen : 0 .. MaxEvents \cup {None}, done : BOOLEAN]
    BY <1>5 DEF MonitorStatus
  <2>2. UNCHANGED events /\ lake' = lake
    BY <1>5 DEF MonitorStatus
  <2> QED
    BY <1>5, <2>1, <2>2, SameLake DEF MonitorStatus, history
<1> QED
  BY <1>1, <1>2, <1>3, <1>4, <1>5

LEMMA OutsideTypes ==
  ASSUME Types,
         \/ Crash \/ Startup
         \/ \E tables \in SUBSET Tables : ChangeTables(tables)
         \/ \E d \in TomlFiles : EditTOML(d)
  PROVE  Types'
<1> USE DEF Types, TypeOK
<1>1. CASE Crash
  <2>1. mem' \in Schema
    <3>1. {} \in SUBSET Tables
      OBVIOUS
    <3> QED
      BY <1>1, <3>1, IntrospectedType DEF Crash
  <2>2. (Count \/ UNCHANGED events) /\ lake' = lake
    BY <1>1 DEF Crash
  <2>3. pending' \in [Clients -> Rest \cup {None}]
    BY <1>1 DEF Crash
  <2> QED
    BY <1>1, <2>1, <2>2, <2>3, SameLake DEF Crash
<1>2. CASE Startup
  <2>1. /\ mem' \in Schema /\ laid' \in TomlFiles \cup {EmptyLayer} /\ unsaved' \subseteq Keys
        /\ status' \in [failed : BOOLEAN, warning : BOOLEAN]
    BY <1>2, RefreshedKeeps DEF Startup
  <2>2. UNCHANGED events /\ lake' = lake
    BY <1>2 DEF Startup
  <2> QED
    BY <1>2, <2>1, <2>2, SameLake DEF Startup
<1>3. ASSUME NEW tables \in SUBSET Tables, ChangeTables(tables) PROVE Types'
  <2>1. events < MaxEvents /\ events' = events + 1 /\ lake' = [tables |-> tables, version |-> lake.version + 1]
    BY <1>3 DEF ChangeTables, Count
  <2>2. events \in 0 .. MaxEvents /\ lake.version \in 0 .. MaxEvents /\ lake.version <= events /\ MaxEvents \in Nat
    BY FirstAssumption
  <2>3. lake.version + 1 \in 0 .. MaxEvents /\ events + 1 \in 0 .. MaxEvents /\ lake.version + 1 <= events + 1
    BY <2>1, <2>2
  <2> QED
    BY <1>3, <2>1, <2>3 DEF ChangeTables, history
<1>4. ASSUME NEW d \in TomlFiles, EditTOML(d) PROVE Types'
  <2>1. (Count \/ UNCHANGED events) /\ lake' = lake
    BY <1>4 DEF EditTOML
  <2> QED
    BY <1>4, <2>1, SameLake DEF EditTOML, history
<1> QED
  BY <1>1, <1>2, <1>3, <1>4

LEMMA TypesStep == Types /\ [Next]_vars => Types'
<1> SUFFICES ASSUME Types, [Next]_vars PROVE Types'
  OBVIOUS
<1>1. CASE UNCHANGED vars
  BY <1>1 DEF vars, Types, TypeOK
<1>2. CASE Next
  BY <1>2, MeasureTypes, DesignationTypes, RelationshipTypes, ImportTypes, MonitorTypes, OutsideTypes DEF Next
<1> QED
  BY <1>1, <1>2

-----------------------------------------------------------------------------
(* Relationships: fewer of them are no more ambiguous. *)

LEMMA EdgeOf ==
  ASSUME NEW rels, NEW e
  PROVE  e \in Edges(rels) <=> \E j \in Joins : \E i \in DOMAIN rels[j] : e = [join |-> j, at |-> i]
  BY DEF Edges

LEMMA FewerStillValid ==
  ASSUME NEW rels \in [Joins -> Seq(BOOLEAN)], NEW j \in Joins, ValidateFilterPaths(rels)
  PROVE  ValidateFilterPaths([rels EXCEPT ![j] = <<>>])
<1> DEFINE less == [rels EXCEPT ![j] = <<>>]
<1>1. \A k \in Joins : less[k] = IF k = j THEN <<>> ELSE rels[k]
  OBVIOUS
<1>2. DOMAIN <<>> = {}
  OBVIOUS
<1> HIDE DEF less
<1>3. \A e \in Edges(less) : e \in Edges(rels) /\ less[e.join] = rels[e.join]
  <2> SUFFICES ASSUME NEW e \in Edges(less) PROVE e \in Edges(rels) /\ less[e.join] = rels[e.join]
    OBVIOUS
  <2>1. PICK k \in Joins : \E i \in DOMAIN less[k] : e = [join |-> k, at |-> i]
    BY EdgeOf
  <2>2. k # j
    BY <1>1, <1>2, <2>1
  <2>3. less[k] = rels[k] /\ e.join = k
    BY <1>1, <2>1, <2>2
  <2>4. \E i \in DOMAIN rels[k] : e = [join |-> k, at |-> i]
    BY <2>1, <2>3
  <2> QED
    BY <2>3, <2>4, EdgeOf
<1>4. ASSUME NEW e \in Edges(less), less[e.join][e.at] PROVE Bridge(e, less)
  <2>1. rels[e.join][e.at] /\ e \in Edges(rels)
    BY <1>3, <1>4
  <2>2. Bridge(e, rels)
    BY <2>1 DEF ValidateFilterPaths
  <2> QED
    BY <1>3, <2>2 DEF Bridge
<1> QED
  BY <1>4 DEF ValidateFilterPaths, less

LEMMA NoneValid == ValidateFilterPaths([j \in Joins |-> <<>>])
<1> DEFINE rels == [j \in Joins |-> <<>>]
<1>1. \A j \in Joins : rels[j] = <<>> /\ DOMAIN <<>> = {}
  OBVIOUS
<1> HIDE DEF rels
<1>2. Edges(rels) = {}
  BY <1>1, EdgeOf
<1> QED
  BY <1>2 DEF ValidateFilterPaths, rels

-----------------------------------------------------------------------------
(* NothingUnstored, part by part. *)

Quiet == up /\ "start" \notin imported /\ Busy("reload") = {}

LinkStored(j) ==
  mem.rels[j] # <<>> =>
    db.rels[j] # <<>> \/ laid.rels[j] # <<>> \/ \E c \in Busy("unlink") : pending[c].join = j

MeasureStored(k) ==
  mem.measures[k] # None /\ k.table \notin Quoted /\ k \notin unsaved =>
    \/ db.measures[RowOf(k)] # None \/ laid.measures[k] # None
    \/ \E c \in Busy("save") : pending[c].key = k
    \/ \E c \in Busy("drop") : pending[c].row = RowOf(k)

LEMMA StoredParts == NothingUnstored <=> (Quiet => (\A j \in Joins : LinkStored(j)) /\ \A k \in Keys : MeasureStored(k))
  BY DEF NothingUnstored, Quiet, LinkStored, MeasureStored

LEMMA StoredPartsNext ==
  ASSUME Quiet' => (\A j \in Joins : LinkStored(j)') /\ \A k \in Keys : MeasureStored(k)'
  PROVE  NothingUnstored'
  BY DEF NothingUnstored, Quiet, LinkStored, MeasureStored

\* The other requests, and those with another rest, stay under way.
Kept(op) == \A c \in Clients : pending[c] # None /\ pending[c].op = op => pending'[c] = pending[c]
New(op) == \E c \in Clients : pending'[c] # None /\ pending'[c].op = op /\ pending'[c] # pending[c]

LEMMA KeptBusy ==
  ASSUME NEW op, Kept(op)
  PROVE  \A c \in Busy(op) : c \in Busy(op)' /\ pending'[c] = pending[c]
  BY DEF Kept, Busy

LEMMA StillQuiet ==
  ASSUME Kept("reload"), up' => up, imported \subseteq imported', Quiet'
  PROVE  Quiet
<1>1. Busy("reload") = {}
  BY KeptBusy DEF Quiet
<1> QED
  BY <1>1 DEF Quiet

LEMMA LinksKept ==
  ASSUME NEW j \in Joins, LinkStored(j), mem'.rels[j] = mem.rels[j], db'.rels[j] = db.rels[j], laid' = laid, Kept("unlink")
  PROVE  LinkStored(j)'
  BY KeptBusy DEF LinkStored

LEMMA MeasuresKept ==
  ASSUME NEW k \in Keys, MeasureStored(k), mem'.measures[k] = mem.measures[k], db'.measures[RowOf(k)] = db.measures[RowOf(k)],
         laid' = laid, k \in unsaved => k \in unsaved', Kept("save"), Kept("drop")
  PROVE  MeasureStored(k)'
<1> SUFFICES ASSUME mem'.measures[k] # None, k.table \notin Quoted, k \notin unsaved' PROVE MeasureStored(k)'
  BY DEF MeasureStored
<1>1. \/ db.measures[RowOf(k)] # None \/ laid.measures[k] # None
      \/ \E c \in Busy("save") : pending[c].key = k
      \/ \E c \in Busy("drop") : pending[c].row = RowOf(k)
  BY DEF MeasureStored
<1>2. \/ db'.measures[RowOf(k)] # None \/ laid'.measures[k] # None
      \/ \E c \in Busy("save")' : pending'[c].key = k
      \/ \E c \in Busy("drop")' : pending'[c].row = RowOf(k)
  BY <1>1, KeptBusy
<1> QED
  BY <1>2 DEF MeasureStored, RowOf

\* Who was idle, or had this rest, is the only one whose rest changes.
LEMMA LaterKeeps ==
  ASSUME TypeOK, NEW c \in Clients, NEW rest, Later(c, rest), NEW op, pending[c] # None => pending[c].op # op
  PROVE  Kept(op) /\ pending'[c] = rest
  BY DEF TypeOK, Later, Kept

LEMMA SameKeeps == ASSUME NEW op, UNCHANGED pending PROVE Kept(op) /\ ~New(op)
  BY DEF Kept, New

-----------------------------------------------------------------------------
(* The properties, action by action. *)

Props == FlagsMatch /\ ReloadsImported /\ GraphUnambiguous /\ NothingUnstored

LEMMA NothingTouched ==
  ASSUME Props, UNCHANGED <<mem, db, laid, unsaved, imported, pending, up>>
  PROVE  Props'
  BY DEF Props, FlagsMatch, ReloadsImported, GraphUnambiguous, NothingUnstored, Busy

LEMMA SameFlags ==
  ASSUME FlagsMatch, mem'.tables = mem.tables, mem'.hidden = mem.hidden, mem'.flags = mem.flags
  PROVE  FlagsMatch'
  BY DEF FlagsMatch

LEMMA SameGraph ==
  ASSUME GraphUnambiguous, mem'.rels = mem.rels, imported \subseteq imported'
  PROVE  GraphUnambiguous'
<1>1. imported' = {} => imported = {}
  OBVIOUS
<1> QED
  BY <1>1 DEF GraphUnambiguous

LEMMA SameReloads ==
  ASSUME ReloadsImported, ~New("reload"), imported \subseteq imported'
  PROVE  ReloadsImported'
  BY DEF ReloadsImported, New, Busy

LEMMA LaterReloads ==
  ASSUME TypeOK, NEW c \in Clients, NEW rest, Later(c, rest), rest # None => rest.op # "reload"
  PROVE  ~New("reload")
  BY DEF TypeOK, Later, New

LEMMA MeasureProps ==
  ASSUME TypeOK, Props, NEW c \in Clients,
         \/ \E k \in Keys, e \in Exprs, f \in Formats \cup {None} : AddMeasure(c, k, e, f)
         \/ SaveMeasure(c)
         \/ \E r \in Rows : DeleteMeasure(c, r)
         \/ DropMeasure(c)
  PROVE  Props'
<1>1. ASSUME NEW k \in Keys, NEW e \in Exprs, NEW f \in Formats \cup {None}, AddMeasure(c, k, e, f)
      PROVE  Props'
  <2> DEFINE rest == [op |-> "save", key |-> k, expr |-> e, format |-> f]
  <2>1. /\ mem' = [mem EXCEPT !.measures[k] = e, !.formats[k] = f]
        /\ UNCHANGED <<db, up, imported, laid, unsaved>> /\ Later(c, rest) /\ pending[c] = None
    BY <1>1 DEF AddMeasure, Idle, history
  <2>2. /\ mem'.tables = mem.tables /\ mem'.hidden = mem.hidden /\ mem'.flags = mem.flags /\ mem'.rels = mem.rels
        /\ \A k2 \in Keys : k2 # k => mem'.measures[k2] = mem.measures[k2]
    BY <2>1 DEF TypeOK, Schema
  <2>3. rest \in Rest /\ rest # None
    BY RestAssumption DEF Rest
  <2>4. Kept("save") /\ Kept("drop") /\ Kept("unlink") /\ Kept("reload") /\ pending'[c] = rest
    BY <2>1, LaterKeeps
  <2>5. ~New("reload")
    BY <2>1, LaterReloads
  <2> HIDE DEF rest
  <2>6. NothingUnstored'
    <3> SUFFICES ASSUME Quiet' PROVE (\A j \in Joins : LinkStored(j)') /\ \A k2 \in Keys : MeasureStored(k2)'
      BY StoredPartsNext
    <3>1. Quiet
      BY <2>1, <2>4, StillQuiet
    <3>2. (\A j \in Joins : LinkStored(j)) /\ \A k2 \in Keys : MeasureStored(k2)
      BY <3>1, StoredParts DEF Props
    <3>3. \A j \in Joins : LinkStored(j)'
      BY <2>1, <2>2, <2>4, <3>2, LinksKept
    <3>4. ASSUME NEW k2 \in Keys, k2 # k PROVE MeasureStored(k2)'
      BY <2>1, <2>2, <2>4, <3>2, <3>4, MeasuresKept
    <3>5. c \in Busy("save")' /\ pending'[c].key = k
      BY <2>3, <2>4 DEF Busy, rest
    <3>6. MeasureStored(k)'
      BY <3>5 DEF MeasureStored
    <3> QED
      BY <3>3, <3>4, <3>6
  <2> QED
    BY <2>1, <2>2, <2>5, <2>6, SameFlags, SameGraph, SameReloads DEF Props
<1>2. CASE SaveMeasure(c)
  <2>1. pending[c] \in Rest /\ pending[c] # None /\ pending[c].op = "save" /\ Later(c, None)
    BY <1>2 DEF SaveMeasure, TypeOK
  <2>2. PICK p \in Rest : p = pending[c]
    BY <2>1
  <2>3. p.key \in Keys /\ p.expr \in Exprs /\ p.expr # None
    BY <2>1, <2>2, NoneAssumption DEF Rest
  <2>4. PICK key \in Keys : key = p.key
    BY <2>3
  <2>5. /\ UNCHANGED <<mem, up, imported, laid>>
        /\ \/ /\ db' = [db EXCEPT !.measures[RowOf(key)] = p.expr, !.formats[RowOf(key)] = p.format]
              /\ unsaved' = unsaved \ {key}
           \/ unsaved' = unsaved \cup {key} /\ UNCHANGED db
    BY <1>2, <2>2, <2>4 DEF SaveMeasure
  <2>6. Kept("drop") /\ Kept("unlink") /\ Kept("reload")
    BY <2>1, LaterKeeps
  <2>7. \A d \in Clients \ {c} : pending'[d] = pending[d]
    BY <2>1 DEF Later, TypeOK
  <2>8. ~New("reload")
    BY <2>1, LaterReloads
  <2>9. RowOf(key) \in Rows /\ db \in Store
    BY RowOfType DEF TypeOK
  <2>10. db'.rels = db.rels
    BY <2>5, <2>9 DEF Store
  <2>11. \A r \in Rows : db'.measures[r] = db.measures[r] \/ db'.measures[r] = p.expr
    BY <2>5, <2>9 DEF Store
  <2>12. db'.measures[RowOf(key)] = p.expr \/ key \in unsaved'
    BY <2>5, <2>9 DEF Store
  <2>13. \A k \in Keys : k # key /\ k \in unsaved => k \in unsaved'
    BY <2>5
  <2>14. NothingUnstored'
    <3> SUFFICES ASSUME Quiet' PROVE (\A j \in Joins : LinkStored(j)') /\ \A k2 \in Keys : MeasureStored(k2)'
      BY StoredPartsNext
    <3>1. Quiet
      BY <2>5, <2>6, StillQuiet
    <3>2. (\A j \in Joins : LinkStored(j)) /\ \A k2 \in Keys : MeasureStored(k2)
      BY <3>1, StoredParts DEF Props
    <3>3. \A j \in Joins : LinkStored(j)'
      BY <2>5, <2>6, <2>10, <3>2, LinksKept
    <3>4. MeasureStored(key)'
      BY <2>3, <2>12 DEF MeasureStored, RowOf
    <3>5. ASSUME NEW k \in Keys, k # key, mem'.measures[k] # None, k.table \notin Quoted, k \notin unsaved' PROVE MeasureStored(k)'
      <4>1. mem.measures[k] # None /\ k \notin unsaved
        BY <2>5, <2>13, <3>5
      <4>2. CASE db.measures[RowOf(k)] # None \/ laid.measures[k] # None
        <5>1. db'.measures[RowOf(k)] # None \/ laid'.measures[k] # None
          BY <2>3, <2>5, <2>11, <4>2, RowOfType
        <5> QED
          BY <5>1 DEF MeasureStored, RowOf
      <4>3. ASSUME NEW d \in Busy("save"), pending[d].key = k PROVE MeasureStored(k)'
        <5>1. d # c /\ d \in Clients
          BY <2>2, <2>4, <3>5, <4>3 DEF Busy
        <5>2. d \in Busy("save")' /\ pending'[d].key = k
          BY <2>7, <4>3, <5>1 DEF Busy
        <5> QED
          BY <5>2 DEF MeasureStored
      <4>4. ASSUME NEW d \in Busy("drop"), pending[d].row = RowOf(k) PROVE MeasureStored(k)'
        <5>1. d \in Busy("drop")' /\ pending'[d].row = RowOf(k)
          BY <2>6, <4>4, KeptBusy
        <5> QED
          BY <5>1 DEF MeasureStored, RowOf
      <4> QED
        BY <3>2, <3>5, <4>1, <4>2, <4>3, <4>4 DEF MeasureStored
    <3>6. ASSUME NEW k \in Keys, k # key PROVE MeasureStored(k)'
      <4> SUFFICES ASSUME mem'.measures[k] # None, k.table \notin Quoted, k \notin unsaved' PROVE MeasureStored(k)'
        BY DEF MeasureStored
      <4> QED
        BY <3>5, <3>6
    <3> QED
      BY <3>3, <3>4, <3>6
  <2> QED
    BY <2>5, <2>8, <2>14, SameFlags, SameGraph, SameReloads DEF Props
<1>3. ASSUME NEW r \in Rows, DeleteMeasure(c, r) PROVE Props'
  <2> DEFINE rest == [op |-> "drop", row |-> r]
  <2>1. /\ db' = [db EXCEPT !.measures[r] = None, !.formats[r] = None]
        /\ UNCHANGED <<mem, up, imported, laid, unsaved>> /\ Later(c, rest) /\ pending[c] = None
    BY <1>3 DEF DeleteMeasure, Idle, history
  <2>2. db'.rels = db.rels /\ \A r2 \in Rows : r2 # r => db'.measures[r2] = db.measures[r2]
    BY <2>1 DEF TypeOK, Store
  <2>3. rest \in Rest /\ rest # None
    BY RestAssumption DEF Rest
  <2>4. Kept("save") /\ Kept("drop") /\ Kept("unlink") /\ Kept("reload") /\ pending'[c] = rest
    BY <2>1, LaterKeeps
  <2>5. ~New("reload")
    BY <2>1, LaterReloads
  <2> HIDE DEF rest
  <2>6. NothingUnstored'
    <3> SUFFICES ASSUME Quiet' PROVE (\A j \in Joins : LinkStored(j)') /\ \A k2 \in Keys : MeasureStored(k2)'
      BY StoredPartsNext
    <3>1. Quiet
      BY <2>1, <2>4, StillQuiet
    <3>2. (\A j \in Joins : LinkStored(j)) /\ \A k2 \in Keys : MeasureStored(k2)
      BY <3>1, StoredParts DEF Props
    <3>3. \A j \in Joins : LinkStored(j)'
      BY <2>1, <2>2, <2>4, <3>2, LinksKept
    <3>4. ASSUME NEW k \in Keys, RowOf(k) # r PROVE MeasureStored(k)'
      BY <2>1, <2>2, <2>4, <3>2, <3>4, RowOfType, MeasuresKept
    <3>5. c \in Busy("drop")' /\ pending'[c].row = r
      BY <2>3, <2>4 DEF Busy, rest
    <3>6. ASSUME NEW k \in Keys, RowOf(k) = r PROVE MeasureStored(k)'
      BY <3>5, <3>6 DEF MeasureStored, RowOf
    <3> QED
      BY <3>3, <3>4, <3>6
  <2> QED
    BY <2>1, <2>5, <2>6, SameFlags, SameGraph, SameReloads DEF Props
<1>4. CASE DropMeasure(c)
  <2>1. pending[c] \in Rest /\ pending[c] # None /\ pending[c].op = "drop" /\ Later(c, None)
    BY <1>4 DEF DropMeasure, TypeOK
  <2>2. PICK r \in Rows : r = pending[c].row
    BY <2>1 DEF Rest
  <2>3. PICK key \in Keys : key = [table |-> r.table, name |-> r.name]
    BY DEF Rows, Keys
  <2>4. /\ mem' = [mem EXCEPT !.measures[key] = IF r.quoted THEN @ ELSE None, !.formats[key] = None]
        /\ unsaved' = IF r.quoted THEN unsaved ELSE unsaved \ {key}
        /\ UNCHANGED <<db, up, imported, laid>>
    BY <1>4, <2>2, <2>3 DEF DropMeasure
  <2>5. Kept("save") /\ Kept("unlink") /\ Kept("reload")
    BY <2>1, LaterKeeps
  <2>6. \A d \in Clients \ {c} : pending'[d] = pending[d]
    BY <2>1 DEF Later, TypeOK
  <2>7. ~New("reload")
    BY <2>1, LaterReloads
  <2>8. mem'.tables = mem.tables /\ mem'.hidden = mem.hidden /\ mem'.flags = mem.flags /\ mem'.rels = mem.rels
    BY <2>4 DEF TypeOK, Schema
  <2>9. \A k \in Keys : mem'.measures[k] = IF k = key /\ ~r.quoted THEN None ELSE mem.measures[k]
    BY <2>4 DEF TypeOK, Schema
  <2>10. NothingUnstored'
    <3> SUFFICES ASSUME Quiet' PROVE (\A j \in Joins : LinkStored(j)') /\ \A k2 \in Keys : MeasureStored(k2)'
      BY StoredPartsNext
    <3>1. Quiet
      BY <2>4, <2>5, StillQuiet
    <3>2. (\A j \in Joins : LinkStored(j)) /\ \A k2 \in Keys : MeasureStored(k2)
      BY <3>1, StoredParts DEF Props
    <3>3. \A j \in Joins : LinkStored(j)'
      BY <2>4, <2>5, <2>8, <3>2, LinksKept
    <3>4. ASSUME NEW k \in Keys PROVE MeasureStored(k)'
      <4> SUFFICES ASSUME mem'.measures[k] # None, k.table \notin Quoted, k \notin unsaved' PROVE MeasureStored(k)'
        BY DEF MeasureStored
      <4>1. ~(k = key /\ ~r.quoted) /\ mem.measures[k] # None
        BY <2>9
      <4>2. k \notin unsaved
        BY <2>4, <4>1
      <4>3. RowOf(k) # r
        <5> SUFFICES ASSUME RowOf(k) = r PROVE FALSE
          OBVIOUS
        <5>0. r.table = k.table /\ r.name = k.name
          BY DEF RowOf
        <5>1. ~r.quoted
          BY ZenonT(20) DEF RowOf
        <5>2. k = key
          BY <2>3, <5>0 DEF Keys
        <5> QED
          BY <4>1, <5>1, <5>2
      <4>4. CASE db.measures[RowOf(k)] # None \/ laid.measures[k] # None
        BY <2>4, <4>4 DEF MeasureStored, RowOf
      <4>5. ASSUME NEW d \in Busy("save"), pending[d].key = k PROVE MeasureStored(k)'
        <5>1. d \in Busy("save")' /\ pending'[d].key = k
          BY <2>5, <4>5, KeptBusy
        <5> QED
          BY <5>1 DEF MeasureStored
      <4>6. ASSUME NEW d \in Busy("drop"), pending[d].row = RowOf(k) PROVE MeasureStored(k)'
        <5>1. d # c /\ d \in Clients
          BY <2>2, <4>3, <4>6 DEF Busy
        <5>2. d \in Busy("drop")' /\ pending'[d].row = RowOf(k)
          BY <2>6, <4>6, <5>1 DEF Busy
        <5> QED
          BY <5>2 DEF MeasureStored, RowOf
      <4> QED
        BY <3>2, <4>1, <4>2, <4>4, <4>5, <4>6 DEF MeasureStored
    <3> QED
      BY <3>3, <3>4
  <2> QED
    BY <2>4, <2>7, <2>8, <2>10, SameFlags, SameGraph, SameReloads DEF Props
<1> QED
  BY <1>1, <1>2, <1>3, <1>4

\* Dates and hidden designations change neither relationships nor measures.
LEMMA NothingDropped ==
  ASSUME Props, mem'.rels = mem.rels, mem'.measures = mem.measures, db'.rels = db.rels, db'.measures = db.measures,
         UNCHANGED <<up, pending, laid, unsaved, imported>>
  PROVE  ReloadsImported' /\ GraphUnambiguous' /\ NothingUnstored'
<1>1. \A op : Kept(op) /\ ~New(op)
  BY SameKeeps
<1>2. ReloadsImported' /\ GraphUnambiguous'
  BY <1>1, SameReloads, SameGraph DEF Props
<1>3. NothingUnstored'
  <2> SUFFICES ASSUME Quiet' PROVE (\A j \in Joins : LinkStored(j)') /\ \A k \in Keys : MeasureStored(k)'
    BY StoredPartsNext
  <2>1. (\A j \in Joins : LinkStored(j)) /\ \A k \in Keys : MeasureStored(k)
    BY <1>1, StillQuiet, StoredParts DEF Props
  <2> QED
    BY <1>1, <2>1, LinksKept, MeasuresKept
<1> QED
  BY <1>2, <1>3

LEMMA DesignationProps ==
  ASSUME TypeOK, Props,
         \/ \E t \in Tables : \E column \in DateColumns[t] : SetDateTable(t, column)
         \/ DeleteDateTable
         \/ \E o \in Objects : Hide(o)
         \/ \E o \in Objects : Unhide(o)
  PROVE  Props'
<1>1. ASSUME NEW dates, mem' = [mem EXCEPT !.dates = dates], db' = [db EXCEPT !.dates = dates],
             UNCHANGED <<up, pending, laid, unsaved, imported>>
      PROVE  Props'
  <2>1. /\ mem'.rels = mem.rels /\ mem'.measures = mem.measures /\ db'.rels = db.rels /\ db'.measures = db.measures
        /\ mem'.tables = mem.tables /\ mem'.hidden = mem.hidden /\ mem'.flags = mem.flags
    BY <1>1 DEF TypeOK, Schema, Store
  <2> QED
    BY <1>1, <2>1, NothingDropped, SameFlags DEF Props
<1>2. ASSUME NEW t \in Tables, NEW column \in DateColumns[t], SetDateTable(t, column) PROVE Props'
  BY <1>1, <1>2 DEF SetDateTable, history
<1>3. CASE DeleteDateTable
  BY <1>1, <1>3 DEF DeleteDateTable, history
<1>4. ASSUME NEW o \in Objects, Hide(o) PROVE Props'
  <2>1. /\ o.table \in mem.tables /\ mem' = [mem EXCEPT !.hidden = @ \cup {o}, !.flags = @ \cup {o}]
        /\ db' = [db EXCEPT !.hidden = @ \cup {o}] /\ UNCHANGED <<up, pending, laid, unsaved, imported>>
    BY <1>4 DEF Hide, history
  <2>2. /\ mem'.rels = mem.rels /\ mem'.measures = mem.measures /\ db'.rels = db.rels /\ db'.measures = db.measures
        /\ mem'.tables = mem.tables /\ mem'.hidden = mem.hidden \cup {o} /\ mem'.flags = mem.flags \cup {o}
    BY <2>1 DEF TypeOK, Schema, Store
  <2>3. FlagsMatch'
    BY <2>1, <2>2 DEF Props, FlagsMatch, Flagged
  <2> QED
    BY <2>1, <2>2, <2>3, NothingDropped DEF Props
<1>5. ASSUME NEW o \in Objects, Unhide(o) PROVE Props'
  <2>1. /\ mem' = [mem EXCEPT !.hidden = @ \ {o}, !.flags = @ \ {o}]
        /\ db' = [db EXCEPT !.hidden = @ \ {o}] /\ UNCHANGED <<up, pending, laid, unsaved, imported>>
    BY <1>5 DEF Unhide, history
  <2>2. /\ mem'.rels = mem.rels /\ mem'.measures = mem.measures /\ db'.rels = db.rels /\ db'.measures = db.measures
        /\ mem'.tables = mem.tables /\ mem'.hidden = mem.hidden \ {o} /\ mem'.flags = mem.flags \ {o}
    BY <2>1 DEF TypeOK, Schema, Store
  <2>3. FlagsMatch'
    BY <2>2 DEF Props, FlagsMatch, Flagged
  <2> QED
    BY <2>1, <2>2, <2>3, NothingDropped DEF Props
<1> QED
  BY <1>2, <1>3, <1>4, <1>5

LEMMA AddProps ==
  ASSUME TypeOK, Props, NEW j \in Joins, NEW bidi \in BOOLEAN, AddRelationship(j, bidi)
  PROVE  Props'
<1>1. UNCHANGED <<up, pending, laid, unsaved, imported>> /\ mem \in Schema /\ db \in Store
  BY DEF AddRelationship, history, TypeOK
<1>2. CASE mem' = mem /\ db' = db
  BY <1>1, <1>2, NothingTouched
<1>3. CASE /\ mem' = [mem EXCEPT !.rels = [mem.rels EXCEPT ![j] = Upsert(@, bidi)]]
           /\ ValidateFilterPaths(mem'.rels) /\ db' = [db EXCEPT !.rels[j] = <<bidi>>]
  <2>1. /\ mem'.tables = mem.tables /\ mem'.hidden = mem.hidden /\ mem'.flags = mem.flags
        /\ mem'.measures = mem.measures /\ db'.measures = db.measures
    BY <1>1, <1>3 DEF Schema, Store
  <2>2. /\ \A i \in Joins \ {j} : mem'.rels[i] = mem.rels[i] /\ db'.rels[i] = db.rels[i]
        /\ db'.rels[j] = <<bidi>>
    BY <1>1, <1>3 DEF Schema, Store
  <2>3. \A op : Kept(op) /\ ~New(op)
    BY <1>1, SameKeeps
  <2>4. NothingUnstored'
    <3> SUFFICES ASSUME Quiet' PROVE (\A i \in Joins : LinkStored(i)') /\ \A k \in Keys : MeasureStored(k)'
      BY StoredPartsNext
    <3>1. (\A i \in Joins : LinkStored(i)) /\ \A k \in Keys : MeasureStored(k)
      BY <1>1, <2>3, StillQuiet, StoredParts DEF Props
    <3>2. LinkStored(j)'
      <4>1. <<bidi>> # <<>>
        OBVIOUS
      <4> QED
        BY <2>2, <4>1 DEF LinkStored
    <3>3. \A i \in Joins \ {j} : LinkStored(i)'
      BY <1>1, <2>2, <2>3, <3>1, LinksKept
    <3> QED
      BY <1>1, <2>1, <2>3, <3>1, <3>2, <3>3, MeasuresKept
  <2>5. GraphUnambiguous' /\ ReloadsImported'
    BY <1>1, <1>3, <2>3, SameReloads DEF Props, GraphUnambiguous
  <2> QED
    BY <2>1, <2>4, <2>5, SameFlags DEF Props
<1> QED
  BY <1>1, <1>2, <1>3, AddOrNot

LEMMA ReplaceProps ==
  ASSUME TypeOK, Props, NEW old \in Joins, NEW new \in Joins, NEW bidi \in BOOLEAN, ReplaceRelationship(old, new, bidi)
  PROVE  Props'
<1>1. UNCHANGED <<up, pending, laid, unsaved, imported>> /\ mem \in Schema /\ db \in Store
  BY DEF ReplaceRelationship, history, TypeOK
<1> DEFINE candidate == [[mem.rels EXCEPT ![old] = <<>>] EXCEPT ![new] = Append(@, bidi)]
           stored == [db.rels EXCEPT ![old] = <<>>, ![new] = <<bidi>>]
<1>2. mem' = [mem EXCEPT !.rels = candidate] /\ db' = [db EXCEPT !.rels = stored] /\ ValidateFilterPaths(candidate)
  BY DEF ReplaceRelationship
<1>3. /\ \A i \in Joins \ {old, new} : candidate[i] = mem.rels[i] /\ stored[i] = db.rels[i]
      /\ stored[new] = <<bidi>> /\ (old # new => candidate[old] = <<>>)
  BY <1>1 DEF Schema, Store
<1> HIDE DEF candidate, stored
<1>4. /\ mem'.rels = candidate /\ db'.rels = stored /\ mem'.measures = mem.measures /\ db'.measures = db.measures
      /\ mem'.tables = mem.tables /\ mem'.hidden = mem.hidden /\ mem'.flags = mem.flags
  BY <1>1, <1>2 DEF Schema, Store
<1>5. \A op : Kept(op) /\ ~New(op)
  BY <1>1, SameKeeps
<1>6. NothingUnstored'
  <2> SUFFICES ASSUME Quiet' PROVE (\A i \in Joins : LinkStored(i)') /\ \A k \in Keys : MeasureStored(k)'
    BY StoredPartsNext
  <2>1. (\A i \in Joins : LinkStored(i)) /\ \A k \in Keys : MeasureStored(k)
    BY <1>1, <1>5, StillQuiet, StoredParts DEF Props
  <2>2. LinkStored(new)'
    <3>1. <<bidi>> # <<>>
      OBVIOUS
    <3> QED
      BY <1>3, <1>4, <3>1 DEF LinkStored
  <2>3. old # new => LinkStored(old)'
    BY <1>3, <1>4 DEF LinkStored
  <2>4. \A i \in Joins \ {old, new} : LinkStored(i)'
    BY <1>1, <1>3, <1>4, <1>5, <2>1, LinksKept
  <2> QED
    BY <1>1, <1>4, <1>5, <2>1, <2>2, <2>3, <2>4, MeasuresKept
<1>7. GraphUnambiguous' /\ ReloadsImported'
  BY <1>1, <1>2, <1>4, <1>5, SameReloads DEF Props, GraphUnambiguous
<1> QED
  BY <1>4, <1>6, <1>7, SameFlags DEF Props

LEMMA UnlinkProps ==
  ASSUME TypeOK, Props, NEW c \in Clients,
         (\E j \in Joins : DeleteRelationship(c, j)) \/ RemoveRelationship(c)
  PROVE  Props'
<1>1. ASSUME NEW j \in Joins, DeleteRelationship(c, j) PROVE Props'
  <2> DEFINE rest == [op |-> "unlink", join |-> j]
  <2>1. /\ UNCHANGED <<mem, up, imported, laid, unsaved>> /\ db' = [db EXCEPT !.rels[j] = <<>>]
        /\ Later(c, rest) /\ pending[c] = None
    BY <1>1 DEF DeleteRelationship, Idle, history
  <2>2. db'.measures = db.measures /\ \A i \in Joins \ {j} : db'.rels[i] = db.rels[i]
    BY <2>1 DEF TypeOK, Store
  <2>3. rest \in Rest /\ rest # None
    BY RestAssumption DEF Rest
  <2>4. Kept("save") /\ Kept("drop") /\ Kept("unlink") /\ Kept("reload") /\ pending'[c] = rest
    BY <2>1, LaterKeeps
  <2>5. ~New("reload")
    BY <2>1, LaterReloads
  <2> HIDE DEF rest
  <2>6. NothingUnstored'
    <3> SUFFICES ASSUME Quiet' PROVE (\A i \in Joins : LinkStored(i)') /\ \A k \in Keys : MeasureStored(k)'
      BY StoredPartsNext
    <3>1. (\A i \in Joins : LinkStored(i)) /\ \A k \in Keys : MeasureStored(k)
      BY <2>1, <2>4, StillQuiet, StoredParts DEF Props
    <3>2. c \in Busy("unlink")' /\ pending'[c].join = j
      BY <2>3, <2>4 DEF Busy, rest
    <3>3. LinkStored(j)'
      BY <3>2 DEF LinkStored
    <3>4. \A i \in Joins \ {j} : LinkStored(i)'
      BY <2>1, <2>2, <2>4, <3>1, LinksKept
    <3> QED
      BY <2>1, <2>2, <2>4, <3>1, <3>3, <3>4, MeasuresKept
  <2> QED
    BY <2>1, <2>5, <2>6, SameFlags, SameGraph, SameReloads DEF Props
<1>2. CASE RemoveRelationship(c)
  <2>1. pending[c] \in Rest /\ pending[c] # None /\ pending[c].op = "unlink" /\ Later(c, None)
    BY <1>2 DEF RemoveRelationship, TypeOK
  <2>2. PICK j \in Joins : j = pending[c].join
    BY <2>1 DEF Rest
  <2>3. mem' = [mem EXCEPT !.rels[j] = <<>>] /\ UNCHANGED <<db, up, imported, laid, unsaved>>
    BY <1>2, <2>2 DEF RemoveRelationship, history
  <2>4. /\ mem'.rels = [mem.rels EXCEPT ![j] = <<>>] /\ mem'.measures = mem.measures
        /\ mem'.tables = mem.tables /\ mem'.hidden = mem.hidden /\ mem'.flags = mem.flags
    BY <2>3 DEF TypeOK, Schema
  <2>5. mem'.rels[j] = <<>> /\ \A i \in Joins \ {j} : mem'.rels[i] = mem.rels[i]
    BY <2>4 DEF TypeOK, Schema
  <2>6. Kept("save") /\ Kept("drop") /\ Kept("reload")
    BY <2>1, LaterKeeps
  <2>7. \A d \in Clients \ {c} : pending'[d] = pending[d]
    BY <2>1 DEF Later, TypeOK
  <2>8. ~New("reload")
    BY <2>1, LaterReloads
  <2>9. NothingUnstored'
    <3> SUFFICES ASSUME Quiet' PROVE (\A i \in Joins : LinkStored(i)') /\ \A k \in Keys : MeasureStored(k)'
      BY StoredPartsNext
    <3>1. (\A i \in Joins : LinkStored(i)) /\ \A k \in Keys : MeasureStored(k)
      BY <2>3, <2>6, StillQuiet, StoredParts DEF Props
    <3>2. ASSUME NEW i \in Joins PROVE LinkStored(i)'
      <4> SUFFICES ASSUME mem'.rels[i] # <<>> PROVE LinkStored(i)'
        BY DEF LinkStored
      <4>1. i # j /\ mem.rels[i] # <<>>
        BY <2>5
      <4>2. CASE db.rels[i] # <<>> \/ laid.rels[i] # <<>>
        BY <2>3, <4>2 DEF LinkStored
      <4>3. ASSUME NEW d \in Busy("unlink"), pending[d].join = i PROVE LinkStored(i)'
        <5>1. d # c /\ d \in Clients
          BY <2>2, <4>1, <4>3 DEF Busy
        <5>2. d \in Busy("unlink")' /\ pending'[d].join = i
          BY <2>7, <4>3, <5>1 DEF Busy
        <5> QED
          BY <5>2 DEF LinkStored
      <4> QED
        BY <3>1, <4>1, <4>2, <4>3 DEF LinkStored
    <3> QED
      BY <2>3, <2>4, <2>6, <3>1, <3>2, MeasuresKept
  <2>10. GraphUnambiguous'
    BY <2>3, <2>4, FewerStillValid DEF TypeOK, Schema, Props, GraphUnambiguous
  <2> QED
    BY <2>3, <2>4, <2>8, <2>9, <2>10, SameFlags, SameReloads DEF Props
<1> QED
  BY <1>1, <1>2

LEMMA ImportProps ==
  ASSUME TypeOK, Props,
         \/ \E c \in Clients : (\E d \in Documents : ImportDocument(c, d)) \/ ReloadImported(c)
         \/ \E d \in Documents : StartupImport(d)
  PROVE  Props'
<1>1. ASSUME NEW c \in Clients, NEW d \in Documents, ImportDocument(c, d) PROVE Props'
  <2> DEFINE rest == [op |-> "reload"]
  <2>1. mem' = mem /\ imported' = imported \cup {"post"} /\ Later(c, rest)
    BY <1>1 DEF ImportDocument
  <2>2. imported' # {} /\ rest \in Rest /\ rest # None
    BY <2>1, RestAssumption DEF Rest
  <2>3. c \in Busy("reload")'
    BY <2>1, <2>2 DEF Busy, Later, TypeOK
  <2> QED
    BY <2>1, <2>2, <2>3 DEF Props, FlagsMatch, ReloadsImported, GraphUnambiguous, NothingUnstored
<1>2. ASSUME NEW c \in Clients, ReloadImported(c) PROVE Props'
  <2>1. pending[c] # None /\ pending[c].op = "reload" /\ Later(c, None) /\ UNCHANGED <<db, up, imported, laid>>
    BY <1>2 DEF ReloadImported
  <2>2. c \in Busy("reload")
    BY <2>1 DEF Busy
  <2>3. imported' # {}
    BY <2>1, <2>2 DEF Props, ReloadsImported
  <2>4. /\ FlagsMatch'
        /\ \A j \in Joins : mem'.rels[j] # <<>> => db'.rels[j] # <<>>
        /\ \A k \in Keys : mem'.measures[k] # None => db'.measures[RowOf(k)] # None
    BY <1>2, <2>1, Reloaded DEF TypeOK
  <2>5. (\A j \in Joins : LinkStored(j)') /\ \A k \in Keys : MeasureStored(k)'
    BY <2>4 DEF LinkStored, MeasureStored, RowOf
  <2> QED
    BY <2>3, <2>4, <2>5, StoredPartsNext DEF Props, ReloadsImported, GraphUnambiguous
<1>3. ASSUME NEW d \in Documents, StartupImport(d) PROVE Props'
  <2>1. imported' = imported \cup {"start"}
    BY <1>3 DEF StartupImport
  <2>2. FlagsMatch'
    <3>1. CASE UNCHANGED mem
      BY <3>1 DEF Props, FlagsMatch
    <3>2. CASE mem' = Overlay(Loaded, AsLayer(AsStore(d)))
      <4>1. AsLayer(AsStore(d)) \in Layer
        BY AsStoreType, AsLayerType, DocumentsAssumption
      <4>2. Loaded \in Schema /\ Loaded.flags = Flagged(Loaded.tables, Loaded.hidden)
        BY TomlType, LoadedType, LoadedFlags DEF TypeOK
      <4>3. mem'.flags = Flagged(mem'.tables, mem'.hidden)
        BY <3>2, <4>1, <4>2, FlagsOverlaid
      <4> QED
        BY <4>3 DEF FlagsMatch
    <3> QED
      BY <1>3, <3>1, <3>2 DEF StartupImport
  <2> QED
    BY <2>1, <2>2 DEF Props, ReloadsImported, GraphUnambiguous, NothingUnstored
<1> QED
  BY <1>1, <1>2, <1>3

\* A refresh shows what is stored and what dux.toml adds to it.
LEMMA RefreshProps ==
  ASSUME TypeOK, Props, Refreshed, UNCHANGED <<db, pending, imported>>
  PROVE  Props'
<1>1. /\ FlagsMatch' /\ ValidateFilterPaths(mem'.rels)
      /\ \A j \in Joins : mem'.rels[j] # <<>> => db.rels[j] # <<>> \/ laid'.rels[j] # <<>>
      /\ \A k \in Keys : mem'.measures[k] # None => db.measures[RowOf(k)] # None \/ laid'.measures[k] # None
  BY RefreshedKeeps
<1>2. (\A j \in Joins : LinkStored(j)') /\ \A k \in Keys : MeasureStored(k)'
  BY <1>1 DEF LinkStored, MeasureStored, RowOf
<1>3. ReloadsImported'
  BY SameKeeps, SameReloads DEF Props
<1> QED
  BY <1>1, <1>2, <1>3, StoredPartsNext DEF Props, GraphUnambiguous

LEMMA MonitorProps ==
  ASSUME TypeOK, Props, Refresh \/ MonitorStart \/ MonitorPoll \/ MonitorRefresh \/ MonitorStatus
  PROVE  Props'
<1>1. CASE Refresh
  <2>1. UNCHANGED <<db, up, pending, imported>> /\ (Refreshed \/ UNCHANGED <<mem, laid, unsaved>>)
    BY <1>1 DEF Refresh, NotRefreshed
  <2> QED
    BY <2>1, RefreshProps, NothingTouched
<1>2. CASE MonitorStart
  BY <1>2, NothingTouched DEF MonitorStart, history
<1>3. CASE MonitorPoll
  BY <1>3, NothingTouched DEF MonitorPoll, history
<1>4. CASE MonitorRefresh
  <2>1. UNCHANGED <<db, up, pending, imported>> /\ (Refreshed \/ UNCHANGED <<mem, laid, unsaved>>)
    BY <1>4 DEF MonitorRefresh, NotRefreshed
  <2> QED
    BY <2>1, RefreshProps, NothingTouched
<1>5. CASE MonitorStatus
  BY <1>5, NothingTouched DEF MonitorStatus, history
<1> QED
  BY <1>1, <1>2, <1>3, <1>4, <1>5

LEMMA OutsideProps ==
  ASSUME TypeOK, Props,
         \/ Crash \/ Startup
         \/ \E tables \in SUBSET Tables : ChangeTables(tables)
         \/ \E d \in TomlFiles : EditTOML(d)
  PROVE  Props'
<1>1. CASE Crash
  <2>1. up' = FALSE /\ pending' = [c \in Clients |-> None] /\ mem' = Introspected({}) /\ UNCHANGED imported
    BY <1>1 DEF Crash
  <2>2. /\ mem'.rels = [j \in Joins |-> <<>>] /\ mem'.flags = {} /\ mem'.hidden = {}
    BY <2>1, IntrospectedType
  <2>3. Busy("reload")' = {}
    BY <2>1 DEF Busy
  <2> QED
    BY <2>1, <2>2, <2>3, NoneValid DEF Props, FlagsMatch, Flagged, ReloadsImported, GraphUnambiguous, NothingUnstored
<1>2. CASE Startup
  BY <1>2, RefreshProps DEF Startup
<1>3. ASSUME NEW tables \in SUBSET Tables, ChangeTables(tables) PROVE Props'
  BY <1>3, NothingTouched DEF ChangeTables, history
<1>4. ASSUME NEW d \in TomlFiles, EditTOML(d) PROVE Props'
  BY <1>4, NothingTouched DEF EditTOML, history
<1> QED
  BY <1>1, <1>2, <1>3, <1>4

LEMMA NextInvariant == IInv /\ [Next]_vars => IInv'
<1> SUFFICES ASSUME IInv, [Next]_vars PROVE IInv'
  OBVIOUS
<1>1. TypeOK /\ Props
  BY DEF IInv, Types, Props
<1>2. Types'
  BY TypesStep DEF IInv
<1>3. Props'
  <2>1. CASE UNCHANGED vars
    BY <1>1, <2>1, NothingTouched DEF vars
  <2>2. CASE Next
    BY <1>1, <2>2, MeasureProps, DesignationProps, AddProps, ReplaceProps, UnlinkProps, ImportProps, MonitorProps, OutsideProps DEF Next
  <2> QED
    BY <2>1, <2>2
<1> QED
  BY <1>2, <1>3 DEF IInv, Props

LEMMA Invariance == Spec => []IInv
  BY InitInvariant, NextInvariant, PTL DEF Spec

-----------------------------------------------------------------------------
(* The theorems. *)

\* Memory, store, dux.toml, monitor and requests stay well typed in every
\* behaviour of duxd: TypeOK.
THEOREM TypeCorrect == Spec => []TypeOK
<1>1. IInv => TypeOK
  BY DEF IInv, Types
<1> QED
  BY <1>1, Invariance, PTL

\* The Hidden flags of GET /schema are those of the designations GET /export
\* writes, after any handler, import, refresh or restart: FlagsMatch.
THEOREM FlagsAgree == Spec => []FlagsMatch
<1>1. IInv => FlagsMatch
  BY DEF IInv
<1> QED
  BY <1>1, Invariance, PTL

\* Without imports no interleaving of handlers, refreshes, edits of dux.toml and
\* restarts makes the live relationships ambiguous: GraphUnambiguous.
THEOREM GraphStaysUnambiguous == Spec => []GraphUnambiguous
<1>1. IInv => GraphUnambiguous
  BY DEF IInv
<1> QED
  BY <1>1, Invariance, PTL

\* What queries see is in the store, in the dux.toml memory was built with, or
\* the work of a request under way: NothingUnstored.
THEOREM QueriesSeeStored == Spec => []NothingUnstored
<1>1. IInv => NothingUnstored
  BY DEF IInv
<1> QED
  BY <1>1, Invariance, PTL
=============================================================================
