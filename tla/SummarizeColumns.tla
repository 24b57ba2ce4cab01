-------------------------- MODULE SummarizeColumns --------------------------
(***************************************************************************)
(* What SUMMARIZECOLUMNS compiles to (emitter/cluster.go, stitched.go,     *)
(* filterctx.go, contextcte.go) and what DuckDB makes of it, on tables of  *)
(* a few rows.  Without ROLLUPADDISSUBTOTAL, computed keys, time           *)
(* intelligence and composed CALCULATE values.                             *)
(*                                                                         *)
(* A summary is [graph, fk, keys, preds, measures] with canonical names.   *)
(* The rows of every table are Rows; fk[i] is the key that a row of the    *)
(* many side of relationship i holds, a row of the one side or Blank.  A   *)
(* key is [table, col]; column "id" tells rows apart, every other column   *)
(* is alike in all of them.  A predicate is a key with the rows it allows. *)
(* A measure is the sequence of its aggregates [values, args]: the tables  *)
(* it reads, the aggregated one first, and the filter arguments of the     *)
(* CALCULATE around it, predicates with a form.                            *)
(***************************************************************************)
EXTENDS RelationshipGraph, FiniteSets, TLC
LOCAL INSTANCE SequencesExt

Rows == 1 .. 2
Blank == 0

Distinct(s) == FoldLeft(LAMBDA out, x : IF Contains(out, x) THEN out ELSE Append(out, x), <<>>, s)
TablesOf(s) == [i \in DOMAIN s |-> s[i].table]
Crosses(q, path) == path.ok /\ \E i \in DOMAIN path.steps : q.graph.rels[path.steps[i].rel].bidi

-----------------------------------------------------------------------------
(* Filter arguments.  ALL and REMOVEFILTERS: "all", "all table", "all      *)
(* column"; ALLEXCEPT: "except"; FILTER(ALL(T), p): "filter all";          *)
(* FILTER(T, p) and KEEPFILTERS: "keep"; a plain predicate: "plain".       *)

Removes(a, k) ==
  \/ a.form = "all"
  \/ a.form \in {"all table", "except", "filter all"} /\ a.table = k.table

Same(a, k) == a.table = k.table /\ a.col = k.col

removed(agg, k) ==
  \/ \E i \in DOMAIN agg.args : agg.args[i].form = "all column" /\ Same(agg.args[i], k)
  \/ /\ \E i \in DOMAIN agg.args : Removes(agg.args[i], k)
     /\ ~\E i \in DOMAIN agg.args : agg.args[i].form = "except" /\ Same(agg.args[i], k)

hasRemovals(agg) == \E i \in DOMAIN agg.args : agg.args[i].form \notin {"keep", "plain"}

Predicates(agg) == SelectSeq(agg.args, LAMBDA a : a.form \in {"keep", "plain", "filter all"})
overridden(agg, k) == \E i \in DOMAIN agg.args : agg.args[i].form \in {"plain", "filter all"} /\ Same(agg.args[i], k)

Survives(agg, k) == ~removed(agg, k) /\ ~overridden(agg, k)
SurvivesAll(agg, s) == SelectSeq(s, LAMBDA k : Survives(agg, k))

measureExprTables(agg) ==
  Distinct(agg.values \o TablesOf(SelectSeq(agg.args, LAMBDA a : a.form \notin {"all", "all table"})))

calcCrossesBidi(q, agg) ==
  \E i \in DOMAIN Predicates(agg) :
    LET t == Predicates(agg)[i].table
    IN  FilterReaches(q.graph, t, ToSet(agg.values)) /\ Crosses(q, InferJoinPath(q.graph, agg.values \o <<t>>))

\* Mutant: a predicate on a group key counts as one more filter.
contextModifying_Keep(q, agg) == hasRemovals(agg) \/ calcCrossesBidi(q, agg)
contextModifying(q, agg) ==
  hasRemovals(agg) \/ (\E i \in DOMAIN q.keys : overridden(agg, q.keys[i])) \/ calcCrossesBidi(q, agg)

-----------------------------------------------------------------------------
(* The plan.  An expression whose aggregates read the same tables is       *)
(* evaluated whole, another has each aggregate lifted: either way it is    *)
(* evaluated in the cluster of its tables, or in a context cluster.        *)

Aggregates(q) == FlattenSeq(q.measures)
contextClusters(q) == SelectSeq(Aggregates(q), LAMBDA agg : contextModifying(q, agg))

clusterKey(tables) == ToSet(tables)

regularClusters(q) ==
  LET inline == SelectSeq(Aggregates(q), LAMBDA agg : ~contextModifying(q, agg))
      Put(out, agg) == IF \E i \in DOMAIN out : clusterKey(out[i]) = clusterKey(measureExprTables(agg)) THEN out
                       ELSE Append(out, measureExprTables(agg))
  IN  FoldLeft(Put, <<>>, inline)

validateGroupKeys(q) ==
  \A i \in DOMAIN q.keys, a \in DOMAIN Aggregates(q) :
    FilterReaches(q.graph, q.keys[i].table, ToSet(measureExprTables(Aggregates(q)[a])))

AllTables(q) == Distinct(TablesOf(q.keys) \o FlattenSeq([i \in DOMAIN Aggregates(q) |-> measureExprTables(Aggregates(q)[i])])
                           \o TablesOf(q.preds))
stitchForBidi(q) == Len(AllTables(q)) > 1 /\ Crosses(q, InferJoinPath(q.graph, AllTables(q)))

Stitched(q) == Len(regularClusters(q)) > 1 \/ contextClusters(q) # <<>> \/ stitchForBidi(q)

-----------------------------------------------------------------------------
(* The FROM of one cluster.  place[i] says where step i of the join path   *)
(* goes: <<"flat", i>>, or into the DISTINCT key map <<"group", a>> or the *)
(* EXISTS <<"exists", a>> that begins at step a.                           *)

Below(steps, table) == Closure(LAMBDA t : {steps[i].table : i \in {i \in DOMAIN steps : steps[i].from = t}}, {table}, Len(steps))

\* Mutant: what the filters need is joined too.
Carve_Flat(q, steps, needed, values, groups) == [i \in DOMAIN steps |-> <<"flat", i>>]
Carve(q, steps, needed, values, groups) ==
  LET Meets(i, tables) == Below(steps, steps[i].table) \cap tables # {}
      place[i \in DOMAIN steps] ==
        LET above == {j \in 1 .. i - 1 : steps[j].table = steps[i].from /\ place[j][1] # "flat"}
            bidi == q.graph.rels[steps[i].rel].bidi
        IN  IF above # {} THEN place[CHOOSE j \in above : TRUE]
            ELSE IF bidi /\ Meets(i, groups) /\ ~Meets(i, values) THEN <<"group", i>>
            ELSE IF bidi /\ ~Meets(i, needed) THEN <<"exists", i>>
            ELSE <<"flat", i>>
  IN  place

From(root, path, preds, place) == [ok |-> path.ok, root |-> root, steps |-> path.steps, preds |-> preds, place |-> place]

\* groups: the group keys that may be projected out of a chain.
Carved(q, root, path, needed, preds, values, groups) ==
  From(root, path, preds, Carve(q, path.steps, needed, values, {groups[i].table : i \in DOMAIN groups}))
stitchedClusterFrom(q, tables, needed, preds, values, groups) ==
  Carved(q, tables[1], InferJoinPath(q.graph, tables), needed, preds, values, groups)

Flat(root, path, preds) == From(root, path, preds, [i \in DOMAIN path.steps |-> <<"flat", i>>])
FlatFrom(q, tables) == Flat(tables[1], InferJoinPath(q.graph, tables), q.preds)

\* Predicates whose table a cluster has or whose filter reaches it; an earlier one
\* adds its table to those that count.
Route(q, tables) ==
  FoldLeft(LAMBDA r, p : IF FilterReaches(q.graph, p.table, ToSet(r.tables))
                         THEN [tables |-> Distinct(Append(r.tables, p.table)), preds |-> Append(r.preds, p)] ELSE r,
           [tables |-> tables, preds |-> <<>>], q.preds)

\* Mutant: a cluster takes the filters on its own tables only.
RegularFrom_Own(q, cluster) ==
  LET tables == Distinct(cluster \o TablesOf(q.keys))
      own == SelectSeq(q.preds, LAMBDA p : Contains(tables, p.table))
  IN  stitchedClusterFrom(q, tables, ToSet(tables), own, ToSet(cluster), q.keys)
\* Beside a context cluster the keys come first, unless that makes the join ambiguous.
KeysFirst(q, cluster) ==
  LET keysFirst == Distinct(TablesOf(q.keys) \o cluster)
  IN  IF contextClusters(q) = <<>> \/ InferJoinPath(q.graph, keysFirst).why = "ambiguous path"
      THEN Distinct(cluster \o TablesOf(q.keys)) ELSE keysFirst
RootedFrom(q, cluster, tables) ==
  LET route == Route(q, tables)
  IN  stitchedClusterFrom(q, route.tables, ToSet(tables), route.preds, ToSet(cluster), q.keys)
RegularFrom(q, cluster) == RootedFrom(q, cluster, KeysFirst(q, cluster))

\* What CALCULATE removes or overrides is gone from the keys and the filters; its
\* own predicates come with it.
ContextFrom(q, agg) ==
  LET cluster == measureExprTables(agg)
      routed == SelectSeq(q.preds, LAMBDA p : FilterReaches(q.graph, p.table, ToSet(cluster)))
      preds == SurvivesAll(agg, routed) \o Predicates(agg)
      needed == ToSet(agg.values) \cup ToSet(TablesOf(SurvivesAll(agg, q.keys)))
  IN  stitchedClusterFrom(q, Distinct(cluster \o TablesOf(SurvivesAll(agg, q.keys)) \o TablesOf(preds)), needed, preds, needed, <<>>)

-----------------------------------------------------------------------------
(* What DuckDB makes of it.  A tuple gives each joined table its row, or   *)
(* Blank where a LEFT JOIN found none.                                     *)

\* IS NOT DISTINCT FROM: a blank key equals a blank key.
KeyOf(q, rel, table, row) == IF row = Blank \/ table # q.graph.rels[rel].from THEN row ELSE q.fk[rel][row]
Matches(q, step, row) == {r \in Rows : KeyOf(q, step.rel, step.table, r) = KeyOf(q, step.rel, step.from, row)}

LeftJoin(q, tuples, step) ==
  UNION {LET found == Matches(q, step, t[step.from])
         IN  {(step.table :> r) @@ t : r \in IF found = {} THEN {Blank} ELSE found} : t \in tuples}
InnerJoin(q, tuples, step) == {t \in LeftJoin(q, tuples, step) : t[step.table] # Blank}

Holds(p, t) == t[p.table] \in p.rows
ValueOf(k, t) == IF t[k.table] = Blank THEN Blank ELSE IF k.col = "id" THEN t[k.table] ELSE 1

StepsAt(from, Test(_)) ==
  FoldLeft(LAMBDA out, i : IF Test(from.place[i]) THEN Append(out, from.steps[i]) ELSE out, <<>>, [i \in DOMAIN from.steps |-> i])
Chains(from, kind) == {i \in DOMAIN from.steps : from.place[i] = <<kind, i>>}
ChainTables(from, place) == {from.steps[i].table : i \in {i \in DOMAIN from.steps : from.place[i] = place}}

\* The rows of a chain that its predicates leave, and those that meet a tuple.
ChainRows(q, from, place, Joined(_, _, _)) ==
  LET start == {(from.steps[place[2]].table :> r) : r \in Rows}
      rows == FoldLeft(LAMBDA tuples, s : Joined(q, tuples, s), start, Tail(StepsAt(from, LAMBDA p : p = place)))
  IN  {t \in rows : \A i \in DOMAIN from.preds : from.preds[i].table \in DOMAIN t => Holds(from.preds[i], t)}
Meeting(q, anchor, t, rows) ==
  {c \in rows : KeyOf(q, anchor.rel, anchor.table, c[anchor.table]) = KeyOf(q, anchor.rel, anchor.from, t[anchor.from])}

\* A LEFT JOIN with a key map.
MapJoin(q, from, a, tuples) ==
  LET rows == ChainRows(q, from, <<"group", a>>, LeftJoin)
      none == [t \in ChainTables(from, <<"group", a>>) |-> Blank]
  IN  UNION {LET found == Meeting(q, from.steps[a], t, rows) IN {c @@ t : c \in IF found = {} THEN {none} ELSE found} : t \in tuples}

\* The rows that FROM and WHERE leave, each with its group key: of a key map only
\* the keys are there, and each once.
Selected(q, from, keys) ==
  LET flat == FoldLeft(LAMBDA tuples, s : LeftJoin(q, tuples, s), {(from.root :> r) : r \in Rows},
                       StepsAt(from, LAMBDA p : p[1] = "flat"))
      gates == [a \in Chains(from, "exists") |-> ChainRows(q, from, <<"exists", a>>, InnerJoin)]
      left == {t \in flat : /\ \A a \in DOMAIN gates : Meeting(q, from.steps[a], t, gates[a]) # {}
                            /\ \A i \in DOMAIN from.preds : from.preds[i].table \in DOMAIN t => Holds(from.preds[i], t)}
      mapped(t) == FoldLeft(LAMBDA tuples, a : IF a \in Chains(from, "group") THEN MapJoin(q, from, a, tuples) ELSE tuples,
                            {t}, [a \in DOMAIN from.steps |-> a])
  IN  UNION {{[row |-> t, cell |-> [i \in DOMAIN keys |-> ValueOf(keys[i], c)]] : c \in mapped(t)} : t \in left}

\* How often an aggregate of one cell takes each row of its table.
Nothing == [r \in Rows |-> 0]
Taken(rows, agg, cell) ==
  [r \in Rows |-> Cardinality({t \in rows : /\ t.cell = cell /\ t.row[Head(agg.values)] = r
                                            /\ \A i \in DOMAIN Predicates(agg) :
                                                 Predicates(agg)[i].table \in DOMAIN t.row => Holds(Predicates(agg)[i], t.row)})]

\* The cell of a context cluster, which has only the keys that survive.
Project(q, agg, cell) ==
  LET kept == SelectSeq([i \in DOMAIN q.keys |-> i], LAMBDA i : Survives(agg, q.keys[i]))
  IN  [i \in DOMAIN kept |-> cell[kept[i]]]

Cells(q, rows) == IF q.keys = <<>> THEN {<<>>} ELSE {t.cell : t \in rows}

Refused(why) == [ok |-> FALSE, why |-> why, rows |-> {}]

\* Rows of blanks only are left out; an aggregate of no rows is blank.
blankPrune(rows) == {r \in rows : \E i \in DOMAIN r.values : r.values[i] # Nothing}

Answer(cells, aggs, Value(_, _)) ==
  [ok |-> TRUE, why |-> "",
   rows |-> blankPrune({[cell |-> c, values |-> [i \in DOMAIN aggs |-> Value(aggs[i], c)]] : c \in cells})]

FlatAnswer(q, rows) == Answer(Cells(q, rows), Aggregates(q), LAMBDA agg, c : Taken(rows, agg, c))
JoinedFlat(q, from) == IF from.ok THEN FlatAnswer(q, Selected(q, from, q.keys)) ELSE Refused("no join")
emitFlat(q) ==
  LET values == FlattenSeq([i \in DOMAIN Aggregates(q) |-> measureExprTables(Aggregates(q)[i])])
  IN  JoinedFlat(q, FlatFrom(q, Distinct(values \o TablesOf(q.keys) \o TablesOf(q.preds))))

\* Clusters and context clusters, each [aggs, from, keys]: the aggregates that are
\* evaluated in it, its FROM and its keys.
Clusters(q, regular) ==
  [i \in DOMAIN regular |->
     [aggs |-> SelectSeq(Aggregates(q), LAMBDA agg : ~contextModifying(q, agg) /\ clusterKey(measureExprTables(agg)) = clusterKey(regular[i])),
      from |-> RegularFrom(q, regular[i]), keys |-> q.keys]]
Contexts(q, contexts) ==
  [i \in DOMAIN contexts |->
     [aggs |-> <<contexts[i]>>, from |-> ContextFrom(q, contexts[i]), keys |-> SurvivesAll(contexts[i], q.keys)]]

Unused(q, p, clusters, contexts) ==
  /\ \A i \in DOMAIN clusters : ~Contains(clusters[i].from.preds, p)
  /\ \A i \in DOMAIN contexts : ~FilterReaches(q.graph, p.table, ToSet(measureExprTables(contexts[i].aggs[1])))

\* The FULL OUTER JOIN over all keys is the union of the clusters' cells; context
\* clusters define none, and are joined on the keys they have.
Stitch(q, n, all, rows) ==
  LET Home(agg) == CHOOSE i \in DOMAIN all : Contains(all[i].aggs, agg)
  IN  Answer(IF n = 0 THEN {<<>>} ELSE UNION {Cells(q, rows[i]) : i \in 1 .. n}, Aggregates(q),
             LAMBDA agg, c : Taken(rows[Home(agg)], agg, IF all[Home(agg)].keys = q.keys THEN c ELSE Project(q, agg, c)))

StitchedAnswer(q, clusters, contexts) ==
  IF \E i \in DOMAIN clusters : ~clusters[i].from.ok THEN Refused("no join")
  ELSE IF \E i \in DOMAIN contexts : ~contexts[i].from.ok THEN Refused("no join")
  ELSE IF \E i \in DOMAIN q.preds : Unused(q, q.preds[i], clusters, contexts) THEN Refused("unrelated filter")
  ELSE LET all == clusters \o contexts
       IN  Stitch(q, Len(clusters), all, [i \in DOMAIN all |-> Selected(q, all[i].from, all[i].keys)])

\* Without a regular cluster the keys have one of their own.
OrKeys(q, regular) == IF regular = <<>> /\ q.keys # <<>> THEN <<<<>>>> ELSE regular
emitStitched(q) == StitchedAnswer(q, Clusters(q, OrKeys(q, regularClusters(q))), Contexts(q, contextClusters(q)))

emitSummarizeColumns(q) ==
  IF ~validateGroupKeys(q) THEN Refused("group key") ELSE IF Stitched(q) THEN emitStitched(q) ELSE emitFlat(q)

-----------------------------------------------------------------------------
(* Reference: the ways filters take to a table, one relationship after the *)
(* other, and the rows of it that belong to a cell.                        *)

Against(q, at) ==
  LET rels == q.graph.rels
  IN  {[from |-> at, table |-> rels[i].to, rel |-> i] : i \in {i \in DOMAIN rels : rels[i].from = at}}
        \cup {[from |-> at, table |-> rels[i].from, rel |-> i] : i \in {i \in DOMAIN rels : rels[i].bidi /\ rels[i].to = at}}
Ways(q, to) ==
  LET End(w) == IF w = <<>> THEN to ELSE w[Len(w)].table
      Step(w) == {Append(w, s) : s \in {s \in Against(q, End(w)) : s.table \notin {to} \cup ToSet(TablesOf(w))}}
  IN  Closure(Step, {<<>>}, Len(q.graph.rels))
WaysFrom(q, table, to) == {w \in Ways(q, to) : table = IF w = <<>> THEN to ELSE w[Len(w)].table}

Steps(q, tables, value) == Distinct(FlattenSeq([i \in DOMAIN tables |-> CHOOSE w \in WaysFrom(q, tables[i], value) : TRUE]))
BelongingTo(q, value, keys, preds) ==
  LET tuples == FoldLeft(LAMBDA ts, s : LeftJoin(q, ts, s), {(value :> r) : r \in Rows}, Steps(q, TablesOf(keys) \o TablesOf(preds), value))
  IN  {[row |-> t[value], cell |-> [i \in DOMAIN keys |-> ValueOf(keys[i], t)]] : t \in {t \in tuples : \A i \in DOMAIN preds : Holds(preds[i], t)}}
Belonging(q, agg) ==
  BelongingTo(q, Head(agg.values), SurvivesAll(agg, q.keys),
              SelectSeq(SurvivesAll(agg, q.preds) \o Predicates(agg), LAMBDA p : WaysFrom(q, p.table, Head(agg.values)) # {}))

Correct(q, agg, cell, belonging) ==
  [r \in Rows |-> IF [row |-> r, cell |-> Project(q, agg, cell)] \in belonging THEN 1 ELSE 0]
=============================================================================
