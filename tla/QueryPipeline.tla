--------------------------- MODULE QueryPipeline ---------------------------
(***************************************************************************)
(* One query from its schema to its joins: the schema is validated, the    *)
(* external filters are put in, the DEFINE measures are laid over the      *)
(* schema's, the measures it reaches are visited depth first               *)
(* (semantic/resolver.go), the shapes of its VARs and of its body are      *)
(* derived, its tables joined and its SUMMARIZECOLUMNS compiled and run.   *)
(* The schema cannot change meanwhile, the query holds schemaMu.           *)
(*                                                                         *)
(* A measure is [table, name, refs], a reference [table, name] with table  *)
(* "" for a bare one.  Those in the VARs and the body say too if an output *)
(* column is allowed and which VARs are declared before.  A measure's refs *)
(* leave out what is in a table constructor: the resolver does not follow  *)
(* it there and the emitter takes it for a column.  The code resolves and  *)
(* shapes one VAR after the other and last the body, here all are resolved *)
(* and then all shaped: only which error is reported depends on it.        *)
(***************************************************************************)
EXTENDS SummarizeColumns, ExternalFilters, TableShapes
LOCAL INSTANCE SequencesExt

CONSTANT Inputs  \* the schemas and queries, sets of [schema, graph, query]

\* The one body an argument of which is an external filter is a rewritten one.
Reference == [table : STRING, name : STRING, output : BOOLEAN, vars : SUBSET STRING]
Measure == [table : STRING, name : STRING, refs : Seq(Reference)]
Column == [table : STRING, column : STRING]
Value == {"number", "digits", "text", "bool", "null", "object"}
GivenFilter == [op : STRING, columns : Seq(Column), rows : Seq(Seq(Value)), operands : [{"value", "from", "to"} -> Value]]
Body == [around : Seq(STRING), outer : {{}},
         core : [kind : STRING, name : STRING, args : Seq([kind : STRING \ {"filter"}])]]

Name == [db : STRING, name : STRING]
Relationship == [from : Name, to : Name, bidi : BOOLEAN]

ASSUME InputsAssumption ==
  \A some \in Inputs : \A i \in some :
    /\ i.schema.measures \in Seq(Measure) /\ i.query.defines \in Seq(Measure)
    /\ i.query.refs \in Seq(Reference) /\ i.query.filters \in Seq(GivenFilter)
    /\ i.query.body \in Body
    /\ i.graph.tables \subseteq Name /\ i.graph.rels \in Seq(Relationship) /\ i.query.tables \in Seq(Name)

VARIABLES
  input,
  stage,     \* load, filters, define, visit, shape, join, summarize, done or failed
  why,       \* the error, "" while there is none; path and answer say more of theirs
  expr,      \* the body of the query, rewritten
  measures,  \* [table, name] -> the definition a reference finds: <<"schema", i>> or <<"query", i>>
  visited,   \* definition -> 0, 1 while its references are being followed, 2 after
  stack,     \* the definitions being followed: [def, at]
  heap, shapes,
  path,      \* the joins
  answer     \* of the SUMMARIZECOLUMNS

vars == <<input, stage, why, expr, measures, visited, stack, heap, shapes, path, answer>>

query == input.query
schema == input.schema
At(s) == stage' = s /\ UNCHANGED <<input, why>>
Fail(error) == stage' = "failed" /\ why' = error /\ UNCHANGED input

Init ==
  /\ \E some \in Inputs : input \in some
  /\ stage = "load" /\ why = "" /\ expr = input.query.body
  /\ measures = <<>> /\ visited = <<>> /\ stack = <<>>
  /\ heap = <<>> /\ shapes = <<>> /\ path = Found(<<>>) /\ answer = Refused("")

\* A refresh that finds the graph ambiguous leaves the old schema in place.
Load ==
  /\ stage = "load"
  /\ IF ValidateFilterPaths(input.graph.rels) THEN At("filters") ELSE Fail("ambiguous graph")
  /\ UNCHANGED <<expr, measures, visited, stack, heap, shapes, path, answer>>

Filter ==
  /\ stage = "filters"
  /\ LET applied == ApplyExternalFilters(schema, expr, query.filters)
     IN  /\ expr' = applied.expr
         /\ IF applied.ok THEN At("define") ELSE Fail("filters")
  /\ UNCHANGED <<measures, visited, stack, heap, shapes, path, answer>>

-----------------------------------------------------------------------------
(* Measures. *)

Key(m) == [table |-> m.table, name |-> m.name]
Definition(d) == IF d[1] = "schema" THEN schema.measures[d[2]] ELSE query.defines[d[2]]
Definitions == ({"schema"} \X DOMAIN schema.measures) \cup ({"query"} \X DOMAIN query.defines)
Declared == [k \in {Key(schema.measures[i]) : i \in DOMAIN schema.measures} |->
               <<"schema", CHOOSE i \in DOMAIN schema.measures : Key(schema.measures[i]) = k>>]

MeasureNameConflict(target, m) == \E k \in DOMAIN target : k.table # m.table /\ k.name = m.name

\* After k of the query's definitions: each replaces those before it of its name.
Preresolved(k) ==
  LET own(key) == {i \in 1 .. k : Key(query.defines[i]) = key}
      last(is) == CHOOSE i \in is : \A j \in is : j <= i
  IN  [key \in DOMAIN Declared \cup {Key(query.defines[i]) : i \in 1 .. k} |->
         IF own(key) = {} THEN Declared[key] ELSE <<"query", last(own(key))>>]

PreResolve ==
  /\ stage = "define"
  /\ IF \E i \in DOMAIN query.defines : MeasureNameConflict(Preresolved(i - 1), query.defines[i])
     THEN Fail("name conflict") /\ UNCHANGED <<measures, visited, stack>>
     ELSE /\ measures' = Preresolved(Len(query.defines))
          /\ visited' = [d \in Definitions |-> 0]
          /\ stack' = <<[def |-> <<"roots", 0>>, at |-> 1]>>
          /\ At("visit")
  /\ UNCHANGED <<expr, heap, shapes, path, answer>>

\* What a reference may be found to be: a measure, or a column with its table.
FindMeasure(ref) == {k \in DOMAIN measures : k.name = ref.name /\ (ref.table = "" \/ k.table = ref.table)}

\* The roots are every DEFINE, also one that a later one replaced, and the
\* references in the VARs and the body.  A bare name may be an output column there.
Roots == [i \in DOMAIN query.defines |-> [def |-> <<"query", i>>]] \o query.refs
Followed(d) == IF d[1] = "roots" THEN Roots ELSE Definition(d).refs

\* The VARs declared before the root that is being followed.
VarNames ==
  LET root == Roots[IF Len(stack) = 1 THEN stack[1].at ELSE stack[1].at - 1]
  IN  IF "def" \in DOMAIN root THEN {} ELSE root.vars

Error(ref, d) ==
  LET found == FindMeasure(ref)
      column == FindColumn(schema, [table |-> ref.table, column |-> ref.name])
  IN  IF "def" \in DOMAIN ref THEN ""
      ELSE IF ref.table \in ref.vars THEN ""
      ELSE IF \E a, b \in found : a # b THEN "ambiguous measure"
      ELSE IF found # {} \/ (ref.table # "" /\ (ref.table \in VarNames \/ column)) THEN ""
      ELSE IF ref.table = "" /\ d[1] = "roots" /\ ref.output THEN "" ELSE "unknown reference"

\* The definitions a reference leads to: one, or none for a column.  In the VARs and
\* the body what has the table of a VAR is a column of it before it is a measure.
Targets(ref) ==
  IF "def" \in DOMAIN ref THEN {ref.def}
  ELSE IF ref.table \in ref.vars THEN {} ELSE {measures[k] : k \in FindMeasure(ref)}

Top == stack[Len(stack)]

\* Mutant: a definition counts as finished once it is entered.
Enter_Finished(d) == visited' = [visited EXCEPT ![d] = 2]
Enter(d) == visited' = [visited EXCEPT ![d] = 1]

Visit ==
  /\ stage = "visit" /\ Top.at <= Len(Followed(Top.def))
  /\ LET ref == Followed(Top.def)[Top.at]
         next == [stack EXCEPT ![Len(stack)].at = @ + 1]
         open == {d \in Targets(ref) : visited[d] < 2}
     IN  \/ /\ Error(ref, Top.def) # ""
            /\ Fail(Error(ref, Top.def)) /\ UNCHANGED <<visited, stack>>
         \/ /\ Error(ref, Top.def) = "" /\ \E d \in open : visited[d] = 1
            /\ Fail("circular") /\ UNCHANGED <<visited, stack>>
         \/ /\ Error(ref, Top.def) = "" /\ open = {}
            /\ stack' = next /\ UNCHANGED <<input, stage, why, visited>>
         \/ /\ Error(ref, Top.def) = ""
            /\ \E d \in open : /\ visited[d] = 0
                               /\ stack' = Append(next, [def |-> d, at |-> 1])
                               /\ Enter(d)
            /\ UNCHANGED <<input, stage, why>>
  /\ UNCHANGED <<expr, measures, heap, shapes, path, answer>>

Return ==
  /\ stage = "visit" /\ Top.at > Len(Followed(Top.def))
  /\ IF Len(stack) = 1 THEN At("shape") /\ UNCHANGED <<visited, stack>>
     ELSE /\ visited' = [visited EXCEPT ![Top.def] = 2]
          /\ stack' = SubSeq(stack, 1, Len(stack) - 1)
          /\ UNCHANGED <<input, stage, why>>
  /\ UNCHANGED <<expr, measures, heap, shapes, path, answer>>

-----------------------------------------------------------------------------
(* Shapes, joins and SQL. *)

Arguments(e) == [i \in DOMAIN e.args |->
  [known |-> shapes[e.args[i]].known, columns |-> Loaded(heap, shapes[e.args[i]])]]

Shape ==
  /\ stage = "shape" /\ Len(shapes) < Len(query.exprs)
  /\ LET e == query.exprs[Len(shapes) + 1]
         result == Result(e, Arguments(e))
         store == Stored(heap, e, [i \in DOMAIN e.args |-> shapes[e.args[i]]], result)
     IN  IF ~result.ok THEN Fail("shape") /\ UNCHANGED <<heap, shapes>>
         ELSE /\ heap' = store.heap /\ shapes' = Append(shapes, store.shape)
              /\ UNCHANGED <<input, stage, why>>
  /\ UNCHANGED <<expr, measures, visited, stack, path, answer>>

Shaped == stage = "shape" /\ Len(shapes) = Len(query.exprs) /\ At("join")
          /\ UNCHANGED <<expr, measures, visited, stack, heap, shapes, path, answer>>

\* The tables whose columns the emitted SQL needs, the primary one first.
Join ==
  /\ stage = "join"
  /\ path' = InferJoinPath(input.graph, query.tables)
  /\ IF path'.ok THEN At(IF query.values = <<>> THEN "done" ELSE "summarize") ELSE Fail("joins")
  /\ UNCHANGED <<expr, measures, visited, stack, heap, shapes, answer>>

\* The keys, filters and measures of the SUMMARIZECOLUMNS, on the rows in fk.
Summary == [graph |-> input.graph, fk |-> query.fk, keys |-> query.keys, preds |-> query.preds, measures |-> query.values]

Summarize ==
  /\ stage = "summarize"
  /\ answer' = emitSummarizeColumns(Summary)
  /\ IF answer'.ok THEN At("done") ELSE Fail("summary")
  /\ UNCHANGED <<expr, measures, visited, stack, heap, shapes, path>>

Next == Load \/ Filter \/ PreResolve \/ Visit \/ Return \/ Shape \/ Shaped \/ Join \/ Summarize

Spec == Init /\ [][Next]_vars

-----------------------------------------------------------------------------
\* An external filter is applied or the query is refused: every row of an accepted
\* body satisfies all of them, whatever functions are around its core.
FiltersHold == stage \notin {"load", "filters", "failed"} => Guaranteed(expr) = DOMAIN query.filters

Depends(d) == UNION {Targets(Followed(d)[i]) : i \in DOMAIN Followed(d)}
Reachable(d) == Closure(Depends, Depends(d), Len(schema.measures) + Len(query.defines))
Circular(d) == d \in Reachable(d)

\* The emitter, which expands measures without a limit, is given a query only when
\* none that it can reach depends on itself, with the query's own definitions in
\* place of the schema's; and a query is refused as circular only if one does.
ResolvedAcyclic ==
  /\ stage \in {"shape", "join", "summarize", "done"} => \A d \in Reachable(<<"roots", 0>>) : ~Circular(d)
  /\ why = "circular" => \E d \in Reachable(<<"roots", 0>>) : Circular(d)

-----------------------------------------------------------------------------
\* Nothing else joins the ends of a bidirectional relationship.
BridgesAlone ==
  \A i \in DOMAIN input.graph.rels :
    LET rel == input.graph.rels[i]
    IN  rel.bidi => Routes(input.graph, rel.from, rel.to, DOMAIN input.graph.rels \ {i}) = {}

Canonical(t) == ResolveTable(input.graph.tables, t)

\* Each step hangs a new table on one that is there, by the relationship between the
\* two; in the end every table of the query is there.
JoinsAreTree ==
  LET before(k) == {Canonical(query.tables[1])} \cup {path.steps[i].table : i \in 1 .. k - 1}
  IN  /\ \A k \in DOMAIN path.steps :
           /\ path.steps[k].from \in before(k) /\ path.steps[k].table \notin before(k)
           /\ Link(input.graph, path.steps[k].rel) = {path.steps[k].from, path.steps[k].table}
      /\ \A i \in DOMAIN query.tables : Canonical(query.tables[i]) \in before(Len(path.steps) + 1)

\* Two tables are joined exactly if there is one shortest way between them.
JoinsAreShortest ==
  LET all == Routes(input.graph, query.tables[1], query.tables[2], DOMAIN input.graph.rels)
  IN  /\ stage = "done" => \E route \in all : Shortest(all) = {route}
      /\ path.why = "no path" => all = {}
      /\ path.why = "ambiguous path" => Several(Shortest(all))

Unclear == \E i \in DOMAIN query.tables : AmbiguousName(input.graph.tables, query.tables[i])

\* A graph that is accepted has no second way around a bidirectional relationship,
\* and the joins of a query are a tree of relationships with every table of it, the
\* shortest for two tables.
JoinsSound ==
  /\ stage \in {"filters", "join", "summarize", "done"} => BridgesAlone
  /\ stage = "done" /\ query.tables # <<>> => JoinsAreTree
  /\ stage \in {"done", "failed"} /\ Len(query.tables) = 2 /\ ~Unclear => JoinsAreShortest

\* Every cell of a SUMMARIZECOLUMNS aggregates exactly the rows that belong to it:
\* those that its keys and the filters reach, each once, whatever other tables the
\* query joins.  A context cluster has a value for the cells of the others only;
\* beside one, those have no rows for a blank key.  A query is refused only if a key
\* reaches no value of a measure or a filter no measure.
CellsExact ==
  LET q == Summary
      aggs == Aggregates(q)
      shown == {r.cell : r \in answer.rows}
      Given(i, c) == IF c \in shown THEN (CHOOSE r \in answer.rows : r.cell = c).values[i] ELSE Nothing
      Left(i, c) == IF contextModifying(q, aggs[i]) THEN c \notin shown
                    ELSE contextClusters(q) # <<>> /\ \E k \in DOMAIN c : c[k] = Blank
      Reached(t, tables) == \E to \in tables : WaysFrom(q, t, to) # {}
  IN  /\ stage = "done" => \A i \in DOMAIN aggs :
            LET belonging == Belonging(q, aggs[i])
            IN  \A c \in [DOMAIN q.keys -> {Blank} \cup Rows] : Left(i, c) \/ Given(i, c) = Correct(q, aggs[i], c, belonging)
      /\ answer.why = "unrelated filter" =>
            \E p \in DOMAIN q.preds : \A i \in DOMAIN aggs : ~Reached(q.preds[p].table, ToSet(aggs[i].values))
      /\ answer.why = "group key" =>
            \E k \in DOMAIN q.keys, i \in DOMAIN aggs : ~Reached(q.keys[k].table, ToSet(measureExprTables(aggs[i])))
      /\ answer.why # "no join"

\* README: lineage is retained through set operations and table variables.  What a
\* VAR's columns are is settled by its own definition, not by its later uses.
Defined[i \in 1 .. Len(query.exprs)] ==
  LET e == query.exprs[i]
      result == Result(e, [k \in DOMAIN e.args |-> Defined[e.args[k]]])
  IN  [known |-> result.known, columns |-> result.columns]
LineageKept == \A i \in DOMAIN shapes : Loaded(heap, shapes[i]) = Defined[i].columns
=============================================================================
