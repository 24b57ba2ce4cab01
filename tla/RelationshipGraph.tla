------------------------- MODULE RelationshipGraph -------------------------
(***************************************************************************)
(* The algorithms of semantic/join.go on the declared relationships.  A    *)
(* table name is a record [db, name] of lower-cased parts, db = "" for a   *)
(* bare name; a relationship is a record [from, to, bidi] whose columns    *)
(* are abstracted, so that two relationships on other columns of the same  *)
(* tables are two elements of the sequence.  A graph is a record [tables,  *)
(* rels] of the introspected names and the declared relationships.         *)
(***************************************************************************)
EXTENDS Naturals, Sequences

tableNamesMatch(a, b) == a.name = b.name /\ (a.db = b.db \/ "" \in {a.db, b.db})

resolveTableMatches(tables, n) ==
  IF n \in tables THEN {n}
  ELSE {t \in tables : n.db = "" /\ t.db # "" /\ t.name = n.name}

Several(found) == \E a, b \in found : a # b
AmbiguousName(tables, n) == Several(resolveTableMatches(tables, n))

\* An unknown name, and for ResolveTable an ambiguous one too, stands for itself.
ResolveTable(tables, n) ==
  LET found == resolveTableMatches(tables, n)
  IN  IF found = {} \/ Several(found) THEN n ELSE CHOOSE t \in found : TRUE

\* What `rounds` waves of a breadth-first search reach from start.
Closure(Step(_), start, rounds) ==
  LET wave[k \in 0 .. rounds] ==
        IF k = 0 THEN start
        ELSE LET seen == wave[k - 1] IN seen \cup UNION {Step(x) : x \in seen}
  IN  wave[rounds]

-----------------------------------------------------------------------------
(* Joins.  A walk is [at, steps]; a step keeps the index of its            *)
(* relationship, which stands for its columns and direction.               *)

\* Mutant: a relationship is followed only from the many side to the one side.
FarEnd_To(rel, at) == rel.to

\* The other end as declared, whichever end matches first.
FarEnd(rel, at) == IF tableNamesMatch(rel.from, at) THEN rel.to ELSE rel.from

Adjacent(graph, at) == {i \in DOMAIN graph.rels : tableNamesMatch(graph.rels[i].from, at) \/ tableNamesMatch(graph.rels[i].to, at)}

Extended(walk, i, next) == [at |-> next, steps |-> Append(walk.steps, [from |-> walk.at, table |-> next, rel |-> i])]

Extensions(graph, walk) ==
  {Extended(walk, i, ResolveTable(graph.tables, FarEnd(graph.rels[i], walk.at))) : i \in Adjacent(graph, walk.at)}

\* One level of the queue.  A table is left once an earlier level had it; all
\* walks of one length to it stay.  The level that finds `to` is finished.
Sorted(to, search, walks, unclear) ==
  LET next == {walk \in walks : ~tableNamesMatch(walk.at, to) /\ walk.at \notin search.seen}
  IN  [front |-> next, seen |-> search.seen \cup {walk.at : walk \in next},
       hits |-> {walk \in walks : tableNamesMatch(walk.at, to)}, unclear |-> unclear]

Level(graph, to, search) ==
  IF search.hits # {} \/ search.unclear THEN search
  ELSE Sorted(to, search, UNION {Extensions(graph, walk) : walk \in search.front},
              \E walk \in search.front : \E i \in Adjacent(graph, walk.at) :
                AmbiguousName(graph.tables, FarEnd(graph.rels[i], walk.at)))

Failed(why) == [ok |-> FALSE, steps |-> <<>>, why |-> why]
Found(steps) == [ok |-> TRUE, steps |-> steps, why |-> ""]

\* With an ambiguous name and two shortest paths at one level the code reports
\* the one it meets first; both are errors.
PathFound(search) ==
  IF search.unclear THEN Failed("ambiguous table")
  ELSE IF search.hits = {} THEN Failed("no path")
  ELSE IF Several(search.hits) THEN Failed("ambiguous path")
  ELSE Found((CHOOSE walk \in search.hits : TRUE).steps)

\* A shortest path has no more steps than there are relationships.
bfsJoin(graph, from, to) ==
  LET search[k \in 0 .. Len(graph.rels)] ==
        IF k = 0 THEN [front |-> {[at |-> t, steps |-> <<>>] : t \in from}, seen |-> from, hits |-> {}, unclear |-> FALSE]
        ELSE Level(graph, to, search[k - 1])
  IN  IF \E t \in from : tableNamesMatch(t, to) THEN Found(<<>>) ELSE PathFound(search[Len(graph.rels)])

\* Every table of the tree so far, those passed on the way too.
InTree(primary, steps) == {primary} \cup {steps[i].table : i \in DOMAIN steps}

\* The steps of a leg to a new table, each unless its table is there already.
Grown(path, leg) ==
  LET kept[k \in 0 .. Len(leg.steps)] ==
        IF k = 0 THEN path.steps
        ELSE IF leg.steps[k].table \in InTree(path.primary, kept[k - 1]) THEN kept[k - 1]
        ELSE Append(kept[k - 1], leg.steps[k])
  IN  IF leg.ok THEN [path EXCEPT !.steps = kept[Len(leg.steps)]] ELSE [path EXCEPT !.ok = FALSE, !.why = leg.why]

JoinTarget(graph, path, target) ==
  LET joined == InTree(path.primary, path.steps)
  IN  IF ~path.ok \/ target \in joined THEN path ELSE Grown(path, bfsJoin(graph, joined, target))

InferJoinPath(graph, tables) ==
  LET path[k \in 0 .. Len(tables) - 1] ==
        IF k = 0 THEN [primary |-> ResolveTable(graph.tables, tables[1]), ok |-> TRUE, steps |-> <<>>, why |-> ""]
        ELSE JoinTarget(graph, path[k - 1], ResolveTable(graph.tables, tables[k + 1]))
  IN  IF Len(tables) <= 1 THEN Found(<<>>)
      ELSE IF \E i \in DOMAIN tables : AmbiguousName(graph.tables, tables[i]) THEN Failed("ambiguous table")
      ELSE path[Len(tables) - 1]

\* The one step that attaches table, when nothing hangs on it; {} otherwise.
LeafEdge(graph, steps, table) ==
  LET t == ResolveTable(graph.tables, table)
      at == {i \in DOMAIN steps : tableNamesMatch(steps[i].table, t)}
  IN  IF at # {} /\ ~Several(at) /\ \A i \in DOMAIN steps : ~tableNamesMatch(steps[i].from, t)
      THEN {steps[i] : i \in at} ELSE {}

-----------------------------------------------------------------------------
(* Filters flow from the one side to the many side, and back across a      *)
(* bidirectional relationship.                                             *)

Reaches(graph, src, targets, Flow(_, _)) ==
  LET Canonical(n) == ResolveTable(graph.tables, n)
      Step(at) == {Canonical(n) : n \in UNION {Flow(graph.rels[i], at) : i \in DOMAIN graph.rels}}
  IN  \E t \in targets : Canonical(t) \in Closure(Step, {Canonical(src)}, Len(graph.rels))

FilterFlow(rel, at) ==
  IF tableNamesMatch(rel.to, at) THEN {rel.from}
  ELSE IF rel.bidi /\ tableNamesMatch(rel.from, at) THEN {rel.to} ELSE {}

GroupingFlow(rel, at) == IF tableNamesMatch(rel.to, at) THEN {rel.from} ELSE {}

FilterReaches(graph, src, targets) == Reaches(graph, src, targets, FilterFlow)
GroupingReaches(graph, src, targets) == Reaches(graph, src, targets, GroupingFlow)

\* No other path joins the ends of a bidirectional relationship.  The names are
\* compared as declared, a bare one is another table than its qualified form.
ValidateFilterPaths(rels) ==
  \A i \in DOMAIN rels : rels[i].bidi =>
    LET Step(at) == UNION {{rels[j].to : j \in {j \in DOMAIN rels \ {i} : rels[j].from = at}},
                           {rels[j].from : j \in {j \in DOMAIN rels \ {i} : rels[j].to = at}}}
    IN  rels[i].to \notin Closure(Step, {rels[i].from}, Len(rels))

-----------------------------------------------------------------------------
(* Reference for the joins: all sequences of relationships from one table to *)
(* another.                                                                  *)

Link(graph, i) == {ResolveTable(graph.tables, graph.rels[i].from), ResolveTable(graph.tables, graph.rels[i].to)}

\* Where the relationships of s lead from a, one after the other: to one table or none.
Ends(graph, a, s) ==
  LET at[k \in 0 .. Len(s)] ==
        IF k = 0 THEN {a} ELSE {u \in Link(graph, s[k]) : \E t \in at[k - 1] : Link(graph, s[k]) = {t, u}}
  IN  at[Len(s)]

Routes(graph, from, to, by) ==
  {s \in UNION {[1 .. n -> by] : n \in 0 .. Len(graph.rels)} :
     ResolveTable(graph.tables, to) \in Ends(graph, ResolveTable(graph.tables, from), s)}
Shortest(routes) == {s \in routes : \A r \in routes : Len(s) <= Len(r)}
=============================================================================
