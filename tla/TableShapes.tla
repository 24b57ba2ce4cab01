---------------------------- MODULE TableShapes ----------------------------
(***************************************************************************)
(* The columns and lineage the resolver gives to table expressions         *)
(* (semantic/resolution.go).  A shape is a Go slice [known, at, len] of an *)
(* array of the heap; the length of an array is its capacity.  A column is *)
(* [output, lineage].  An expression is [op, args, adds]: its arguments    *)
(* are indices of earlier expressions, a nested expression being one       *)
(* without a name, and adds are the columns it adds to them.               *)
(***************************************************************************)
EXTENDS Naturals, Sequences, FiniteSets, TLC
LOCAL INSTANCE SequencesExt

NoLineage == "none"
NoColumn == [output |-> "", lineage |-> NoLineage]
Unknown == [known |-> FALSE, at |-> 0, len |-> 0]

Keeping == {"FILTER", "ALL", "ALLEXCEPT", "CALCULATETABLE", "TOPN", "VALUES", "DISTINCT", "INTERSECT", "EXCEPT"}
Building == {"MODEL", "COLUMN", "SELECTCOLUMNS", "SUMMARIZECOLUMNS", "ROW"}
Joining == {"CROSSJOIN", "GENERATE", "GENERATEALL"}

\* Where both sides of a UNION disagree, its column has no lineage.
Merged(left, right) ==
  [i \in DOMAIN left |-> IF left[i].lineage = right[i].lineage THEN left[i] ELSE [left[i] EXCEPT !.lineage = NoLineage]]

Outputs(columns) == {columns[i].output : i \in DOMAIN columns}

\* shapeFunc, on arguments [known, columns].  An argument that is not known makes
\* the result unknown; an output name twice in a join before it is an error.
Result(expr, args) ==
  LET parts == [i \in DOMAIN args |-> args[i].columns]
      all == FlattenSeq(parts)
      fits == CASE expr.op \in Keeping \cup {"ADDCOLUMNS"} -> args[1].known
                [] expr.op \in Building -> TRUE
                [] OTHER -> \A i \in DOMAIN args : args[i].known
      known == fits /\ (expr.op = "UNION" => Len(parts[1]) = Len(parts[2]))
      twice(columns) == Cardinality(Outputs(columns)) < Len(columns)
  IN  [ok |-> ~(expr.op \in Joining /\ \E n \in DOMAIN args : /\ \A i \in 1 .. n : args[i].known
                                                              /\ twice(FlattenSeq(SubSeq(parts, 1, n)))),
       known |-> known,
       columns |-> CASE ~known -> <<>>
                     [] expr.op \in Keeping -> parts[1]
                     [] expr.op \in Building -> expr.adds
                     [] expr.op \in Joining -> all
                     [] expr.op = "ADDCOLUMNS" -> parts[1] \o expr.adds
                     [] expr.op = "UNION" -> Merged(parts[1], parts[2])]

-----------------------------------------------------------------------------
Loaded(heap, shape) == IF shape.len = 0 THEN <<>> ELSE SubSeq(heap[shape.at], 1, shape.len)

\* Go's append: in place up to the capacity, else a copy of twice the capacity.
Appended(store, column) ==
  LET s == store.shape grown == Loaded(store.heap, s) \o <<column>>
      capacity == IF s.len = 0 THEN 1 ELSE 2 * s.len
  IN  IF s.len > 0 /\ s.len < Len(store.heap[s.at])
      THEN [heap |-> [store.heap EXCEPT ![s.at][s.len + 1] = column], shape |-> [s EXCEPT !.len = s.len + 1]]
      ELSE [heap |-> Append(store.heap, grown \o [i \in 1 .. capacity - Len(grown) |-> NoColumn]),
            shape |-> [known |-> TRUE, at |-> Len(store.heap) + 1, len |-> Len(grown)]]

AppendAll(store, columns) == FoldLeft(Appended, store, columns)
Fresh(heap, columns) == AppendAll([heap |-> heap, shape |-> [Unknown EXCEPT !.known = TRUE]], columns)
Exact(heap, columns) == [heap |-> Append(heap, columns), shape |-> [known |-> TRUE, at |-> Len(heap) + 1, len |-> Len(columns)]]

\* Where the code leaves the result: the slice of an argument is handed on, a UNION
\* writes into that of its first argument.
Stored(heap, expr, shapes, result) ==
  LET first == shapes[1]
      merged == [i \in DOMAIN heap[first.at] |-> IF i <= first.len THEN result.columns[i] ELSE heap[first.at][i]]
  IN  CASE ~result.known -> [heap |-> heap, shape |-> Unknown]
        [] expr.op \in Keeping -> [heap |-> heap, shape |-> first]
        [] expr.op \in {"MODEL", "COLUMN"} -> Exact(heap, result.columns)
        [] expr.op \in (Building \ {"MODEL", "COLUMN"}) \cup Joining -> Fresh(heap, result.columns)
        [] expr.op = "ADDCOLUMNS" -> AppendAll([heap |-> heap, shape |-> first], expr.adds)
        [] expr.op = "UNION" -> [heap |-> [heap EXCEPT ![first.at] = merged], shape |-> first]
=============================================================================
