-------------------------- MODULE ExternalFilters --------------------------
(***************************************************************************)
(* Filters supplied beside a query (executor/extfilter.go).  A table       *)
(* expression is a sequence of the functions around a core, outermost      *)
(* first; the core is a table, a VAR or a call.  The arguments of a        *)
(* SUMMARIZECOLUMNS are kinds: "column" and "filter" before the first      *)
(* "string", which begins its name and expression pairs.  Predicates are   *)
(* abstracted to the filter they come from.                                *)
(*                                                                         *)
(* A filter is [op, columns, rows, operands]: a row has one JSON value for *)
(* each column, the operands are those of value, from and to that are      *)
(* given.  A JSON value is one of "number", "digits" (a string that is a   *)
(* number), "text", "bool", "null", "object".                              *)
(***************************************************************************)
EXTENDS Naturals, Sequences, FiniteSets

\* A schema is [tables, columns, numeric]: table -> columns, the numeric ones.
FindTable(schema, t) == t \in schema.tables
FindColumn(schema, c) == FindTable(schema, c.table) /\ c.column \in schema.columns[c.table]

literalFor(v, numeric) == v \notin {"null", "object"} /\ (numeric => v # "text")

Numeric(schema, c) == c \in schema.numeric

\* op "" stands for "in"; tuples need one table, and a value for each column.
resolveFilter(schema, f) ==
  LET fits(v, i) == literalFor(v, Numeric(schema, f.columns[i]))
      rowsFit == /\ f.rows # <<>>
                 /\ \A r \in DOMAIN f.rows : /\ Len(f.rows[r]) = Len(f.columns)
                                             /\ \A i \in DOMAIN f.columns : fits(f.rows[r][i], i)
      given(names) == \A n \in names : f.operands[n] # "null" /\ fits(f.operands[n], 1)
  IN  /\ f.columns # <<>> /\ \A i \in DOMAIN f.columns : FindColumn(schema, f.columns[i])
      /\ \/ f.op = "in_tuples" /\ rowsFit /\ \A i \in DOMAIN f.columns : f.columns[i].table = f.columns[1].table
         \/ f.op \in {"", "in"} /\ rowsFit
         \/ f.op = "between" /\ given({"from", "to"})
         \/ f.op = "contains" /\ ~Numeric(schema, f.columns[1]) /\ given({"value"})
         \/ f.op \in {"=", "!=", "<", "<=", ">", ">="} /\ given({"value"})

-----------------------------------------------------------------------------
\* The functions each walk passes through on its way to the core.
InjectThrough == {"TOPN", "ADDCOLUMNS", "SELECTCOLUMNS", "FILTER"}
BaseThrough == {"FILTER", "ALL", "ALLEXCEPT", "ADDCOLUMNS", "TOPN", "VALUES", "DISTINCT"}

Passes(expr, through) == \A i \in DOMAIN expr.around : expr.around[i] \in through

\* Mutant: the walk also passes through ALL.
findSummarizeColumns_All(expr) == expr.core.kind = "summarize" /\ Passes(expr, InjectThrough \cup {"ALL"})
findSummarizeColumns(expr) == expr.core.kind = "summarize" /\ Passes(expr, InjectThrough)

\* A VAR has the base table that has its name, if there is one.
baseTable(schema, expr) ==
  IF expr.core.kind \in {"table", "var"} /\ Passes(expr, BaseThrough) /\ FindTable(schema, expr.core.name)
  THEN {expr.core.name} ELSE {}

\* filterArg: TREATAS for sets, FILTER of the column's table for the others.
filterArg(filters, i) == [kind |-> "filter", filter |-> i,
                          form |-> IF filters[i].op \in {"", "in", "in_tuples"} THEN "TREATAS" ELSE "FILTER"]

Pairs(args) == {i \in DOMAIN args : args[i].kind = "string"}
GroupArgs(args) == {i \in DOMAIN args : \A p \in Pairs(args) : i < p}

injectSummarizeArgs(args, filters) ==
  LET split == Cardinality(GroupArgs(args))
  IN  SubSeq(args, 1, split) \o [i \in DOMAIN filters |-> filterArg(filters, i)] \o SubSeq(args, split + 1, Len(args))

\* The rewritten expression, or the stage's error.  outer holds the filters of the
\* FILTER that wrapInFilter puts around everything.
ApplyExternalFilters(schema, expr, filters) ==
  LET as(changed) == [ok |-> TRUE, expr |-> changed]
      error == [ok |-> FALSE, expr |-> expr]
  IN  IF filters = <<>> THEN as(expr)
      ELSE IF \E i \in DOMAIN filters : ~resolveFilter(schema, filters[i]) THEN error
      ELSE IF findSummarizeColumns(expr)
      THEN as([expr EXCEPT !.core.args = injectSummarizeArgs(expr.core.args, filters)])
      ELSE IF baseTable(schema, expr) = {} THEN error
      ELSE IF \E i \in DOMAIN filters : {filters[i].columns[1].table} # baseTable(schema, expr) THEN error
      ELSE as([expr EXCEPT !.outer = DOMAIN filters])

-----------------------------------------------------------------------------
\* Reference: the filters every row of the result satisfies.  A function that may
\* return rows its argument does not have undoes those below it.
Restricting == {"TOPN", "ADDCOLUMNS", "SELECTCOLUMNS", "FILTER", "VALUES", "DISTINCT"}
Guaranteed(expr) ==
  LET args == expr.core.args
      below == IF expr.core.kind = "summarize" /\ Passes(expr, Restricting)
               THEN {args[i].filter : i \in {i \in GroupArgs(args) : args[i].kind = "filter"}} ELSE {}
  IN  expr.outer \cup below
=============================================================================
