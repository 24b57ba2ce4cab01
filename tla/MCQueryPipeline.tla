-------------------------- MODULE MCQueryPipeline --------------------------
(* Queries and schemas for TLC. *)
EXTENDS QueryPipeline

\* Sequences over S of at most n elements.
UpTo(S, n) == UNION {[1 .. k -> S] : k \in 0 .. n}

MCSchema == [tables |-> {"Sales", "Store"}, columns |-> [t \in {"Sales", "Store"} |-> {"id", "name"}],
             numeric |-> {[table |-> "Sales", column |-> "id"]}, measures |-> <<>>]
MCBody == [around |-> <<>>, outer |-> {}, core |-> [kind |-> "table", name |-> "Sales", args |-> <<>>]]
MCQuery == [filters |-> <<>>, body |-> MCBody, defines |-> <<>>, refs |-> <<>>, exprs |-> <<>>, tables |-> <<>>,
            fk |-> <<>>, keys |-> <<>>, preds |-> <<>>, values |-> <<>>]
MCGraph == [tables |-> {}, rels |-> <<>>]
MCInput == [schema |-> MCSchema, graph |-> MCGraph, query |-> MCQuery]

(* All graphs of at most three relationships on three tables of one schema *)
(* each, and tables that a bare name finds, or finds twice.                *)
T(db, name) == [db |-> db, name |-> name]
MCTables == {T("", "a"), T("", "b"), T("", "c")}
MCRels(tables) == {[from |-> f, to |-> t, bidi |-> b] : f, t \in tables, b \in BOOLEAN}
MCJoins(tables, n) == {[MCInput EXCEPT !.graph = [tables |-> MCTables, rels |-> rels], !.query.tables = tables] :
                      rels \in [1 .. n -> {r \in MCRels(MCTables) : r.from # r.to}]}
MCNames == {[MCInput EXCEPT !.graph = [tables |-> {T("", "a"), T("x", "c")} \cup others,
                                       rels |-> <<[from |-> T("", "a"), to |-> T("", "c"), bidi |-> FALSE]>>],
                            !.query.tables = <<T("", "a"), c>>] :
              others \in {{}, {T("y", "c")}}, c \in {T("", "c"), T("x", "c")}}

(* Filters on every body of at most two functions around a core. *)
MCNoOperands == [n \in {"value", "from", "to"} |-> "null"]
MCFilter(table, column, op, rows) ==
  [op |-> op, columns |-> <<[table |-> table, column |-> column]>>, rows |-> rows, operands |-> MCNoOperands]
MCOnSales == MCFilter("Sales", "id", "in", <<<<"digits">>>>)
MCTuples == [MCFilter("Store", "id", "in_tuples", <<<<"text", "number">>>>) EXCEPT
               !.columns = @ \o <<[table |-> "Store", column |-> "name"]>>]
MCBetween == [MCFilter("Store", "name", "between", <<>>) EXCEPT !.operands["from"] = "text", !.operands["to"] = "bool"]
MCContains == [MCFilter("Sales", "name", "contains", <<>>) EXCEPT !.operands["value"] = "text"]
MCWrong == {<<MCFilter("Sales", "id", "in", <<<<"text">>>>)>>, <<MCFilter("Other", "id", "", <<<<"number">>>>)>>,
            <<[MCContains EXCEPT !.op = "like"]>>}
MCFilters == {<<MCOnSales>>, <<MCContains, MCOnSales>>, <<MCTuples>>, <<MCOnSales, MCBetween>>} \cup MCWrong
MCArgs == {[kind |-> k] : k \in {"column", "string", "expr"}}
MCCores == {[kind |-> k, name |-> n, args |-> <<>>] : k \in {"table", "var"}, n \in {"Sales", "v"}}
             \cup {[kind |-> "call", name |-> "ROW", args |-> <<>>]}
             \cup {[kind |-> "summarize", name |-> "", args |-> a] :
                      a \in {<<>>, <<[kind |-> "string"], [kind |-> "expr"]>>,
                             <<[kind |-> "column"], [kind |-> "string"], [kind |-> "expr"]>>}}
MCFiltered(fs) == {[MCInput EXCEPT !.query.body.around = a, !.query.body.core = c, !.query.filters = f] :
                 a \in UpTo({"TOPN", "ALL", "FILTER", "UNION", "VALUES"}, 2), c \in MCCores, f \in fs}

(* Measures that refer to each other, to columns and to nothing; VARs named *)
(* like no table and like the table of a measure.                           *)
MCRef(t, n) == [table |-> t, name |-> n, output |-> FALSE, vars |-> {}]
MCRefs == {<<>>, <<MCRef("v", "id")>>, <<MCRef("", "m")>>, <<MCRef("Sales", "n"), MCRef("", "m")>>, <<MCRef("Sales", "id")>>, <<MCRef("", "gone")>>}
MCMeasures(table, names) == UpTo({[table |-> table, name |-> n, refs |-> r] : n \in names, r \in MCRefs}, 1)
MCMeasured(refs) == {[MCInput EXCEPT !.schema.measures = a \o b, !.query.defines = d, !.query.refs = r] :
                 a \in MCMeasures("Sales", {"m"}), b \in MCMeasures("Sales", {"n"}) \cup MCMeasures("Store", {"m"}),
                 d \in MCMeasures("Sales", {"m", "n"}),
                 r \in refs}
MCRoots == {<<MCRef("", "m")>>, <<MCRef("Sales", "m"), MCRef("Sales", "n")>>, <<[MCRef("", "x") EXCEPT !.output = TRUE]>>,
            <<[MCRef("Sales", "m") EXCEPT !.vars = {"v", "Sales"}], [MCRef("", "m") EXCEPT !.vars = {"v"}]>>}

(* Sequences of table expressions: columns of two tables, then what is made of *)
(* them.                                                                       *)
MCColumn(output, lineage) == [output |-> output, lineage |-> lineage]
MCExpr(op, args, adds) == [op |-> op, args |-> args, adds |-> adds]
MCBases == <<MCExpr("COLUMN", <<>>, <<MCColumn("name", "Sales[name]")>>), MCExpr("COLUMN", <<>>, <<MCColumn("name", "Store[name]")>>)>>
MCExtra == MCColumn("extra", NoLineage)
MCMade == {MCExpr("FILTER", <<1>>, <<>>), MCExpr("SELECTCOLUMNS", <<1>>, <<MCColumn("p", "Sales[name]")>>),
           MCExpr("ADDCOLUMNS", <<1>>, <<MCExtra>>), MCExpr("ADDCOLUMNS", <<3>>, <<MCExtra, MCColumn("more", NoLineage)>>),
           MCExpr("CROSSJOIN", <<1, 2>>, <<>>), MCExpr("CROSSJOIN", <<2, 3>>, <<>>), MCExpr("UNION", <<1, 2>>, <<>>),
           MCExpr("UNION", <<3, 2>>, <<>>), MCExpr("INTERSECT", <<1, 3>>, <<>>)}
MCShaped == {[MCInput EXCEPT !.query.exprs = MCBases \o e] : e \in {s \in UpTo(MCMade, 2) : \A k \in DOMAIN s : \A a \in DOMAIN s[k].args : s[k].args[a] < k + 2}}

(* Summaries over two facts that share a dimension, a snowflake, and a bridge   *)
(* with a bidirectional end.                                                    *)
MCf == T("", "f")  MCg == T("", "g")  MCd == T("", "d")  MCe == T("", "e")
MCRel(from, to) == [from |-> from, to |-> to, bidi |-> FALSE]
MCStar == <<MCRel(MCf, MCd), MCRel(MCg, MCd), MCRel(MCg, MCe)>>
MCSnow == <<MCRel(MCf, MCd), MCRel(MCd, MCe)>>
MCBridge == <<MCRel(MCf, MCd), [MCRel(MCg, MCd) EXCEPT !.bidi = TRUE], MCRel(MCg, MCe)>>
MCForeign == {[r \in Rows |-> r], [r \in Rows |-> 1], [r \in Rows |-> 2 - r]}
MCId(t) == [table |-> t, col |-> "id"]
MCArg(form, t) == [form |-> form, table |-> t, col |-> "id", rows |-> {1}]
MCPred(t, rows) == [table |-> t, col |-> "id", rows |-> rows]
MCAgg(values, args) == [values |-> values, args |-> args]
MCSummed(rels, keys, preds, values) ==
  {[MCInput EXCEPT !.graph.rels = rels, !.query.keys = k, !.query.preds = p, !.query.values = v, !.query.fk = fk] :
     k \in keys, p \in preds, v \in values, fk \in [DOMAIN rels -> MCForeign]}
MCCalculate(t, u) == {<<MCArg(form, t)>> : form \in {"all", "all table", "all column", "except", "filter all", "keep", "plain"}}
                 \cup {<<>>, <<MCArg("all table", t), MCArg("plain", u)>>}
MCAlone(t, args) == {<<<<MCAgg(<<t>>, a)>>>> : a \in args}
MCBoth(args) == {<<<<MCAgg(<<MCf>>, <<>>)>>, <<MCAgg(<<MCg>>, a)>>>> : a \in args}
MCPreds(tables) == {<<>>} \cup {<<MCPred(t, {1})>> : t \in tables}

MCStarred ==
  {MCSummed(MCStar, {<<>>, <<MCId(MCd)>>}, {<<>>, <<MCPred(MCd, {2})>>, <<MCPred(MCe, {1})>>},
            {<<<<MCAgg(<<MCf>>, a)>>, <<MCAgg(<<MCg>>, <<>>)>>>> : a \in MCCalculate(MCd, MCd)}),
   MCSummed(MCStar, {<<MCId(MCe)>>, <<MCId(MCd), MCId(MCe)>>}, MCPreds({MCd, MCe}), MCAlone(MCg, MCCalculate(MCe, MCd))),
   MCSummed(MCStar, {<<>>, <<MCId(MCd)>>, <<MCId(MCe)>>}, MCPreds({MCd, MCe}),
            {<<<<MCAgg(<<MCf>>, <<>>), MCAgg(<<MCg>>, a)>>>> : a \in MCCalculate(MCe, MCe)}
              \cup {<<<<MCAgg(<<MCg, MCd>>, <<>>)>>, <<MCAgg(<<MCf>>, <<>>)>>>>})}
MCSnowed ==
  {MCSummed(MCSnow, {<<>>, <<MCId(MCd)>>, <<MCId(MCe)>>, <<MCId(MCe), MCId(MCd)>>}, MCPreds({MCd, MCe}),
            MCAlone(MCf, MCCalculate(MCe, MCd)) \cup {<<<<MCAgg(<<MCf>>, <<>>)>>, <<MCAgg(<<MCd>>, <<>>)>>>>})}
\* Beyond the bidirectional end are either keys or filters, and no ALL of a column.
MCKept == {<<>>, <<MCArg("keep", MCe)>>}
MCBridged ==
  {MCSummed(MCBridge, {<<>>, <<MCId(MCd)>>}, MCPreds({MCd, MCe, MCg}),
            MCAlone(MCf, {a \in MCCalculate(MCe, MCd) : a = <<>> \/ a[1].form \notin {"all column", "except"}})),
   MCSummed(MCBridge, {<<MCId(MCe)>>, <<MCId(MCd), MCId(MCe)>>}, MCPreds({MCd}),
            {<<<<MCAgg(<<MCf>>, <<>>)>>>>, <<<<MCAgg(<<MCf>>, <<>>), MCAgg(<<MCd>>, <<>>)>>>>}),
   MCSummed(MCBridge, {<<>>, <<MCId(MCd)>>, <<MCId(MCe)>>}, {<<>>}, MCBoth(MCKept)),
   MCSummed(MCBridge, {<<>>}, MCPreds({MCd, MCe, MCg}), MCBoth(MCKept \cup {<<MCArg("all table", MCe)>>, <<MCArg("plain", MCd)>>}))}

\* A plain predicate, not on a key, on the column of an outer filter.
MCOverriding(x) ==
  \E i \in DOMAIN x.query.values, p \in DOMAIN x.query.preds :
    \E j \in DOMAIN x.query.values[i] : \E a \in DOMAIN x.query.values[i][j].args :
      LET arg == x.query.values[i][j].args[a]
      IN  arg.form = "plain" /\ Same(arg, x.query.preds[p]) /\ ~\E k \in DOMAIN x.query.keys : Same(x.query.keys[k], arg)
MCSummaries == {{x \in s : ~MCOverriding(x)} : s \in MCStarred \cup MCSnowed \cup MCBridged}
MCOverridden == {{x \in s : MCOverriding(x)} : s \in MCStarred}

MCTwo == <<T("", "a"), T("", "b")>>
MCThree == MCTwo \o <<T("", "c")>>
MCInputs == {MCJoins(t, n) : t \in {MCTwo, MCThree}, n \in 0 .. 3} \cup {MCNames, MCFiltered(MCFilters), MCMeasured(MCRoots), MCShaped} \cup MCSummaries
MCShapes == {MCShaped}
=============================================================================
