-------------------------- MODULE MCSemanticModel --------------------------
(* Instances of SemanticModel for TLC. *)
EXTENDS SemanticModel, TLC

CONSTANTS c1, c2, Sales, Date, m1, m2, e1, e2, f1, day

\* A relationship and the one declared in reverse.
MCJoins == {[from |-> Sales, to |-> Date, cols |-> 1], [from |-> Date, to |-> Sales, cols |-> 1]}
MCDateColumns == [t \in {Sales, Date} |-> IF t = Date THEN {day} ELSE {}]
MCObjects == {[table |-> Date, column |-> ""]}

MCForward == [j \in MCJoins |-> IF j.from = Sales THEN <<FALSE>> ELSE <<>>]
MCBoth == [j \in MCJoins |-> <<TRUE>>]
MCTotal(t) == [k \in Keys |-> IF k = [table |-> t, name |-> m1] THEN e1 ELSE None]

\* Beside the server nothing, or a relationship, a measure and a hidden table; for
\* an import two paths between the tables, a measure of a quoted table and a date.
MCPlain == [EmptyLayer EXCEPT !.rels = MCForward, !.measures = MCTotal(Sales), !.hidden = MCObjects]
MCAmbiguous == [EmptyLayer EXCEPT !.rels = MCBoth, !.measures = MCTotal(Date), !.dates[Date] = day]
MCTomlFiles == {EmptyLayer, MCPlain}
MCDocuments == {MCAmbiguous}
MCNothing == {EmptyLayer}

=============================================================================
