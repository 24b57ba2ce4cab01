--------------------------- MODULE MCQueryServer ---------------------------
(* Instances of QueryServer for TLC. *)
EXTENDS QueryServer, TLC

CONSTANTS c1, c2, lakeA, lakeB, week, month, x, y

\* duxd with two lanes, with a pool too small, with one lane on another path, and
\* with one lane and another retention; a tool whose flags differ.
MCDuxd == [owner |-> TRUE, path |-> lakeA, expire |-> month, delete |-> week, connections |-> 3]
MCSettings == {MCDuxd, [MCDuxd EXCEPT !.connections = 1], [MCDuxd EXCEPT !.path = lakeB, !.connections = 2],
               [MCDuxd EXCEPT !.expire = week, !.delete = month, !.connections = 2], [MCDuxd EXCEPT !.owner = FALSE, !.expire = week]}

\* A table and a scalar after it, or a request for values.
MCPrograms == {<<[name |-> x, table |-> TRUE], [name |-> y, table |-> FALSE]>>, <<>>}

=============================================================================
