------------------------ MODULE MCDuckLakeService ------------------------
(* Instances of DuckLakeService for TLC. *)
EXTENDS DuckLakeServiceLedger, TLC

CONSTANTS f1, f2, c1, c2, t1, s1, s2

\* One column list for every content.
MCOneShape == [x \in Content |-> s1]

\* Two files at once into a table that may be missing, and one of them alone.
MCPairAndOne ==
  {[table |-> t1, files |-> {f1, f2}, create |-> TRUE],
   [table |-> t1, files |-> {f1}, create |-> FALSE]}
\* One file.
MCOneFile == {[table |-> t1, files |-> {f1}, create |-> TRUE]}

MCSymmetry == Permutations(Key) \cup Permutations(Caller)
==========================================================================
