---------------------------- MODULE MCDashStore ----------------------------
(* Small instances of DashStore for TLC. *)
EXTENDS DashStoreDocuments, TLC

CONSTANTS c1, c2, d1, d2, neat, loose, other, broken

\* neat and loose are one document formatted in two ways, broken is not valid.
MCText == {neat, loose, other, broken}
MCTwoTexts == {neat, other}
MCTwoForms == {neat, loose}
MCOneText == {neat}

MCPretty == [t \in Text |-> IF t = loose THEN neat ELSE t]
\* The theme's schema is not that of dashboards.
MCValid == [p \in File |-> Text \ (IF p = Theme THEN {other, broken} ELSE {broken})]

\* All texts are of one length: only mtimes tell files apart.
MCSize == [t \in Text |-> 1]

MCSymmetry == Permutations(Client)
=============================================================================
