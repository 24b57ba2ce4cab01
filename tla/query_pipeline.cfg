SPECIFICATION Spec
CONSTANT Inputs <- MCInputs
CHECK_DEADLOCK FALSE
INVARIANT FiltersHold
INVARIANT ResolvedAcyclic
INVARIANT JoinsSound
INVARIANT CellsExact
