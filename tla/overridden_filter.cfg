SPECIFICATION Spec
CONSTANT Inputs <- MCOverridden
CHECK_DEADLOCK FALSE
INVARIANT CellsExact
