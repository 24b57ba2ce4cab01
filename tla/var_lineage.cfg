SPECIFICATION Spec
CONSTANT Inputs <- MCShapes
CHECK_DEADLOCK FALSE
INVARIANT LineageKept
