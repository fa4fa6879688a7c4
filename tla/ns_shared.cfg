SPECIFICATION Spec
CONSTANT MaxStart = 2
CHECK_DEADLOCK FALSE
INVARIANT SharedMade
