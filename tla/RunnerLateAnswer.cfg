CONSTANT N = 2
SPECIFICATION Spec
INVARIANTS TimedOutHasNoAnswer
CHECK_DEADLOCK FALSE
