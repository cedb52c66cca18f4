SPECIFICATION Spec
INVARIANTS ForceClosedMeansGone
CHECK_DEADLOCK FALSE
