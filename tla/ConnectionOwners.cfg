SPECIFICATION FairOwnersSpec
INVARIANTS ResolvedMeansGone FailedConnectLeavesNothing OkIsClean
PROPERTIES FailureIsFinal CloseSettlesOrForceFails AskingEnds BothSidesEnd
CHECK_DEADLOCK FALSE
