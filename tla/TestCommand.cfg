CONSTANT N = 2
SPECIFICATION FairTestSpec
INVARIANTS OneCallAtATime ReportAccounts FinalizedMeansGone AbandonedIsKilled
PROPERTIES NextServerAfterLast TestEnds
CHECK_DEADLOCK FALSE
