SPECIFICATION FairSpec
CONSTANTS
  MatchKeys = {k1, k2}
  Calls = {c1, c2}
  Adapters = {p1, p2}
  Strangers = {x1}
  NoProcess = NoProcess
  NoOutcome = NoOutcome
  Outcomes <- MCOutcomes
CHECK_DEADLOCK FALSE
INVARIANTS
  SingleWriter
  OccurrenceIsRank
  CompletedIsWhole
  CompletedAccountsForRealCalls
  ReturnedIsRecorded
  LeakVoidsSession
PROPERTIES
  IsRecordingTape
  FinishSettles
  NoCallHangs
