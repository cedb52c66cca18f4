SPECIFICATION Spec
CONSTANTS
  Baseline <- MCBaseline
  Candidates <- MCCandidates
  NoCandidate = NoCandidate
  CaseIds = {"a", "b", "c", "d"}
  Values = {1, 2}
  MaxRevision = 2
INVARIANTS
  SelectionIsExact
  SavedIsVerified
PROPERTIES
  NothingIsClobbered
CHECK_DEADLOCK FALSE
