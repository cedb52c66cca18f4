SPECIFICATION Spec
CONSTANTS
  Requests = {r1, r2}
  Pids = {1, 2}
  MaxLines = 4
  Tools = 1
  CallsPerTool = 2
  MaxEvents = 4
INVARIANTS
  TraceIsWhole
  HalvesStayTogether
  RequestsFollowTheirCall
  RecordedOnce
  NothingLeftUnsaid
CHECK_DEADLOCK FALSE
