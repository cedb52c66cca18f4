SPECIFICATION Spec
CONSTANTS
  MatchKeys = {k1}
  Calls = {c1, c2}
  Adapters = {p1, p2}
  Strangers = {x1}
  NoProcess = NoProcess
  NoOutcome = NoOutcome
  MaxSource = 2
  MaxOutside = 1
  Outcomes <- MCOutcomes
SYMMETRY Symmetry
CHECK_DEADLOCK FALSE
INVARIANTS
  ClaimedIsWriter
