SPECIFICATION FileSpec
CONSTANTS
  Runs = {r1, r2, r3, r4}
  NoRun = NoRun
  MaxRows = 2
SYMMETRY Symmetry
INVARIANTS RecordingsStayReadable
PROPERTIES OnlyItsRecorder
CHECK_DEADLOCK FALSE
