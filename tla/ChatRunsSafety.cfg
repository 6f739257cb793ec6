\* Row ids as SQLite hands them out; two turns, two approvals, deletions, and
\* two crashes or shutdowns.
SPECIFICATION Spec
CONSTANTS
  Runs = {r1, r2}
  Approvals = {a1, a2}
  NoRun = NoRun
  MaxChat = 1
  MaxMsg = 2
  MaxStops = 2
  ReuseIds = TRUE
SYMMETRY Symmetry
INVARIANTS
  TypeOK
  OneActiveRun
  OneDriver
  RunsOnlyOnceApproved
PROPERTIES
  ClosedRunStaysClosed
  GateSpec
CHECK_DEADLOCK FALSE
