\* No id comes back. Fair tasks and handlers; deletions at any time, and two
\* shutdowns or crashes after which the process starts again.
SPECIFICATION FairSpec
CONSTANTS
  Runs = {r1, r2}
  Approvals = {a1, a2}
  NoRun = NoRun
  MaxChat = 1
  MaxMsg = 2
  MaxStops = 2
  ReuseIds = FALSE
INVARIANTS
  NoTurnWhilePending
  AskIsAnswerable
  NothingIsStranded
PROPERTIES
  CompleteIsFinal
  RunSettles
  MessageSettles
  CommandConcludes
CHECK_DEADLOCK FALSE
