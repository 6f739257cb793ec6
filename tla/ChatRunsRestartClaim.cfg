\* A crash while an approved command executes.
SPECIFICATION Spec
CONSTANTS
  Runs = {r1, r2}
  Approvals = {a1}
  NoRun = NoRun
  MaxChat = 1
  MaxMsg = 2
  MaxStops = 1
  ReuseIds = FALSE
PROPERTY
  RestartSettlesMessages
CHECK_DEADLOCK FALSE
