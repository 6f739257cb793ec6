SPECIFICATION Spec
CONSTANTS
    Calls = {c1, c2}
    Risky = {restart, install}
    Plain = {uptime}
    Probes = {logs}
    NoCommand = NoCommand
    MaxAttempts = 2
    MaxRounds = 2
CHECK_DEADLOCK FALSE
INVARIANT TypeOK
INVARIANT NobodyLeftBehind
PROPERTY LoopIsExplained
PROPERTY WindsDown
