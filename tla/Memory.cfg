\* Two facts about a host, told as results or to be remembered, and a preference; two threads.
SPECIFICATION Spec
CONSTANTS
  f1 = f1
  f2 = f2
  likes = likes
  web = web
  w1 = w1
  w2 = w2
  Facts = {f1, f2, likes}
  Preferences = {likes}
  Hosts = {web}
  NoHost = NoHost
  Turns <- MCTurns
  Workers = {w1, w2}
  RecallLimit = 1
  UsedOften = 1
  MinGroup = 2
  SummaryFits = 1
  MaxRecords = 2
  SummaryAfter = 1
  Interval = 1
  Never = Never
  MaxClock = 2
SYMMETRY Symmetry
CONSTRAINT Bounded
INVARIANTS
  TypeOK
PROPERTIES
  NothingSilentlyLost
  AskedIsKept
