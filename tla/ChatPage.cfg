\* Two chats of two answers, two moves or failures, one poll on its way; the page
\* is opened on the first.
SPECIFICATION MCSpec
CONSTANTS
  Chats = {c1, c2}
  NoChat = NoChat
  MaxTurns = 2
  MaxMoves = 2
  MaxPolls = 1
INVARIANTS
  TypeOK
  ShownIsActive
  RestIsCurrent
PROPERTIES
  PageCatchesUp
\* The user may stop.
CHECK_DEADLOCK FALSE
