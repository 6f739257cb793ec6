SPECIFICATION Spec
CONSTANTS
  Admin = admin
  Users = {admin, u}
  Passwords = {p, q}
  Requests = {r1, r2}
  None = None
  MaxAttempts = 2
  MaxFailed = 3
INVARIANTS
  TypeOK
  LocksAfterMax
  RowsAsMeant
PROPERTIES
  AdminStays
SYMMETRY Symmetry
CONSTRAINT OneAtATime
CHECK_DEADLOCK FALSE
