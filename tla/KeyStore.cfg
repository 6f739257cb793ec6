SPECIFICATION Spec
CONSTANTS
  Keys = {k1, k2}
  Hosts = {h1}
  None = None
  MaxMishaps = 1
INVARIANTS
  TypeOK
  Usable
  NoStrayFile
  DeletedIsGone
SYMMETRY Symmetry
CONSTRAINT FewMishaps
CHECK_DEADLOCK FALSE
