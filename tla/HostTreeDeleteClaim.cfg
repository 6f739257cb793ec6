\* A host below another one is deleted.
SPECIFICATION Spec
CONSTANTS
  Systems = {s1, s2, s3}
  Pages = {}
  None = None
INVARIANTS
  DeletionIsExact
