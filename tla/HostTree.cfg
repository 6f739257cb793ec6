\* Three hosts, all reorder requests, one page whose form may be stale.
SPECIFICATION Spec
CONSTANTS
  Systems = {s1, s2, s3}
  Pages = {p1}
  None = None
INVARIANTS
  TypeOK
PROPERTIES
  ReorderMakesForest
  DeletionFreesChildren
  HierarchyKept
