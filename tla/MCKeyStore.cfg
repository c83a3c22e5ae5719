\* Three writes with any times, in all orders around and within lookups.
SPECIFICATION Spec
CONSTANTS
  Versions = {k1, k2}
  Inodes = {n1, n2}
  Refresh = 1
  MaxTime = 2
  MaxWrites = 3
  Broken = Broken
  Absent = Absent
  None = None
SYMMETRY Symmetry
INVARIANTS
  IInv
  NeverOutdated
  RejectsOnlyBroken
  BoundedStaleness
