\* The file is made unreadable while its keys are cached.
SPECIFICATION Spec
CONSTANTS
  Versions = {k1, k2}
  Inodes = {n1, n2}
  Refresh = 2
  MaxTime = 1
  MaxWrites = 1
  Broken = Broken
  Absent = Absent
  None = None
SYMMETRY Symmetry
INVARIANTS
  KeysFromReadable
