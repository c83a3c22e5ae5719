\* Starts at once: one finds a socket that refuses, another listens before it is removed.
SPECIFICATION Spec
CONSTANTS
  Processes = {p1, p2, p3}
  Inodes = {n1, n2, n3}
  Supervised = FALSE
  File = File
  Absent = Absent
SYMMETRY Symmetry
PROPERTIES
  NeverReplaces
CHECK_DEADLOCK FALSE
