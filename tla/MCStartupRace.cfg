\* Nothing orders the starts; the processes share the work directory.
SPECIFICATION Spec
CONSTANTS
  Processes = {p1, p2, p3}
  Inodes = {n1, n2, n3}
  Supervised = FALSE
  File = File
  Absent = Absent
SYMMETRY Symmetry
INVARIANTS
  StaleOnlyByFailure
  CleansOnlyAbandoned
  NothingAbandonedWhileServing
CHECK_DEADLOCK FALSE
