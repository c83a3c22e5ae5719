\* One start or stop at a time, crashes and failures at any point; every socket gets the inode number of the last.  Each process runs once: the model stops when all have.  No symmetry: liveness.
SPECIFICATION FairSpec
CONSTANTS
  Processes = {p1, p2, p3}
  Inodes = {n1}
  Supervised = TRUE
  File = File
  Absent = Absent
INVARIANTS
  IInv
PROPERTIES
  NeverReplaces
  RestartRecovers
CHECK_DEADLOCK FALSE
