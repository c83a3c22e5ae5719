\* Two workers share the lock on the receiver, a third attempt waits; the
\* second identifier comes back.  Executions may last for ever: the deadline is
\* assumed to fire by EveryJobConcludes only.  No symmetry: liveness.
SPECIFICATION FairSpec
CONSTANTS
  Ids = {i1, i2}
  Attempts = {a1, a2, a3}
  Workers = {w1, w2}
  Queue = 1
  Deadline = TRUE
  None = None
PROPERTIES
  EveryJobConcludes
  ShutdownDrains
  FreeWorkerTakesJob
