\* Three workers, three tasks submitted by the owner or by each other; no
\* symmetry, because of the liveness properties.
CONSTANTS
  k1 = k1  k2 = k2  k3 = k3
  Task = {k1, k2, k3}
  NoTask = NoTask
  NumThreads = 3
  MaxSpurious = 1
SPECIFICATION Spec
INVARIANTS
  ExactlyOnce
  NoLostWakeup
  DrainedAtExit
PROPERTIES
  PoolContract
  EveryTaskRuns
