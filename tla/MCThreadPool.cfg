\* Two threads, four tasks, a semaphore that is full after two permits; no symmetry,
\* as liveness is checked.
CONSTANTS
  Tasks = {k1, k2, k3, k4}
  MaxThreads = 2
  SemMax = 2
  NoTask = NoTask
SPECIFICATION FairSpec
INVARIANTS
  TypeOK
  PermitsMatchQueue
  IdleCounterExact
  PopFindsTask
  NoUseAfterFree
PROPERTIES
  ImplementsTaskQueue
  EveryTaskSettles
  DestructorReturns
