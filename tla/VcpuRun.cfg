\* The bootstrap processor and two others; consoles may be closed.  The VM
\* ends, so the system stops.
SPECIFICATION FairSpec
CONSTANTS
  Vcpus = {bsp, a1, a2}
  Bsp = bsp
  Nobody = Nobody
  Panics = TRUE
INVARIANTS HalfDoneIsNeverTouched StopsForAReason
PROPERTIES StopReachesEveryVcpu WindsDownWhenRunsReturn
CHECK_DEADLOCK FALSE
