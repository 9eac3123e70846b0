\* Three threads, two calls each, on one key (calls for different keys share only the
\* map's lock).  No symmetry: it is unsound for liveness.
SPECIFICATION Spec
CONSTANTS
    t1 = t1
    t2 = t2
    t3 = t3
    k1 = k1
    Threads <- ThreeThreads
    Keys <- OneKey
    Results <- OkErr
    MaxCalls = 2
    NoSlot = NoSlot
    Pending = Pending
INVARIANTS
    OneExecutionPerKey
    NoLostWakeup
PROPERTIES
    EveryCallReturns
    ImplementsSingleFlight
\* All calls made: the threads have nothing left to do.
CHECK_DEADLOCK FALSE
