\* Two readers and a prefetch batch after the same object, on one child; every way
\* the round trip can fail.  No symmetry: it is unsound for liveness.
SPECIFICATION Spec
CONSTANTS
    r1 = r1
    r2 = r2
    p1 = p1
    p2 = p2
    o1 = o1
    o2 = o2
    Readers <- TwoReaders
    Prefetchers <- OnePrefetcher
    Oids <- OneOid
    Upstream <- OneOid
    Batches <- SingleBatch
    PoolSize = 1
    MaxFaults = 2
    MaxRefusals = 1
    MaxCalls = 1
    MaxBatches = 1
    NoOne = NoOne
    NoFlight = NoFlight
    Pending = Pending
CHECK_DEADLOCK FALSE
INVARIANTS
    OkMeansResident
    AtMostTwoAsk
    ErrorsHaveCauses
PROPERTIES
    EveryCallReturns
