\* Overlapping prefetch batches, one listing an object twice, and a reader; o2 is not upstream.
SPECIFICATION Spec
CONSTANTS
    r1 = r1
    r2 = r2
    p1 = p1
    p2 = p2
    o1 = o1
    o2 = o2
    Readers <- OneReader
    Prefetchers <- TwoPrefetchers
    Oids <- TwoOids
    Upstream <- OneOid
    Batches <- Overlapping
    PoolSize = 2
    MaxFaults = 2
    MaxRefusals = 1
    MaxCalls = 1
    MaxBatches = 1
    NoOne = NoOne
    NoFlight = NoFlight
    Pending = Pending
CHECK_DEADLOCK FALSE
SYMMETRY PrefetcherSymmetry
INVARIANTS
    ClaimsExact
    ErrorsHaveCauses
