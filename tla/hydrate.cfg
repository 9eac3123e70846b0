SPECIFICATION Spec
CONSTANTS
    r1 = r1
    r2 = r2
    Worker = worker
    Warmer = warmer
    Readers = {r1, r2}
    root = root
    left = left
    right = right
    leaf = leaf
    small = small
    big = big
    gone = gone
    Oids = {root, left, right, leaf, small, big, gone}
    Upstream = {root, left, right, leaf, small, big}
    Backends = {"noop", "gix", "gvfs", "daemon"}
    Casts <- MCCasts
    Kind <- MCKind
    Size <- MCSize
    Subtrees <- MCSubtrees
    RootTree = root
    Foreign = {small, left}
    BlobPrefetch = TRUE
    Cap = 2
    Capacity = 1
    MaxBatch = 3
    MaxReads = 2
    MaxFaults = 1
    MaxCalls = 6
    NoFlight = NoFlight
    Pending = Pending
INVARIANTS
    OkMeansResident
    FailuresHaveCauses
    HeadersTrue
    FirstProbeHonest
    PrefetchBounded
    WarmCoversClosure
PROPERTIES
    EveryWaitEnds
CHECK_DEADLOCK FALSE
