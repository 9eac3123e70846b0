\* Two callers on a pool of two, singles and batches, two faults, one failing spawn.
SPECIFICATION Spec
CONSTANTS
    a1 = a1
    a2 = a2
    o1 = o1
    o2 = o2
    Actors <- TwoActors
    Oids <- TwoOids
    Upstream <- OnlyO1
    Requests <- SingleAndBatch
    PoolSize = 2
    MaxFaults = 2
    MaxRefusals = 1
    NoOne = NoOne
SYMMETRY ActorSymmetry
INVARIANTS
    SlotsHeldExactly
    PipesInStep
    AnswersMatchRequests
