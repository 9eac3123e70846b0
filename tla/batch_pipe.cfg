\* Batches that fit in the stdout pipe (the prefetch worker's MAX_BATCH = 64 against
\* more than a thousand answers), of every size up to the limit.
SPECIFICATION Spec
CONSTANTS
    MaxBatch = 6
    InCap = 3
    OutCap = 6
    ChunkCap = 3
INVARIANTS
    NothingLeftOver
PROPERTIES
    EveryBatchEnds
