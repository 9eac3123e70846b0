\* One batch of all the directories of a tree level (warm_tree_closure), larger than
\* the two pipes together.
SPECIFICATION Spec
CONSTANTS
    MaxBatch = 7
    InCap = 2
    OutCap = 3
    ChunkCap = 2
PROPERTIES
    WriteLoopEnds
