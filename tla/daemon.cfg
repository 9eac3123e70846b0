CONSTANTS
    Daemons = {d1, d2}
    Controllers = {c1}
    Sidecars = {a1}
    Sources = {s1, s2}
    Mountpoints = {m1}
    Maintained = {d1, d2}
    MaxRequests = 2
    None = None
    Wake = Wake

SPECIFICATION Spec
SYMMETRY Symmetry
CHECK_DEADLOCK FALSE

INVARIANTS
    TypeOK
    OneSourcePerDaemon
    TableMatchesMounts
    ServesCompleteClone
    
