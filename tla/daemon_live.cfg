CONSTANTS
    Daemons = {d1}
    Controllers = {c1}
    Sidecars = {a1}
    Sources = {s1, s2}
    Mountpoints = {m1}
    Maintained = {d1}
    MaxRequests = 2
    None = None
    Wake = Wake

SPECIFICATION Spec
CHECK_DEADLOCK FALSE

PROPERTIES
    EveryRequestEnds
    ShutdownEnds
