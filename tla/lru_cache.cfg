\* Two threads, five objects, a budget of 3, entries of up to 4 let in.
SPECIFICATION Spec
CONSTANTS
    t1 = t1
    t2 = t2
    o1 = o1
    o2 = o2
    o3 = o3
    o4 = o4
    o5 = o5
    Threads <- TwoThreads
    Oids <- FiveOids
    Size <- Sizes
    Capacity = 3
    PerEntryMax = 4
    MaxGen = 7
    NoOne = NoOne
SYMMETRY ThreadSymmetry
\* The generations are bounded: threads that need another one have to stop.
CHECK_DEADLOCK FALSE
INVARIANTS
    IndexesAgree
    BudgetExact
PROPERTIES
    ImplementsLru
