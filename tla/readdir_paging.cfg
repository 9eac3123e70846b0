SPECIFICATION Spec
CONSTANTS
    c1 = c1
    c2 = c2
    t1 = t1
    t2 = t2
    d1 = d1
    d2 = d2
    e1 = e1
    hi = hi
    lo = lo
    to = to
    sub = sub
    main = main
    tag = tag
    None = None
    Commits = {c1, c2}
    RootOf <- MCRootOf
    Trees <- MCTrees
    Bytes <- MCBytes
    Refs = {main, tag}
    BranchPath <- MCBranchPath
    Alphabet <- MCAlphabet
    Lossy <- MCLossy
    Depth = 3
    Hash <- MCHash
    HighBit = 1048576
    Buffer = 2
    Chunks = {1, 2}
    MaxOps = 3
    MaxMoves = 0
    Plans <- PagingPlan
    Tip <- MCTip
    Canon <- MCCanon
    Local = {t1, t2, d1, d2, hi, to}
INVARIANT ListingsResume
CHECK_DEADLOCK FALSE
