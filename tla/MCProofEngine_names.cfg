SPECIFICATION Spec
CONSTANTS
    T = T
    G = G
    P = P
    Q = Q
    H = H
    K = K
    RA = RA
    RB = RB
    RC = RC
    RD = RD
    RE = RE
    a1 = a1
    a2 = a2
    a3 = a3
    NoSide = NoSide
    NoReduction = NoReduction
    Files <- SameNameFiles
    IdenticalUntilBad = {P}
    MinParallel = 2
    PoolBreaks = FALSE
INVARIANT
    BoundCoversChain
CHECK_DEADLOCK FALSE
