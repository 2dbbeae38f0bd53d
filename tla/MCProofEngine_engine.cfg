SPECIFICATION FairSpec
CONSTANTS
    T = T
    G = G
    P = P
    Q = Q
    H = H
    K = K
    RA = RA
    RB = RB
    RC = RC
    RD = RD
    RE = RE
    a1 = a1
    a2 = a2
    a3 = a3
    NoSide = NoSide
    NoReduction = NoReduction
    Files <- MCFiles
    IdenticalUntilBad = {P}
    MinParallel = 2
    PoolBreaks = TRUE
INVARIANTS
    TypeOK
    ChainLinked
    StepsCounted
    OwnAssumptions
    VariablesScoped
    BoundCoversChain
PROPERTIES
    ReportsFollowText
    EndsWithVerdict
CHECK_DEADLOCK FALSE
