SPECIFICATION Spec
CONSTANTS
    a = a
    b = b
    c = c
    r1 = r1
    r2 = r2
    w1 = w1
    w2 = w2
    k1 = k1
    k2 = k2
    g1 = g1
    g2 = g2
    g3 = g3
    NoEngine = NoEngine
    Garbled = Garbled
    Runs = {r1, r2}
    Workers = {w1, w2}
    Engines = {a, b, c}
    Contexts = {k1, k2}
    Games = {g1, g2, g3}
    Accepts <- MCAccepts
    Uncacheable <- MCUncacheable
    ProofOf <- PoolProofs
    Modes = {"parallel"}
    StartMethod = "spawn"
    PoolThreshold = 2
    MaxEntries = 3
    TrimTo = 1
    MaxCacheFiles = 1
    PriorDirs <- TwoFileDirs
    Kills = TRUE
    EditWindows = {}
    Reverts = TRUE
SYMMETRY WorkerSymmetry
INVARIANTS
    CacheSound
    DirBounded
    PruneSettles
CHECK_DEADLOCK FALSE
