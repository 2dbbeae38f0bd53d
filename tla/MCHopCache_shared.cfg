SPECIFICATION FairSpec
CONSTANTS
    a = a
    b = b
    c = c
    r1 = r1
    r2 = r2
    w1 = w1
    w2 = w2
    k1 = k1
    k2 = k2
    g1 = g1
    g2 = g2
    g3 = g3
    NoEngine = NoEngine
    Garbled = Garbled
    Runs = {r1, r2}
    Workers = {w1}
    Engines = {a, b}
    Contexts = {k1, k2}
    Games = {g1, g2, g3}
    Accepts <- MCAccepts
    Uncacheable = {}
    ProofOf <- PoolProofs
    Modes = {"sequential", "parallel"}
    StartMethod = "fork"
    PoolThreshold = 2
    MaxEntries = 2
    TrimTo = 2
    MaxCacheFiles = 1
    PriorDirs <- MCPriorDirs
    Kills = FALSE
    EditWindows = {"worker"}
    Reverts = TRUE
INVARIANTS
    TypeOK
    CacheSound
    CachedVerdictSound
PROPERTIES
    TrimKeepsNewest
    Transparent
    NeverFailsAProof
CHECK_DEADLOCK FALSE
