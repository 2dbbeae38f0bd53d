SPECIFICATION Spec
CONSTANTS
    Paths = {p1, p2}
    None = None
    MaxTexts = 3
    MaxRequests = 2
    MaxSent = 3
    MaxEvents = 1
SYMMETRY Symmetry
INVARIANTS
    TypeOK
    SavedReachedDisk
    ResultsOfOpenTabs
    VerdictNotStale
CHECK_DEADLOCK FALSE
