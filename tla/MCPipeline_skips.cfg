SPECIFICATION FairSpec
CONSTANTS
    f = f
    Trees <- MCTrees
    Fields = {f}
    LooselyEqual <- MCLooselyEqual
    Hops <- MCHops
    MaxIterations = 3
    NotDeclined = NotDeclined
INVARIANTS
    TypeOK
    OwnCanonicalForm
PROPERTIES
    SkipsExact
    AlwaysAnswers
CHECK_DEADLOCK FALSE
