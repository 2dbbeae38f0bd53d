SPECIFICATION FairSpec
CONSTANTS
    Blocks <- MCBlocks
    Fields = {"f", "g"}
    Graph <- MCGraph
    Names <- MCNames
    Values <- Bits
    Entries <- MCEntries
    Coins = {0, 1}
    Does <- MCDoes
    MaxLength = 3
    LongLength = 5
INVARIANTS
    TypeOK
    KeepsOrder
    PlacesFound
    SameBehaviour
PROPERTIES
    SortEnds
CHECK_DEADLOCK FALSE
