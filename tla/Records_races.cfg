CONSTANTS
    Requests = {r1, r2}
    Inserts <- MCInserts
    Workers = {w1, w2}
    Samples <- MCSamples
    Edits = {e1, e2}
    MaxFaults = 1
SPECIFICATION Spec
SYMMETRY RecordsSymmetry
INVARIANTS
    TypeOK
    KeysAreUnique
    LosersHaveARival
    SomebodyMoves
    CatalogueIsSeeded
    StockMatchesCatalogue
    ReviewsAreOfProducts
    MessagesAreRecorded
PROPERTIES
    DeletedStaysDeleted
CHECK_DEADLOCK FALSE
