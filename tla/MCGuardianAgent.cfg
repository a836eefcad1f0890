SPECIFICATION Spec
CONSTANTS
    q1 = q1
    q2 = q2
    q3 = q3
    Query = {q1, q2, q3}
    Batch <- MCBatch
    Result <- MCResult
    MaxQueries = 2
    MaxRows = 3
    Timeout = 2
    NoQuery = NoQuery
INVARIANTS
    QueriesBounded
    HistoriesAreWhole
    NothingLeftRunning
PROPERTIES
    BatchEnds
