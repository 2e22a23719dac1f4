SPECIFICATION FairSpec
CONSTANTS
    r1 = r1
    r2 = r2
    g1 = g1
    g2 = g2
    Null = Null
    Request <- TwoRequests
    Graph <- Graphs
    PoolSizes <- OneOrTwo
    MaxConcurrent = 2
CHECK_DEADLOCK FALSE

INVARIANTS TypeOK PoolIsSound AnswersAreOwn
PROPERTIES UndefinedOnlyByKnownFaults EveryRequestAnswered
