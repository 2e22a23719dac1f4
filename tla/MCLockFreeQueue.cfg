SPECIFICATION FairSpec
CONSTANTS
    p1 = p1
    p2 = p2
    c1 = c1
    c2 = c2
    n0 = n0
    n1 = n1
    n2 = n2
    n3 = n3
    Producer <- MCProducer
    Consumer <- MCConsumer
    Node <- MCNode
    Sentinel = n0
    Null = Null
    MaxInput = 2
INVARIANTS TypeOK OneList TailLagsAtMostOne
PROPERTIES TailNeverMovesBack ImplementsFifo InputReturns EveryLineDelivered
