CONSTANTS
    n1 = n1
    n2 = n2
    d1 = d1
    d2 = d2
    d3 = d3
    x1 = x1
    x2 = x2
    Nodes = {n1, n2}
    Deliveries = {d1, d2}
    Destinations = {x1, x2}
    DestinationOf <- TwoRows
    Reads <- OldNode
    MaxAttempts = 1
    Concurrency = 1
    MaxInFlightPerDestination = 1
    Faults = {"crash"}
    NoNode = NoNode
SPECIFICATION LiveSpec
PROPERTY EveryDeliveryEnds
