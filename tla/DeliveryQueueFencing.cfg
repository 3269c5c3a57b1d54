CONSTANTS
    n1 = n1
    n2 = n2
    d1 = d1
    d2 = d2
    d3 = d3
    x1 = x1
    x2 = x2
    Nodes = {n1, n2}
    Deliveries = {d1, d2, d3}
    Destinations = {x1, x2}
    DestinationOf <- ThreeRows
    Reads <- ReadAll
    MaxAttempts = 3
    Concurrency = 2
    MaxInFlightPerDestination = 1
    Faults = {"crash", "store"}
    NoNode = NoNode
SPECIFICATION Spec
SYMMETRY Alike
CONSTRAINT Explored
INVARIANTS TypeOK OnlyTheLatestClaimWrites NoLeakedLease InFlightBounded
PROPERTY ImplementsContract
