CONSTANTS
    Clients = {c1, c2}
    Streams = {k1, k2}
    Upbit = Upbit
    MaxChanges = 2
    MaxEvents = 2
    None = None
SPECIFICATION FairSpec
INVARIANTS TypeOK AskedForGlobal UnionIsMerged
PROPERTY OneArrives
CHECK_DEADLOCK FALSE
