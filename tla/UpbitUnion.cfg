CONSTANTS
    Clients = {c1, c2}
    Streams = {k1}
    Upbit = Upbit
    MaxChanges = 2
    MaxEvents = 0
    None = None
SYMMETRY Interchange
SPECIFICATION Spec
INVARIANT UnionOfAll
CHECK_DEADLOCK FALSE
