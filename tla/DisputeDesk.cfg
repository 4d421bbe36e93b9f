SPECIFICATION Spec
CONSTANTS
    i1 = i1
    i2 = i2
    o1 = o1
    o2 = o2
    None = None
    Incidents = {i1, i2}
    Serious = {i1, i2}
    Officers = {o1, o2}
    MaxDisputes = 2
SYMMETRY MCSymmetry
INVARIANTS
    FrozenByOneDispute
    ClosuresAccounted
CHECK_DEADLOCK FALSE
