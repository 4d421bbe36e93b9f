SPECIFICATION Spec
CONSTANTS
    c1 = c1
    c2 = c2
    c3 = c3
    t1 = t1
    t2 = t2
    Nobody = Nobody
    Threads = {t1, t2}
    Calls = {c1, c2, c3}
SYMMETRY MCSymmetry
INVARIANTS
    DeadlocksComeLate
PROPERTIES
    ImplementsSerialCalls
CHECK_DEADLOCK FALSE
