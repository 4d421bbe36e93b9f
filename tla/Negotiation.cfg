SPECIFICATION Spec
CONSTANTS
    p1 = p1
    p2 = p2
    low = low
    high = high
    Parties = {p1, p2}
    Prices = {low, high}
    MaxEntries = 5
SYMMETRY MCSymmetry
INVARIANTS
    NoStaleTerms
    OneWinner
PROPERTIES
    ImplementsDeal
CHECK_DEADLOCK FALSE
