SPECIFICATION HandoverSpec
CONSTANTS
    c1 = c1
    c2 = c2
    Calls = {c1, c2}
    Rules <- MCRules
    MaxAttempts = 1
    MaxMisses = 2
    MaxResumes = 1
SYMMETRY MCSymmetry
INVARIANTS
    CodesAccounted
    ReceiptsThroughLiveLink
CHECK_DEADLOCK FALSE
