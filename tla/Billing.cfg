SPECIFICATION BillingSpec
CONSTANTS
    j1 = j1
    j2 = j2
    p1 = p1
    r1 = r1
    r2 = r2
    o1 = o1
    o2 = o2
    Jobs = {j1, j2}
    Payees = {p1}
    PayeeOf <- MCPayeeOf
    Fee <- MCFee
    Refs = {r1, r2}
    Officers = {o1, o2}
    Windows = {0, 1}
    MaxWeek = 3
    MaxAdjustments = 2
    MaxSettlements = 3
SYMMETRY MCSymmetry
INVARIANTS
    Reconciled
    CreditsFollowCharges
CHECK_DEADLOCK FALSE
