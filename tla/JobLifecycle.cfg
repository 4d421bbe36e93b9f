SPECIFICATION FairSpec
CONSTANTS
    d1 = d1
    low = low
    high = high
    Drivers = {d1}
    Prices = {low, high}
    Fee <- MCFee
    ProofRules <- MCProofRules
    Givens <- MCGivens
    MaxDisputes = 2
INVARIANTS
    DisputeFreezesJob
    CustodyChain
    CompletionEarned
PROPERTIES
    OpenDisputeHolds
    ResumeRestores
    ImplementsConsignment
    RequestExpires
    EarnedIsBilled
CHECK_DEADLOCK FALSE
