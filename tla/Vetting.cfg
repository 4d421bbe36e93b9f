SPECIFICATION Spec
CONSTANTS
    own = own
    officer = officer
    admin = admin
    licence = licence
    details = details
    driver = driver
    shop = shop
    None = None
    Records <- MCRecords
    TypeOf <- MCTypeOf
    DomainOf <- MCDomainOf
    Holders <- MCHolders
    ApplicantOf <- MCApplicantOf
    Kinds <- MCKinds
    MaxBranches = 1
    People = {own, officer, admin}
    Admins = {admin}
    Reviewers = {own, officer, admin}
INVARIANTS
    ReviewerIndependent
    EvidenceUnderReviewStands
    WaitingIsListed
    FlagIsLastRuling
CHECK_DEADLOCK FALSE
