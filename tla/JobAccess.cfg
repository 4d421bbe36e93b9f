SPECIFICATION AccessSpec
CONSTANTS
    shop = shop
    yard = yard
    ann = ann
    ben = ben
    cat = cat
    None = None
    Businesses = {shop}
    Groups = {yard}
    People = {ann, ben, cat}
    Operators = {ben, cat}
    Admins = {}
    Shipper = shop
    DriverAccepts = {yard}
    MaxCalls = 3
INVARIANTS
    OwnerlessOnlyByRace
    PartyFindsJob
SYMMETRY Carriers
CHECK_DEADLOCK FALSE
