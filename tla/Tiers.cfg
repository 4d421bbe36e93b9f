SPECIFICATION Spec
CONSTANTS
    delivery = delivery
    errand = errand
    boss = boss
    driver = driver
    Jobs = {delivery, errand}
    Scores = {2, 5}
    OverLast = 1
    MinCounted = 1
    LiveCriteria = TRUE
    MaxFaults = 0
    Managers = {boss, driver}
    Self = driver
    MaxChanges = 4
    MaxFindings = 1
INVARIANTS
    OneOpenOfAKind
PROPERTIES
    RatesBlind
    RestrictionHolds
CHECK_DEADLOCK FALSE
