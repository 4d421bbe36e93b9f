SPECIFICATION Spec
CONSTANTS
    asha = asha
    juma = juma
    lorry = lorry
    admin = admin
    officer = officer
    manager = manager
    Drivers = {asha, juma}
    Confirmed = asha
    Requester = juma
    Vehicles = {lorry}
    Bands = {"STANDARD", "VERY_HIGH"}
    Levels = {"L0", "L1", "L3"}
INVARIANTS
    PreviewHidesNothing
    RecordJustifies
    SuspensionIsStaffs
CHECK_DEADLOCK FALSE
