CONSTANTS
    Dcs = {1, 2}
    MainDc = 1
    MaxUser = 2
    MaxTroubles = 2
    Refused = {"export", "import"}

SPECIFICATION Spec

INVARIANTS
    NothingIsEverStranded

CHECK_DEADLOCK FALSE
