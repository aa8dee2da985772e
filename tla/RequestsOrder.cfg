CONSTANTS
    Dcs = {1, 2}
    MainDc = 1
    MaxUser = 3
    MaxTroubles = 1
    Refused = {"export", "import"}

SPECIFICATION Spec

INVARIANTS
    NothingIsStranded
    CancelFindsIt
    OneTransfer

CHECK_DEADLOCK FALSE
