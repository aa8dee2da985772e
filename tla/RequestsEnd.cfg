CONSTANTS
    Dcs = {1, 2}
    MainDc = 1
    MaxUser = 2
    MaxTroubles = 2
    Refused = {"export", "import"}

SPECIFICATION FairSpec

INVARIANTS
    NothingIsStranded
    CancelFindsIt
    OneTransfer

PROPERTIES
    EveryRequestEnds

CHECK_DEADLOCK FALSE
