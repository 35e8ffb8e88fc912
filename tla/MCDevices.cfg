SPECIFICATION DevicesSpec
CONSTANTS
    phone = phone
    c1 = c1
    c2 = c2
    Client = {c1, c2}
    NoClient = NoClient
    Device = {phone}
    DeviceOf <- OneDevice
    Url = {u1, u2}
    NULL = NULL
    MaxBatch = 1
    MaxRows = 3
    MaxClock = 3
    Adopters = {c1}
    Caption = {x}
    DeviceType = {Other}
    Other = Other
    NoDevice = NoDevice
SYMMETRY UrlSymmetry
ACTION_CONSTRAINTS
    OneAtATime
    Undisturbed
INVARIANTS
    NextFetchSyncs
    DevicesTypeOK
PROPERTIES
    DevicesStayListed
