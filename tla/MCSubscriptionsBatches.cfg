SPECIFICATION Spec
CONSTANTS
    phone = phone
    c1 = c1
    c2 = c2
    Client = {c1, c2}
    NoClient = NoClient
    Device = {phone}
    DeviceOf <- OneDevice
    Url = {u1}
    NULL = NULL
    MaxBatch = 2
    MaxRows = 3
    MaxClock = 2
    Adopters = {}
SYMMETRY Symmetry
INVARIANTS
    TypeOK
PROPERTIES
    HistoryStands
    ImplementsBatches
    UploadTakesEffect
