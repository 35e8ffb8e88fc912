SPECIFICATION Spec
CONSTANTS
    phone = phone
    c1 = c1
    c2 = c2
    Client = {c1, c2}
    NoClient = NoClient
    Device = {phone}
    DeviceOf <- OneDevice
    Url = {u1}
    NULL = NULL
    MaxBatch = 1
    MaxRows = 2
    MaxClock = 3
    Adopters = {}
INVARIANTS
    OneActiveRow
