SPECIFICATION Spec
CONSTANTS
    c1 = c1
    c2 = c2
    phone = phone
    pad = pad
    u1 = u1
    u2 = u2
    e1 = e1
    e2 = e2
    x = x
    y = y
    Thread = {c1, c2}
    File = {"devices", "subs", "episodes"}
    NoFile = NoFile
    Buffer = 4
    NL = NL
    Hole = Hole
    Device = {phone, pad}
    Url = {u1, u2}
    Episode = {e1, e2}
    DeviceOf <- OneDevice
    Mobile = Mobile
    Other = Other
    Text = {x, y}
    NULL = NULL
    Changes <- AllChanges
    MaxUpdates = 2
    MaxClock = 2
    Faults = TRUE
SYMMETRY Symmetry
CONSTRAINT NoneStruck
INVARIANTS
    TypeOK
    UpdatesKept
    NoMissedAdd

    
