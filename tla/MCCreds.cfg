SPECIFICATION Spec
CONSTANTS
    Thread = {t1, t2}
    File = {ann, bob}
    NoFile = NoUser
    Buffer = 9
    NL = NL
    Hole = Hole
    SessionId = {s1, s2}
    NoSession = NoSession
    Sep = Sep
    PwHash = PwHash
    Id = Id
    h1 = h1
    h2 = h2
    Hash <- TwoCells
    MaxUpdates = 2
    Faults = TRUE
SYMMETRY Symmetry
INVARIANTS
    TypeOK
    SettledFileIsGood
    LookupFindsOwner
    RevokedNotFound
PROPERTIES
    ImplementsRegistry
