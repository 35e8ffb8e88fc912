SPECIFICATION Spec
CONSTANTS
    Username = {ann, bob, eve}
    Account = {ann, bob}
    Client = {c1, c2}
    SessionId = {s1, s2, s3}
    Endpoint = {"login", "logout", "work"}
    NoSession = NoSession
    NoUser = NoUser
SYMMETRY Symmetry
INVARIANTS
    TypeOK
    SessionsDistinct
    SessionActsForItsOwner
    RevokedNeverAuthorises
PROPERTIES
    ImplementsRegistry
    OnlyRacingLoginsDisplace
