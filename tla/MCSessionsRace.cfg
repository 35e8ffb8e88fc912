SPECIFICATION Spec
CONSTANTS
    Username = {ann}
    Account = {ann}
    Client = {c1, c2}
    SessionId = {s1, s2, s3}
    Endpoint = {"login", "work"}
    NoSession = NoSession
    NoUser = NoUser
INVARIANTS
    CookieIsLive
