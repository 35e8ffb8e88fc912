SPECIFICATION FairSpec
CONSTANTS
    c1 = c1
    c2 = c2
    ann = ann
    pod1 = pod1
    pod2 = pod2
    e1 = e1
    e2 = e2
    d1 = d1
    t1 = t1
    p1 = p1
    p2 = p2
    Client = {c1, c2}
    NoClient = NoClient
    User = {ann}
    UserOf <- OneUser
    Episode = {e1}
    Podcast = {pod1, pod2}
    PodcastOf <- EpisodePodcasts
    QueryOf <- NoFilters
    Device = {d1}
    Time = {t1}
    PlayTimes = {p1, p2}
    NULL = NULL
    NoRow = NoRow
    Changes <- TwoChanges
    MaxBatch = 2
    MaxClock = 1
    Adopters = {}
INVARIANTS
    TypeOK
    RowsConvertible
    SkipLosesNothing
    RetryHarmless
PROPERTIES
    ImplementsBatches
    LockIsFreed
    EveryRequestEnds
