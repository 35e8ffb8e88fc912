---------------------------- MODULE EpisodesSql -----------------------------
(***************************************************************************)
(* Episode actions in the SQL backend: PodSync::update_episodes and        *)
(* PodSync::episodes of podsync.rs with the upsert and the select of       *)
(* backend_sql.rs, and the clients that synchronise through them.          *)
(*                                                                         *)
(* A client uploads batches of changes, and fetches what was modified      *)
(* after its cursor, the timestamp of an earlier answer.  Timestamps are   *)
(* whole seconds.                                                          *)
(***************************************************************************)
EXTENDS Requests, SequencesExt

CONSTANTS
    User, UserOf,   \* UserOf[c]: the user that client c is logged in as
    Episode,        \* podcast and episode: the key of a user's row
    Podcast, PodcastOf,
    QueryOf,        \* QueryOf[c]: the filters of c's fetches, NULL for all
    Device, Time,   \* values of the columns device and timestamp
    PlayTimes,      \* values of started, position and total, taken together
    NULL,
    NoRow,          \* of an episode that has no row
    Changes,        \* the changes that clients upload
    MaxBatch        \* bound: the number of changes in an upload

Action == {"new", "download", "play", "delete"}

\* An Episode of episode.rs: only "play" comes with times, and it always does.
\* (guid is another column that is treated as timestamp is.)
Change ==
    {x \in [episode : Episode, device : Device \cup {NULL},
            timestamp : Time \cup {NULL}, action : Action,
            play : PlayTimes \cup {NULL}] :
        x.action = "play" <=> x.play # NULL}

ASSUME EpisodesAssumption ==
    /\ UserOf \in [Client -> User]
    /\ PodcastOf \in [Episode -> Podcast]
    /\ QueryOf \in [Client -> [podcast : Podcast \cup {NULL}, device : Device \cup {NULL}]]
    /\ Changes \subseteq Change
    /\ NULL \notin Podcast \cup Device \cup Time \cup PlayTimes \cup Change
    /\ MaxBatch \in Nat

\* A row of the episodes table.  The hash of a change is the change: hashes are
\* taken to be free of collisions.  NULL stands for the default hash "".
Row == [device : Device \cup {NULL}, timestamp : Time \cup {NULL},
        action : Action, play : PlayTimes \cup {NULL},
        modified : Seconds, hash : Changes \cup {NULL}]

ASSUME NoRowAssumption == NoRow \notin Row

Table == [User -> [Episode -> Row \cup {NoRow}]]

VARIABLES
    unseen,  \* ghost: the episodes that others changed and c has not fetched since
    found    \* ghost: those that the answer to c's fetch shows as they are now

vars == <<database, requests, unseen, found>>

NoRows == [u \in User |-> [e \in Episode |-> NoRow]]

Init ==
    /\ InitDatabase(NoRows)
    /\ InitRequests
    /\ unseen = [c \in Client |-> {}]
    /\ found = [c \in Client |-> {}]

-----------------------------------------------------------------------------
\* The statement of Backend::update_episodes

\* Wrong: the times of a play are left out.
InsertedNoTimes(x, now) ==
    [device |-> x.device, timestamp |-> x.timestamp, action |-> x.action,
     play |-> NULL, modified |-> now, hash |-> NULL]

Inserted(x, now) ==
    [device |-> x.device, timestamp |-> x.timestamp, action |-> x.action,
     play |-> x.play, modified |-> now, hash |-> NULL]

Coalesce(new, old) == IF new = NULL THEN old ELSE new

\* Wrong: an update leaves the time of modification alone.
UpdatedNotModified(row, x, now) ==
    [device |-> row.device,
     timestamp |-> Coalesce(x.timestamp, row.timestamp),
     action |-> x.action,
     play |-> Coalesce(x.play, row.play),
     modified |-> row.modified,
     hash |-> x]

\* Wrong: a hash stays once it is set.
UpdatedKeepsHash(row, x, now) ==
    [device |-> row.device,
     timestamp |-> Coalesce(x.timestamp, row.timestamp),
     action |-> x.action,
     play |-> Coalesce(x.play, row.play),
     modified |-> now,
     hash |-> Coalesce(row.hash, x)]

Updated(row, x, now) ==
    [device |-> row.device,
     timestamp |-> Coalesce(x.timestamp, row.timestamp),
     action |-> x.action,
     play |-> Coalesce(x.play, row.play),
     modified |-> now,
     hash |-> x]

\* A change whose hash is the stored one is not written.
Upsert(row, x, now) ==
    IF row = NoRow THEN Inserted(x, now)
    ELSE IF row.hash = x THEN row ELSE Updated(row, x, now)

Store(tab, u, x, now) ==
    [tab EXCEPT ![u][x.episode] = Upsert(@, x, now)]

-----------------------------------------------------------------------------
Tick == ClockTick /\ UNCHANGED <<database, unseen, found>>

Batches == UNION {[1 .. n -> Changes] : n \in 0 .. MaxBatch}

\* PodSync::update_episodes
Upload(c) ==
    /\ \E b \in Batches : StartUpload(c, b)
    /\ UNCHANGED <<database, unseen, found>>

UploadOne(c) ==
    /\ HasStatement(c)
    /\ Execute(c, Store(work, UserOf[c], Statement(c), stamp[c]))
    /\ StatementDone(c)
    /\ UNCHANGED <<unseen, found>>

\* What a fetch shows of a row.
Content(row) ==
    IF row = NoRow THEN NoRow
    ELSE [device |-> row.device, timestamp |-> row.timestamp,
          action |-> row.action, play |-> row.play]

\* The episodes of c's user that c's transaction has changed.
Changed(c) ==
    {e \in Episode : /\ writer = c
                     /\ Content(work[UserOf[c]][e]) # Content(table[UserOf[c]][e])}

Others(c) == {d \in Client \ {c} : UserOf[d] = UserOf[c]}

\* The others of the same user have something to fetch.
UploadEnd(c) ==
    /\ CommitUpload(c)
    /\ unseen' = [d \in Client |-> IF d \in Others(c)
                                   THEN unseen[d] \cup Changed(c) ELSE unseen[d]]
    /\ found' = [d \in Client |-> IF d \in Others(c)
                                  THEN found[d] \ Changed(c) ELSE found[d]]

\* The filters of a query; the device of a row is the one that inserted it.
Matches(query, e, row) ==
    /\ query.podcast \in {NULL, PodcastOf[e]}
    /\ query.device \in {NULL, row.device}

\* Backend::episodes for the rows modified after the cursor.
Selected(c) ==
    {e \in Episode : /\ table[UserOf[c]][e] # NoRow
                     /\ table[UserOf[c]][e].modified > cursor[c]
                     /\ Matches(QueryOf[c], e, table[UserOf[c]][e])}

\* PodSync::episodes
Fetch(c) == StartFetch(c) /\ UNCHANGED <<database, unseen, found>>

\* A row that says "play" without times does not convert into an Episode.
Convertible(row) == row.action = "play" => row.play # NULL

Latest(c) ==
    IF Selected(c) = {} THEN 0
    ELSE Max({table[UserOf[c]][e].modified : e \in Selected(c)})

Unconvertible(c) ==
    pc[c] = "fetch" /\ \E e \in Selected(c) : ~Convertible(table[UserOf[c]][e])

\* One row that does not convert makes the fetch fail.
Select(c) ==
    /\ ~Unconvertible(c)
    /\ EndSelect(c, Latest(c))
    /\ found' = [found EXCEPT ![c] = Selected(c)]
    /\ UNCHANGED <<database, unseen>>

FetchEnd(c) == LatestOrNow(c) /\ UNCHANGED <<database, unseen, found>>

-----------------------------------------------------------------------------
\* How requests end

Fail(c) ==
    /\ UploadError(c) \/ FetchError(c)
    /\ UNCHANGED <<unseen, found>>

Receive(c) ==
    /\ \/ ReceiveFetched(c) /\ unseen' = [unseen EXCEPT ![c] = unseen[c] \ found[c]]
       \/ ReceiveUploaded(c) /\ UNCHANGED unseen
    /\ found' = [found EXCEPT ![c] = {}]

Lose(c) ==
    /\ Abandon(c)
    /\ found' = [found EXCEPT ![c] = {}]
    /\ UNCHANGED unseen

Next ==
    \/ Tick
    \/ \E c \in Client :
        \/ Upload(c) \/ UploadOne(c) \/ UploadEnd(c)
        \/ Fetch(c) \/ Select(c) \/ FetchEnd(c)
        \/ Fail(c) \/ Receive(c) \/ Lose(c)

Spec == Init /\ [][Next]_vars

SerialSpec == Init /\ [][Next /\ OneAtATime /\ Undisturbed]_vars

\* The runtime polls every handler that can go on; a statement that waits for the
\* lock runs when the lock is free, or times out.  Nothing makes clients send
\* requests, receive answers, or errors happen.
Fairness ==
    \A c \in Client :
        /\ WF_vars(UploadOne(c) \/ (WaitsForLock(c) /\ Fail(c)))
        /\ WF_vars(UploadEnd(c))
        /\ WF_vars(Select(c) \/ (Unconvertible(c) /\ Fail(c)))
        /\ WF_vars(FetchEnd(c))

FairSpec == Spec /\ Fairness

-----------------------------------------------------------------------------
\* Properties

TypeOK ==
    /\ table \in Table /\ work \in Table
    /\ writer \in Client \cup {NoClient}
    /\ clock \in Seconds
    /\ pc \in [Client -> Pc]
    /\ batch \in [Client -> Seq(Changes)]
    /\ done \in [Client -> Nat]
    /\ stamp \in [Client -> 0 .. clock]
    /\ cursor \in [Client -> 0 .. clock]
    /\ unseen \in [Client -> SUBSET Episode]
    /\ found \in [Client -> SUBSET Episode]

Rows(tab) == {tab[u][e] : u \in User, e \in Episode} \ {NoRow}

\* Whatever uploads have met in a row, it converts into an Episode: one row that
\* did not would make every fetch of its user fail (podsync.rs:348).
RowsConvertible == \A row \in Rows(table) : Convertible(row)

\* Skipping a change because of its hash loses nothing: the row holds already what
\* writing the change would make of it (backend_sql.rs:395-396).
SkipLosesNothing ==
    \A row \in Rows(table) : row.hash # NULL =>
        Content(Updated(row, row.hash, row.modified)) = Content(row)

\* The cursor of a client never goes back: an answer to a fetch carries the latest
\* timestamp of rows that are later than the cursor, or now (podsync.rs:346-366).
CursorNeverBack == [][\A c \in Client : cursor'[c] >= cursor[c]]_vars

\* The tables that the changes of b make of tab, one by one: stage[n] after n of them.
Stages(tab, u, b, now) ==
    LET stage[n \in 0 .. Len(b)] ==
            IF n = 0 THEN tab ELSE Store(stage[n - 1], u, b[n], now)
    IN  stage

Applied(tab, u, b, now) == Stages(tab, u, b, now)[Len(b)]

\* Uploading a batch again, after its answer was lost, changes nothing but
\* timestamps, also if it has several changes of one episode
\* (backend_sql.rs:366-396).
RetryHarmless ==
    \A u \in User, b \in Batches :
        LET once == Applied(table, u, b, clock)
            twice == Applied(once, u, b, clock)
        IN  \A e \in Episode : Content(twice[u][e]) = Content(once[u][e])

ApplyBatch(tab, c, b, now) == Applied(tab, UserOf[c], b, now)

\* The transactions make each batch one step, whatever fails or interleaves
\* (backend_sql.rs:347-431).
Batching ==
    INSTANCE BatchStore
    WITH Batch <- Batches, Stamp <- Seconds, Initial <- NoRows,
         Apply <- ApplyBatch, offer <- Offers
ImplementsBatches == Batching!Spec

\* What others have changed is later than the cursor, so the next fetch shows it to a
\* client whose query it matches: the timestamp of an answer "is used by future client
\* synchronisations" (podsync.rs:27).
NoMissedChange ==
    \A c \in Client : \A e \in unseen[c] :
        Matches(QueryOf[c], e, table[UserOf[c]][e]) =>
            table[UserOf[c]][e].modified > cursor[c]

\* Whoever holds the write lock gives it back, whatever happens to its handler, so
\* that no upload locks the others out for good (backend_sql.rs:65-81).
LockIsFreed == \A c \in Client : writer = c ~> writer # c

\* Every handler comes to its end: uploads do not wait for each other for ever
\* (podsync.rs:329-405 on the connections of backend_sql.rs:20-61).
InService(c) == pc[c] \in {"upload", "fetch", "selected"}
EveryRequestEnds == \A c \in Client : InService(c) ~> ~InService(c)
=============================================================================
