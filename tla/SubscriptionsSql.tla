-------------------------- MODULE SubscriptionsSql --------------------------
(***************************************************************************)
(* Subscriptions in the SQL backend: PodSync::update_subscriptions and     *)
(* PodSync::subscriptions of podsync.rs with the statements of             *)
(* backend_sql.rs, and the clients that synchronise through them.          *)
(*                                                                         *)
(* A row is a subscription from `created' to `deleted', so a device has as *)
(* many rows of a url as it has subscribed to it.                          *)
(***************************************************************************)
EXTENDS Requests, SequencesExt

CONSTANTS
    Device, DeviceOf,  \* a device of a user; DeviceOf[c]: the one c syncs
    Url,
    NULL,
    MaxBatch,          \* bound: the number of urls in an upload
    MaxRows            \* bound: the number of rows of a device

ASSUME SubscriptionsAssumption ==
    /\ DeviceOf \in [Client -> Device]
    /\ NULL \notin Nat
    /\ MaxBatch \in Nat
    /\ MaxRows \in Nat

Row == [url : Url, created : Seconds, deleted : Seconds \cup {NULL}]

\* The rows of a device in the order of their insertion: no row is ever removed,
\* and nothing tells two active rows of one second apart.
Table == [Device -> Seq(Row)]

\* Statement by statement, what SubscriptionChangesFromClient asks for.
Change == [op : {"remove", "add"}, url : Url]

VARIABLES
    local,   \* local[c]: the urls that c is subscribed to, after what it was told
    found    \* found[c]: the rows that c's fetch has selected

vars == <<database, requests, local, found>>

NoRows == [d \in Device |-> <<>>]

Init ==
    /\ InitDatabase(NoRows)
    /\ InitRequests
    /\ local = [c \in Client |-> {}]
    /\ found = [c \in Client |-> {}]

-----------------------------------------------------------------------------
\* The statements of Backend::update_subscriptions

IsActive(row) == row.deleted = NULL

\* Wrong: rows that are deleted already are deleted again.
RemovesDeleted(row, url) == row.url = url

\* The rows that `UPDATE ... SET deleted' is about.
Removes(row, url) == row.url = url /\ IsActive(row)

Removed(rows, url, now) ==
    [i \in DOMAIN rows |->
        IF Removes(rows[i], url)
        THEN [url |-> url, created |-> rows[i].created, deleted |-> now]
        ELSE rows[i]]

Added(rows, url, now) ==
    Append(rows, [url |-> url, created |-> now, deleted |-> NULL])

Store(tab, d, x, now) ==
    [tab EXCEPT ![d] = IF x.op = "remove" THEN Removed(tab[d], x.url, now)
                                          ELSE Added(tab[d], x.url, now)]

\* UNIQUE(url, username, device, deleted) of the migrations: it tells apart what is
\* deleted only, because NULLs differ from each other.
Unique(rows) ==
    \A i, j \in DOMAIN rows :
        rows[i].url = rows[j].url /\ rows[i].deleted = rows[j].deleted =>
            i = j \/ rows[i].deleted = NULL

-----------------------------------------------------------------------------
Tick == ClockTick /\ UNCHANGED <<database, local, found>>

Sequences(op) ==
    UNION {[1 .. n -> {[op |-> op, url |-> u] : u \in Url}] : n \in 0 .. MaxBatch}

\* Wrong: what is to be added is added before what is to be removed is.
BatchesAddFirst ==
    {add \o remove : add \in Sequences("add"), remove \in Sequences("remove")}

Batches ==
    {remove \o add : remove \in Sequences("remove"), add \in Sequences("add")}

\* PodSync::update_subscriptions
Upload(c) ==
    /\ \E b \in Batches :
        /\ Len(b) <= MaxBatch
        /\ Len(table[DeviceOf[c]]) + Len(b) <= MaxRows
        /\ StartUpload(c, b)
    /\ UNCHANGED <<database, local, found>>

\* A statement that would make rows alike is refused; then there is UploadError.
UploadOne(c) ==
    /\ HasStatement(c)
    /\ LET tab == Store(work, DeviceOf[c], Statement(c), stamp[c])
       IN  Unique(tab[DeviceOf[c]]) /\ Execute(c, tab)
    /\ StatementDone(c)
    /\ UNCHANGED <<local, found>>

UploadEnd(c) == CommitUpload(c) /\ UNCHANGED <<local, found>>

\* PodSync::subscriptions
Fetch(c) == StartFetch(c) /\ UNCHANGED <<database, local, found>>

\* Wrong: rows that were deleted since are left out if they were created before.
SelectedCreated(c) ==
    {row \in Range(table[DeviceOf[c]]) : row.created > cursor[c]}

\* Backend::subscriptions for what was created or deleted after the cursor; a NULL
\* is not greater than anything.
Selected(c) ==
    {row \in Range(table[DeviceOf[c]]) :
        row.created > cursor[c] \/ (row.deleted # NULL /\ row.deleted > cursor[c])}

\* The latest of the times of creation.
Select(c) ==
    /\ EndSelect(c, Max({row.created : row \in Selected(c)} \cup {0}))
    /\ found' = [found EXCEPT ![c] = Selected(c)]
    /\ UNCHANGED <<database, local>>

FetchEnd(c) == LatestOrNow(c) /\ UNCHANGED <<database, local, found>>

\* The two lists of the answer.
AddOf(rows) == {row.url : row \in {r \in rows : IsActive(r)}}
RemoveOf(rows) == {row.url : row \in {r \in rows : ~IsActive(r)}}

-----------------------------------------------------------------------------
\* How requests end

Fail(c) ==
    /\ UploadError(c) \/ FetchError(c)
    /\ UNCHANGED <<local, found>>

\* A client that does as it is told, and what is removed before what is added.
Merge(urls, remove, add) == (urls \ remove) \cup add

UrlsOf(c, op) == {x.url : x \in {y \in Range(batch[c]) : y.op = op}}

Receive(c) ==
    /\ \/ /\ ReceiveFetched(c)
          /\ local' = [local EXCEPT
                ![c] = Merge(local[c], RemoveOf(found[c]), AddOf(found[c]))]
       \/ /\ ReceiveUploaded(c)
          /\ local' = [local EXCEPT
                ![c] = Merge(local[c], UrlsOf(c, "remove"), UrlsOf(c, "add"))]
    /\ found' = [found EXCEPT ![c] = {}]

Lose(c) ==
    /\ Abandon(c)
    /\ found' = [found EXCEPT ![c] = {}]
    /\ UNCHANGED local

Next ==
    \/ Tick
    \/ \E c \in Client :
        \/ Upload(c) \/ UploadOne(c) \/ UploadEnd(c)
        \/ Fetch(c) \/ Select(c) \/ FetchEnd(c)
        \/ Fail(c) \/ Receive(c) \/ Lose(c)

Spec == Init /\ [][Next]_vars

SerialSpec == Init /\ [][Next /\ OneAtATime /\ Undisturbed]_vars

-----------------------------------------------------------------------------
\* Properties

TypeOK ==
    /\ table \in Table /\ work \in Table
    /\ writer \in Client \cup {NoClient}
    /\ clock \in Seconds
    /\ pc \in [Client -> Pc]
    /\ batch \in [Client -> Seq(Change)]
    /\ done \in [Client -> Nat]
    /\ stamp \in [Client -> 0 .. clock]
    /\ cursor \in [Client -> 0 .. clock]
    /\ local \in [Client -> SUBSET Url]
    /\ found \in [Client -> SUBSET Row]

\* The urls that a device is subscribed to.
Active(rows) == AddOf(Range(rows))

\* The history of a device is not rewritten: its rows stay in place, with the url
\* and the time of creation they had, and what is deleted stays deleted at the
\* time it was (backend_sql.rs:247-291), so that no fetch depends on later uploads
\* for what it says of the past.
HistoryStands ==
    [][\A d \in Device : \A i \in DOMAIN table[d] :
        LET old == table[d][i]
            new == table'[d][i]
        IN  /\ i \in DOMAIN table'[d]
            /\ old.url = new.url /\ old.created = new.created
            /\ old.deleted # NULL => old.deleted = new.deleted]_vars

\* When an upload is answered, the device is subscribed to what it was to add, and
\* to nothing that it was to remove, whatever other uploads came in between.
UploadTakesEffect ==
    [][\A c \in Client : pc[c] = "upload" /\ pc'[c] = "uploaded" =>
        LET active == Active(table'[DeviceOf[c]])
        IN  /\ UrlsOf(c, "add") \subseteq active
            /\ active \cap (UrlsOf(c, "remove") \ UrlsOf(c, "add")) = {}]_vars

\* The tables that the changes of b make of tab, one by one: stage[n] after n of them.
Stages(tab, d, b, now) ==
    LET stage[n \in 0 .. Len(b)] ==
            IF n = 0 THEN tab ELSE Store(stage[n - 1], d, b[n], now)
    IN  stage

\* The transactions make each batch one step, whatever fails or interleaves; a
\* batch that violates UNIQUE takes no effect at all (backend_sql.rs:245-293).
ApplyBatch(tab, c, b, now) == Stages(tab, DeviceOf[c], b, now)[Len(b)]

Batching ==
    INSTANCE BatchStore
    WITH Batch <- Batches, Stamp <- Seconds, Initial <- NoRows,
         Apply <- ApplyBatch, offer <- Offers
ImplementsBatches == Batching!Spec

\* Synchronisation converges: after its next fetch, if nothing happens before, a
\* client has the subscriptions of its device. (podsync.rs:27: the timestamp "is
\* used by future client synchronisations".)
NextFetchSyncs ==
    \A c \in Client :
        Merge(local[c], RemoveOf(Selected(c)), AddOf(Selected(c)))
            = Active(table[DeviceOf[c]])

\* "UNIQUE(url, username, device, deleted)" (migrations/2:11): a device has a
\* subscription, deleted or active, once only.
OneActiveRow ==
    \A d \in Device : \A i, j \in DOMAIN table[d] :
        /\ table[d][i].url = table[d][j].url
        /\ IsActive(table[d][i]) /\ IsActive(table[d][j])
        => i = j
=============================================================================
