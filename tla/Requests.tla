------------------------------ MODULE Requests ------------------------------
(***************************************************************************)
(* What the handlers of episodes and of subscriptions have in common: a    *)
(* client has one request in flight; an upload is a batch of changes that  *)
(* a transaction executes; a fetch asks for what is later than the         *)
(* client's cursor; an answer carries a timestamp, for the cursor.         *)
(* Timestamps are whole seconds (Timestamp::now of time.rs).               *)
(***************************************************************************)
EXTENDS Transact, Integers, Sequences

CONSTANTS
    MaxClock,  \* bound: the seconds that a behaviour lasts
    Adopters   \* the clients whose cursor follows the answers to their uploads too

ASSUME RequestsAssumption ==
    /\ MaxClock \in Nat \ {0}
    /\ Adopters \subseteq Client

Seconds == 1 .. MaxClock

VARIABLES
    clock,   \* the wall clock
    pc,      \* pc[c]: where the request of c is
    batch,   \* batch[c]: the statements of c's upload
    done,    \* done[c]: how many of them have been executed
    stamp,   \* stamp[c]: the timestamp of the answer; 0 while there is none
    cursor   \* cursor[c]: the since of c's next fetch; 0 if it sends none

requests == <<clock, pc, batch, done, stamp, cursor>>

\* "between": an adopter knows what its fetch has found, and may go on to upload.
Pc == {"idle", "upload", "fetch", "selected", "uploaded", "fetched", "failed", "between"}

\* No request is under way.
Free == {"idle", "between"}

InitRequests ==
    /\ clock = 1
    /\ pc = [c \in Client |-> "idle"]
    /\ batch = [c \in Client |-> <<>>]
    /\ done = [c \in Client |-> 0]
    /\ stamp = [c \in Client |-> 0]
    /\ cursor = [c \in Client |-> 0]

ClockTick ==
    /\ clock < MaxClock
    /\ clock' = clock + 1
    /\ UNCHANGED <<pc, batch, done, stamp, cursor>>

-----------------------------------------------------------------------------
\* Uploads: now is read before the transaction begins.

StartUpload(c, b) ==
    /\ pc[c] \in Free
    /\ pc' = [pc EXCEPT ![c] = "upload"]
    /\ batch' = [batch EXCEPT ![c] = b]
    /\ stamp' = [stamp EXCEPT ![c] = clock]
    /\ UNCHANGED <<clock, done, cursor>>

\* The statement to be executed next.
HasStatement(c) == pc[c] = "upload" /\ done[c] < Len(batch[c])
Statement(c) == batch[c][done[c] + 1]

\* Wrong: the wait for the lock has no end.
NeverTimesOut(c) == FALSE

\* It waits for the lock: five seconds at most, the busy timeout that sqlx sets.
WaitsForLock(c) == HasStatement(c) /\ writer \notin {NoClient, c}

StatementDone(c) ==
    /\ done' = [done EXCEPT ![c] = done[c] + 1]
    /\ UNCHANGED <<clock, pc, batch, stamp, cursor>>

\* All statements are executed: the transaction commits.
CommitUpload(c) ==
    /\ pc[c] = "upload"
    /\ done[c] = Len(batch[c])
    /\ Commit(c)
    /\ pc' = [pc EXCEPT ![c] = "uploaded"]
    /\ UNCHANGED <<clock, batch, done, stamp, cursor>>

-----------------------------------------------------------------------------
\* Fetches

StartFetch(c) ==
    /\ pc[c] = "idle"
    /\ pc' = [pc EXCEPT ![c] = "fetch"]
    /\ UNCHANGED <<clock, batch, done, stamp, cursor>>

\* The select has run; latest is the latest timestamp in its rows, 0 without rows.
EndSelect(c, latest) ==
    /\ pc[c] = "fetch"
    /\ pc' = [pc EXCEPT ![c] = "selected"]
    /\ stamp' = [stamp EXCEPT ![c] = latest]
    /\ UNCHANGED <<clock, batch, done, cursor>>

\* Wrong: an answer without rows has the timestamp zero.
LatestOrZero(c) ==
    /\ pc[c] = "selected"
    /\ pc' = [pc EXCEPT ![c] = "fetched"]
    /\ UNCHANGED <<clock, batch, done, stamp, cursor>>

\* Wrong: an answer without rows has the timestamp of the next second.
LatestOrNext(c) ==
    /\ pc[c] = "selected"
    /\ pc' = [pc EXCEPT ![c] = "fetched"]
    /\ stamp' = [stamp EXCEPT ![c] = IF stamp[c] = 0 THEN clock + 1 ELSE stamp[c]]
    /\ UNCHANGED <<clock, batch, done, cursor>>

\* An answer without rows has the timestamp of now.
LatestOrNow(c) ==
    /\ pc[c] = "selected"
    /\ pc' = [pc EXCEPT ![c] = "fetched"]
    /\ stamp' = [stamp EXCEPT ![c] = IF stamp[c] = 0 THEN clock ELSE stamp[c]]
    /\ UNCHANGED <<clock, batch, done, cursor>>

-----------------------------------------------------------------------------
\* c's request is over, with no more to do but to answer an error if it failed.
End(c, outcome) ==
    /\ pc' = [pc EXCEPT ![c] = outcome]
    /\ batch' = [batch EXCEPT ![c] = <<>>]
    /\ done' = [done EXCEPT ![c] = 0]
    /\ stamp' = [stamp EXCEPT ![c] = 0]
    /\ UNCHANGED clock

\* An error: of a statement, of the commit, or because the lock was not free for
\* too long.  Dropping the transaction rolls it back.
UploadError(c) ==
    /\ pc[c] = "upload"
    /\ End(c, "failed")
    /\ Rollback(c)
    /\ UNCHANGED cursor

FetchError(c) ==
    /\ pc[c] = "fetch"
    /\ End(c, "failed")
    /\ UNCHANGED <<database, cursor>>

\* The client receives the answer, whose timestamp "is used by future client
\* synchronisations" (podsync.rs:27).
ReceiveFetched(c) ==
    /\ pc[c] = "fetched"
    /\ End(c, IF c \in Adopters THEN "between" ELSE "idle")
    /\ cursor' = [cursor EXCEPT ![c] = stamp[c]]
    /\ UNCHANGED database

ReceiveUploaded(c) ==
    /\ pc[c] = "uploaded"
    /\ End(c, "idle")
    /\ cursor' = IF c \in Adopters THEN [cursor EXCEPT ![c] = stamp[c]] ELSE cursor
    /\ UNCHANGED database

\* An error is answered, the answer is lost, or the handler is dropped where it is:
\* the connection closes, the server stops.  The client may try again, with the
\* same batch or another.  Or an adopter has nothing to upload after its fetch.
Abandon(c) ==
    /\ pc[c] # "idle"
    /\ End(c, "idle")
    /\ Rollback(c)
    /\ UNCHANGED cursor

-----------------------------------------------------------------------------
\* How clients may take turns.

Starting(c) == pc[c] \in Free /\ pc'[c] \notin Free

\* Requests come one at a time, with no upload in a second that is the cursor of some
\* client; and adopters fetch before they upload.
OneAtATime ==
    \A c \in Client : Starting(c) =>
        /\ \A d \in Client : pc[d] \in Free
        /\ pc'[c] = "upload" =>
            /\ \A d \in Client : cursor[d] < clock
            /\ c \in Adopters => pc[c] = "between"

\* Nor does another client begin between an adopter's fetch and its upload.
Undisturbed ==
    \A c, d \in Client : Starting(c) /\ pc[d] = "between" => c = d

\* The uploads that have not taken effect, for the abstract view of a store.
Offers ==
    [c \in Client |->
        IF pc[c] = "upload" THEN {[batch |-> batch[c], at |-> stamp[c]]} ELSE {}]
=============================================================================
