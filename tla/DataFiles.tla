----------------------------- MODULE DataFiles -----------------------------
(***************************************************************************)
(* The data of a user in the file backend: devices.txt, subs.txt and       *)
(* episodes.txt, with update_device, update_subscriptions,                 *)
(* update_episodes and subscriptions of backend_file.rs, and the clients   *)
(* that synchronise through PodSync::subscriptions.                        *)
(*                                                                         *)
(* An update reads the whole of its file, changes the rows in memory,      *)
(* truncates the file and writes all the rows.  Fetches read only.         *)
(***************************************************************************)
EXTENDS TextFile

CONSTANTS
    Device, Url,
    Episode,       \* an EpisodeId: podcast, episode and timestamp
    DeviceOf,      \* DeviceOf[c]: the device that c syncs
    Mobile, Other, \* the type that converts back from text, and one that does not
    Text,          \* the captions, and the contents of episodes
    NULL,          \* what an update does not say
    Changes,       \* the updates that clients send
    MaxUpdates,    \* bound: the number of updates
    MaxClock,      \* bound: the number of seconds a behaviour lasts
    Faults         \* whether writes fail and the process stops

\* Each client has one request in flight at most, on a thread of its own.
Client == Thread
Seconds == 0 .. MaxClock

Kinds == {"devices", "subs", "episodes"}

EpisodeRow == [id : Episode, body : Text]

\* What update_device, update_subscriptions and update_episodes are told.
Change ==
    [file : {"devices"}, id : Device, type : {Mobile, Other, NULL}, caption : Text \cup {NULL}]
        \cup [file : {"subs"}, device : Device, add : Seq(Url), remove : SUBSET Url]
        \cup [file : {"episodes"}, batch : Seq(EpisodeRow)]

\* An id, a url or a caption is one cell, of which the code looks at no part: none
\* is the end of a line, what fills a hole, a type, or the text of a number. All but
\* the first are told apart only in a file that two updates have garbled.
ASSUME DataAssumption ==
    /\ File = Kinds
    /\ DeviceOf \in [Client -> Device]
    /\ \A x \in Changes : x \in Change
    /\ Other # Mobile
    /\ \A cell \in {NL, Hole} :
        cell \notin Device \cup Url \cup Text \cup {Mobile, Other} /\ cell \notin EpisodeRow
    /\ \A name \in Device \cup Url \cup {NL, Hole} : name \notin Nat
    /\ NULL \notin Text \cup {Mobile, Other}
    /\ MaxUpdates \in Nat /\ MaxClock \in Nat
    /\ Faults \in BOOLEAN

VARIABLES
    clock,
    pc,        \* pc[c]: where the handler of c's request is
    change,    \* change[c]: the update that it makes
    rows,      \* rows[c]: the rows it has read
    stamp,     \* stamp[c]: the time of creation of the rows that it adds
    cursor,    \* cursor[c]: the `since' of c's next fetch of subscriptions
    updates,   \* the number of updates so far
    seen,      \* ghost: seen[c], the rows of subs.txt that c was told of
    expected,  \* ghost: expected[f], the rows after all updates, one by one
    struck,    \* ghost: files with overlapping updates, or one that was cut short
    met        \* ghost: whether a fetch has overlapped an update of subscriptions

request == <<got, pc, change, rows, stamp>>
ghosts == <<seen, expected, struck, met>>
vars == <<files, clock, request, cursor, updates, ghosts>>

NoChange == [file |-> NoFile]

Init ==
    /\ InitFiles([f \in File |-> <<>>])
    /\ clock = 0
    /\ pc = [c \in Client |-> "idle"]
    /\ change = [c \in Client |-> NoChange]
    /\ rows = [c \in Client |-> <<>>]
    /\ stamp = [c \in Client |-> 0]
    /\ cursor = [c \in Client |-> 0]
    /\ updates = 0
    /\ seen = [c \in Client |-> {}]
    /\ expected = [f \in File |-> <<>>]
    /\ struck = {}
    /\ met = FALSE

-----------------------------------------------------------------------------
\* The text of a row

\* "{id} {type} {caption}", "{device} {created} - {url}", and JSON: the pieces that
\* are written. A space is part of the cell before it. A reader does not tell
\* whether the last line has an end, so that is written with the last piece.
Pieces(f, row) ==
    CASE f = "devices" -> << <<row.id>>, <<row.type>>, Append(row.caption, NL)>>
      [] f = "subs" -> << <<row.device>>, <<row.created>>, Append(row.url, NL)>>
      [] f = "episodes" -> << <<row, NL>> >>

\* splitn finds the spaces, a type or a time converts; what comes last is taken as it
\* is, also if it is missing.
Converts(f, line) ==
    CASE f = "devices" -> Len(line) >= 2 /\ line[2] = Mobile
      [] f = "subs" -> Len(line) >= 2 /\ line[2] \in Nat
      [] f = "episodes" -> Len(line) = 1 /\ line[1] # Hole

RowOf(f, line) ==
    CASE f = "devices" -> [id |-> line[1], type |-> line[2], caption |-> Tail(Tail(line))]
      [] f = "subs" -> [device |-> line[1], created |-> line[2], url |-> Tail(Tail(line))]
      [] f = "episodes" -> line[1]

CanRead(f, cells) == \A i \in LineStarts(cells) : Converts(f, Line(cells, i))

\* The elements of s at the places in I, as they come.
ElementsAt(s, I) ==
    LET upTo[n \in 0 .. Len(s)] ==
            IF n = 0 THEN <<>>
            ELSE IF n \in I THEN Append(upTo[n - 1], s[n]) ELSE upTo[n - 1]
    IN  upTo[Len(s)]

RowsIn(f, cells) ==
    LET starts == ElementsAt([i \in DOMAIN cells |-> i], LineStarts(cells))
    IN  [n \in DOMAIN starts |-> RowOf(f, Line(cells, starts[n]))]

Lines(f, rs) == FlattenSeq([n \in DOMAIN rs |-> Pieces(f, rs[n])])

-----------------------------------------------------------------------------
\* What an update makes of the rows

\* The place of the first row with that id.
PlaceOf(rs, id) == Min({n \in DOMAIN rs : rs[n].id = id})
HasId(rs, id) == \E n \in DOMAIN rs : rs[n].id = id

\* Wrong: what is not told is taken for a value.
ToldNothing(new, old) == new

Told(new, old) == IF new = NULL THEN old ELSE new
Caption(new, old) == IF new = NULL THEN old ELSE <<new>>

UpdatedDevices(rs, x) ==
    IF HasId(rs, x.id)
    THEN [rs EXCEPT ![PlaceOf(rs, x.id)] =
            [id |-> x.id, type |-> Told(x.type, @.type),
             caption |-> Caption(x.caption, @.caption)]]
    ELSE Append(rs, [id |-> x.id, type |-> Told(x.type, Other),
                     caption |-> Caption(x.caption, <<>>)])

\* The rows of removed urls go; what is added is added, there or not.
UpdatedSubs(rs, x, now) ==
    ElementsAt(rs, {n \in DOMAIN rs :
                        rs[n].device # x.device \/ rs[n].url \notin {<<u>> : u \in x.remove}})
        \o [n \in DOMAIN x.add |-> [device |-> x.device, created |-> now, url |-> <<x.add[n]>>]]


UpdatedEpisode(rs, ep) ==
    IF HasId(rs, ep.id) THEN [rs EXCEPT ![PlaceOf(rs, ep.id)] = ep] ELSE Append(rs, ep)

UpdatedEpisodes(rs, batch) ==
    LET after[n \in 0 .. Len(batch)] ==
            IF n = 0 THEN rs ELSE UpdatedEpisode(after[n - 1], batch[n])
    IN  after[Len(batch)]

Updated(rs, x, now) ==
    CASE x.file = "devices" -> UpdatedDevices(rs, x)
      [] x.file = "subs" -> UpdatedSubs(rs, x, now)
      [] x.file = "episodes" -> UpdatedEpisodes(rs, x.batch)

-----------------------------------------------------------------------------
\* Updates

Tick ==
    /\ clock < MaxClock
    /\ clock' = clock + 1
    /\ UNCHANGED <<files, request, cursor, updates, ghosts>>

\* The handler answers.
Answer(c) ==
    /\ pc' = [pc EXCEPT ![c] = "idle"]
    /\ DropRead(c)
    /\ change' = [change EXCEPT ![c] = NoChange]
    /\ rows' = [rows EXCEPT ![c] = <<>>]
    /\ stamp' = [stamp EXCEPT ![c] = 0]

Update(c) ==
    /\ pc[c] = "idle"
    /\ updates < MaxUpdates
    /\ updates' = updates + 1
    /\ \E x \in Changes : change' = [change EXCEPT ![c] = x]
    /\ pc' = [pc EXCEPT ![c] = "read"]
    /\ UNCHANGED <<files, got, clock, rows, stamp, cursor, ghosts>>

\* c has begun to read what it is going to write.
IsUpdating(c, f) ==
    /\ change[c].file = f
    /\ pc[c] \in {"stamp", "open", "write"} \/ (pc[c] = "read" /\ got[c] # <<>>)

\* The ghosts after a step in which c reads a file to update it.
Meets(c) ==
    LET f == change[c].file
    IN  /\ struck' = IF \E w \in Client \ {c} : IsUpdating(w, f) THEN struck \cup {f}
                     ELSE struck
        /\ met' = (met \/ (f = "subs" /\ \E w \in Client : pc[w] \in {"fetch", "fetched"}))

ReadMore(c) ==
    /\ pc[c] = "read"
    /\ ReadSome(c, change[c].file)
    /\ Meets(c)
    /\ UNCHANGED <<files, clock, pc, change, rows, stamp, cursor, updates, seen, expected>>

\* The rows are read; update_subscriptions then takes the time once more.
Read(c) ==
    LET f == change[c].file
    IN  /\ pc[c] = "read"
        /\ AtEnd(c, f)
        /\ CanRead(f, got[c])
        /\ rows' = [rows EXCEPT ![c] = RowsIn(f, got[c])]
        /\ pc' = [pc EXCEPT ![c] = IF f = "subs" THEN "stamp" ELSE "open"]
        /\ DropRead(c)
        /\ Meets(c)
        /\ UNCHANGED <<files, clock, change, stamp, cursor, updates, seen, expected>>

ReadError(c) ==
    /\ pc[c] = "read"
    /\ AtEnd(c, change[c].file)
    /\ ~CanRead(change[c].file, got[c])
    /\ Answer(c)
    /\ UNCHANGED <<files, clock, cursor, updates, ghosts>>

Stamp(c) ==
    /\ pc[c] = "stamp"
    /\ stamp' = [stamp EXCEPT ![c] = clock]
    /\ pc' = [pc EXCEPT ![c] = "open"]
    /\ UNCHANGED <<files, got, clock, change, rows, cursor, updates, ghosts>>

OpenFile(c) ==
    LET f == change[c].file
    IN  /\ pc[c] = "open"
        /\ Open(c, f, Lines(f, Updated(rows[c], change[c], stamp[c])))
        /\ expected' = [expected EXCEPT ![f] = Updated(@, change[c], stamp[c])]
        /\ pc' = [pc EXCEPT ![c] = "write"]
        /\ rows' = [rows EXCEPT ![c] = <<>>]
        /\ UNCHANGED <<got, clock, change, stamp, cursor, updates, seen, struck, met>>

WriteRow(c) ==
    /\ pc[c] = "write"
    /\ WritePiece(c)
    /\ UNCHANGED <<clock, request, cursor, updates, ghosts>>

UpdateEnd(c) ==
    /\ pc[c] = "write"
    /\ handle[c].pieces = <<>>
    /\ Close(c)
    /\ Answer(c)
    /\ UNCHANGED <<clock, cursor, updates, ghosts>>

-----------------------------------------------------------------------------
\* Fetches of subscriptions

\* Wrong: the comparison of the SQL backend.
SelectedAfter(c) ==
    LET all == RowsIn("subs", got[c])
    IN  ElementsAt(all, {n \in DOMAIN all :
            all[n].device = DeviceOf[c] /\ all[n].created > cursor[c]})

\* Rows of the device; none of them has a time of deletion.
Selected(c) ==
    LET all == RowsIn("subs", got[c])
    IN  ElementsAt(all, {n \in DOMAIN all :
            all[n].device = DeviceOf[c] /\ all[n].created >= cursor[c]})

MeetsFetch == met' = (met \/ \E w \in Client : IsUpdating(w, "subs"))

FetchMore(c) ==
    /\ pc[c] \in {"idle", "fetch"}
    /\ ReadSome(c, "subs")
    /\ pc' = [pc EXCEPT ![c] = "fetch"]
    /\ MeetsFetch
    /\ UNCHANGED <<files, clock, change, rows, stamp, cursor, updates, seen, expected, struck>>

Fetch(c) ==
    /\ pc[c] \in {"idle", "fetch"}
    /\ AtEnd(c, "subs")
    /\ CanRead("subs", got[c])
    /\ rows' = [rows EXCEPT ![c] = Selected(c)]
    /\ pc' = [pc EXCEPT ![c] = "fetched"]
    /\ DropRead(c)
    /\ MeetsFetch
    /\ UNCHANGED <<files, clock, change, stamp, cursor, updates, seen, expected, struck>>

FetchError(c) ==
    /\ pc[c] = "fetch"
    /\ AtEnd(c, "subs")
    /\ ~CanRead("subs", got[c])
    /\ Answer(c)
    /\ UNCHANGED <<files, clock, cursor, updates, ghosts>>

\* PodSync::subscriptions answers the latest time of creation, or the current time.
FetchEnd(c) ==
    /\ pc[c] = "fetched"
    /\ cursor' = [cursor EXCEPT ![c] =
            IF rows[c] = <<>> THEN clock ELSE Max({row.created : row \in Range(rows[c])})]
    /\ seen' = [seen EXCEPT ![c] = @ \cup Range(rows[c])]
    /\ Answer(c)
    /\ UNCHANGED <<files, clock, updates, expected, struck, met>>

\* The answer does not reach the client.
FetchLost(c) ==
    /\ pc[c] = "fetched"
    /\ Answer(c)
    /\ UNCHANGED <<files, clock, cursor, updates, ghosts>>

-----------------------------------------------------------------------------
\* Faults

\* A call of the file system, or of the clock, fails and nothing has been changed.
CallFails(c) ==
    /\ Faults
    /\ pc[c] \in {"read", "stamp", "open", "fetch"}
    /\ Answer(c)
    /\ UNCHANGED <<files, clock, cursor, updates, ghosts>>

WriteFails(c) ==
    /\ Faults
    /\ pc[c] = "write"
    /\ handle[c].pieces # <<>>
    /\ Close(c)
    /\ struck' = struck \cup {change[c].file}
    /\ Answer(c)
    /\ UNCHANGED <<clock, cursor, updates, seen, expected, met>>

\* The process stops and is started again; the clients keep their cursors.
Restart ==
    /\ Faults
    /\ CloseAll
    /\ struck' = struck \cup Unfinished
    /\ pc' = [c \in Client |-> "idle"]
    /\ got' = [c \in Client |-> <<>>]
    /\ change' = [c \in Client |-> NoChange]
    /\ rows' = [c \in Client |-> <<>>]
    /\ stamp' = [c \in Client |-> 0]
    /\ UNCHANGED <<clock, cursor, updates, seen, expected, met>>

Next ==
    \/ Tick
    \/ \E c \in Client :
        \/ Update(c) \/ ReadMore(c) \/ Read(c) \/ ReadError(c) \/ Stamp(c)
        \/ OpenFile(c) \/ WriteRow(c) \/ UpdateEnd(c)
        \/ FetchMore(c) \/ Fetch(c) \/ FetchError(c) \/ FetchEnd(c) \/ FetchLost(c)
        \/ CallFails(c) \/ WriteFails(c)
    \/ Restart

Spec == Init /\ [][Next]_vars

-----------------------------------------------------------------------------
\* Properties

Row(f, now) ==
    CASE f = "devices" -> [id : Device, type : {Mobile, Other}, caption : Seq(Text)]
      [] f = "subs" -> [device : Device, created : 0 .. now, url : Seq(Url)]
      [] f = "episodes" -> EpisodeRow

TypeOK ==
    /\ \A f \in File : expected[f] \in Seq(Row(f, clock))
    /\ clock \in Seconds
    /\ pc \in [Client -> {"idle", "read", "stamp", "open", "write", "fetch", "fetched"}]
    /\ change \in [Client -> Changes \cup {NoChange}]
    /\ stamp \in [Client -> 0 .. clock] /\ cursor \in [Client -> 0 .. clock]
    /\ \A c \in Client :
        handle[c].file \in {NoFile, change[c].file} /\ handle[c].pos \in Nat
    /\ updates \in 0 .. MaxUpdates
    /\ struck \subseteq File /\ met \in BOOLEAN

\* The rows that have text that converts back.
HasText(f, rs) == f = "devices" => \A n \in DOMAIN rs : rs[n].type = Mobile

\* A file that nobody is writing holds the rows that all its updates make one after
\* the other, each acknowledged one with all it was told, unless two of its updates
\* have overlapped or one was cut short (backend_file.rs:203-251, :324-373, :403-450).
\* The formats lose nothing but types that are not Mobile (device.rs:29-57): one of
\* them, and devices.txt cannot be read, neither to list nor to update a device.
UpdatesKept ==
    \A f \in File \ struck : Writing(f) = {} =>
        /\ CanRead(f, text[f]) <=> HasText(f, expected[f])
        /\ HasText(f, expected[f]) => RowsIn(f, text[f]) = expected[f]


\* A subscription that a client was not told of is in its next fetch, answers lost or
\* not, also if it was added in the second of the client's cursor: `created >= since'
\* (backend_file.rs:304-315). Unless a fetch ran while the file was rewritten, when
\* what it read was too old or not complete.
NoMissedAdd ==
    "subs" \notin struck /\ ~met =>
        \A c \in Client : \A row \in Range(expected["subs"]) :
            row.device = DeviceOf[c] => row \in seen[c] \/ row.created >= cursor[c]
=============================================================================
