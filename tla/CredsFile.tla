----------------------------- MODULE CredsFile -----------------------------
(***************************************************************************)
(* The users of the file backend: find_user, update_user and               *)
(* users_with_session of backend_file.rs over the creds.txt of each user,  *)
(* as PodSync::login, authenticate and logout of podsync.rs call them.     *)
(*                                                                         *)
(* These functions are async and await nothing, so no handler is dropped   *)
(* within one of them.  But the threads of the runtime interleave at every *)
(* call of the file system, a write may fail, and the process may stop.    *)
(***************************************************************************)
EXTENDS TextFile

CONSTANTS
    SessionId,   \* the UUIDs SessionId::new can draw
    NoSession,
    Sep,         \* the cell ": "
    PwHash, Id,  \* the cells "pwhash" and "session_id"
    Hash,        \* the cells of the hash of a user's password
    MaxUpdates,  \* bound: the number of calls of update_user
    Faults       \* whether writes fail and the process stops

\* The users: each has a directory with a creds.txt, so text[u] is the file of u.
Account == File
NoUser == NoFile

Cell == {NL, Hole, Sep, PwHash, Id} \cup Range(Hash) \cup SessionId

ASSUME CredsAssumption ==
    /\ NoSession \notin SessionId
    /\ NL # Sep /\ PwHash # Id /\ {PwHash, Id} \cap {NL, Hole, Sep} = {}
    /\ Hash \in Seq(Range(Hash)) \ {<<>>}
    /\ \A cell \in Range(Hash) \cup SessionId : cell \notin {NL, Hole, Sep, PwHash, Id}
    /\ \A s \in SessionId : s \notin Range(Hash)
    /\ MaxUpdates \in Nat
    /\ Faults \in BOOLEAN

VARIABLES
    pc,       \* pc[t]: where the handler on thread t is
    user,     \* user[t]: the user whose file it reads, or updates
    id,       \* id[t]: the session id that it stores or looks up, or NoSession
    kv,       \* kv[t]: the key-values that it has read and changed
    rest,     \* rest[t]: the users whose files its lookup has still to read
    hits,     \* hits[t]: the users that its lookup has found
    updates,  \* the number of calls of update_user so far
    owner,    \* ghost: owner[s], the user that s was drawn for
    shown,    \* ghost: shown[u], the session that the file of u shows
    used,     \* ghost: the ids that ever were the session of a user
    gone,     \* ghost: gone[t], the ids that were revoked before t's lookup
    last,     \* ghost: last[u], what the last rewriting of u's file is to store
    overlapped,  \* ghost: the users of whom two updates have overlapped
    cut          \* ghost: the users of whom the writing of a file was cut short

call == <<got, pc, user, id, kv, rest, hits, gone>>
ghosts == <<owner, shown, used, last, overlapped, cut>>
vars == <<files, call, updates, ghosts>>

Init ==
    /\ InitFiles([u \in Account |-> <<PwHash, Sep>> \o Hash \o <<NL>>])
    /\ pc = [t \in Thread |-> "idle"]
    /\ user = [t \in Thread |-> NoUser]
    /\ id = [t \in Thread |-> NoSession]
    /\ kv = [t \in Thread |-> <<>>]
    /\ rest = [t \in Thread |-> {}]
    /\ hits = [t \in Thread |-> {}]
    /\ updates = 0
    /\ owner = [s \in SessionId |-> NoUser]
    /\ shown = [u \in Account |-> NoSession]
    /\ used = {}
    /\ gone = [t \in Thread |-> {}]
    /\ last = [u \in Account |-> NoSession]
    /\ overlapped = {} /\ cut = {}

-----------------------------------------------------------------------------
\* kv.rs

\* kv::read fails at a line without ": ".
CanRead(cells) ==
    \A i \in LineStarts(cells) : Find(cells, Sep, i) < Find(cells, NL, i)

\* The lines in two parts.
Entries(cells) ==
    {[line |-> i,
      key |-> SubSeq(cells, i, Find(cells, Sep, i) - 1),
      value |-> SubSeq(cells, Find(cells, Sep, i) + 1, Find(cells, NL, i) - 1)] :
     i \in LineStarts(cells)}

\* Of several lines with one key the last counts.
Maps(cells, k, v) ==
    \E e \in Entries(cells) :
        /\ e.key = k /\ e.value = v
        /\ \A d \in Entries(cells) : d.key = k => d.line <= e.line

HasKey(cells, k) == \E e \in Entries(cells) : e.key = k

\* The map that kv::read returns: keys that mean nothing are kept.
KeyValues(cells) ==
    [k \in {e.key : e \in Entries(cells)} |->
        CHOOSE v \in {e.value : e \in Entries(cells)} : Maps(cells, k, v)]

\* kv::write: the pieces of text, with the keys in some order. A reader does not
\* tell whether the last line has an end, so that is written with the value.
Pieces(map, order) ==
    [n \in 1 .. 3 * Len(order) |->
        LET key == order[(n + 2) \div 3]
        IN  CASE n % 3 = 1 -> key
              [] n % 3 = 2 -> <<Sep>>
              [] n % 3 = 0 -> Append(map[key], NL)]

-----------------------------------------------------------------------------
\* find_user

\* It returns a user: there is a pwhash.
Finds(cells) == CanRead(cells) /\ HasKey(cells, <<PwHash>>)

HasPassword(cells) == Finds(cells) /\ Maps(cells, <<PwHash>>, Hash)
HasSessionId(cells) == Finds(cells) /\ HasKey(cells, <<Id>>)
HasSession(cells, s) == Finds(cells) /\ Maps(cells, <<Id>>, <<s>>)

\* The session that find_user returns if it reads the file in one piece.
Session(u) ==
    IF \E s \in SessionId : HasSession(text[u], s)
    THEN CHOOSE s \in SessionId : HasSession(text[u], s)
    ELSE NoSession

\* The ghosts after a step that changes the files.
Show ==
    /\ shown' = [u \in Account |-> Session(u)']
    /\ used' = used \cup (Range(shown') \ {NoSession})

-----------------------------------------------------------------------------
\* The handlers

GoTo(t, label) == pc' = [pc EXCEPT ![t] = label]

\* The handler answers, whatever the answer is.
Answer(t) ==
    /\ GoTo(t, "idle")
    /\ DropRead(t)
    /\ user' = [user EXCEPT ![t] = NoUser]
    /\ id' = [id EXCEPT ![t] = NoSession]
    /\ kv' = [kv EXCEPT ![t] = <<>>]
    /\ rest' = [rest EXCEPT ![t] = {}]
    /\ hits' = [hits EXCEPT ![t] = {}]
    /\ gone' = [gone EXCEPT ![t] = {}]

\* The handler calls update_user.
CallUpdate(t, u, s) ==
    /\ updates < MaxUpdates
    /\ updates' = updates + 1
    /\ GoTo(t, "update")
    /\ DropRead(t)
    /\ user' = [user EXCEPT ![t] = u]
    /\ id' = [id EXCEPT ![t] = s]
    /\ rest' = [rest EXCEPT ![t] = {}]
    /\ hits' = [hits EXCEPT ![t] = {}]
    /\ gone' = [gone EXCEPT ![t] = {}]
    /\ UNCHANGED kv

\* A file is read that is to be that of u: a call of read that returns something.
Reads(t, u) ==
    /\ user[t] \in {NoUser, u}
    /\ ReadSome(t, u)
    /\ user' = [user EXCEPT ![t] = u]

\* find_user of a login, or of a request with a password.
FindRead(t, u) ==
    /\ pc[t] \in {"idle", "find"}
    /\ Reads(t, u)
    /\ GoTo(t, "find")
    /\ UNCHANGED <<files, id, kv, rest, hits, gone, updates, ghosts>>

\* Nothing is to be changed: the user is not found, the password is wrong, there is
\* a session already at a login, or none at a logout.
FindEnd(t) ==
    /\ pc[t] = "find"
    /\ AtEnd(t, user[t])
    /\ Answer(t)
    /\ UNCHANGED <<files, updates, ghosts>>

\* Wrong: a user's session id is drawn once, and used again.
LoginSameId(t) ==
    /\ pc[t] = "find"
    /\ AtEnd(t, user[t])
    /\ HasPassword(got[t]) /\ ~HasSessionId(got[t])
    /\ \E s \in SessionId :
        /\ owner[s] = user[t]
            \/ (owner[s] = NoUser /\ \A r \in SessionId : owner[r] # user[t])
        /\ owner' = [owner EXCEPT ![s] = user[t]]
        /\ CallUpdate(t, user[t], s)
    /\ UNCHANGED <<files, shown, used, last, overlapped, cut>>

\* PodSync::login with the right password, of a user without a session.
Login(t) ==
    /\ pc[t] = "find"
    /\ AtEnd(t, user[t])
    /\ HasPassword(got[t]) /\ ~HasSessionId(got[t])
    /\ \E s \in SessionId :
        /\ owner[s] = NoUser
        /\ owner' = [owner EXCEPT ![s] = user[t]]
        /\ CallUpdate(t, user[t], s)
    /\ UNCHANGED <<files, shown, used, last, overlapped, cut>>

\* PodSyncAuthed::logout with the password, of a user with a session.
LogoutByPassword(t) ==
    /\ pc[t] = "find"
    /\ AtEnd(t, user[t])
    /\ HasPassword(got[t]) /\ \E s \in SessionId : HasSession(got[t], s)
    /\ CallUpdate(t, user[t], NoSession)
    /\ UNCHANGED <<files, ghosts>>

\* PodSync::authenticate with a cookie calls users_with_session.
Lookup(t, s) ==
    /\ pc[t] = "idle"
    /\ owner[s] # NoUser
    /\ GoTo(t, "lookup")
    /\ id' = [id EXCEPT ![t] = s]
    /\ rest' = [rest EXCEPT ![t] = Account]
    /\ gone' = [gone EXCEPT ![t] = used \ Range(shown)]
    /\ UNCHANGED <<files, got, user, kv, hits, updates, ghosts>>

\* users_with_session reads the file of the next user, in the order of read_dir.
LookupRead(t) ==
    /\ pc[t] = "lookup"
    /\ \E u \in rest[t] : Reads(t, u)
    /\ UNCHANGED <<files, pc, id, kv, rest, hits, gone, updates, ghosts>>

\* Wrong: a user is found with any session.
LookupNextAny(t) ==
    /\ pc[t] = "lookup"
    /\ \E u \in rest[t] :
        /\ user[t] = u /\ AtEnd(t, u)
        /\ Finds(got[t])
        /\ rest' = [rest EXCEPT ![t] = @ \ {u}]
        /\ hits' = [hits EXCEPT ![t] = IF HasSessionId(got[t]) THEN @ \cup {u} ELSE @]
    /\ DropRead(t)
    /\ user' = [user EXCEPT ![t] = NoUser]
    /\ UNCHANGED <<files, pc, id, kv, gone, updates, ghosts>>

LookupNext(t) ==
    /\ pc[t] = "lookup"
    /\ \E u \in rest[t] :
        /\ user[t] = u /\ AtEnd(t, u)
        /\ Finds(got[t])
        /\ rest' = [rest EXCEPT ![t] = @ \ {u}]
        /\ hits' = [hits EXCEPT ![t] = IF HasSession(got[t], id[t]) THEN @ \cup {u} ELSE @]
    /\ DropRead(t)
    /\ user' = [user EXCEPT ![t] = NoUser]
    /\ UNCHANGED <<files, pc, id, kv, gone, updates, ghosts>>

\* A user who cannot be found makes the whole lookup fail. Or all are read, and
\* the request is rejected or goes on to something else than a logout.
LookupEnd(t) ==
    /\ pc[t] = "lookup"
    /\ \/ rest[t] = {}
       \/ \E u \in rest[t] : user[t] \in {NoUser, u} /\ AtEnd(t, u) /\ ~Finds(got[t])
    /\ Answer(t)
    /\ UNCHANGED <<files, updates, ghosts>>

\* PodSyncAuthed::logout of a request with a cookie.
Logout(t) ==
    /\ pc[t] = "lookup" /\ rest[t] = {}
    /\ \E u \in hits[t] : hits[t] = {u} /\ CallUpdate(t, u, NoSession)
    /\ UNCHANGED <<files, ghosts>>

-----------------------------------------------------------------------------
\* update_user

\* Wrong: a session_id that is None is stored as if it was one.
SetSessionAlways(map, s) ==
    [k \in DOMAIN map \cup {<<Id>>} |-> IF k = <<Id>> THEN <<s>> ELSE map[k]]

\* The map with the session_id inserted, or removed.
SetSession(map, s) ==
    LET others == DOMAIN map \ {<<Id>>}
    IN  [k \in others \cup (IF s = NoSession THEN {} ELSE {<<Id>>}) |->
            IF k = <<Id>> THEN <<s>> ELSE map[k]]

\* t has begun to read what it is going to write.
IsUpdating(t, u) ==
    /\ user[t] = u
    /\ pc[t] \in {"open", "write"} \/ (pc[t] = "update" /\ got[t] # <<>>)

\* The ghost after a step in which t reads a file to update it.
Meets(t) ==
    overlapped' = IF \E w \in Thread \ {t} : IsUpdating(w, user[t])
                  THEN overlapped \cup {user[t]} ELSE overlapped

UpdateRead(t) ==
    /\ pc[t] = "update"
    /\ ReadSome(t, user[t])
    /\ Meets(t)
    /\ UNCHANGED <<files, pc, user, id, kv, rest, hits, gone, updates>>
    /\ UNCHANGED <<owner, shown, used, last, cut>>

ReadUser(t) ==
    /\ pc[t] = "update"
    /\ AtEnd(t, user[t])
    /\ CanRead(got[t])
    /\ kv' = [kv EXCEPT ![t] = SetSession(KeyValues(got[t]), id[t])]
    /\ GoTo(t, "open")
    /\ DropRead(t)
    /\ Meets(t)
    /\ UNCHANGED <<files, user, id, rest, hits, gone, updates>>
    /\ UNCHANGED <<owner, shown, used, last, cut>>

ReadUserFails(t) ==
    /\ pc[t] = "update"
    /\ AtEnd(t, user[t])
    /\ ~CanRead(got[t])
    /\ Answer(t)
    /\ UNCHANGED <<files, updates, ghosts>>

\* write_user truncates the file; a HashMap has its keys in any order.
OpenUser(t) ==
    /\ pc[t] = "open"
    /\ \E order \in SetToSeqs(DOMAIN kv[t]) :
        Open(t, user[t], Pieces(kv[t], order))
    /\ last' = [last EXCEPT ![user[t]] = id[t]]
    /\ kv' = [kv EXCEPT ![t] = <<>>]
    /\ GoTo(t, "write")
    /\ UNCHANGED <<got, user, id, rest, hits, gone, updates, owner, overlapped, cut>>
    /\ Show

WriteUser(t) ==
    /\ pc[t] = "write"
    /\ WritePiece(t)
    /\ UNCHANGED <<call, updates, owner, last, overlapped, cut>>
    /\ Show

CloseUser(t) ==
    /\ pc[t] = "write"
    /\ handle[t].pieces = <<>>
    /\ Close(t)
    /\ Answer(t)
    /\ UNCHANGED <<updates, ghosts>>

\* The request was a logout with the password, of a user without a session: the
\* login has opened one, and update_user is called again.
LogoutAfterLogin(t) ==
    /\ pc[t] = "write"
    /\ handle[t].pieces = <<>>
    /\ id[t] # NoSession
    /\ Close(t)
    /\ CallUpdate(t, user[t], NoSession)
    /\ UNCHANGED ghosts

-----------------------------------------------------------------------------
\* Faults

\* A call of the file system fails before anything has been changed.
CallFails(t) ==
    /\ Faults
    /\ pc[t] \in {"find", "lookup", "update", "open"}
    /\ Answer(t)
    /\ UNCHANGED <<files, updates, ghosts>>

WriteFails(t) ==
    /\ Faults
    /\ pc[t] = "write"
    /\ handle[t].pieces # <<>>
    /\ Close(t)
    /\ cut' = cut \cup {user[t]}
    /\ Answer(t)
    /\ UNCHANGED <<updates, owner, shown, used, last, overlapped>>

\* The process stops and is started again.
Restart ==
    /\ Faults
    /\ CloseAll
    /\ cut' = cut \cup Unfinished
    /\ pc' = [t \in Thread |-> "idle"]
    /\ got' = [t \in Thread |-> <<>>]
    /\ user' = [t \in Thread |-> NoUser]
    /\ id' = [t \in Thread |-> NoSession]
    /\ kv' = [t \in Thread |-> <<>>]
    /\ rest' = [t \in Thread |-> {}]
    /\ hits' = [t \in Thread |-> {}]
    /\ gone' = [t \in Thread |-> {}]
    /\ UNCHANGED <<updates, owner, shown, used, last, overlapped>>

Next ==
    \/ \E t \in Thread :
        \/ \E u \in Account : FindRead(t, u)
        \/ FindEnd(t) \/ Login(t) \/ LogoutByPassword(t)
        \/ \E s \in SessionId : Lookup(t, s)
        \/ LookupRead(t) \/ LookupNext(t) \/ LookupEnd(t) \/ Logout(t)
        \/ UpdateRead(t) \/ ReadUser(t) \/ ReadUserFails(t)
        \/ OpenUser(t) \/ WriteUser(t) \/ CloseUser(t) \/ LogoutAfterLogin(t)
        \/ CallFails(t) \/ WriteFails(t)
    \/ Restart

Spec == Init /\ [][Next]_vars

-----------------------------------------------------------------------------
\* Properties

TypeOK ==
    /\ text \in [Account -> Seq(Cell)]
    /\ handle \in [Thread -> [file : Account \cup {NoUser}, pos : Nat,
                              pieces : Seq(Seq(Cell))]]
    /\ \A t \in Thread : kv[t] \in [DOMAIN kv[t] -> Seq(Cell)]
    /\ got \in [Thread -> Seq(Cell)]
    /\ pc \in [Thread -> {"idle", "find", "lookup", "update", "open", "write"}]
    /\ user \in [Thread -> Account \cup {NoUser}]
    /\ id \in [Thread -> SessionId \cup {NoSession}]
    /\ rest \in [Thread -> SUBSET Account] /\ hits \in [Thread -> SUBSET Account]
    /\ updates \in 0 .. MaxUpdates
    /\ owner \in [SessionId -> Account \cup {NoUser}]
    /\ shown \in [Account -> SessionId \cup {NoSession}]
    /\ used \subseteq SessionId /\ gone \in [Thread -> SUBSET SessionId]
    /\ last \in [Account -> SessionId \cup {NoSession}]
    /\ overlapped \subseteq Account /\ cut \subseteq Account

\* Unless two of its updates have overlapped or one was cut short, a creds.txt that
\* nobody is writing holds the password and the session that the last update_user
\* was given (backend_file.rs:97-122), in whatever order the lines come, whatever
\* lookups and the updates of other users do: only while a file is being written
\* does find_user fail, and users_with_session (:124-153) with it for all users.
SettledFileIsGood ==
    \A u \in Account \ (overlapped \cup cut) : Writing(u) = {} =>
        /\ HasPassword(text[u])
        /\ IF last[u] = NoSession THEN ~HasSessionId(text[u])
           ELSE HasSession(text[u], last[u])

\* users_with_session reads the files one by one while they are rewritten: whom it
\* finds is the user that the id was drawn for, and nobody else, also among
\* half-written and garbled files (backend_file.rs:124-153).
LookupFindsOwner ==
    \A t \in Thread : \A u \in hits[t] : hits[t] = {u} /\ owner[id[t]] = u

\* Nobody is found with an id that was revoked before the lookup began, though the
\* file is rewritten during it, if no two updates of the user have overlapped
\* (podsync.rs:144-173, :199-209).
RevokedNotFound ==
    \A t \in Thread : \A u \in hits[t] \ overlapped : id[t] \notin gone[t]

\* What find_user returns of the files, at every moment of every rewriting and after
\* one that was cut short. Of a user whose updates have not overlapped it is what
\* the session_id column of SQL shows: a session is opened with an id that never
\* was one, or is closed. After an overlap the session may be any id that was
\* drawn for the user, or none, but not an id of another user
\* (backend_file.rs:87-122).
Registry == INSTANCE SessionFiles WITH session <- shown, disputed <- overlapped
ImplementsRegistry == Registry!Spec

\* "session_id: set to None to logout / make NULL" (backend_file.rs:97): this is
\* all that update_user changes, so that users keep their passwords.
PasswordSurvives == \A u \in Account : Writing(u) = {} => HasPassword(text[u])
=============================================================================
