------------------------------ MODULE Sessions ------------------------------
(***************************************************************************)
(* How podsync decides on whose behalf a request runs: the login and       *)
(* logout handlers and authorize_request of main.rs, PodSync::login,       *)
(* PodSync::authenticate, with_user and logout of podsync.rs, over the     *)
(* session_id column of the users table.                                   *)
(*                                                                         *)
(* Handlers run concurrently on a multi-threaded runtime and share only    *)
(* the store, so each await on the store (find_user, update_user,          *)
(* users_with_session: one SQL statement each) is a step of its own and    *)
(* other requests run between two of them.                                 *)
(***************************************************************************)
CONSTANTS
    Username,   \* every name a path can carry
    Account,    \* the names that have a row in the users table
    Client,     \* HTTP clients, each with one request in flight at most
    SessionId,  \* the UUIDs SessionId::new can draw
    Endpoint,   \* the kinds of endpoints in use: see Endpoints
    NoSession,  \* a NULL session_id; an absent or unparsable cookie
    NoUser      \* no user: of an idle client, of a session id not drawn yet

\* "work" stands for the six device, subscription and episode endpoints: each
\* calls authorize_request and then one operation of PodSyncAuthed<true>.
Endpoints == {"login", "logout", "work"}

ASSUME ConstantsAssumption ==
    /\ Account \subseteq Username
    /\ Endpoint \subseteq Endpoints
    /\ NoSession \notin SessionId
    /\ NoUser \notin Username

VARIABLES
    session,  \* session[u]: the session_id column of u's row
    req,      \* req[c]: the request of c that is being served
    pc,       \* pc[c]: where its handler is
    sid,      \* sid[c]: the session id the handler has drawn or authorised
    jar,      \* jar[c]: the sessionid cookie that c keeps
    owner,    \* ghost: owner[s], the user that s was drawn for
    stored    \* ghost: the session ids that ever were in the users table

vars == <<session, req, pc, sid, jar, owner, stored>>

MaybeSession == SessionId \cup {NoSession}

\* password: whether the credentials hold the password of the path's user.
\* Ghosts: seen and gone, the ids stored and revoked before the request was sent.
Request == [endpoint : Endpoints, user : Username \cup {NoUser},
            password : BOOLEAN, cookie : MaybeSession,
            seen : SUBSET SessionId, gone : SUBSET SessionId]

NoRequest == [endpoint |-> "work", user |-> NoUser,
              password |-> FALSE, cookie |-> NoSession,
              seen |-> {}, gone |-> {}]

\* "find", "store", "lookup": in find_user, update_user, users_with_session;
\* "authed": authorize_request has returned and the operation is called next.
\* (BadRequest is the answer to what does not parse, before anything is called.)
Answers == {"200", "401", "500"}
Pc == {"idle", "find", "store", "lookup", "authed"} \cup Answers

\* The ids in the users table, and those that were there and are no more.
Live == {session[u] : u \in Account} \ {NoSession}
Revoked == stored \ Live

Init ==
    /\ session = [u \in Account |-> NoSession]
    /\ req = [c \in Client |-> NoRequest]
    /\ pc = [c \in Client |-> "idle"]
    /\ sid = [c \in Client |-> NoSession]
    /\ jar = [c \in Client |-> NoSession]
    /\ owner = [s \in SessionId |-> NoUser]
    /\ stored = {}

-----------------------------------------------------------------------------
\* How a handler goes on

\* It is done: it has answered with a status and no cookie, or is gone.
Done(c, status) ==
    /\ pc' = [pc EXCEPT ![c] = status]
    /\ req' = [req EXCEPT ![c] = NoRequest]
    /\ sid' = [sid EXCEPT ![c] = NoSession]

\* It holds a PodSyncAuthed<true> with session id s: login answers with that id
\* as a cookie, the others call their operation next.
Authorise(c, s) ==
    /\ sid' = [sid EXCEPT ![c] = s]
    /\ pc' = [pc EXCEPT ![c] = IF req[c].endpoint = "login" THEN "200" ELSE "authed"]
    /\ UNCHANGED req

-----------------------------------------------------------------------------
\* Requests arrive

\* The handler of a request for u's path makes its first call.
Start(c, call, endpoint, u, password, cookie) ==
    /\ pc[c] = "idle"
    /\ pc' = [pc EXCEPT ![c] = call]
    /\ req' = [req EXCEPT ![c] =
                [endpoint |-> endpoint, user |-> u,
                 password |-> password, cookie |-> cookie,
                 seen |-> stored, gone |-> Revoked]]
    /\ UNCHANGED <<session, sid, jar, owner, stored>>

\* authorize_request: a cookie is looked up, and there is no falling back to the
\* credentials of the request.
SendCookie(c, endpoint, u) ==
    /\ endpoint # "login"
    /\ jar[c] # NoSession
    /\ Start(c, "lookup", endpoint, u, FALSE, jar[c])

\* Credentials for u: login passes the client's cookie on, if there is one;
\* authorize_request gets here only without a cookie.
SendCredentials(c, endpoint, u, password, cookie) ==
    /\ cookie = NoSession \/ (endpoint = "login" /\ cookie = jar[c])
    /\ Start(c, "find", endpoint, u, password, cookie)

\* No Authorization header where one is needed, or a malformed one, or one that
\* names another user than the path.
SendNothing(c) ==
    /\ pc[c] = "idle"
    /\ Done(c, "401")
    /\ UNCHANGED <<session, jar, owner, stored>>

-----------------------------------------------------------------------------
\* PodSync::login, after find_user has read the row of the path's user

FoundUser(c) ==
    /\ pc[c] = "find"
    /\ req[c].user \in Account
    /\ req[c].password

\* There is no such user, or the password is wrong, or the client presents a
\* session and the user has none.
RejectLogin(c) ==
    /\ pc[c] = "find"
    /\ FoundUser(c) => req[c].cookie # NoSession /\ session[req[c].user] = NoSession
    /\ Done(c, "401")
    /\ UNCHANGED <<session, jar, owner, stored>>

\* The client presents a session that is not the user's.
SessionCheckFailed(c) ==
    /\ FoundUser(c)
    /\ NoSession \notin {req[c].cookie, session[req[c].user]}
    /\ req[c].cookie # session[req[c].user]
    /\ Done(c, "500")
    /\ UNCHANGED <<session, jar, owner, stored>>

\* The client presents the user's session, or none and is given the user's.
ResumeSession(c) ==
    /\ FoundUser(c)
    /\ session[req[c].user] # NoSession
    /\ req[c].cookie \in {session[req[c].user], NoSession}
    /\ Authorise(c, session[req[c].user])
    /\ UNCHANGED <<session, jar, owner, stored>>

\* The handler draws s and calls update_user with it.
StartSession(c, s) ==
    /\ sid' = [sid EXCEPT ![c] = s]
    /\ pc' = [pc EXCEPT ![c] = "store"]
    /\ UNCHANGED <<session, req, jar, stored>>

\* Wrong: a login without a cookie opens a new session also if there is one.
NewSessionAlways(c) ==
    /\ FoundUser(c)
    /\ req[c].cookie = NoSession
    /\ \E s \in SessionId :
        /\ owner[s] = NoUser
        /\ owner' = [owner EXCEPT ![s] = req[c].user]
        /\ StartSession(c, s)

\* Wrong: session ids are not unique.
NewSessionNotFresh(c) ==
    /\ FoundUser(c)
    /\ req[c].cookie = NoSession
    /\ session[req[c].user] = NoSession
    /\ \E s \in SessionId :
        /\ owner' = [owner EXCEPT ![s] = req[c].user]
        /\ StartSession(c, s)

\* Wrong: a client that kept its cookie over a logout has its session reopened.
NewSessionFromCookie(c) ==
    /\ FoundUser(c)
    /\ session[req[c].user] = NoSession
    /\ \E s \in SessionId :
        /\ s = req[c].cookie \/ (req[c].cookie = NoSession /\ owner[s] = NoUser)
        /\ owner' = [owner EXCEPT ![s] = req[c].user]
        /\ StartSession(c, s)

\* Neither has a session: a new id is drawn. (The UUIDs are random, of version 4:
\* none is drawn twice.)
NewSession(c) ==
    /\ FoundUser(c)
    /\ req[c].cookie = NoSession
    /\ session[req[c].user] = NoSession
    /\ \E s \in SessionId :
        /\ owner[s] = NoUser
        /\ owner' = [owner EXCEPT ![s] = req[c].user]
        /\ StartSession(c, s)

\* update_user: the row gets the new id, whatever it holds by now.
StoreSession(c) ==
    /\ pc[c] = "store"
    /\ session' = [session EXCEPT ![req[c].user] = sid[c]]
    /\ stored' = stored \cup {sid[c]}
    /\ Authorise(c, sid[c])
    /\ UNCHANGED <<jar, owner>>

-----------------------------------------------------------------------------
\* PodSync::authenticate and with_user

\* users_with_session(cookie)
SessionUsers(c) == {u \in Account : session[u] = req[c].cookie}

\* Wrong: with_user is left out, a session is good for every path.
AuthenticateAnyPath(c) ==
    /\ pc[c] = "lookup"
    /\ \/ SessionUsers(c) = {} /\ Done(c, "401")
       \/ SessionUsers(c) # {} /\ Authorise(c, req[c].cookie)
    /\ UNCHANGED <<session, jar, owner, stored>>

\* Wrong: a cookie is believed without looking it up.
AuthenticateUnchecked(c) ==
    /\ pc[c] = "lookup"
    /\ \/ owner[req[c].cookie] # req[c].user /\ Done(c, "401")
       \/ owner[req[c].cookie] = req[c].user /\ Authorise(c, req[c].cookie)
    /\ UNCHANGED <<session, jar, owner, stored>>

\* Wrong: a session of another user is answered with 403.
AuthenticateForbidden(c) ==
    /\ pc[c] = "lookup"
    /\ \/ SessionUsers(c) = {} /\ Done(c, "401")
       \/ (\E u \in SessionUsers(c) : u # req[c].user) /\ Done(c, "403")
       \/ SessionUsers(c) = {req[c].user} /\ Authorise(c, req[c].cookie)
    /\ UNCHANGED <<session, jar, owner, stored>>

\* The session of no user, or of one whose name is not the path's, is rejected,
\* that of several users is an error.
Authenticate(c) ==
    /\ pc[c] = "lookup"
    /\ \/ SessionUsers(c) = {} /\ Done(c, "401")
       \/ (\E u \in SessionUsers(c) : SessionUsers(c) = {u} /\ u # req[c].user)
            /\ Done(c, "401")
       \/ SessionUsers(c) = {req[c].user} /\ Authorise(c, req[c].cookie)
       \/ (\E u, v \in SessionUsers(c) : u # v) /\ Done(c, "500")
    /\ UNCHANGED <<session, jar, owner, stored>>

-----------------------------------------------------------------------------
\* The authorised operation

\* One of the six operations, on the data of req[c].user.
Work(c) ==
    /\ pc[c] = "authed"
    /\ req[c].endpoint = "work"
    /\ Done(c, "200")
    /\ UNCHANGED <<session, jar, owner, stored>>

\* update_user(username, None)
Logout(c) ==
    /\ pc[c] = "authed"
    /\ req[c].endpoint = "logout"
    /\ session' = [session EXCEPT ![req[c].user] = NoSession]
    /\ Done(c, "200")
    /\ UNCHANGED <<jar, owner, stored>>

\* The store answers the handler's call with an error, without effect.
StoreError(c) ==
    /\ pc[c] \in {"find", "store", "lookup", "authed"}
    /\ Done(c, "500")
    /\ UNCHANGED <<session, jar, owner, stored>>

-----------------------------------------------------------------------------
\* The client's side of it

\* c receives the answer; a successful login sets the cookie.
Receive(c) ==
    /\ pc[c] \in Answers
    /\ jar' = IF sid[c] # NoSession
              THEN [jar EXCEPT ![c] = sid[c]] ELSE jar
    /\ Done(c, "idle")
    /\ UNCHANGED <<session, owner, stored>>

\* The connection closes, or the server stops: the handler is dropped at the
\* await it is in, or its answer is lost.
Abandon(c) ==
    /\ pc[c] # "idle"
    /\ Done(c, "idle")
    /\ UNCHANGED <<session, jar, owner, stored>>

\* The cookie expires, or the client forgets it.
DropCookie(c) ==
    /\ jar[c] # NoSession
    /\ pc[c] = "idle"
    /\ jar' = [jar EXCEPT ![c] = NoSession]
    /\ UNCHANGED <<session, req, pc, sid, owner, stored>>

Serve(c) ==
    \/ RejectLogin(c) \/ SessionCheckFailed(c) \/ ResumeSession(c)
    \/ NewSession(c) \/ StoreSession(c)
    \/ Authenticate(c)
    \/ Work(c) \/ Logout(c) \/ StoreError(c)

Next ==
    \E c \in Client :
        \/ \E e \in Endpoint, u \in Username :
              \/ SendCookie(c, e, u)
              \/ \E password \in BOOLEAN, k \in MaybeSession :
                    SendCredentials(c, e, u, password, k)
        \/ SendNothing(c)
        \/ Serve(c)
        \/ Receive(c) \/ Abandon(c) \/ DropCookie(c)

Spec == Init /\ [][Next]_vars

-----------------------------------------------------------------------------
\* Properties

TypeOK ==
    /\ session \in [Account -> MaybeSession]
    /\ req \in [Client -> Request]
    /\ pc \in [Client -> Pc]
    /\ sid \in [Client -> MaybeSession]
    /\ jar \in [Client -> MaybeSession]
    /\ owner \in [SessionId -> Username \cup {NoUser}]
    /\ stored \subseteq SessionId

\* c's request has passed authorize_request, or its login has succeeded.
Authorised(c) == pc[c] \in {"authed", "200"} /\ sid[c] # NoSession

\* The users table never holds one session id in two rows, so authenticate never
\* takes its "multiple users found for session" branch (podsync.rs:168).
SessionsDistinct ==
    \A u, v \in Account : session[u] = session[v] /\ u # v => session[u] = NoSession

\* A request that has been authorised runs on behalf of the user its session id
\* was drawn for, also when logins, logouts and lookups of several users
\* interleave (podsync.rs:144-192: the cookie and the path agree).
SessionActsForItsOwner ==
    \A c \in Client : Authorised(c) => owner[sid[c]] = req[c].user

\* An id that was revoked before a request was sent never authorises the request:
\* what the lookup of main.rs:261 found out is outdated by the request's own
\* duration at most (the test at main.rs:478, for every interleaving).
RevokedNeverAuthorises ==
    \A c \in Client : Authorised(c) => sid[c] \notin req[c].gone

\* A login that takes another client's session away was sent before that session
\* was stored: first logins that race displace each other, but no login displaces
\* a session that it could have been given (podsync.rs:108-141).
OnlyRacingLoginsDisplace ==
    [][\A u \in Account :
        session[u] # NoSession /\ session'[u] \notin {session[u], NoSession} =>
            \E c \in Client : /\ pc[c] = "store" /\ req[c].user = u
                              /\ session[u] \notin req[c].seen]_vars

\* Every change of the users table opens a session with an id that was never
\* stored before, or closes one: no interleaving of handlers makes update_user
\* (podsync.rs:114, :205) write an old id back.
Registry == INSTANCE SessionRegistry WITH used <- stored
ImplementsRegistry == Registry!Spec

\* While nobody logs out, the cookie that a login has set is the user's session:
\* "and we're given a cookie" / "we can use this to get our devices"
\* (main.rs:421-443).
CookieIsLive == \A c \in Client : jar[c] # NoSession => jar[c] \in Live
=============================================================================
