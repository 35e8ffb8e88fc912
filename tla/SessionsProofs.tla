-------------------------- MODULE SessionsProofs ---------------------------
(***************************************************************************)
(* The safety properties of Sessions, and that it implements               *)
(* SessionRegistry, for any users, clients and session ids.                *)
(*                                                                         *)
(* None of the properties is inductive by itself: what a handler is about  *)
(* to write matters as much as what the table holds.  DrawnIds says so: an *)
(* id that a handler has drawn and not stored yet belongs to the handler's *)
(* user, is in no other handler's hands and was never stored.              *)
(***************************************************************************)
EXTENDS Sessions, TLAPS

\* The ids in the table were drawn for the user they are stored with.
LiveIds ==
    \A u \in Account : session[u] # NoSession =>
        session[u] \in stored /\ owner[session[u]] = u

\* An id that was ever stored is not drawn again.
StoredIds == \A s \in stored : owner[s] # NoUser

DrawnIds ==
    \A c \in Client : pc[c] = "store" =>
        /\ sid[c] \in SessionId \ stored
        /\ owner[sid[c]] = req[c].user
        /\ \A d \in Client : pc[d] = "store" /\ d # c => sid[d] # sid[c]

\* What was seen before a request was sent was stored, what was gone is gone.
SentIds ==
    \A c \in Client : req[c].seen \subseteq stored /\ req[c].gone \subseteq Revoked

\* A handler that writes the users table writes a row that there is.
WritesAccount ==
    \A c \in Client : pc[c] \in {"store", "authed"} => req[c].user \in Account

\* A handler that holds an id works for a user.
HeldIds ==
    \A c \in Client : sid[c] # NoSession => req[c].user \in Username

\* A handler that looks a cookie up has one.
PresentedIds == \A c \in Client : pc[c] = "lookup" => req[c].cookie # NoSession

\* A session that will be displaced was stored after the login was sent.
DisplacedIds ==
    \A c \in Client : pc[c] = "store" =>
        session[req[c].user] \notin req[c].seen

IInv ==
    /\ TypeOK /\ LiveIds /\ StoredIds /\ DrawnIds /\ SentIds
    /\ WritesAccount /\ HeldIds /\ PresentedIds /\ DisplacedIds
    /\ SessionActsForItsOwner /\ RevokedNeverAuthorises

-----------------------------------------------------------------------------
\* Types

\* What an idle client's request is set to is a request.
LEMMA NoRequestType == NoRequest \in Request
BY ConstantsAssumption DEF NoRequest, Request, Endpoints, MaybeSession

\* Live and revoked ids are session ids.
LEMMA LiveTypes == TypeOK => Live \subseteq SessionId /\ Revoked \subseteq SessionId
BY ConstantsAssumption DEF TypeOK, Live, Revoked, MaybeSession

\* A request that is sent is a request, at a place of the handler.
LEMMA StartType ==
    ASSUME TypeOK, NEW c \in Client, NEW call \in {"find", "lookup"},
           NEW e \in Endpoint, NEW u \in Username, NEW password \in BOOLEAN,
           NEW k \in MaybeSession, Start(c, call, e, u, password, k)
    PROVE  TypeOK'
<1> DEFINE r == [endpoint |-> e, user |-> u, password |-> password, cookie |-> k,
                 seen |-> stored, gone |-> Revoked]
<1>1. r \in Request
  BY LiveTypes, ConstantsAssumption DEF Request, TypeOK
<1>2. req' = [req EXCEPT ![c] = r]
  BY DEF Start
<1> HIDE DEF r
<1> QED
  BY <1>1, <1>2 DEF Start, TypeOK, Pc

\* A request that is over leaves the handlers typed.
LEMMA DoneType ==
    ASSUME TypeOK, NEW c \in Client, NEW status \in Answers \cup {"idle"},
           Done(c, status)
    PROVE  /\ req' \in [Client -> Request]
           /\ pc' \in [Client -> Pc]
           /\ sid' \in [Client -> MaybeSession]
BY NoRequestType DEF TypeOK, Done, Pc, MaybeSession

\* So does one that is authorised by a session id.
LEMMA AuthoriseType ==
    ASSUME TypeOK, NEW c \in Client, NEW s \in MaybeSession, Authorise(c, s)
    PROVE  /\ req' \in [Client -> Request]
           /\ pc' \in [Client -> Pc]
           /\ sid' \in [Client -> MaybeSession]
BY DEF TypeOK, Authorise, Pc, Answers

\* Every field of a request has its type.
LEMMA FieldTypes ==
    ASSUME TypeOK, NEW c \in Client
    PROVE  /\ req[c].user \in Username \cup {NoUser}
           /\ req[c].cookie \in MaybeSession
           /\ req[c].seen \subseteq SessionId
           /\ req[c].gone \subseteq SessionId
BY DEF TypeOK, Request

\* Every step keeps the types.
LEMMA TypeStep ==
    ASSUME TypeOK, DrawnIds, [Next]_vars
    PROVE  TypeOK'
<1>1. CASE UNCHANGED vars
  BY <1>1 DEF vars, TypeOK
<1>2. ASSUME NEW c \in Client, NEW e \in Endpoint, NEW u \in Username,
             SendCookie(c, e, u)
      PROVE  TypeOK'
  BY <1>2, StartType DEF SendCookie, TypeOK
<1>3. ASSUME NEW c \in Client, NEW e \in Endpoint, NEW u \in Username,
             NEW password \in BOOLEAN, NEW k \in MaybeSession,
             SendCredentials(c, e, u, password, k)
      PROVE  TypeOK'
  BY <1>3, StartType DEF SendCredentials
<1>4. ASSUME NEW c \in Client, SendNothing(c) PROVE TypeOK'
  BY <1>4, DoneType DEF SendNothing, TypeOK, Answers
<1>5. ASSUME NEW c \in Client, Serve(c) PROVE TypeOK'
  <2>1. CASE RejectLogin(c) \/ SessionCheckFailed(c) \/ Work(c) \/ StoreError(c)
    BY <2>1, DoneType
    DEF RejectLogin, SessionCheckFailed, Work, StoreError, TypeOK, Answers
  <2>2. CASE ResumeSession(c)
    BY <2>2, AuthoriseType DEF ResumeSession, FoundUser, TypeOK
  <2>3. CASE NewSession(c)
    <3>1. PICK s \in SessionId :
            /\ owner' = [owner EXCEPT ![s] = req[c].user]
            /\ StartSession(c, s)
      BY <2>3 DEF NewSession
    <3> QED
      BY <3>1, FieldTypes DEF StartSession, TypeOK, Pc, MaybeSession
  <2>4. CASE StoreSession(c)
    <3>1. sid[c] \in SessionId
      BY <2>4 DEF StoreSession, DrawnIds
    <3>2. /\ session' = [session EXCEPT ![req[c].user] = sid[c]]
          /\ stored' = stored \cup {sid[c]}
          /\ Authorise(c, sid[c])
          /\ UNCHANGED <<jar, owner>>
      BY <2>4 DEF StoreSession
    <3>3. sid[c] \in MaybeSession
      BY <3>1 DEF MaybeSession
    <3>4. session' \in [Account -> MaybeSession] /\ stored' \subseteq SessionId
      BY <3>1, <3>2, <3>3 DEF TypeOK
    <3> QED
      BY <3>2, <3>3, <3>4, AuthoriseType DEF TypeOK
  <2>5. CASE Authenticate(c)
    BY <2>5, DoneType, AuthoriseType, FieldTypes DEF Authenticate, TypeOK, Answers
  <2>6. CASE Logout(c)
    BY <2>6, DoneType DEF Logout, TypeOK, Answers, MaybeSession
  <2> QED
    BY <1>5, <2>1, <2>2, <2>3, <2>4, <2>5, <2>6 DEF Serve
<1>6. ASSUME NEW c \in Client, Receive(c) \/ Abandon(c) PROVE TypeOK'
  BY <1>6, DoneType DEF Receive, Abandon, TypeOK
<1>7. ASSUME NEW c \in Client, DropCookie(c) PROVE TypeOK'
  BY <1>7 DEF DropCookie, TypeOK, MaybeSession
<1> QED
  BY <1>1, <1>2, <1>3, <1>4, <1>5, <1>6, <1>7 DEF Next

\* The types hold at first.
LEMMA TypeInit == Init => TypeOK
BY NoRequestType DEF Init, TypeOK, MaybeSession, Pc

-----------------------------------------------------------------------------
\* What the kinds of steps do to the invariant

\* An id that was revoked stays revoked.
LEMMA RevokedGrows ==
    ASSUME IInv, NEW c \in Client, StoreSession(c) \/ Logout(c)
    PROVE  Revoked \subseteq Revoked' /\ stored \subseteq stored'
<1>1. CASE StoreSession(c)
  <2>1. sid[c] \notin stored /\ stored' = stored \cup {sid[c]}
    BY <1>1 DEF StoreSession, IInv, DrawnIds
  <2>2. Live' \subseteq Live \cup {sid[c]}
    BY <1>1 DEF StoreSession, Live, IInv, TypeOK
  <2> QED
    BY <2>1, <2>2 DEF Revoked
<1>2. CASE Logout(c)
  <2>1. Live' \subseteq Live /\ stored' = stored
    BY <1>2 DEF Logout, Live, IInv, TypeOK
  <2> QED
    BY <2>1 DEF Revoked
<1> QED
  BY <1>1, <1>2

\* A request that is sent.
LEMMA StartInv ==
    ASSUME IInv, TypeOK', NEW c \in Client, NEW call \in {"find", "lookup"},
           NEW e \in Endpoint, NEW u \in Username, NEW password \in BOOLEAN,
           NEW k \in MaybeSession, call = "lookup" => k # NoSession,
           Start(c, call, e, u, password, k)
    PROVE  IInv'
<1> USE DEF IInv
<1>1. /\ req'[c].user = u /\ req'[c].cookie = k /\ req'[c].seen = stored
      /\ req'[c].gone = Revoked /\ pc'[c] = call
      /\ \A d \in Client \ {c} : req'[d] = req[d] /\ pc'[d] = pc[d]
  BY DEF Start, TypeOK
<1>2. UNCHANGED <<session, sid, jar, owner, stored, Live, Revoked>>
  BY DEF Start, Live, Revoked
<1>3. LiveIds' /\ StoredIds'
  BY <1>2 DEF LiveIds, StoredIds
<1>4. DrawnIds'
  BY <1>1, <1>2 DEF DrawnIds
<1>5. SentIds'
  BY <1>1, <1>2 DEF SentIds
<1>6. WritesAccount' /\ DisplacedIds'
  BY <1>1, <1>2 DEF WritesAccount, DisplacedIds
<1>7. HeldIds' /\ PresentedIds'
  BY <1>1, <1>2 DEF HeldIds, PresentedIds
<1>8. SessionActsForItsOwner' /\ RevokedNeverAuthorises'
  BY <1>1, <1>2 DEF SessionActsForItsOwner, RevokedNeverAuthorises, Authorised
<1> QED
  BY <1>3, <1>4, <1>5, <1>6, <1>7, <1>8

\* A handler that is done, having closed the session of its user or not.
LEMMA DoneInv ==
    ASSUME IInv, TypeOK', NEW c \in Client, NEW status \in Answers \cup {"idle"},
           Done(c, status), UNCHANGED <<owner, stored>>,
           UNCHANGED session \/ Logout(c)
    PROVE  IInv'
<1> USE DEF IInv
<1>1. /\ req'[c].seen = {} /\ req'[c].gone = {} /\ sid'[c] = NoSession
      /\ pc'[c] \notin {"find", "lookup", "store", "authed"}
      /\ \A d \in Client \ {c} :
            req'[d] = req[d] /\ pc'[d] = pc[d] /\ sid'[d] = sid[d]
  BY DEF Done, TypeOK, NoRequest, Answers
<1>2. /\ Revoked \subseteq Revoked'
      /\ \A u \in Account : session'[u] \in {session[u], NoSession}
  BY RevokedGrows DEF Logout, TypeOK, Revoked, Live
<1>3. LiveIds' /\ StoredIds'
  BY <1>2 DEF LiveIds, StoredIds
<1>4. DrawnIds'
  BY <1>1 DEF DrawnIds
<1>5. SentIds'
  BY <1>1, <1>2 DEF SentIds
<1>6. WritesAccount'
  BY <1>1 DEF WritesAccount
<1>7. DisplacedIds'
  <2> SUFFICES ASSUME NEW d \in Client, pc'[d] = "store"
               PROVE  session'[req'[d].user] \notin req'[d].seen
    BY DEF DisplacedIds
  <2>1. d # c /\ req'[d] = req[d] /\ pc[d] = "store" /\ req[d].user \in Account
    BY <1>1 DEF WritesAccount
  <2>2. NoSession \notin req[d].seen
    BY ConstantsAssumption, FieldTypes
  <2> QED
    BY <1>2, <2>1, <2>2 DEF DisplacedIds
<1>8. HeldIds' /\ PresentedIds'
  BY <1>1 DEF HeldIds, PresentedIds
<1>9. SessionActsForItsOwner' /\ RevokedNeverAuthorises'
  BY <1>1 DEF SessionActsForItsOwner, RevokedNeverAuthorises, Authorised
<1> QED
  BY <1>3, <1>4, <1>5, <1>6, <1>7, <1>8, <1>9

\* A handler that is authorised by the session its user has.
LEMMA AuthoriseInv ==
    ASSUME IInv, TypeOK', NEW c \in Client, req[c].user \in Account,
           session[req[c].user] # NoSession, pc[c] \in {"find", "lookup"},
           Authorise(c, session[req[c].user]),
           UNCHANGED <<session, owner, stored>>
    PROVE  IInv'
<1> USE DEF IInv
<1> DEFINE s == session[req[c].user]
<1>1. /\ req' = req /\ sid'[c] = s /\ pc'[c] \in {"200", "authed"}
      /\ \A d \in Client \ {c} : pc'[d] = pc[d] /\ sid'[d] = sid[d]
  BY DEF Authorise, TypeOK
<1>2. UNCHANGED <<Live, Revoked>>
  BY DEF Live, Revoked
<1>3. owner[s] = req[c].user /\ s \in Live /\ req[c].user \in Username
  BY ConstantsAssumption DEF LiveIds, Live
<1>4. LiveIds' /\ StoredIds'
  BY DEF LiveIds, StoredIds
<1>5. DrawnIds'
  BY <1>1 DEF DrawnIds
<1>6. SentIds'
  BY <1>1, <1>2 DEF SentIds
<1>7. WritesAccount' /\ DisplacedIds'
  BY <1>1 DEF WritesAccount, DisplacedIds
<1>8. HeldIds' /\ PresentedIds'
  BY <1>1, <1>3 DEF HeldIds, PresentedIds
<1>9. SessionActsForItsOwner'
  BY <1>1, <1>3 DEF SessionActsForItsOwner, Authorised
<1>10. RevokedNeverAuthorises'
  BY <1>1, <1>3 DEF RevokedNeverAuthorises, Authorised, SentIds, Revoked
<1> QED
  BY <1>4, <1>5, <1>6, <1>7, <1>8, <1>9, <1>10

\* A login that draws an id: no request and no cookie has it yet.
LEMMA NewSessionInv ==
    ASSUME IInv, TypeOK', NEW c \in Client, NewSession(c)
    PROVE  IInv'
<1> USE DEF IInv
<1>1. PICK s \in SessionId :
        /\ owner[s] = NoUser
        /\ owner' = [owner EXCEPT ![s] = req[c].user]
        /\ StartSession(c, s)
  BY DEF NewSession
<1>2. /\ pc[c] = "find" /\ req[c].user \in Account
      /\ session[req[c].user] = NoSession
  BY DEF NewSession, FoundUser
<1>3. /\ sid'[c] = s /\ pc'[c] = "store" /\ owner'[s] = req[c].user
      /\ \A d \in Client \ {c} : pc'[d] = pc[d] /\ sid'[d] = sid[d]
      /\ \A t \in SessionId \ {s} : owner'[t] = owner[t]
      /\ UNCHANGED <<session, req, stored, Live, Revoked>>
  BY <1>1 DEF StartSession, TypeOK, Live, Revoked
<1>4. req[c].user \in Username /\ req[c].user # NoUser
  BY <1>2, ConstantsAssumption
<1>5. s \notin stored
  BY <1>1 DEF StoredIds
<1>6. LiveIds' /\ StoredIds'
  <2>1. \A t \in stored : owner'[t] = owner[t]
    BY <1>3, <1>5 DEF TypeOK
  <2> QED
    BY <1>3, <2>1 DEF LiveIds, StoredIds
<1>7. DrawnIds'
  <2>1. \A d \in Client \ {c} : pc[d] = "store" =>
            sid[d] # s /\ sid[d] \in SessionId /\ owner'[sid[d]] = owner[sid[d]]
    BY <1>1, <1>3, ConstantsAssumption DEF DrawnIds, WritesAccount
  <2> QED
    BY <1>3, <1>5, <2>1 DEF DrawnIds
<1>8. SentIds'
  BY <1>3 DEF SentIds
<1>9. WritesAccount'
  BY <1>2, <1>3 DEF WritesAccount
<1>10. HeldIds' /\ PresentedIds'
  BY <1>3, <1>4 DEF HeldIds, PresentedIds
<1>11. DisplacedIds'
  <2>1. NoSession \notin req[c].seen
    BY FieldTypes, ConstantsAssumption
  <2> QED
    BY <1>2, <1>3, <2>1 DEF DisplacedIds
<1>12. SessionActsForItsOwner' /\ RevokedNeverAuthorises'
  <2> SUFFICES ASSUME NEW d \in Client, Authorised(d)'
               PROVE  owner'[sid'[d]] = req'[d].user /\ sid'[d] \notin req'[d].gone
    BY DEF SessionActsForItsOwner, RevokedNeverAuthorises
  <2>1. d # c /\ Authorised(d) /\ sid'[d] = sid[d] /\ req' = req
    BY <1>3 DEF Authorised
  <2>2. req[d].user # NoUser /\ sid[d] \in SessionId
    BY <2>1, ConstantsAssumption DEF HeldIds, Authorised, TypeOK, MaybeSession
  <2>3. sid[d] # s
    BY <1>1, <2>1, <2>2 DEF SessionActsForItsOwner
  <2> QED
    BY <1>3, <2>1, <2>2, <2>3 DEF SessionActsForItsOwner, RevokedNeverAuthorises
<1> QED
  BY <1>6, <1>7, <1>8, <1>9, <1>10, <1>11, <1>12

\* update_user with a drawn id: it replaces only what was stored after the login was
\* sent, and revokes that.
LEMMA StoreSessionInv ==
    ASSUME IInv, TypeOK', NEW c \in Client, StoreSession(c)
    PROVE  IInv'
<1> USE DEF IInv
<1> DEFINE s == sid[c]
<1>1. /\ s \in SessionId \ stored /\ owner[s] = req[c].user
      /\ req[c].user \in Account /\ pc[c] = "store"
  BY DEF StoreSession, DrawnIds, WritesAccount
<1>2. /\ session' = [session EXCEPT ![req[c].user] = s]
      /\ stored' = stored \cup {s}
      /\ pc'[c] \in {"200", "authed"}
      /\ \A d \in Client : sid'[d] = sid[d]
      /\ \A d \in Client \ {c} : pc'[d] = pc[d]
      /\ UNCHANGED <<req, owner>>
  BY DEF StoreSession, Authorise, TypeOK
<1>3. Revoked \subseteq Revoked' /\ stored \subseteq stored'
  BY RevokedGrows
<1>4. \A u \in Account : session'[u] = IF u = req[c].user THEN s ELSE session[u]
  BY <1>1, <1>2 DEF TypeOK
<1>5. LiveIds'
  BY <1>1, <1>2, <1>4 DEF LiveIds
<1>6. StoredIds'
  BY <1>1, <1>2, ConstantsAssumption DEF StoredIds
<1>7. DrawnIds'
  BY <1>1, <1>2 DEF DrawnIds
<1>8. SentIds'
  BY <1>2, <1>3 DEF SentIds
<1>9. WritesAccount' /\ HeldIds' /\ PresentedIds'
  BY <1>1, <1>2 DEF WritesAccount, HeldIds, PresentedIds
<1>10. DisplacedIds'
  <2> SUFFICES ASSUME NEW d \in Client, pc'[d] = "store"
               PROVE  session'[req[d].user] \notin req[d].seen
    BY <1>2 DEF DisplacedIds
  <2>1. pc[d] = "store" /\ req[d].user \in Account
    BY <1>2 DEF WritesAccount
  <2>2. s \notin req[d].seen
    BY <1>1 DEF SentIds
  <2> QED
    BY <1>4, <2>1, <2>2 DEF DisplacedIds
<1>11. SessionActsForItsOwner'
  BY <1>1, <1>2 DEF SessionActsForItsOwner, Authorised
<1>12. RevokedNeverAuthorises'
  BY <1>1, <1>2 DEF RevokedNeverAuthorises, Authorised, SentIds, Revoked
<1> QED
  BY <1>5, <1>6, <1>7, <1>8, <1>9, <1>10, <1>11, <1>12

\* The invariant holds at first: nothing is drawn, stored or in flight.
LEMMA InvInit == Init => IInv
BY TypeInit, ConstantsAssumption
DEF Init, IInv, LiveIds, StoredIds, DrawnIds, SentIds, WritesAccount, HeldIds,
    PresentedIds, DisplacedIds, SessionActsForItsOwner, RevokedNeverAuthorises, Authorised,
    NoRequest

\* Every step of every handler and client keeps the invariant.
LEMMA InvStep == IInv /\ [Next]_vars => IInv'
<1> SUFFICES ASSUME IInv, [Next]_vars PROVE IInv'
  OBVIOUS
<1>0. TypeOK'
  BY TypeStep DEF IInv
<1>1. CASE UNCHANGED vars
  BY <1>1
  DEF vars, IInv, TypeOK, LiveIds, StoredIds, DrawnIds, SentIds, Revoked, Live,
      WritesAccount, HeldIds, PresentedIds, DisplacedIds, SessionActsForItsOwner,
      RevokedNeverAuthorises, Authorised
<1>2. ASSUME NEW c \in Client, NEW e \in Endpoint, NEW u \in Username,
             SendCookie(c, e, u)
      PROVE  IInv'
  BY <1>0, <1>2, StartInv DEF SendCookie, IInv, TypeOK
<1>3. ASSUME NEW c \in Client, NEW e \in Endpoint, NEW u \in Username,
             NEW password \in BOOLEAN, NEW k \in MaybeSession,
             SendCredentials(c, e, u, password, k)
      PROVE  IInv'
  BY <1>0, <1>3, StartInv DEF SendCredentials
<1>4. ASSUME NEW c \in Client, SendNothing(c) PROVE IInv'
  BY <1>0, <1>4, DoneInv DEF SendNothing, Answers
<1>5. ASSUME NEW c \in Client, Serve(c) PROVE IInv'
  <2>1. CASE RejectLogin(c) \/ SessionCheckFailed(c) \/ Work(c) \/ StoreError(c)
    BY <1>0, <2>1, DoneInv
    DEF RejectLogin, SessionCheckFailed, Work, StoreError, Answers
  <2>2. CASE ResumeSession(c)
    BY <1>0, <2>2, AuthoriseInv DEF ResumeSession, FoundUser
  <2>3. CASE NewSession(c)
    BY <1>0, <2>3, NewSessionInv
  <2>4. CASE StoreSession(c)
    BY <1>0, <2>4, StoreSessionInv
  <2>5. CASE Authenticate(c)
    <3>1. CASE SessionUsers(c) = {req[c].user} /\ Authorise(c, req[c].cookie)
      <4>1. req[c].user \in Account /\ session[req[c].user] = req[c].cookie
        BY <3>1 DEF SessionUsers
      <4>2. req[c].cookie # NoSession
        BY <2>5 DEF Authenticate, IInv, PresentedIds
      <4> QED
        BY <1>0, <2>5, <3>1, <4>1, <4>2, AuthoriseInv DEF Authenticate
    <3> QED
      BY <1>0, <2>5, <3>1, DoneInv DEF Authenticate, Answers
  <2>6. CASE Logout(c)
    BY <1>0, <2>6, DoneInv DEF Logout, Answers
  <2> QED
    BY <1>5, <2>1, <2>2, <2>3, <2>4, <2>5, <2>6 DEF Serve
<1>6. ASSUME NEW c \in Client, Receive(c) \/ Abandon(c) PROVE IInv'
  BY <1>0, <1>6, DoneInv DEF Receive, Abandon
<1>7. ASSUME NEW c \in Client, DropCookie(c) PROVE IInv'
  BY <1>0, <1>7
  DEF DropCookie, IInv, LiveIds, StoredIds, DrawnIds, SentIds, Revoked, Live,
      WritesAccount, HeldIds, PresentedIds, DisplacedIds, SessionActsForItsOwner,
      RevokedNeverAuthorises, Authorised
<1> QED
  BY <1>1, <1>2, <1>3, <1>4, <1>5, <1>6, <1>7 DEF Next

\* The strengthening is an invariant; the properties below follow from it.
THEOREM Invariant == Spec => []IInv
BY InvInit, InvStep, PTL DEF Spec

-----------------------------------------------------------------------------
\* The properties

\* The users table and the handlers have the types TypeOK gives them.
THEOREM TypeCorrect == Spec => []TypeOK
BY Invariant, PTL DEF IInv

\* No session id is ever in two rows of the users table: authenticate does not
\* reach its "multiple users" branch.
THEOREM DistinctSessions == Spec => []SessionsDistinct
<1>1. IInv => SessionsDistinct
  BY DEF IInv, LiveIds, SessionsDistinct
<1> QED
  BY <1>1, Invariant, PTL

\* Whatever logins, lookups and logouts interleave, an authorised request runs
\* for the user its session was drawn for.
THEOREM OwnSession == Spec => []SessionActsForItsOwner
BY Invariant, PTL DEF IInv

\* A session that was revoked before a request was sent does not authorise it.
THEOREM RevokedStaysRevoked == Spec => []RevokedNeverAuthorises
BY Invariant, PTL DEF IInv

\* What one step does to the users table: it leaves it alone, or update_user
\* stores an id that is not in it and was not before, or it closes a session.
LEMMA SessionStep ==
    ASSUME IInv, [Next]_vars
    PROVE  \/ UNCHANGED <<session, stored>>
           \/ \E c \in Client : StoreSession(c) \/ Logout(c)
BY DEF Next, vars, SendCookie, SendCredentials, Start, SendNothing, Serve,
       RejectLogin, SessionCheckFailed, ResumeSession, NewSession, StartSession,
       Authenticate, Work, StoreError, Receive, Abandon, DropCookie

\* A login takes another session away only when that one was stored after the
\* login was sent.
THEOREM RacingLogins == Spec => OnlyRacingLoginsDisplace
<1>1. IInv /\ [Next]_vars =>
        [\A u \in Account :
            session[u] # NoSession /\ session'[u] \notin {session[u], NoSession} =>
                \E c \in Client : /\ pc[c] = "store" /\ req[c].user = u
                                  /\ session[u] \notin req[c].seen]_vars
  <2> SUFFICES ASSUME IInv, [Next]_vars, NEW u \in Account,
                      session'[u] \notin {session[u], NoSession}
               PROVE  \E c \in Client : /\ pc[c] = "store" /\ req[c].user = u
                                        /\ session[u] \notin req[c].seen
    OBVIOUS
  <2>1. PICK c \in Client : StoreSession(c) \/ Logout(c)
    BY SessionStep
  <2>2. CASE StoreSession(c)
    <3>1. pc[c] = "store" /\ req[c].user = u
      BY <2>2 DEF StoreSession, IInv, TypeOK
    <3> QED
      BY <3>1 DEF IInv, DisplacedIds
  <2>3. CASE Logout(c)
    BY <2>3 DEF Logout, IInv, TypeOK
  <2> QED
    BY <2>1, <2>2, <2>3
<1> QED
  BY <1>1, Invariant, PTL DEF Spec, OnlyRacingLoginsDisplace

\* The handlers implement the registry of sessions: every change of the table
\* opens a session with an id of its own, or closes one.
THEOREM Refinement == Spec => ImplementsRegistry
<1>1. Init => Registry!Init
  BY DEF Init, Registry!Init
<1>2. IInv /\ [Next]_vars => [Registry!Next]_<<session, stored>>
  <2> SUFFICES ASSUME IInv, [Next]_vars
               PROVE  Registry!Next \/ UNCHANGED <<session, stored>>
    OBVIOUS
  <2>1. CASE \E c \in Client : StoreSession(c)
    <3>1. PICK c \in Client : StoreSession(c)
      BY <2>1
    <3>2. req[c].user \in Account /\ sid[c] \in SessionId \ stored
      BY <3>1 DEF StoreSession, IInv, DrawnIds, WritesAccount
    <3>3. Registry!Open(req[c].user, sid[c])
      BY <3>1, <3>2 DEF StoreSession, Registry!Open
    <3> QED
      BY <3>2, <3>3 DEF Registry!Next
  <2>2. CASE \E c \in Client : Logout(c)
    <3>1. PICK c \in Client : Logout(c)
      BY <2>2
    <3>2. req[c].user \in Account /\ Registry!Close(req[c].user)
      BY <3>1 DEF Logout, IInv, WritesAccount, Registry!Close
    <3> QED
      BY <3>2 DEF Registry!Next
  <2> QED
    BY <2>1, <2>2, SessionStep
<1> QED
  BY <1>1, <1>2, Invariant, PTL DEF Spec, ImplementsRegistry, Registry!Spec
=============================================================================
