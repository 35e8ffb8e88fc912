---------------------------- MODULE SessionFiles ----------------------------
(***************************************************************************)
(* What files that nobody locks keep of the promises of SessionRegistry.   *)
(* A user has them all as long as no two updates of the user's file have   *)
(* overlapped.  From then on the file may show any session that was ever   *)
(* drawn for the user, also one that was closed before, or none; but never *)
(* a session of somebody else.                                             *)
(***************************************************************************)
CONSTANTS Account, SessionId, NoSession, NoUser

VARIABLES
    session, used,
    owner,    \* owner[s]: the user that s was drawn for
    disputed  \* the users of whom two updates have overlapped

vars == <<session, used, owner, disputed>>

Column == INSTANCE SessionRegistry

Init ==
    /\ Column!Init
    /\ owner = [s \in SessionId |-> NoUser]
    /\ disputed = {}

Draw(u, s) ==
    /\ owner[s] = NoUser
    /\ owner' = [owner EXCEPT ![s] = u]
    /\ UNCHANGED <<session, used, disputed>>

Open(u, s) ==
    /\ u \notin disputed
    /\ owner[s] = u
    /\ Column!Open(u, s)
    /\ UNCHANGED <<owner, disputed>>

Close(u) ==
    /\ u \notin disputed
    /\ Column!Close(u)
    /\ UNCHANGED <<owner, disputed>>

Overlap(u) ==
    /\ disputed' = disputed \cup {u}
    /\ UNCHANGED <<session, used, owner>>

\* One of the updates that overlap, or of those that come after them.
Garble(u) ==
    /\ u \in disputed
    /\ \E s \in {NoSession} \cup {r \in SessionId : owner[r] = u} :
        /\ session' = [session EXCEPT ![u] = s]
        /\ used' = used \cup ({s} \ {NoSession})
    /\ UNCHANGED <<owner, disputed>>

Next ==
    \E u \in Account :
        \/ Close(u) \/ Overlap(u) \/ Garble(u)
        \/ \E s \in SessionId : Draw(u, s) \/ Open(u, s)

Spec == Init /\ [][Next]_vars
=============================================================================
