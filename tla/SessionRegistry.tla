-------------------------- MODULE SessionRegistry --------------------------
(***************************************************************************)
(* What the session_id column promises, without handlers or requests: a    *)
(* user has at most one session, and a session id is good for one opening  *)
(* by one user.  Sessions implements it, with `used' for the ids that were *)
(* ever stored.                                                            *)
(***************************************************************************)
CONSTANTS Account, SessionId, NoSession

VARIABLES session, used

Init ==
    /\ session = [u \in Account |-> NoSession]
    /\ used = {}

\* A session is opened, in the place of the one the user may have.
Open(u, s) ==
    /\ s \notin used
    /\ session' = [session EXCEPT ![u] = s]
    /\ used' = used \cup {s}

Close(u) ==
    /\ session' = [session EXCEPT ![u] = NoSession]
    /\ UNCHANGED used

Next == \E u \in Account : Close(u) \/ \E s \in SessionId : Open(u, s)

Spec == Init /\ [][Next]_<<session, used>>
=============================================================================
