---------------------------- MODULE MCSessions -----------------------------
(* Model checking instances of Sessions. *)
EXTENDS Sessions, TLC

\* Clients, accounts and session ids are interchangeable.
Symmetry ==
    Permutations(Client) \cup Permutations(Account) \cup Permutations(SessionId)
=============================================================================
