---------------------------- MODULE MCCredsFile ----------------------------
(* Model checking instances of CredsFile. *)
EXTENDS CredsFile

CONSTANTS h1, h2

\* A hash is longer than a session id, so lines come to be at different places.
TwoCells == <<h1, h2>>

Symmetry ==
    Permutations(Thread) \cup Permutations(Account) \cup Permutations(SessionId)
=============================================================================
