------------------------- MODULE MCSubscriptionsSql -------------------------
(* Model checking instances of SubscriptionsSql. *)
EXTENDS SubscriptionsSql

CONSTANTS phone, c1, c2

OneDevice == [c \in Client |-> phone]

Symmetry == Permutations(Client) \cup Permutations(Url)
=============================================================================
