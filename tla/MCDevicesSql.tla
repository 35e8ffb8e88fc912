--------------------------- MODULE MCDevicesSql ---------------------------
(* Model checking instances of DevicesSql. *)
EXTENDS DevicesSql

CONSTANTS phone, c1, c2

OneDevice == [c \in Client |-> phone]

\* The clients differ: one is an adopter.
UrlSymmetry == Permutations(Url)
=============================================================================
