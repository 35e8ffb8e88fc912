---------------------------- MODULE MCDataFiles ----------------------------
(* Model checking instances of DataFiles. *)
EXTENDS DataFiles

CONSTANTS c1, c2, phone, pad, u1, u2, e1, e2, x, y

\* Both clients sync the phone.
OneDevice == [c \in Client |-> phone]

\* With and without a type and a caption; additions and a removal, of another device;
\* two episodes, and one of them twice.
AllChanges ==
    {[file |-> "devices", id |-> phone, type |-> Mobile, caption |-> NULL],
     [file |-> "devices", id |-> phone, type |-> NULL, caption |-> x],
     [file |-> "devices", id |-> pad, type |-> Mobile, caption |-> x],
     [file |-> "subs", device |-> phone, add |-> <<u1, u2>>, remove |-> {}],
     [file |-> "subs", device |-> phone, add |-> <<u2>>, remove |-> {u1, u2}],
     [file |-> "subs", device |-> pad, add |-> <<u1>>, remove |-> {}],
     [file |-> "episodes", batch |-> <<[id |-> e2, body |-> x], [id |-> e1, body |-> y]>>],
     [file |-> "episodes", batch |-> <<[id |-> e1, body |-> x], [id |-> e1, body |-> y]>>]}

\* Bound: nothing is followed any further when a file has been struck. No property
\* says what becomes of such a file, and no update of another file looks at it.
NoneStruck == struck = {}

Symmetry == Permutations(Client)
=============================================================================
