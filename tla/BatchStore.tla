----------------------------- MODULE BatchStore -----------------------------
(***************************************************************************)
(* What uploads promise: the batch that a client has offered takes effect  *)
(* as a whole, in one step, and once; or it is withdrawn without effect.   *)
(***************************************************************************)
CONSTANTS
    Client, Batch, Stamp,
    Initial,           \* the table before the first upload
    Apply(_, _, _, _)  \* Apply(table, c, b, t): after c's batch b, offered at t

VARIABLES
    table,
    offer              \* offer[c]: the offer of c, in a set of at most one

Init ==
    /\ table = Initial
    /\ offer = [c \in Client |-> {}]

Offer(c, b, t) ==
    /\ offer[c] = {}
    /\ offer' = [offer EXCEPT ![c] = {[batch |-> b, at |-> t]}]
    /\ UNCHANGED table

Accept(c) ==
    \E o \in offer[c] :
        /\ table' = Apply(table, c, o.batch, o.at)
        /\ offer' = [offer EXCEPT ![c] = {}]

Withdraw(c) ==
    /\ offer[c] # {}
    /\ offer' = [offer EXCEPT ![c] = {}]
    /\ UNCHANGED table

Next ==
    \E c \in Client :
        \/ \E b \in Batch, t \in Stamp : Offer(c, b, t)
        \/ Accept(c) \/ Withdraw(c)

Spec == Init /\ [][Next]_<<table, offer>>
=============================================================================
