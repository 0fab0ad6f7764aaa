------------------------------ MODULE LeaseTable ------------------------------
(***************************************************************************)
(* What the console promises about each of its tables of tokens (knocks in *)
(* progress, gates, sessions): a token is good for TTL, counted from when  *)
(* it was handed out or, where that is allowed, last renewed; never more   *)
(* than Capacity of them are good at once; one that ran out, was given     *)
(* back or was lost is as good as any token that never existed.            *)
(***************************************************************************)
EXTENDS Integers, FiniteSets

CONSTANTS
    Keys,       \* tokens that can be handed out
    TTL,        \* how long one is good for
    Capacity,   \* how many are good at the same time
    Renewable   \* whether the TTL may start again

VARIABLE lease  \* time left for each token, 0 if it is worth nothing

Held == {k \in Keys : lease[k] > 0}

Begin(k) ==
    /\ lease[k] = 0 /\ Cardinality(Held) < Capacity
    /\ lease' = [lease EXCEPT ![k] = TTL]

Renew(k) == Renewable /\ lease[k] > 0 /\ lease' = [lease EXCEPT ![k] = TTL]

Release(k) == lease' = [lease EXCEPT ![k] = 0]

Pass == lease' = [k \in Keys |-> IF lease[k] > 0 THEN lease[k] - 1 ELSE 0]

Lost == lease' = [k \in Keys |-> 0]

Init == lease = [k \in Keys |-> 0]

Next == (\E k \in Keys : Begin(k) \/ Renew(k) \/ Release(k)) \/ Pass \/ Lost

Spec == Init /\ [][Next]_lease

=============================================================================
