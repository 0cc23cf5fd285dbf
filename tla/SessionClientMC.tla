------------------------- MODULE SessionClientMC -------------------------
(* A hub with two sensors of the type the client looks for, for TLC. *)
EXTENDS SessionClient

CONSTANTS accel0, accel1

TwoSuids == {accel0, accel1}

\* No sensor yet, one, two, and a message that does not decode behind its
\* first event.
SomeMessages ==
    {[decoded |-> TRUE, list |-> l] :
         l \in {<<>>, <<accel0>>, <<accel1>>, <<accel0, accel1>>}}
        \cup {[decoded |-> FALSE, list |-> <<accel0>>]}
=============================================================================
