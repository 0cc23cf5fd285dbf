------------------------- MODULE SuidDiscoveryMC -------------------------
(* One lookup of a data type that two sensors have, for TLC. *)
EXTENDS SuidDiscovery

CONSTANTS accel0, accel1

TwoSuids == {accel0, accel1}

Lists == {<<>>, <<accel0>>, <<accel0, accel1>>}
Found(list) == [kind |-> "suids", list |-> list]
Done == [kind |-> "done", list |-> <<>>]
Bad == [kind |-> "bad", list |-> <<>>]

\* One event in a message, a message with two lists, the end of the
\* discovery on its own, behind and before a list, and a rejected event.
SomeMessages ==
    {<<Found(l)>> : l \in Lists}
        \cup {<<Found(<<accel1>>), Found(<<accel0, accel1>>)>>,
              <<Done>>,
              <<Found(<<accel0, accel1>>), Done>>,
              <<Done, Found(<<accel1>>)>>,
              <<Found(<<accel0>>), Bad, Found(<<accel1>>)>>,
              <<Bad, Done>>,
              <<>>}
=============================================================================
