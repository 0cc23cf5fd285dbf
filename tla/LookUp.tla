----------------------------- MODULE LookUp -----------------------------
(***************************************************************************)
(* What locate::lookUp promises its caller, without locks, sessions or     *)
(* messages: from the call to the return a list of UIDs is published now   *)
(* and then, each at once and whole, and before the call and after the     *)
(* return the list stays as it is.  Whether a deadline or the end of the   *)
(* discovery brings about the return makes no difference to the list.      *)
(***************************************************************************)
CONSTANT Lists        \* the lists that may be published

VARIABLES stage,      \* "idle", "asking" or "returned"
          list        \* the list the caller may rely on

vars == <<stage, list>>

TypeOK ==
    /\ stage \in {"idle", "asking", "returned"}
    /\ list \in Lists \cup {<<>>}

Init ==
    /\ stage = "idle"
    /\ list = <<>>

Ask ==
    /\ stage = "idle"
    /\ stage' = "asking"
    /\ UNCHANGED list

Publish(l) ==
    /\ stage = "asking"
    /\ list' = l
    /\ UNCHANGED stage

Return ==
    /\ stage = "asking"
    /\ stage' = "returned"
    /\ UNCHANGED list

Next ==
    \/ Ask
    \/ \E l \in Lists : Publish(l)
    \/ Return

Spec == Init /\ [][Next]_vars
=============================================================================
