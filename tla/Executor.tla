---------------------------- MODULE Executor ----------------------------
(***************************************************************************)
(* What a qshWorker promises its users, without locks or threads: tasks    *)
(* are taken in, and performed one at a time in the order in which they    *)
(* were taken in, until the executor is closed; a closed executor takes    *)
(* and starts nothing, finishes the task it is performing, and exits.      *)
(*                                                                         *)
(* aborted stands for the end of the process by std::terminate, which the  *)
(* destructor of a std::thread that was never joined brings about.         *)
(***************************************************************************)
EXTENDS Naturals, Sequences

CONSTANTS Tasks,      \* what can be handed to the executor
          NoTask      \* current, when nothing is being performed

VARIABLES pending,    \* tasks taken in and not yet started
          current,    \* the task being performed, or NoTask
          phase       \* "open", "closed", "exited" or "aborted"

vars == <<pending, current, phase>>

TypeOK ==
    /\ pending \in Seq(Tasks)
    /\ current \in Tasks \cup {NoTask}
    /\ phase \in {"open", "closed", "exited", "aborted"}

Init ==
    /\ pending = <<>>
    /\ current = NoTask
    /\ phase = "open"

Submit(k) ==
    /\ phase = "open"
    /\ pending' = Append(pending, k)
    /\ UNCHANGED <<current, phase>>

Start ==
    /\ phase = "open"
    /\ current = NoTask
    /\ pending # <<>>
    /\ current' = Head(pending)
    /\ pending' = Tail(pending)
    /\ UNCHANGED phase

Finish ==
    /\ phase # "aborted"
    /\ current # NoTask
    /\ current' = NoTask
    /\ UNCHANGED <<pending, phase>>

Close ==
    /\ phase = "open"
    /\ phase' = "closed"
    /\ UNCHANGED <<pending, current>>

Exit ==
    /\ phase = "closed"
    /\ current = NoTask
    /\ phase' = "exited"
    /\ UNCHANGED <<pending, current>>

Abort ==
    /\ phase \in {"closed", "exited"}
    /\ phase' = "aborted"
    /\ UNCHANGED <<pending, current>>

Next ==
    \/ \E k \in Tasks : Submit(k)
    \/ Start
    \/ Finish
    \/ Close
    \/ Exit
    \/ Abort

Spec == Init /\ [][Next]_vars

\* Nothing obliges a user to submit or to close; the executor itself does
\* not sit on work it can start, finish or end.
FairSpec == Spec /\ WF_vars(Start) /\ WF_vars(Finish) /\ WF_vars(Exit)
=============================================================================
