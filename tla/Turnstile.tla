----------------------------- MODULE Turnstile -----------------------------
(***************************************************************************)
(* What the coordinator's request queue is there for: hosts ask to join,   *)
(* and the next one is let in only when the one before it has joined.      *)
(* Abstract specification of Admission.                                    *)
(***************************************************************************)
CONSTANTS
    Host,
    Nobody   \* not in Host

VARIABLES
    waiting,   \* the hosts that have asked and have not been let in
    current    \* the host that is joining, or Nobody

Init == waiting = {} /\ current = Nobody

Ask(h) ==
    /\ h \notin waiting
    /\ waiting' = waiting \cup {h}
    /\ UNCHANGED current

Enter(h) ==
    /\ current = Nobody /\ h \in waiting
    /\ current' = h
    /\ waiting' = waiting \ {h}

Leave ==
    /\ current # Nobody
    /\ current' = Nobody
    /\ UNCHANGED waiting

Next == (\E h \in Host : Ask(h) \/ Enter(h)) \/ Leave

Spec == Init /\ [][Next]_<<waiting, current>>
=============================================================================
