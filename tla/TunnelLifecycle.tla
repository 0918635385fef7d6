--------------------------- MODULE TunnelLifecycle ---------------------------
(***************************************************************************)
(* What one tunnel of Secure Tunneling promises, without locks, tasks,     *)
(* threads or references: it is opened once, or not at all; it is closed   *)
(* only because a stop was requested, once; a requested stop ends it; and  *)
(* its context exists for as long as the SDK may call it, and no longer    *)
(* than it must.                                                           *)
(***************************************************************************)
VARIABLES
    phase,      \* "new", "failed", "open", "closing", "ended"
    stopping,   \* the tunnel was asked to stop
    held,       \* somebody still refers to the context
    refused     \* the event loop has refused a task

vars == <<phase, stopping, held, refused>>

TypeOK ==
    /\ phase \in {"new", "failed", "open", "closing", "ended"}
    /\ stopping \in BOOLEAN
    /\ held \in BOOLEAN
    /\ refused \in BOOLEAN

Init == phase = "new" /\ stopping = FALSE /\ held = TRUE /\ refused = FALSE

\* A stop that comes while the tunnel is being opened is not seen by the SDK until it is open.
Open == phase = "new" /\ phase' = "open" /\ UNCHANGED <<stopping, held, refused>>

Fail == phase = "new" /\ phase' = "failed" /\ UNCHANGED <<stopping, held, refused>>

RequestStop == ~stopping /\ stopping' = TRUE /\ UNCHANGED <<phase, held, refused>>

Close == phase = "open" /\ stopping /\ phase' = "closing" /\ UNCHANGED <<stopping, held, refused>>

\* Closed by us, or terminated by the service.
End == phase \in {"open", "closing"} /\ phase' = "ended" /\ UNCHANGED <<stopping, held, refused>>

Release ==
    /\ phase \in {"failed", "ended"}
    /\ held /\ held' = FALSE
    /\ UNCHANGED <<phase, stopping, refused>>

Refuse == ~refused /\ refused' = TRUE /\ UNCHANGED <<phase, stopping, held>>

Next == Open \/ Fail \/ RequestStop \/ Close \/ End \/ Release \/ Refuse

Spec == Init /\ [][Next]_vars

\* A requested stop ends the tunnel, and an ended tunnel is let go, unless a task was refused: the context
\* is then retained, for the safety of callbacks that may still come.
Fairness ==
    /\ WF_vars(stopping /\ ~refused /\ (Close \/ End))
    /\ WF_vars(phase = "ended" /\ ~refused /\ Release)

FairSpec == Spec /\ Fairness
=============================================================================
