-------------------------- MODULE JobsAvailability --------------------------
(***************************************************************************)
(* What the subscription management of the Jobs feature promises to the    *)
(* rest of the device client, without generations, counters, locks or      *)
(* threads: jobs are only asked for and accepted while every subscription  *)
(* is in place, pending jobs are asked for each time that becomes so, and  *)
(* a stopped feature stays stopped.                                        *)
(***************************************************************************)
VARIABLES
    phase,   \* "starting", "recovering", "serving", "stopped"
    polled   \* pending jobs were asked for since the feature last came to serve

vars == <<phase, polled>>

Phases == {"starting", "recovering", "serving", "stopped"}

TypeOK == phase \in Phases /\ polled \in BOOLEAN

Init == phase = "starting" /\ polled = FALSE

\* Startup ends, with the subscriptions in place or not.
FinishStartup ==
    /\ phase = "starting"
    /\ phase' \in {"serving", "recovering"}
    /\ polled' = FALSE

Poll ==
    /\ phase = "serving" /\ ~polled
    /\ polled' = TRUE
    /\ UNCHANGED phase

\* The connection is resumed: the session survived and must be polled again, or it did not.
Resume ==
    /\ phase = "serving" /\ polled
    /\ phase' \in {"serving", "recovering"}
    /\ polled' = FALSE

\* The last subscription is back; the poll is part of the step.
Recover ==
    /\ phase = "recovering"
    /\ phase' = "serving"
    /\ polled' = TRUE

\* Stopping never separates a return to service from its poll.
Stop ==
    /\ phase # "stopped"
    /\ phase = "serving" => polled
    /\ phase' = "stopped"
    /\ polled' = FALSE

Next == FinishStartup \/ Poll \/ Resume \/ Recover \/ Stop

Spec == Init /\ [][Next]_vars
=============================================================================
