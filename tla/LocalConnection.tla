--------------------------- MODULE LocalConnection ----------------------------
(***************************************************************************)
(* What one local connection of a secure tunnel promises to the context    *)
(* that owns it, without flags, buffers, tasks or threads: it is opened    *)
(* once, or not at all; it passes on the payloads it was given from the    *)
(* first one on, in their order and without a gap, only while it is open   *)
(* and its owner holds it; and once its owner has let go of it, because it *)
(* stopped it or was told of its end, it takes nothing more and only ends. *)
(***************************************************************************)
EXTENDS Naturals, Sequences

VARIABLES
    phase,    \* "new", "open", "ended"
    held,     \* the owner holds the connection
    taken,    \* the number of payloads it took from its owner
    passed    \* the payloads passed on to the local program

vars == <<phase, held, taken, passed>>

Payloads(n) == [i \in 1 .. n |-> i]

Init == phase = "new" /\ held = TRUE /\ taken = 0 /\ passed = <<>>

Open == held /\ phase = "new" /\ phase' = "open" /\ UNCHANGED <<held, taken, passed>>

\* A payload is kept for later, or passed on with everything that was kept.
Take ==
    /\ held
    /\ taken' = taken + 1
    /\ passed' = passed \/ (phase = "open" /\ passed' = Payloads(taken'))
    /\ UNCHANGED <<phase, held>>

Pass ==
    /\ held /\ phase = "open"
    /\ passed' = Payloads(taken)
    /\ UNCHANGED <<phase, held, taken>>

\* The owner stops the connection, which may have to wait for another thread, or is told of its end.
LetGo ==
    /\ held /\ held' = FALSE
    /\ phase' \in {phase, "ended"}
    /\ UNCHANGED <<taken, passed>>

End == ~held /\ phase' = "ended" /\ UNCHANGED <<held, taken, passed>>

Next == Open \/ Take \/ Pass \/ LetGo \/ End

Spec == Init /\ [][Next]_vars
===============================================================================
