--------------------------- MODULE BlockingRequest ---------------------------
(***************************************************************************)
(* The way the start of the client talks to AWS IoT (FleetProvisioning.cpp *)
(* and ConfigShadow.cpp): main queues a request, the callbacks of the      *)
(* event loop thread fulfil std::promises, and main waits for them, each   *)
(* wait with a deadline.  Fulfilling a promise a second time throws on the *)
(* event loop thread, where nothing catches it.                            *)
(***************************************************************************)
EXTENDS Naturals

VARIABLE promises     \* the promises of the request main waits for: name -> "unset", "true", "false"

Unset(names) == [n \in names |-> "unset"]
IsSet(n) == promises[n] # "unset"
AllSet(names) == \A n \in names : IsSet(n)
AllTrue(names) == \A n \in names : promises[n] = "true"
Fulfil(n, value) == promises' = [promises EXCEPT ![n] = value]
Outcomes == {"true", "false"}

RequestInit == promises = << >>
=============================================================================
