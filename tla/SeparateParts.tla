---------------------------- MODULE SeparateParts -----------------------------
(***************************************************************************)
(* Three parts of the client that share no state and call nothing of each  *)
(* other: a sensor (Sensor), the monitor of a file (FileMonitor) and the   *)
(* client's log (LogPipeline).  Each thread or callback belongs to one of  *)
(* them, so that interleaving them would only multiply the states: a       *)
(* behaviour here is one of a single part, in every configuration of it,   *)
(* while the other two have not begun.                                     *)
(***************************************************************************)
EXTENDS Sensor, FileMonitor, LogPipeline

VARIABLE part  \* the part that runs: "sensor", "monitor", "log"

partVars == <<part, vars, fileMonitorVars, logVars>>

\* A part that does not run stands still in one of its initial states.
SensorIdle  == bufferSize = 1 /\ ~expires /\ ends = {}
MonitorIdle == feature = "shadow" /\ ~monitored
LogIdle     == ~aborting

PartsInit ==
    /\ part \in {"sensor", "monitor", "log"}
    /\ Init /\ MonitorInit /\ LogInit
    /\ part # "sensor" => SensorIdle
    /\ part # "monitor" => MonitorIdle
    /\ part # "log" => LogIdle

SensorOnly  == part = "sensor" /\ UNCHANGED <<part, fileMonitorVars, logVars>>
MonitorOnly == part = "monitor" /\ UNCHANGED <<part, vars, logVars>>
LogOnly     == part = "log" /\ UNCHANGED <<part, vars, fileMonitorVars>>

PartsNext ==
    \/ SensorOnly /\ Next
    \/ MonitorOnly /\ MonitorNext
    \/ LogOnly /\ LogNext

\* The fairness of each part's own specification; only one of the first three can be enabled in a
\* behaviour, so that one condition states the fairness of all of them.
PartsFairness ==
    /\ WF_partVars(\/ SensorOnly /\ ReadLoop
                   \/ MonitorOnly /\ Monitor
                   \/ LogOnly /\ MainThread)
    /\ WF_partVars(LogOnly /\ WriterThread)

PartsSpec == PartsInit /\ [][PartsNext]_partVars /\ PartsFairness
===============================================================================
