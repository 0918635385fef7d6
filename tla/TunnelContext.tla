---------------------------- MODULE TunnelContext ----------------------------
(***************************************************************************)
(* One tunnel of Secure Tunneling, from its creation to its release        *)
(* (src/source/tunneling/SecureTunnelingContext.cpp), together with what   *)
(* the feature and the local TCP connections do to it.                     *)
(*                                                                         *)
(* Threads:                                                                *)
(*   loop  the CRT event loop (the group has one thread): MQTT             *)
(*         notifications, every callback of the tunnel and of the local    *)
(*         connections, and the lifecycle tasks, one at a time             *)
(*   main  start() and stop() of the feature                               *)
(* The tunnel is connected by loop, in the handler of a notification, or   *)
(* by main, when notifications are disabled.                               *)
(*                                                                         *)
(* Each block under mLifecycleLock is one action.  The callbacks capture a *)
(* raw pointer to the context: what keeps it alive is ContextIsHeld.       *)
(***************************************************************************)
EXTENDS Naturals

CONSTANTS
    MaxStreams,           \* bound: streams the peer starts
    MaxFailures,          \* bound: calls of the SDK and connections that fail
    MaxScheduleFailures   \* bound: tasks the event loop does not accept

ASSUME ConstantsAssumption ==
    /\ MaxStreams \in Nat
    /\ MaxFailures \in Nat
    /\ MaxScheduleFailures \in Nat

Threads == {"loop", "main"}
Forwards == 1 .. MaxStreams

VARIABLES
    connector,            \* the thread that connects: "loop", or "main" without notifications
    portIsValid,          \* IsValidPort(mPort)
    \* fields guarded by mLifecycleLock
    mSecureTunnel, mConnectInProgress, mStopRequested, mStopQueued, mStopTaskScheduled,
    mStopped, mLifetimeKeepAlive,
    mTcpForward,          \* 0 or the forward of the current stream
    \* the feature: is the context in mContexts
    listed,
    \* threads
    connectPc, loopPc, mainPc,
    stopPc,               \* where each thread is in StopSecureTunnel
    tasks,                \* lifecycle tasks the event loop still has to run
    \* the SDK's tunnel and the local connections
    tunnel,
    running,              \* forwards with an open socket
    streams, failures, scheduleFailures

fieldVars == <<mSecureTunnel, mConnectInProgress, mStopRequested, mStopQueued,
               mStopTaskScheduled, mStopped, mLifetimeKeepAlive>>
stopVars  == <<stopPc, tasks>>
localVars == <<mTcpForward, running, streams>>
modeVars  == <<connector, portIsValid>>
vars == <<modeVars, fieldVars, listed, connectPc, loopPc, mainPc, stopVars, tunnel, localVars,
          failures, scheduleFailures>>

Connecting == connectPc \in {"create", "calling", "succeeded", "failed", "refused", "stopAfter"}

\* Nothing runs on the event loop.
LoopIsFree ==
    /\ loopPc = "idle"
    /\ stopPc["loop"] = "idle"
    /\ ~(connector = "loop" /\ Connecting)

\* The SDK may invoke callbacks.
TunnelIsLive == tunnel \in {"open", "closing"}

Init ==
    /\ connector \in Threads /\ portIsValid \in BOOLEAN
    /\ mSecureTunnel = FALSE /\ mConnectInProgress = FALSE
    /\ mStopRequested = FALSE /\ mStopQueued = FALSE /\ mStopTaskScheduled = FALSE
    /\ mStopped = FALSE /\ mLifetimeKeepAlive = FALSE
    /\ mTcpForward = 0
    /\ listed = (connector = "main")
    /\ connectPc = "idle" /\ loopPc = "idle" /\ mainPc = "running"
    /\ stopPc = [t \in Threads |-> "idle"]
    /\ tasks = {}
    /\ tunnel = "none" /\ running = {}
    /\ streams = 0 /\ failures = 0 /\ scheduleFailures = 0

\* A call of the SDK or of the socket library fails.
CallFails ==
    /\ failures < MaxFailures
    /\ failures' = failures + 1
-----------------------------------------------------------------------------
(***************************************************************************)
(* Steps shared by several threads.                                        *)
(***************************************************************************)

\* Mutant: a stop request does not make the context retain itself.
RetainForStop_Never == UNCHANGED mLifetimeKeepAlive

\* From the stop request to the SDK's last callback the context retains itself.
RetainForStop == mLifetimeKeepAlive' = (mLifetimeKeepAlive \/ mSecureTunnel)

\* A stop cannot be scheduled now, or need not be.
StopNotSchedulable ==
    mConnectInProgress \/ mStopQueued \/ mStopTaskScheduled \/ mStopped \/ ~mSecureTunnel

\* The first block of StopSecureTunnel, called by thread t.
RequestStop(t) ==
    /\ mStopRequested' = TRUE
    /\ RetainForStop
    /\ stopPc' = [stopPc EXCEPT ![t] = IF StopNotSchedulable THEN "idle" ELSE "schedule"]

\* ScheduleStop: the state is examined again, the lock having been released.
ScheduleStop(t) ==
    /\ stopPc[t] = "schedule"
    /\ IF StopNotSchedulable
       THEN UNCHANGED <<mStopTaskScheduled, tasks>>
       ELSE mStopTaskScheduled' = TRUE /\ tasks' = tasks \union {"QueueStop"}
    /\ stopPc' = [stopPc EXCEPT ![t] = "idle"]
    /\ UNCHANGED <<modeVars, mSecureTunnel, mConnectInProgress, mStopRequested, mStopQueued,
                   mStopped, mLifetimeKeepAlive, listed, connectPc, loopPc, mainPc, tunnel,
                   localVars, failures, scheduleFailures>>

\* The event loop does not accept the task; the flag is taken back in a second block.
ScheduleStopFails(t) ==
    /\ stopPc[t] = "schedule"
    /\ ~StopNotSchedulable
    /\ scheduleFailures < MaxScheduleFailures
    /\ scheduleFailures' = scheduleFailures + 1
    /\ mStopTaskScheduled' = TRUE
    /\ stopPc' = [stopPc EXCEPT ![t] = "undo"]
    /\ UNCHANGED <<modeVars, mSecureTunnel, mConnectInProgress, mStopRequested, mStopQueued,
                   mStopped, mLifetimeKeepAlive, listed, connectPc, loopPc, mainPc, tasks, tunnel,
                   localVars, failures>>

UndoScheduleStop(t) ==
    /\ stopPc[t] = "undo"
    /\ mStopTaskScheduled' = FALSE
    /\ stopPc' = [stopPc EXCEPT ![t] = "idle"]
    /\ UNCHANGED <<modeVars, mSecureTunnel, mConnectInProgress, mStopRequested, mStopQueued,
                   mStopped, mLifetimeKeepAlive, listed, connectPc, loopPc, mainPc, tasks, tunnel,
                   localVars, failures, scheduleFailures>>
-----------------------------------------------------------------------------
(***************************************************************************)
(* The connector: ConnectToSecureTunnel and its two callers.               *)
(***************************************************************************)

\* OnSubscribeToTunnelsNotifyResponse adds the new context to mContexts unless the feature was stopped.
AddContext ==
    /\ connector = "loop" /\ connectPc = "idle"
    /\ LoopIsFree
    /\ mainPc = "running"
    /\ listed' = TRUE
    /\ connectPc' = "create"
    /\ UNCHANGED <<modeVars, fieldVars, loopPc, mainPc, stopVars, tunnel, localVars, failures,
                   scheduleFailures>>

\* start() without notifications: the context was listed when the configuration was loaded.
RunSecureTunneling ==
    /\ connector = "main" /\ connectPc = "idle"
    /\ mainPc = "running"
    /\ connectPc' = "create"
    /\ UNCHANGED <<modeVars, fieldVars, listed, loopPc, mainPc, stopVars, tunnel, localVars,
                   failures, scheduleFailures>>

\* Up to the end of the first block of ConnectToSecureTunnel.
CreateSecureTunnel ==
    /\ connectPc = "create"
    /\ IF mStopRequested
       THEN connectPc' = "refused" /\ UNCHANGED <<mSecureTunnel, mConnectInProgress>>
       ELSE connectPc' = "calling" /\ mSecureTunnel' = TRUE /\ mConnectInProgress' = TRUE
    /\ UNCHANGED <<modeVars, mStopRequested, mStopQueued, mStopTaskScheduled, mStopped,
                   mLifetimeKeepAlive, listed, loopPc, mainPc, stopVars, tunnel, localVars,
                   failures, scheduleFailures>>

\* The SDK cannot create a valid tunnel.
CreateSecureTunnelFails ==
    /\ connectPc = "create"
    /\ CallFails
    /\ connectPc' = "refused"
    /\ UNCHANGED <<modeVars, fieldVars, listed, loopPc, mainPc, stopVars, tunnel, localVars,
                   scheduleFailures>>

\* Connect() has queued the start of the tunnel: callbacks may come before it returns.
Connect ==
    /\ connectPc = "calling"
    /\ tunnel' = "open"
    /\ connectPc' = "succeeded"
    /\ UNCHANGED <<modeVars, fieldVars, listed, loopPc, mainPc, stopVars, localVars, failures,
                   scheduleFailures>>

ConnectFails ==
    /\ connectPc = "calling"
    /\ CallFails
    /\ connectPc' = "failed"
    /\ UNCHANGED <<modeVars, fieldVars, listed, loopPc, mainPc, stopVars, tunnel, localVars,
                   scheduleFailures>>

\* Mutant: a stop that came during the call of Connect is not looked for.
StopCameDuringConnect_Ignored == FALSE

StopCameDuringConnect == mStopRequested

\* The second block, after Connect() succeeded.
FinishConnect ==
    /\ connectPc = "succeeded"
    /\ mConnectInProgress' = FALSE
    /\ connectPc' = IF StopCameDuringConnect THEN "stopAfter" ELSE "done"
    /\ UNCHANGED <<modeVars, mSecureTunnel, mStopRequested, mStopQueued, mStopTaskScheduled,
                   mStopped, mLifetimeKeepAlive, listed, loopPc, mainPc, stopVars, tunnel,
                   localVars, failures, scheduleFailures>>

\* The second block, after Connect() failed: no callback will come.
FinishFailedConnect ==
    /\ connectPc = "failed"
    /\ mConnectInProgress' = FALSE
    /\ mSecureTunnel' = FALSE
    /\ IF mStopRequested
       THEN mStopped' = TRUE /\ mLifetimeKeepAlive' = FALSE
       ELSE UNCHANGED <<mStopped, mLifetimeKeepAlive>>
    /\ connectPc' = "refused"
    /\ UNCHANGED <<modeVars, mStopRequested, mStopQueued, mStopTaskScheduled, listed, loopPc,
                   mainPc, stopVars, tunnel, localVars, failures, scheduleFailures>>

\* ConnectToSecureTunnel ends with StopSecureTunnel.
StopAfterConnect ==
    /\ connectPc = "stopAfter"
    /\ RequestStop(connector)
    /\ connectPc' = "done"
    /\ UNCHANGED <<modeVars, mSecureTunnel, mConnectInProgress, mStopQueued, mStopTaskScheduled,
                   mStopped, listed, loopPc, mainPc, tasks, tunnel, localVars, failures,
                   scheduleFailures>>

\* ConnectToSecureTunnel returned false: the handler of the notification drops the context.
EraseContext ==
    /\ connectPc = "refused"
    /\ connectPc' = "done"
    /\ listed' = (listed /\ connector = "main")
    /\ UNCHANGED <<modeVars, fieldVars, loopPc, mainPc, stopVars, tunnel, localVars, failures,
                   scheduleFailures>>
-----------------------------------------------------------------------------
(***************************************************************************)
(* main: stop() of the feature.                                            *)
(***************************************************************************)

\* stop() copies mContexts under mConnectionRecoveryLock; from now on no context is added.
TakeContexts ==
    /\ mainPc = "running"
    /\ connector = "main" => connectPc = "done" /\ stopPc["main"] = "idle"
    /\ mainPc' = IF listed THEN "stopContext" ELSE "stopped"
    /\ UNCHANGED <<modeVars, fieldVars, listed, connectPc, loopPc, stopVars, tunnel, localVars,
                   failures, scheduleFailures>>

StopSecureTunnel ==
    /\ mainPc = "stopContext"
    /\ RequestStop("main")
    /\ mainPc' = "stopping"
    /\ UNCHANGED <<modeVars, mSecureTunnel, mConnectInProgress, mStopQueued, mStopTaskScheduled,
                   mStopped, listed, connectPc, loopPc, tasks, tunnel, localVars, failures,
                   scheduleFailures>>

\* stop() returns and drops its copy of mContexts.
StopReturns ==
    /\ mainPc = "stopping"
    /\ stopPc["main"] = "idle"
    /\ mainPc' = "stopped"
    /\ UNCHANGED <<modeVars, fieldVars, listed, connectPc, loopPc, stopVars, tunnel, localVars,
                   failures, scheduleFailures>>

\* The registry drops the feature, which goes once no handler of a notification holds it.
DropFeature ==
    /\ mainPc = "stopped"
    /\ ~(connector = "loop" /\ Connecting)
    /\ mainPc' = "dropped"
    /\ listed' = FALSE
    /\ UNCHANGED <<modeVars, fieldVars, connectPc, loopPc, stopVars, tunnel, localVars, failures,
                   scheduleFailures>>
-----------------------------------------------------------------------------
(***************************************************************************)
(* loop: lifecycle tasks and the end of the tunnel.                        *)
(***************************************************************************)

CloseIsDue == ~mStopQueued /\ ~mStopped /\ mSecureTunnel

QueueStop ==
    /\ LoopIsFree
    /\ "QueueStop" \in tasks
    /\ tasks' = tasks \ {"QueueStop"}
    /\ mStopTaskScheduled' = FALSE
    /\ mStopQueued' = (mStopQueued \/ CloseIsDue)
    /\ loopPc' = IF CloseIsDue THEN "close" ELSE "idle"
    /\ UNCHANGED <<modeVars, mSecureTunnel, mConnectInProgress, mStopRequested, mStopped,
                   mLifetimeKeepAlive, listed, connectPc, mainPc, stopPc, tunnel, localVars,
                   failures, scheduleFailures>>

Close ==
    /\ loopPc = "close"
    /\ loopPc' = "idle"
    /\ tunnel' = "closing"
    /\ UNCHANGED <<modeVars, fieldVars, listed, connectPc, mainPc, stopVars, localVars, failures,
                   scheduleFailures>>

\* Mutant: a stop that could not be queued is not scheduled again.
AfterFailedClose_GiveUp == UNCHANGED stopPc

AfterFailedClose == stopPc' = [stopPc EXCEPT !["loop"] = "schedule"]

\* Close() fails: the stop is scheduled again, one second later.
CloseFails ==
    /\ loopPc = "close"
    /\ CallFails
    /\ loopPc' = "idle"
    /\ mStopQueued' = FALSE
    /\ AfterFailedClose
    /\ UNCHANGED <<modeVars, mSecureTunnel, mConnectInProgress, mStopRequested,
                   mStopTaskScheduled, mStopped, mLifetimeKeepAlive, listed, connectPc, mainPc,
                   tasks, tunnel, localVars, scheduleFailures>>

\* The tunnel ends, because it was closed or by itself; this is the SDK's last callback, and comes once.
OnStopped ==
    /\ LoopIsFree
    /\ TunnelIsLive /\ ~mStopped
    /\ tunnel' = "ended"
    /\ mStopped' = TRUE
    /\ mLifetimeKeepAlive' = TRUE
    /\ loopPc' = "stopped"
    /\ UNCHANGED <<modeVars, mSecureTunnel, mConnectInProgress, mStopRequested, mStopQueued,
                   mStopTaskScheduled, listed, connectPc, mainPc, stopVars, localVars, failures,
                   scheduleFailures>>

\* OnTunnelStopped takes the context out of mContexts; then the release is scheduled.
OnTunnelStopped ==
    /\ loopPc = "stopped"
    /\ loopPc' = "idle"
    /\ listed' = FALSE
    /\ tasks' = tasks \union {"ReleaseAfterStopped"}
    /\ UNCHANGED <<modeVars, fieldVars, connectPc, mainPc, stopPc, tunnel, localVars, failures,
                   scheduleFailures>>

\* The release cannot be scheduled: the context is retained for ever.
OnTunnelStoppedRetains ==
    /\ loopPc = "stopped"
    /\ scheduleFailures < MaxScheduleFailures
    /\ scheduleFailures' = scheduleFailures + 1
    /\ loopPc' = "idle"
    /\ listed' = FALSE
    /\ UNCHANGED <<modeVars, fieldVars, connectPc, mainPc, stopVars, tunnel, localVars, failures>>

StopTcpForward ==
    /\ mTcpForward' = 0
    /\ running' = running \ {mTcpForward}

ReleaseAfterStopped ==
    /\ LoopIsFree
    /\ "ReleaseAfterStopped" \in tasks
    /\ tasks' = tasks \ {"ReleaseAfterStopped"}
    /\ StopTcpForward
    /\ mSecureTunnel' = FALSE
    /\ mLifetimeKeepAlive' = FALSE
    /\ UNCHANGED <<modeVars, mConnectInProgress, mStopRequested, mStopQueued, mStopTaskScheduled,
                   mStopped, listed, connectPc, loopPc, mainPc, stopPc, tunnel, streams, failures,
                   scheduleFailures>>
-----------------------------------------------------------------------------
(***************************************************************************)
(* loop: streams and local connections.                                    *)
(***************************************************************************)

\* ConnectToTcpForward up to the creation of the new forward.
OnStreamStart ==
    /\ LoopIsFree /\ TunnelIsLive
    /\ portIsValid
    /\ streams < MaxStreams
    /\ streams' = streams + 1
    /\ StopTcpForward
    /\ loopPc' = "adopt"
    /\ UNCHANGED <<modeVars, fieldVars, listed, connectPc, mainPc, stopVars, tunnel, failures,
                   scheduleFailures>>

OnStreamStartInvalidPort ==
    /\ LoopIsFree /\ TunnelIsLive
    /\ ~portIsValid
    /\ loopPc' = "reset"
    /\ UNCHANGED <<modeVars, fieldVars, listed, connectPc, mainPc, stopVars, tunnel, localVars,
                   failures, scheduleFailures>>

Adopt == mTcpForward' = streams

\* The new forward is adopted unless a stop was requested.
AdoptForward ==
    /\ loopPc = "adopt"
    /\ IF mStopRequested \/ mStopped
       THEN loopPc' = "idle" /\ UNCHANGED mTcpForward
       ELSE loopPc' = "connect" /\ Adopt
    /\ UNCHANGED <<modeVars, fieldVars, listed, connectPc, mainPc, stopVars, tunnel, running,
                   streams, failures, scheduleFailures>>

ConnectForward ==
    /\ loopPc = "connect"
    /\ loopPc' = "idle"
    /\ running' = running \union {streams}
    /\ UNCHANGED <<modeVars, fieldVars, listed, connectPc, mainPc, stopVars, tunnel, mTcpForward,
                   streams, failures, scheduleFailures>>

\* OnTcpForwardTerminated for forward f: one that is not current any more is ignored.
OnTcpForwardTerminated(f) ==
    IF mTcpForward = f
    THEN mTcpForward' = 0 /\ loopPc' = "reset"
    ELSE loopPc' = "idle" /\ UNCHANGED mTcpForward

ConnectForwardFails ==
    /\ loopPc = "connect"
    /\ CallFails
    /\ OnTcpForwardTerminated(streams)
    /\ UNCHANGED <<modeVars, fieldVars, listed, connectPc, mainPc, stopVars, tunnel, running,
                   streams, scheduleFailures>>

\* A forward stops after an error or because its peer closed the connection.
ForwardTerminates(f) ==
    /\ LoopIsFree
    /\ f \in running
    /\ running' = running \ {f}
    /\ OnTcpForwardTerminated(f)
    /\ UNCHANGED <<modeVars, fieldVars, listed, connectPc, mainPc, stopVars, tunnel, streams,
                   failures, scheduleFailures>>

\* OnStreamReset and OnSessionReset.
DisconnectFromTcpForward ==
    /\ LoopIsFree /\ TunnelIsLive
    /\ mTcpForward # 0
    /\ StopTcpForward
    /\ UNCHANGED <<modeVars, fieldVars, listed, connectPc, loopPc, mainPc, stopVars, tunnel,
                   streams, failures, scheduleFailures>>

\* The block of ResetSecureTunnelStream.
ResetSecureTunnelStream ==
    /\ loopPc = "reset"
    /\ loopPc' = IF mStopRequested \/ mStopped \/ ~mSecureTunnel THEN "idle" ELSE "sendReset"
    /\ UNCHANGED <<modeVars, fieldVars, listed, connectPc, mainPc, stopVars, tunnel, localVars,
                   failures, scheduleFailures>>

SendStreamReset ==
    /\ loopPc = "sendReset"
    /\ loopPc' = "idle"
    /\ UNCHANGED <<modeVars, fieldVars, listed, connectPc, mainPc, stopVars, tunnel, localVars,
                   failures, scheduleFailures>>

\* The peer cannot be told that the stream is over: the tunnel is stopped.
SendStreamResetFails ==
    /\ loopPc = "sendReset"
    /\ CallFails
    /\ loopPc' = "idle"
    /\ RequestStop("loop")
    /\ UNCHANGED <<modeVars, mSecureTunnel, mConnectInProgress, mStopQueued, mStopTaskScheduled,
                   mStopped, listed, connectPc, mainPc, tasks, tunnel, localVars,
                   scheduleFailures>>
-----------------------------------------------------------------------------
\* The feature is gone and there is nothing left to happen.
Finished ==
    /\ mainPc = "dropped" /\ LoopIsFree
    /\ tasks = {} /\ ~TunnelIsLive
    /\ UNCHANGED vars

ConnectorStep ==
    \/ CreateSecureTunnel
    \/ CreateSecureTunnelFails
    \/ Connect
    \/ ConnectFails
    \/ FinishConnect
    \/ FinishFailedConnect
    \/ StopAfterConnect
    \/ EraseContext

StopStep(t) ==
    \/ ScheduleStop(t)
    \/ ScheduleStopFails(t)
    \/ UndoScheduleStop(t)

LifecycleStep ==
    \/ QueueStop
    \/ Close
    \/ CloseFails
    \/ OnTunnelStopped
    \/ OnTunnelStoppedRetains
    \/ ReleaseAfterStopped

StreamStep ==
    \/ OnStreamStart
    \/ OnStreamStartInvalidPort
    \/ DisconnectFromTcpForward
    \/ \E f \in Forwards : ForwardTerminates(f)

\* What a callback of a stream still has to do.
StreamContinues ==
    \/ AdoptForward
    \/ ConnectForward
    \/ ConnectForwardFails
    \/ ResetSecureTunnelStream
    \/ SendStreamReset
    \/ SendStreamResetFails

Next ==
    \/ AddContext
    \/ RunSecureTunneling
    \/ ConnectorStep
    \/ \E t \in Threads : StopStep(t)
    \/ TakeContexts
    \/ StopSecureTunnel
    \/ StopReturns
    \/ DropFeature
    \/ LifecycleStep
    \/ OnStopped
    \/ StreamStep
    \/ StreamContinues
    \/ Finished

Spec == Init /\ [][Next]_vars

(***************************************************************************)
(* A thread that can run does run, the event loop runs the tasks it has    *)
(* accepted even if other callbacks keep coming, and the SDK ends a tunnel *)
(* that was closed.  Nothing makes a notification, a stop, a stream or a   *)
(* failure happen, or an open tunnel end.                                  *)
(***************************************************************************)
FairSpec ==
    /\ Spec
    /\ WF_vars(ConnectorStep)
    /\ \A t \in Threads : WF_vars(StopStep(t))
    /\ WF_vars(StopSecureTunnel)
    /\ WF_vars(StopReturns)
    /\ WF_vars(DropFeature)
    /\ SF_vars(QueueStop)
    /\ SF_vars(ReleaseAfterStopped)
    /\ WF_vars(Close \/ CloseFails)
    /\ WF_vars(OnTunnelStopped)
    /\ WF_vars(StreamContinues)
    /\ SF_vars(tunnel = "closing" /\ OnStopped)
-----------------------------------------------------------------------------
(***************************************************************************)
(* Properties.                                                             *)
(***************************************************************************)

FlagTypes ==
    /\ portIsValid \in BOOLEAN
    /\ mSecureTunnel \in BOOLEAN
    /\ mConnectInProgress \in BOOLEAN
    /\ mStopRequested \in BOOLEAN
    /\ mStopQueued \in BOOLEAN
    /\ mStopTaskScheduled \in BOOLEAN
    /\ mStopped \in BOOLEAN
    /\ mLifetimeKeepAlive \in BOOLEAN
    /\ listed \in BOOLEAN

ThreadTypes ==
    /\ connector \in Threads
    /\ connectPc \in {"idle", "create", "calling", "succeeded", "failed", "refused", "stopAfter",
                      "done"}
    /\ loopPc \in {"idle", "adopt", "connect", "reset", "sendReset", "close", "stopped"}
    /\ mainPc \in {"running", "stopContext", "stopping", "stopped", "dropped"}
    /\ stopPc \in [Threads -> {"idle", "schedule", "undo"}]
    /\ tasks \subseteq {"QueueStop", "ReleaseAfterStopped"}
    /\ tunnel \in {"none", "open", "closing", "ended"}

CountTypes ==
    /\ mTcpForward \in 0 .. MaxStreams
    /\ running \subseteq Forwards
    /\ streams \in 0 .. MaxStreams
    /\ failures \in 0 .. MaxFailures
    /\ scheduleFailures \in 0 .. MaxScheduleFailures

\* The type of every variable.
TypeOK == FlagTypes /\ ThreadTypes /\ CountTypes

\* Everything that refers to the context with a shared pointer: mContexts, the context itself, the
\* tasks and the task or callback that runs with such a pointer, stop()'s copy of mContexts and the
\* handler of a notification.
ContextIsHeld ==
    \/ listed
    \/ mLifetimeKeepAlive
    \/ tasks # {}
    \/ loopPc \in {"close", "stopped"}
    \/ mainPc \in {"stopContext", "stopping"}
    \/ connector = "loop" /\ Connecting

\* Whenever the SDK may invoke a callback of the tunnel, and while one runs, the context it has a raw
\* pointer to exists: also after the feature that created it is gone.  And no local connection outlives
\* its context (its callbacks have weak pointers: the data would be dropped silently).
CallbacksFindContext ==
    (TunnelIsLive \/ running # {} \/ loopPc # "idle") => ContextIsHeld

\* OnTcpForwardDataReceive uses mSecureTunnel without the lock and without a look at it: as long as a
\* local connection can deliver data it is set.
LocalDataFindsTunnel == (running # {} \/ loopPc = "connect") => mSecureTunnel

\* There is one local connection at most, it is the one the context knows and will stop, and none is
\* left once the context has released its tunnel.
OneLocalConnection == running \subseteq {mTcpForward} \ {0}

\* A stop that was requested is under way until the tunnel ends: the SDK was told, or a task will tell
\* it, or some thread will schedule that task, unless the event loop has refused one.
StopIsNotLost ==
    (mStopRequested /\ tunnel = "open") =>
        \/ mStopQueued
        \/ mStopTaskScheduled /\ "QueueStop" \in tasks
        \/ connectPc \in {"succeeded", "stopAfter"}
        \/ \E t \in Threads : stopPc[t] = "schedule"
        \/ scheduleFailures > 0

\* The phase of the abstract life cycle.
phaseOfTunnel ==
    IF tunnel # "none" THEN tunnel
    ELSE IF connectPc \in {"idle", "create", "calling"} THEN "new" ELSE "failed"

\* A context that is still to be created counts as held.
heldContext == ContextIsHeld \/ connectPc = "idle"

(***************************************************************************)
(* The inductive invariant behind the properties above.                    *)
(***************************************************************************)

\* What the progress of ConnectToSecureTunnel says of the tunnel and of the fields.
ConnectInv ==
    /\ connectPc \in {"idle", "create", "calling", "failed", "refused"} => tunnel = "none"
    /\ connectPc \in {"succeeded", "stopAfter"} => tunnel # "none"
    /\ mConnectInProgress <=> connectPc \in {"calling", "succeeded", "failed"}
    /\ connectPc \in {"calling", "failed"} => mSecureTunnel
    /\ connectPc \in {"idle", "create", "refused"} => ~mSecureTunnel
    /\ connectPc = "done" /\ tunnel = "none" => ~mSecureTunnel
    /\ connectPc = "stopAfter" => mStopRequested

\* What is known of the fields while the tunnel lives and once it has ended.
TunnelInv ==
    /\ TunnelIsLive => mSecureTunnel /\ ~mStopped
    /\ tunnel = "ended" => mStopped
    /\ mStopped /\ tunnel = "none" => connectPc \in {"refused", "done"}
    /\ tunnel = "closing" => mStopQueued /\ mStopRequested /\ connectPc \in {"stopAfter", "done"}
    /\ tunnel = "none" => running = {} /\ mTcpForward = 0 /\ loopPc = "idle"
    /\ "ReleaseAfterStopped" \in tasks => tunnel = "ended"

\* The stop: who may schedule it, run it and call Close().
StopInv ==
    /\ mStopTaskScheduled => mStopRequested /\ connectPc \in {"stopAfter", "done"}
    /\ mStopTaskScheduled /\ "QueueStop" \notin tasks => scheduleFailures > 0
    /\ "QueueStop" \in tasks => mStopTaskScheduled
    /\ \A t \in Threads :
          /\ stopPc[t] # "idle" => mStopRequested
          /\ stopPc[t] = "undo" => mStopTaskScheduled /\ "QueueStop" \notin tasks
          /\ \A u \in Threads : stopPc[t] = "undo" /\ stopPc[u] = "undo" => t = u
    /\ mStopQueued => loopPc = "close" \/ tunnel \in {"closing", "ended"}
    /\ loopPc = "close" =>
          mStopRequested /\ mStopQueued /\ tunnel = "open" /\ connectPc \in {"stopAfter", "done"}

\* The event loop does one thing at a time, and a callback of a stream has its tunnel.
LoopInv ==
    /\ loopPc # "idle" => stopPc["loop"] = "idle" /\ ~(connector = "loop" /\ Connecting)
    /\ loopPc = "stopped" => tunnel = "ended" /\ mLifetimeKeepAlive
    /\ loopPc \in {"adopt", "connect"} =>
          TunnelIsLive /\ running = {} /\ streams \in Forwards
    /\ loopPc = "adopt" => mTcpForward = 0
    /\ loopPc = "connect" => mTcpForward = streams
    /\ loopPc \in {"reset", "sendReset"} => mSecureTunnel

\* Who holds the context when it does not hold itself.
HeldInv ==
    /\ mSecureTunnel /\ (mStopRequested \/ mStopped) => mLifetimeKeepAlive
    /\ mLifetimeKeepAlive => mSecureTunnel /\ (mStopRequested \/ mStopped)
    /\ connector = "main" /\ connectPc # "done" => mainPc = "running"
    /\ connector = "main" /\ connectPc \in {"idle", "create", "calling"} => listed
    /\ (connectPc = "create" \/ mSecureTunnel) /\ ~mStopRequested /\ ~mStopped =>
          listed /\ mainPc \in {"running", "stopContext"}

IndInv ==
    /\ TypeOK
    /\ ConnectInv
    /\ TunnelInv
    /\ StopInv
    /\ LoopInv
    /\ HeldInv
    /\ LocalDataFindsTunnel
    /\ OneLocalConnection
    /\ StopIsNotLost

\* The SDK is asked to close a tunnel only after Connect() has returned, never twice with success, and
\* never once it has ended.
ClosedOnce ==
    [][tunnel' = "closing" /\ loopPc = "close" =>
           tunnel = "open" /\ connectPc \in {"done", "stopAfter"}]_vars

\* A task captures the context: it is never scheduled with an empty pointer (mLifetimeKeepAlive).
TasksOwnContext == [][tasks' \subseteq tasks \/ mLifetimeKeepAlive]_vars

\* The local connections as the context sees them: one that is not started yet is new.
forwardIsNew(f) == f > streams \/ (f = streams /\ loopPc \in {"adopt", "connect"})
phaseOfForward(f) == IF forwardIsNew(f) THEN "new" ELSE IF f \in running THEN "open" ELSE "ended"
holdsForward(f) == forwardIsNew(f) \/ mTcpForward = f

Connection(f) == INSTANCE LocalConnection WITH
    phase <- phaseOfForward(f),
    held <- holdsForward(f),
    taken <- 0,
    passed <- <<>>

\* What is left here of a local connection, but for its data, is what TcpForward implements: the context
\* opens it once, while it holds it, and never one that it has let go or that has ended
\* (ConnectToTcpForward, StopTcpForward, OnTcpForwardTerminated).
ForwardsFollowConnection ==
    /\ \A f \in Forwards : Connection(f)!Init
    /\ [][\A f \in Forwards : [Connection(f)!Next]_(Connection(f)!vars)]_vars

Lifecycle == INSTANCE TunnelLifecycle WITH
    phase <- phaseOfTunnel,
    stopping <- mStopRequested,
    held <- heldContext,
    refused <- scheduleFailures > 0

\* The context implements the abstract life cycle: what it closes it was asked to stop, once, and what it
\* releases has ended or was never opened.
ImplementsLifecycle == Lifecycle!Spec

\* A requested stop ends the tunnel and lets the context go, unless the event loop refused a task.
KeepsLifecycle == Lifecycle!Fairness
=============================================================================
