-------------------------- MODULE TunnelSubscription --------------------------
(***************************************************************************)
(* The notification subscription of Secure Tunneling and the list of       *)
(* tunnels it leads to (src/source/tunneling/SecureTunnelingFeature.cpp):  *)
(* start(), the recovery of the subscription after the MQTT session was    *)
(* lost, its delayed retry, the handler of a notification, and stop().     *)
(*                                                                         *)
(* Threads:                                                                *)
(*   main   start() and stop(), called by the registry under featuresLock  *)
(*   loop   the CRT event loop: acknowledgements, notifications, the       *)
(*          resumption of the connection and the callbacks of the tunnels  *)
(*   retry  detached threads, each sleeping before one retry               *)
(*                                                                         *)
(* A block under mConnectionRecoveryLock is one action.  The lock          *)
(* mSubscriptionLifecycleLock is held over a call of the client and is a   *)
(* variable.  mTunnelNotificationLock serializes notifications, which all  *)
(* come from loop.  Of a context there remains what TunnelLifecycle says.  *)
(***************************************************************************)
EXTENDS Naturals, Sequences, FiniteSets

CONSTANTS
    Notifications,        \* contents of valid tunnel notifications
    NoNotification,
    MaxDeliveries,        \* bound: notifications delivered
    MaxOutages,           \* bound: how often the connection is lost
    MaxFailures           \* bound: calls that are refused or fail

ASSUME ConstantsAssumption ==
    /\ NoNotification \notin Notifications
    /\ MaxDeliveries \in Nat
    /\ MaxOutages \in Nat
    /\ MaxFailures \in Nat

\* A context is named by its place in the order of creation, which is also its order in mContexts.
Contexts == 1 .. MaxDeliveries

VARIABLES
    \* fields guarded by mConnectionRecoveryLock
    mStarted, mSubscriptionNeedsRecovery, mConnectionRecoveryGeneration,
    mOldestValidSubscriptionGeneration, mFeatureLifecycleGeneration,
    clientReady,               \* iotSecureTunnelingClient is set
    mContexts,
    mLastSeenNotifyResponse,   \* of each context
    \* mSubscriptionLifecycleLock and what its holder still has to do
    lockHolder, lockTask, lockGeneration,
    \* threads
    mainPc, mainGeneration,    \* the generation of the initial subscription
    contextsToStop,            \* stop()'s copy of mContexts, as far as it is not yet done
    loopPc, loopGeneration, loopNotification,
    retryTimers,               \* generations a sleeping retry thread will retry
    \* the contexts
    created, phase, stopping, origin,
    \* the MQTT client and the broker
    queue,                     \* generations of SUBSCRIBE requests that are not sent yet
    sent,                      \* of those that are not acknowledged yet
    handler,                   \* generation of the notification handler in the client's topic tree
    overtaken,                 \* history: the request of start() was queued behind a newer one
    connected, session,        \* does the broker's session hold the subscription?
    deliveries, outages, failures

recoveryVars == <<mStarted, mSubscriptionNeedsRecovery, mConnectionRecoveryGeneration,
                  mOldestValidSubscriptionGeneration, mFeatureLifecycleGeneration, clientReady>>
lockVars     == <<lockHolder, lockTask, lockGeneration>>
mainVars     == <<mainPc, mainGeneration, contextsToStop>>
loopVars     == <<loopPc, loopGeneration, loopNotification>>
contextVars  == <<mContexts, mLastSeenNotifyResponse, created, phase, stopping, origin>>
clientVars   == <<queue, sent, handler, overtaken>>
networkVars  == <<connected, session, deliveries, outages>>
vars == <<recoveryVars, lockVars, mainVars, loopVars, retryTimers, contextVars, clientVars,
          networkVars, failures>>

Init ==
    /\ mStarted = FALSE /\ mSubscriptionNeedsRecovery = FALSE
    /\ mConnectionRecoveryGeneration = 0 /\ mOldestValidSubscriptionGeneration = 0
    /\ mFeatureLifecycleGeneration = 0
    /\ clientReady = FALSE
    /\ mContexts = {}
    /\ mLastSeenNotifyResponse = [c \in Contexts |-> NoNotification]
    /\ lockHolder = "nobody" /\ lockTask = "none" /\ lockGeneration = 0
    /\ mainPc = "idle" /\ mainGeneration = 0 /\ contextsToStop = {}
    /\ loopPc = "idle" /\ loopGeneration = 0 /\ loopNotification = NoNotification
    /\ retryTimers = {}
    /\ created = 0
    /\ phase = [c \in Contexts |-> "new"]
    /\ stopping = [c \in Contexts |-> FALSE]
    /\ origin = [c \in Contexts |-> NoNotification]
    /\ queue = <<>> /\ sent = {} /\ handler = 0 /\ overtaken = FALSE
    /\ connected = TRUE
    /\ session \in BOOLEAN     \* the broker may still hold a previous run's session
    /\ deliveries = 0 /\ outages = 0 /\ failures = 0

\* A call is refused or fails.
CallFails ==
    /\ failures < MaxFailures
    /\ failures' = failures + 1
-----------------------------------------------------------------------------
(***************************************************************************)
(* Steps shared by several threads.                                        *)
(***************************************************************************)

LifecycleLockIsFree == lockHolder = "nobody"

\* The holder begins a new generation and will subscribe with it.
LockAndSubscribe(holder) ==
    /\ mConnectionRecoveryGeneration' = mConnectionRecoveryGeneration + 1
    /\ lockHolder' = holder
    /\ lockTask' = "subscribe"
    /\ lockGeneration' = mConnectionRecoveryGeneration'

Unlock ==
    /\ lockHolder' = "nobody" /\ lockTask' = "none"
    /\ loopPc' = IF lockHolder = "loop" THEN "idle" ELSE loopPc
    /\ UNCHANGED lockGeneration

\* The guard of both requestSubscriptionRecoveryRetry and retrySubscriptionRecovery.
RetryStillNeeded(g) ==
    /\ mStarted
    /\ clientReady
    /\ mSubscriptionNeedsRecovery
    /\ g = mConnectionRecoveryGeneration

\* The timer is started after the lock was released.  Should the guard have become false by then, the
\* retry finds it false as well when it wakes up, as if there were no timer.
requestSubscriptionRecoveryRetry(g) ==
    retryTimers' = IF RetryStillNeeded(g) THEN retryTimers \union {g} ELSE retryTimers

\* Mutant: a subscription that failed is only logged.
FailureCounts_Never(g) == FALSE

\* A failed subscription of generation g is recovered (SubscribeToTunnelNotifications and the initial
\* branch of OnSubscribeComplete).
FailureCounts(g) == mStarted /\ g = mConnectionRecoveryGeneration
-----------------------------------------------------------------------------
(***************************************************************************)
(* main: start() and stop().                                               *)
(***************************************************************************)

\* start() up to the end of its block.  startAll() holds featuresLock, but a snapshot taken before it is
\* notified without the lock, at any time.
start ==
    /\ mainPc = "idle"
    /\ mainPc' = "createClient"
    /\ mStarted' = TRUE
    /\ mSubscriptionNeedsRecovery' = FALSE
    /\ mConnectionRecoveryGeneration' = mConnectionRecoveryGeneration + 1
    /\ mOldestValidSubscriptionGeneration' = mConnectionRecoveryGeneration'
    /\ UNCHANGED <<mFeatureLifecycleGeneration, clientReady, lockVars, mainGeneration,
                   contextsToStop, loopVars, retryTimers, contextVars, clientVars, networkVars,
                   failures>>

\* RunSecureTunneling up to the end of its block.
RunSecureTunneling ==
    /\ mainPc = "createClient"
    /\ mainPc' = "subscribe"
    /\ clientReady' = TRUE
    /\ mainGeneration' = mConnectionRecoveryGeneration
    /\ UNCHANGED <<mStarted, mSubscriptionNeedsRecovery, mConnectionRecoveryGeneration,
                   mOldestValidSubscriptionGeneration, mFeatureLifecycleGeneration, lockVars,
                   contextsToStop, loopVars, retryTimers, contextVars, clientVars, networkVars,
                   failures>>

\* The initial subscription is queued, without mSubscriptionLifecycleLock: a resumption that was notified
\* since the block of RunSecureTunneling may have queued its own before.
SubscriptionQueued ==
    /\ mainPc = "subscribe"
    /\ mainPc' = "running"
    /\ queue' = Append(queue, mainGeneration)
    /\ overtaken' = (handler > mainGeneration \/ \E i \in 1 .. Len(queue) : queue[i] > mainGeneration)
    /\ UNCHANGED <<recoveryVars, lockVars, mainGeneration, contextsToStop, loopVars, retryTimers,
                   contextVars, sent, handler, networkVars, failures>>

SubscriptionRefused ==
    /\ mainPc = "subscribe"
    /\ CallFails
    /\ IF FailureCounts(mainGeneration)
       THEN mSubscriptionNeedsRecovery' = TRUE /\ mainPc' = "requestRetry"
       ELSE mainPc' = "running" /\ UNCHANGED mSubscriptionNeedsRecovery
    /\ UNCHANGED <<mStarted, mConnectionRecoveryGeneration, mOldestValidSubscriptionGeneration,
                   mFeatureLifecycleGeneration, clientReady, lockVars, mainGeneration,
                   contextsToStop, loopVars, retryTimers, contextVars, clientVars, networkVars>>

MainRequestsRetry ==
    /\ mainPc = "requestRetry"
    /\ mainPc' = "running"
    /\ requestSubscriptionRecoveryRetry(mainGeneration)
    /\ UNCHANGED <<recoveryVars, lockVars, mainGeneration, contextsToStop, loopVars, contextVars,
                   clientVars, networkVars, failures>>

\* stop(): the block under both locks.
StopTeardown ==
    /\ mainPc = "running"
    /\ LifecycleLockIsFree
    /\ mainPc' = "stopping"
    /\ mStarted' = FALSE
    /\ mSubscriptionNeedsRecovery' = FALSE
    /\ mConnectionRecoveryGeneration' = mConnectionRecoveryGeneration + 1
    /\ mOldestValidSubscriptionGeneration' = mConnectionRecoveryGeneration'
    /\ mFeatureLifecycleGeneration' = mFeatureLifecycleGeneration + 1
    /\ contextsToStop' = mContexts
    /\ UNCHANGED <<clientReady, lockVars, mainGeneration, loopVars, retryTimers, contextVars,
                   clientVars, networkVars, failures>>

\* The contexts do not depend on each other: they may be stopped in any order.
StopSecureTunnel(c) ==
    /\ mainPc = "stopping"
    /\ c \in contextsToStop
    /\ contextsToStop' = contextsToStop \ {c}
    /\ stopping' = [stopping EXCEPT ![c] = TRUE]
    /\ UNCHANGED <<recoveryVars, lockVars, mainPc, mainGeneration, loopVars, retryTimers,
                   mContexts, mLastSeenNotifyResponse, created, phase, origin, clientVars,
                   networkVars, failures>>

StopReturns ==
    /\ mainPc = "stopping"
    /\ contextsToStop = {}
    /\ mainPc' = "stopped"
    /\ UNCHANGED <<recoveryVars, lockVars, mainGeneration, contextsToStop, loopVars, retryTimers,
                   contextVars, clientVars, networkVars, failures>>
-----------------------------------------------------------------------------
(***************************************************************************)
(* The recovery: its beginning by loop or by a retry thread, and what the  *)
(* holder of mSubscriptionLifecycleLock does.                              *)
(***************************************************************************)

\* FeatureRegistry::onConnectionResumed takes its snapshot when featuresLock is free; the feature is not
\* in it once it was stopped.
TakeSnapshot ==
    /\ loopPc \in {"snapshotPresent", "snapshotLost"}
    /\ mainPc \in {"idle", "running", "stopped"}
    /\ loopPc' = IF mainPc = "stopped" THEN "idle"
                 ELSE IF loopPc = "snapshotLost" THEN "resumedLost" ELSE "resumedPresent"
    /\ UNCHANGED <<recoveryVars, lockVars, mainVars, loopGeneration, loopNotification, retryTimers,
                   contextVars, clientVars, networkVars, failures>>

OldestAfterLoss(g) == g

onConnectionResumed ==
    /\ loopPc \in {"resumedPresent", "resumedLost"}
    /\ LifecycleLockIsFree
    /\ IF mStarted /\ clientReady /\ (mSubscriptionNeedsRecovery \/ loopPc = "resumedLost")
       THEN /\ LockAndSubscribe("loop")
            /\ mSubscriptionNeedsRecovery' = TRUE
            /\ mOldestValidSubscriptionGeneration' =
                  IF loopPc = "resumedLost" THEN OldestAfterLoss(mConnectionRecoveryGeneration')
                                            ELSE mOldestValidSubscriptionGeneration
            /\ loopPc' = "locked"
       ELSE /\ loopPc' = "idle"
            /\ UNCHANGED <<mSubscriptionNeedsRecovery, mConnectionRecoveryGeneration,
                           mOldestValidSubscriptionGeneration, lockVars>>
    /\ UNCHANGED <<mStarted, mFeatureLifecycleGeneration, clientReady, mainVars, loopGeneration,
                   loopNotification, retryTimers, contextVars, clientVars, networkVars, failures>>

\* A retry thread wakes up.
retrySubscriptionRecovery(g) ==
    /\ g \in retryTimers
    /\ LifecycleLockIsFree
    /\ retryTimers' = retryTimers \ {g}
    /\ IF RetryStillNeeded(g) THEN LockAndSubscribe("retry")
       ELSE UNCHANGED <<mConnectionRecoveryGeneration, lockVars>>
    /\ UNCHANGED <<mStarted, mSubscriptionNeedsRecovery, mOldestValidSubscriptionGeneration,
                   mFeatureLifecycleGeneration, clientReady, mainVars, loopVars, contextVars,
                   clientVars, networkVars, failures>>

LockedSubscriptionQueued ==
    /\ lockTask = "subscribe"
    /\ queue' = Append(queue, lockGeneration)
    /\ Unlock
    /\ UNCHANGED <<recoveryVars, mainVars, loopGeneration, loopNotification, retryTimers,
                   contextVars, sent, handler, overtaken, networkVars, failures>>

LockedSubscriptionRefused ==
    /\ lockTask = "subscribe"
    /\ CallFails
    /\ IF FailureCounts(lockGeneration)
       THEN /\ mSubscriptionNeedsRecovery' = TRUE
            /\ lockTask' = "requestRetry"
            /\ UNCHANGED <<lockHolder, lockGeneration, loopPc>>
       ELSE Unlock /\ UNCHANGED mSubscriptionNeedsRecovery
    /\ UNCHANGED <<mStarted, mConnectionRecoveryGeneration, mOldestValidSubscriptionGeneration,
                   mFeatureLifecycleGeneration, clientReady, mainVars, loopGeneration,
                   loopNotification, retryTimers, contextVars, clientVars, networkVars>>

LockedRequestsRetry ==
    /\ lockTask = "requestRetry"
    /\ requestSubscriptionRecoveryRetry(lockGeneration)
    /\ Unlock
    /\ UNCHANGED <<recoveryVars, mainVars, loopGeneration, loopNotification, contextVars,
                   clientVars, networkVars, failures>>

\* Mutant: the acknowledgement of any attempt ends the recovery.
CompletionCounts_AnyGeneration(g) == mStarted /\ mSubscriptionNeedsRecovery

CompletionCounts(g) ==
    /\ mStarted
    /\ g = mConnectionRecoveryGeneration
    /\ mSubscriptionNeedsRecovery

\* The broker accepts the subscription of generation g: nothing to do if it was the initial one.
Subscribed(g) ==
    /\ loopPc = "idle"
    /\ connected
    /\ g \in sent
    /\ sent' = sent \ {g}
    /\ session' = TRUE
    /\ mSubscriptionNeedsRecovery' =
          (mSubscriptionNeedsRecovery /\ ~(g # mainGeneration /\ CompletionCounts(g)))
    /\ UNCHANGED <<mStarted, mConnectionRecoveryGeneration, mOldestValidSubscriptionGeneration,
                   mFeatureLifecycleGeneration, clientReady, lockVars, mainVars, loopVars,
                   retryTimers, contextVars, queue, handler, overtaken, connected, deliveries, outages,
                   failures>>

\* The subscription of generation g fails.
SubscriptionFails(g) ==
    LET counts == IF g = mainGeneration THEN FailureCounts(g) ELSE CompletionCounts(g)
    IN
    /\ loopPc = "idle"
    /\ g \in sent
    /\ CallFails
    /\ sent' = sent \ {g}
    /\ mSubscriptionNeedsRecovery' = (mSubscriptionNeedsRecovery \/ counts)
    /\ loopPc' = IF counts THEN "requestRetry" ELSE "idle"
    /\ loopGeneration' = g
    /\ UNCHANGED <<mStarted, mConnectionRecoveryGeneration, mOldestValidSubscriptionGeneration,
                   mFeatureLifecycleGeneration, clientReady, lockVars, mainVars, loopNotification,
                   retryTimers, contextVars, queue, handler, overtaken, networkVars>>

LoopRequestsRetry ==
    /\ loopPc = "requestRetry"
    /\ loopPc' = "idle"
    /\ requestSubscriptionRecoveryRetry(loopGeneration)
    /\ UNCHANGED <<recoveryVars, lockVars, mainVars, loopGeneration, loopNotification, contextVars,
                   clientVars, networkVars, failures>>
-----------------------------------------------------------------------------
(***************************************************************************)
(* loop: a notification, and the end of a tunnel.                          *)
(***************************************************************************)

\* Mutant: stop() is noticed only if it came before the handler began.
FeatureStillRunning_Unchecked == TRUE

\* The second and the third look at the life cycle.
FeatureStillRunning == mStarted /\ loopGeneration = mFeatureLifecycleGeneration

\* A valid notification arrives at the installed handler: the first block of
\* OnSubscribeToTunnelsNotifyResponse.
Notification(n) ==
    /\ loopPc = "idle"
    /\ connected
    /\ deliveries < MaxDeliveries
    /\ handler # 0
    /\ session \/ sent # {}
    /\ deliveries' = deliveries + 1
    /\ IF /\ mStarted
          /\ mOldestValidSubscriptionGeneration <= handler
          /\ handler <= mConnectionRecoveryGeneration
       THEN /\ loopPc' = "examine"
            /\ loopNotification' = n
            /\ loopGeneration' = mFeatureLifecycleGeneration
       ELSE UNCHANGED loopVars
    /\ UNCHANGED <<recoveryVars, lockVars, mainVars, retryTimers, contextVars, clientVars,
                   connected, session, outages, failures>>

\* IsDuplicateNotification is asked of each context in turn until one has seen the notification; those
\* asked before remember it from now on.
ExamineNotification ==
    LET duplicates == {c \in mContexts : mLastSeenNotifyResponse[c] = loopNotification}
        asked == {c \in mContexts : \A d \in duplicates : c < d}
    IN
    /\ loopPc = "examine"
    /\ IF FeatureStillRunning
       THEN /\ mLastSeenNotifyResponse' = [c \in Contexts |->
                  IF c \in asked THEN loopNotification ELSE mLastSeenNotifyResponse[c]]
            /\ loopPc' = IF duplicates = {} THEN "create" ELSE "idle"
       ELSE loopPc' = "idle" /\ UNCHANGED mLastSeenNotifyResponse
    /\ UNCHANGED <<recoveryVars, lockVars, mainVars, loopGeneration, loopNotification, retryTimers,
                   mContexts, created, phase, stopping, origin, clientVars, networkVars, failures>>

\* createContext, and the block that lists the context, which is dropped if stop() came in between.
AddContext ==
    /\ loopPc = "create"
    /\ IF FeatureStillRunning
       THEN /\ created' = created + 1
            /\ origin' = [origin EXCEPT ![created'] = loopNotification]
            /\ mContexts' = mContexts \union {created'}
            /\ loopPc' = "connect"
       ELSE loopPc' = "idle" /\ UNCHANGED <<created, origin, mContexts>>
    /\ UNCHANGED <<recoveryVars, lockVars, mainVars, loopGeneration, loopNotification, retryTimers,
                   mLastSeenNotifyResponse, phase, stopping, clientVars, networkVars, failures>>

\* ConnectToSecureTunnel of the context just listed.
ConnectToSecureTunnel ==
    /\ loopPc = "connect"
    /\ phase' = [phase EXCEPT ![created] = "open"]
    /\ loopPc' = "idle"
    /\ UNCHANGED <<recoveryVars, lockVars, mainVars, loopGeneration, loopNotification, retryTimers,
                   mContexts, mLastSeenNotifyResponse, created, stopping, origin, clientVars,
                   networkVars, failures>>

ConnectToSecureTunnelFails ==
    /\ loopPc = "connect"
    /\ \/ stopping[created] /\ UNCHANGED failures
       \/ CallFails
    /\ phase' = [phase EXCEPT ![created] = "failed"]
    /\ loopPc' = "erase"
    /\ UNCHANGED <<recoveryVars, lockVars, mainVars, loopGeneration, loopNotification, retryTimers,
                   mContexts, mLastSeenNotifyResponse, created, stopping, origin, clientVars,
                   networkVars>>

EraseContext ==
    /\ loopPc = "erase"
    /\ mContexts' = mContexts \ {created}
    /\ loopPc' = "idle"
    /\ UNCHANGED <<recoveryVars, lockVars, mainVars, loopGeneration, loopNotification, retryTimers,
                   mLastSeenNotifyResponse, created, phase, stopping, origin, clientVars,
                   networkVars, failures>>

\* A tunnel ends, because it was stopped or by itself: the context leaves the list.
OnTunnelStopped(c) ==
    /\ loopPc = "idle"
    /\ phase[c] = "open"
    /\ phase' = [phase EXCEPT ![c] = "ended"]
    /\ mContexts' = mContexts \ {c}
    /\ UNCHANGED <<recoveryVars, lockVars, mainVars, loopVars, retryTimers,
                   mLastSeenNotifyResponse, created, stopping, origin, clientVars, networkVars,
                   failures>>
-----------------------------------------------------------------------------
(***************************************************************************)
(* The MQTT client and the network.                                        *)
(***************************************************************************)

\* The client sends the oldest request and installs its handler, in the place of an earlier one.
SendSubscribe ==
    /\ loopPc = "idle"
    /\ connected
    /\ queue # <<>>
    /\ queue' = Tail(queue)
    /\ sent' = sent \union {Head(queue)}
    /\ handler' = Head(queue)
    /\ UNCHANGED <<recoveryVars, lockVars, mainVars, loopVars, retryTimers, contextVars, overtaken,
                   networkVars, failures>>

ConnectionLost ==
    /\ loopPc = "idle"
    /\ connected
    /\ outages < MaxOutages
    /\ connected' = FALSE
    /\ outages' = outages + 1
    /\ UNCHANGED <<recoveryVars, lockVars, mainVars, loopVars, retryTimers, contextVars,
                   clientVars, session, deliveries, failures>>

\* The client will send again what was not acknowledged; it keeps its handlers.
ConnectionResumes(sessionPresent) ==
    /\ loopPc = "idle"
    /\ ~connected
    /\ connected' = TRUE
    /\ session' = (session /\ sessionPresent)
    /\ loopPc' = IF sessionPresent THEN "snapshotPresent" ELSE "snapshotLost"
    /\ UNCHANGED <<recoveryVars, lockVars, mainVars, loopGeneration, loopNotification, retryTimers,
                   contextVars, clientVars, deliveries, outages, failures>>
-----------------------------------------------------------------------------
InitialSubscriptionStep ==
    RunSecureTunneling \/ SubscriptionQueued \/ SubscriptionRefused \/ MainRequestsRetry

StopStep == (\E c \in contextsToStop : StopSecureTunnel(c)) \/ StopReturns

RetryStep == \E g \in retryTimers : retrySubscriptionRecovery(g)

LockedStep == LockedSubscriptionQueued \/ LockedSubscriptionRefused \/ LockedRequestsRetry

LoopStep ==
    \/ TakeSnapshot \/ onConnectionResumed \/ LoopRequestsRetry
    \/ ExamineNotification \/ AddContext
    \/ ConnectToSecureTunnel \/ ConnectToSecureTunnelFails \/ EraseContext

AcknowledgeStep == \E g \in sent : Subscribed(g) \/ SubscriptionFails(g)

ResumeStep == \E present \in BOOLEAN : ConnectionResumes(present)

\* The end: the feature was stopped and none of its threads has anything left to do.
Finished ==
    /\ mainPc = "stopped" /\ loopPc = "idle"
    /\ lockHolder = "nobody" /\ retryTimers = {}
    /\ UNCHANGED vars

Next ==
    \/ start \/ InitialSubscriptionStep
    \/ StopTeardown \/ StopStep
    \/ RetryStep \/ LockedStep \/ LoopStep
    \/ \E n \in Notifications : Notification(n)
    \/ \E c \in 1 .. created : OnTunnelStopped(c)
    \/ SendSubscribe \/ AcknowledgeStep
    \/ ConnectionLost \/ ResumeStep
    \/ Finished

\* Runnable threads run and get a free lock at last; sleeping retries wake up.
ThreadFairness ==
    /\ WF_vars(InitialSubscriptionStep)
    /\ WF_vars(StopStep)
    /\ WF_vars(RetryStep)
    /\ WF_vars(LockedStep)
    /\ WF_vars(LoopStep)

\* The client reconnects for ever and sends what is queued; the broker answers.
NetworkFairness ==
    /\ WF_vars(ResumeStep)
    /\ WF_vars(SendSubscribe)
    /\ WF_vars(AcknowledgeStep)

Spec == Init /\ [][Next]_vars
FairSpec == Spec /\ ThreadFairness /\ NetworkFairness
-----------------------------------------------------------------------------
(***************************************************************************)
(* Properties.                                                             *)
(***************************************************************************)
Generations == 0 .. mConnectionRecoveryGeneration

RecoveryTypes ==
    /\ mStarted \in BOOLEAN
    /\ mSubscriptionNeedsRecovery \in BOOLEAN
    /\ mConnectionRecoveryGeneration \in Nat
    /\ mOldestValidSubscriptionGeneration \in Generations
    /\ mFeatureLifecycleGeneration \in Nat
    /\ clientReady \in BOOLEAN

ThreadTypes ==
    /\ lockHolder \in {"nobody", "loop", "retry"}
    /\ lockTask \in {"none", "subscribe", "requestRetry"}
    /\ lockGeneration \in Generations
    /\ mainPc \in {"idle", "createClient", "subscribe", "requestRetry", "running", "stopping",
                   "stopped"}
    /\ mainGeneration \in Generations
    /\ contextsToStop \in SUBSET (1 .. created)
    /\ loopPc \in {"idle", "requestRetry", "snapshotPresent", "snapshotLost", "resumedPresent",
                   "resumedLost", "locked", "examine", "create", "connect", "erase"}
    /\ loopGeneration \in Nat
    /\ loopNotification \in Notifications \union {NoNotification}
    /\ retryTimers \in SUBSET Generations

ContextTypes ==
    /\ created \in 0 .. MaxDeliveries
    /\ mContexts \in SUBSET (1 .. created)
    /\ mLastSeenNotifyResponse \in [Contexts -> Notifications \union {NoNotification}]
    /\ phase \in [Contexts -> {"new", "failed", "open", "ended"}]
    /\ stopping \in [Contexts -> BOOLEAN]
    /\ origin \in [Contexts -> Notifications \union {NoNotification}]

NetworkTypes ==
    /\ queue \in Seq(Generations)
    /\ sent \in SUBSET Generations
    /\ handler \in Generations
    /\ overtaken \in BOOLEAN
    /\ connected \in BOOLEAN
    /\ session \in BOOLEAN
    /\ deliveries \in 0 .. MaxDeliveries
    /\ outages \in 0 .. MaxOutages
    /\ failures \in 0 .. MaxFailures

\* The type of every variable; no generation is ahead of mConnectionRecoveryGeneration.
TypeOK == RecoveryTypes /\ ThreadTypes /\ ContextTypes /\ NetworkTypes

\* The loss of the session is still to be handled by onConnectionResumed.
LossPending == loopPc \in {"snapshotLost", "resumedLost"}

Queued(g) == \E i \in 1 .. Len(queue) : queue[i] = g

\* A SUBSCRIBE of generation g is still to be made, or its callback still to come.
AttemptUnderWay(g) ==
    \/ mainPc = "subscribe" /\ mainGeneration = g
    \/ lockTask = "subscribe" /\ lockGeneration = g
    \/ Queued(g)
    \/ g \in sent

\* A running feature whose subscription is gone knows it (mSubscriptionNeedsRecovery), or is still to be
\* told of the loss, or waits for the answer to its first subscription: no failure, late acknowledgement
\* or resumption leaves it deaf without a recovery.
SubscribedOrRecovering ==
    (mStarted /\ clientReady /\ ~mSubscriptionNeedsRecovery /\ ~LossPending) =>
        session \/ AttemptUnderWay(mainGeneration)

\* The client calls a handler, and the feature counts on it.
CountsOnHandler ==
    mStarted /\ ~mSubscriptionNeedsRecovery /\ session /\ handler # 0 /\ ~LossPending

\* OnSubscribeToTunnelsNotifyResponse accepts the notifications of the handler in place.
HandlerIsHeard ==
    mOldestValidSubscriptionGeneration <= handler /\ handler <= mConnectionRecoveryGeneration

\* While the feature counts on its subscription, the handler that the client calls is of a generation
\* OnSubscribeToTunnelsNotifyResponse accepts, or every tunnel would be ignored: only a request of
\* start() that was queued behind a newer one may have put an older handler in its place.  In particular
\* no acknowledgement, failure or retry of an older generation makes the feature believe that it hears.
RecoveriesAreHeard ==
    CountsOnHandler => HandlerIsHeard \/ (overtaken /\ handler = mainGeneration)

\* What SecureTunnelingFeature.h:265 says without an exception: mOldestValidSubscriptionGeneration is the
\* "Oldest notification handler generation that can still belong to the current MQTT session".  Violated:
\* start() queues its request outside mSubscriptionLifecycleLock, so that a recovery can be queued before
\* it, and the older handler then replaces the newer one in the client.
NotificationsAreHeard == CountsOnHandler => HandlerIsHeard

\* stop() asks every tunnel to stop that is open or may still open, also one whose notification was
\* being handled while stop() copied the list.
StopReachesEveryContext ==
    mainPc = "stopped" =>
        \A c \in 1 .. created : phase[c] \in {"new", "open"} => stopping[c]

\* A feature that was started comes to be subscribed, and again after every loss and failure, unless it
\* is stopped.
RecoveryCompletes ==
    mStarted ~> (~mStarted \/ (clientReady /\ session /\ ~mSubscriptionNeedsRecovery))

Lifecycle(c) == INSTANCE TunnelLifecycle WITH
    phase <- phase[c],
    stopping <- stopping[c],
    held <- phase[c] # "failed" \/ c \in mContexts,
    refused <- FALSE

\* What is left here of a context is its life cycle, which TunnelContext implements: each is opened once
\* or not at all, ends once, is asked to stop once, and leaves the list before it is open only if it
\* failed (OnSubscribeToTunnelsNotifyResponse, stop, OnTunnelStopped).
ContextsFollowLifecycle ==
    /\ \A c \in Contexts : Lifecycle(c)!Init
    /\ [][\A c \in Contexts : [Lifecycle(c)!Next]_(Lifecycle(c)!vars)]_vars
-----------------------------------------------------------------------------
(***************************************************************************)
(* The inductive invariant of the proofs.                                  *)
(***************************************************************************)

\* mSubscriptionLifecycleLock is held by the loop or by one retry thread, with the latest generation.
LockInv ==
    /\ lockHolder = "nobody" <=> lockTask = "none"
    /\ lockHolder = "loop" <=> loopPc = "locked"
    /\ lockTask # "none" => lockGeneration = mConnectionRecoveryGeneration /\ clientReady

MainInv ==
    /\ mStarted <=> mainPc \in {"createClient", "subscribe", "requestRetry", "running"}
    /\ clientReady <=> mainPc \notin {"idle", "createClient"}

\* A subscription that is neither held nor under recovery is the initial one, and still under way.
SubscribedInv ==
    (mStarted /\ clientReady /\ ~mSubscriptionNeedsRecovery /\ ~LossPending) =>
        \/ session
        \/ /\ mainGeneration = mConnectionRecoveryGeneration
           /\ AttemptUnderWay(mConnectionRecoveryGeneration)

\* A request of start() that was queued behind a newer one.
Late(g) == overtaken /\ g = mainGeneration

\* Before the initial subscription was queued nothing happens but a recovery of a newer generation; once
\* that has completed, its handler is in place.
StartInv ==
    /\ (\/ mainPc \in {"idle", "createClient"}
        \/ mainPc = "subscribe" /\ mainGeneration = mConnectionRecoveryGeneration) =>
          /\ retryTimers = {} /\ lockHolder = "nobody" /\ loopPc # "requestRetry"
          /\ queue = <<>> /\ sent = {} /\ handler = 0
    /\ mainPc \in {"idle", "createClient", "subscribe"} => ~overtaken
    /\ (mainPc = "subscribe" /\ mainGeneration # mConnectionRecoveryGeneration
            /\ ~mSubscriptionNeedsRecovery) =>
          mainGeneration < handler

\* Requests are queued and sent in the order of their generations, and while no recovery is needed none
\* is older than what the feature accepts; but for the late one.
OrderInv ==
    /\ \A i, j \in 1 .. Len(queue) :
          i < j => Late(queue[i]) \/ Late(queue[j]) \/ queue[i] <= queue[j]
    /\ \A g \in sent, i \in 1 .. Len(queue) : Late(g) \/ Late(queue[i]) \/ g <= queue[i]
    /\ \A i \in 1 .. Len(queue) : Late(handler) \/ Late(queue[i]) \/ handler <= queue[i]
    /\ \A g \in sent : Late(g) \/ Late(handler) \/ g <= handler
    /\ (mStarted /\ ~mSubscriptionNeedsRecovery) =>
          /\ handler # 0 => Late(handler) \/ mOldestValidSubscriptionGeneration <= handler
          /\ \A i \in 1 .. Len(queue) :
                Late(queue[i]) \/ mOldestValidSubscriptionGeneration <= queue[i]

\* A context that may be or become open is listed; once stop() has copied the list it is asked to stop or
\* still in the copy.
MayOpen(c) == phase[c] \in {"new", "open"}

ContextInv ==
    /\ \A c \in Contexts : c > created => phase[c] = "new"
    /\ \A c \in 1 .. created : MayOpen(c) => c \in mContexts
    /\ loopPc \in {"connect", "erase"} => created # 0
    /\ loopPc = "connect" => phase[created] = "new"
    /\ loopPc = "erase" => phase[created] = "failed"
    /\ created <= deliveries
    /\ loopPc \in {"examine", "create"} => created < deliveries
    /\ mainPc \in {"stopping", "stopped"} =>
          \A c \in 1 .. created : MayOpen(c) => stopping[c] \/ c \in contextsToStop
    /\ mainPc = "stopped" => contextsToStop = {}

IndInv ==
    /\ TypeOK
    /\ LockInv /\ MainInv
    /\ SubscribedInv
    /\ StartInv /\ OrderInv
    /\ ContextInv
=============================================================================
