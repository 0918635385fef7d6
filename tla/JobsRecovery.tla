---------------------------- MODULE JobsRecovery ----------------------------
(***************************************************************************)
(* The life cycle of the Jobs feature's MQTT subscriptions                 *)
(* (src/source/jobs/JobsFeature.cpp): the startup worker runJobs(), the    *)
(* recovery of the subscriptions after the MQTT session was lost, the      *)
(* delayed retry of a recovery that failed, and stop().                    *)
(*                                                                         *)
(* Threads:                                                                *)
(*   worker  the thread that runs runJobs() once                           *)
(*   loop    the CRT event loop of the MQTT connection: it delivers every  *)
(*           SUBACK, message and onConnectionResumed, one at a time        *)
(*   retry   detached threads, each sleeping before one retry              *)
(*   main    start() and stop()                                            *)
(*                                                                         *)
(* subscriptionLifecycleLock is held across several client calls, so it is *)
(* a variable (lockHolder).  connectionRecoveryLock is only held over one  *)
(* block of assignments: each such block is one atomic action.             *)
(***************************************************************************)
EXTENDS Integers, FiniteSets

CONSTANTS
    SubscriptionCount,  \* JOBS_SUBSCRIPTION_COUNT: 5 in the code
    MaxOutages,         \* bound: how often the connection is lost
    MaxFailures,        \* bound: Subscribe* calls refused or acknowledged with an error
    MaxDuplicates       \* bound: recovery callbacks that are invoked twice

ASSUME ConstantsAssumption ==
    /\ SubscriptionCount \in Nat \ {0}
    /\ MaxOutages \in Nat
    /\ MaxFailures \in Nat
    /\ MaxDuplicates \in Nat

\* The subscriptions in the order in which the code queues them.
Subscriptions == 1 .. SubscriptionCount

VARIABLES
    \* fields guarded by connectionRecoveryLock
    jobsClientReady,
    subscriptionsNeedRecovery,
    connectionRecoveryGeneration,
    pendingRecoverySubscriptions,
    connectionRecoveryFailed,
    completedRecoverySubscriptions,   \* completedRecoverySubscriptionMask as a set
    \* the five StartupSubscriptionResult promises
    startupResult,
    \* subscriptionLifecycleLock and what its holder still has to do
    lockHolder, lockTask, lockNext, lockGeneration,
    \* threads
    startPc, stopPc, workerPc, workerNext, loopPc, loopArg,
    retryTimers,                      \* generations a sleeping retry thread will retry
    \* the MQTT client and the broker
    inflight,                         \* <<generation, subscription>>: callback not yet invoked; 0 is startup
    connected, sessionSubscriptions,
    outages, failures, duplicates,
    \* history
    polls,                            \* StartNextPendingJobExecution requests published
    ignoredJob                        \* a job was ignored and no poll was published since

recoveryVars == <<jobsClientReady, subscriptionsNeedRecovery, connectionRecoveryGeneration,
                  pendingRecoverySubscriptions, connectionRecoveryFailed,
                  completedRecoverySubscriptions>>
lockVars     == <<lockHolder, lockTask, lockNext, lockGeneration>>
mainVars     == <<startPc, stopPc>>
workerVars   == <<workerPc, workerNext>>
loopVars     == <<loopPc, loopArg>>
networkVars  == <<inflight, connected, sessionSubscriptions, outages, failures, duplicates>>
historyVars  == <<polls, ignoredJob>>
vars == <<recoveryVars, startupResult, lockVars, mainVars, workerVars, loopVars, retryTimers,
          networkVars, historyVars>>

needStop == stopPc # "running"

Init ==
    /\ jobsClientReady = FALSE
    /\ subscriptionsNeedRecovery = FALSE
    /\ connectionRecoveryGeneration = 0
    /\ pendingRecoverySubscriptions = 0
    /\ connectionRecoveryFailed = FALSE
    /\ completedRecoverySubscriptions = {}
    /\ startupResult = [s \in Subscriptions |-> "unset"]
    /\ lockHolder = "nobody" /\ lockTask = "none" /\ lockNext = 1 /\ lockGeneration = 0
    /\ startPc = "idle" /\ stopPc = "running"
    /\ workerPc = "none" /\ workerNext = 1
    /\ loopPc = "idle" /\ loopArg = 0
    /\ retryTimers = {}
    /\ inflight = {}
    /\ connected = TRUE
    /\ sessionSubscriptions \in {{}, Subscriptions}   \* the broker may still hold a previous run's session
    /\ outages = 0 /\ failures = 0 /\ duplicates = 0
    /\ polls = 0 /\ ignoredJob = FALSE
-----------------------------------------------------------------------------
(***************************************************************************)
(* Steps shared by several threads.                                        *)
(***************************************************************************)

publishStartNextPendingJobExecutionRequest ==
    /\ polls' = polls + 1
    /\ ignoredJob' = FALSE

\* ++generation, forget the previous attempt and expect the given number of acknowledgements.
BeginGeneration(expected) ==
    /\ connectionRecoveryGeneration' = connectionRecoveryGeneration + 1
    /\ pendingRecoverySubscriptions' = expected
    /\ connectionRecoveryFailed' = FALSE
    /\ completedRecoverySubscriptions' = {}

LifecycleLockIsFree == lockHolder = "nobody"

Lock(holder, task, generation) ==
    /\ lockHolder' = holder
    /\ lockTask' = task
    /\ lockNext' = 1
    /\ lockGeneration' = generation

\* The holder leaves the function that took subscriptionLifecycleLock.
Unlock ==
    /\ lockHolder' = "nobody" /\ lockTask' = "none"
    /\ workerPc' = IF lockHolder = "worker" THEN "done" ELSE workerPc
    /\ loopPc' = IF lockHolder = "loop" THEN "idle" ELSE loopPc
    /\ UNCHANGED <<lockGeneration, workerNext, loopArg>>

\* Mutant: a second completion of the same subscription counts again.
CompletionCounts_NoMask(g, s) ==
    /\ ~needStop
    /\ jobsClientReady
    /\ g = connectionRecoveryGeneration
    /\ pendingRecoverySubscriptions # 0

\* completeRecoverySubscription returns early unless this holds.
CompletionCounts(g, s) ==
    /\ ~needStop
    /\ jobsClientReady
    /\ g = connectionRecoveryGeneration
    /\ pendingRecoverySubscriptions # 0
    /\ s \notin completedRecoverySubscriptions

\* Mutant: only the outcome of the last completion is looked at.
CompletionRequestsRetry_LastOnly(g, s, ok) ==
    /\ CompletionCounts(g, s)
    /\ pendingRecoverySubscriptions = 1
    /\ ~ok

\* This completion is the last one expected and at least one of them failed.
CompletionRequestsRetry(g, s, ok) ==
    /\ CompletionCounts(g, s)
    /\ pendingRecoverySubscriptions = 1
    /\ connectionRecoveryFailed \/ ~ok

\* Mutant: pending jobs are not asked for after a recovery.
SubscriptionsRestored_NoPoll ==
    /\ subscriptionsNeedRecovery' = FALSE
    /\ UNCHANGED historyVars

SubscriptionsRestored ==
    /\ subscriptionsNeedRecovery' = FALSE
    /\ publishStartNextPendingJobExecutionRequest

completeRecoverySubscription(g, s, ok) ==
    \/ /\ CompletionCounts(g, s)
       /\ completedRecoverySubscriptions' = completedRecoverySubscriptions \union {s}
       /\ connectionRecoveryFailed' = (connectionRecoveryFailed \/ ~ok)
       /\ pendingRecoverySubscriptions' = pendingRecoverySubscriptions - 1
       /\ IF pendingRecoverySubscriptions' = 0 /\ ~connectionRecoveryFailed'
          THEN SubscriptionsRestored
          ELSE UNCHANGED <<subscriptionsNeedRecovery, historyVars>>
       /\ UNCHANGED <<jobsClientReady, connectionRecoveryGeneration>>
    \/ /\ ~CompletionCounts(g, s)
       /\ UNCHANGED <<recoveryVars, historyVars>>

\* The guard of both requestSubscriptionRecoveryRetry and retrySubscriptionRecovery.
RetryStillNeeded(g) ==
    /\ ~needStop
    /\ jobsClientReady
    /\ subscriptionsNeedRecovery
    /\ g = connectionRecoveryGeneration
    /\ pendingRecoverySubscriptions = 0

\* The timer is started after the lock was released.  Should the guard have become false by then, the
\* retry finds it false as well when it wakes up, as if there were no timer.
requestSubscriptionRecoveryRetry(g) ==
    retryTimers' = IF RetryStillNeeded(g) THEN retryTimers \union {g} ELSE retryTimers
-----------------------------------------------------------------------------
(***************************************************************************)
(* main: start() and stop().                                               *)
(***************************************************************************)

\* start() up to the compare_exchange; a second start() changes nothing.
start ==
    /\ startPc = "idle"
    /\ startPc' = "launching"
    /\ UNCHANGED <<recoveryVars, startupResult, lockVars, stopPc, workerVars, loopVars,
                   retryTimers, networkVars, historyVars>>

launchJobsThread ==
    /\ startPc = "launching"
    /\ startPc' = "done"
    /\ workerPc' = IF needStop THEN workerPc ELSE "create"
    /\ UNCHANGED <<recoveryVars, startupResult, lockVars, stopPc, workerNext, loopVars,
                   retryTimers, networkVars, historyVars>>

\* stop(): needStop.store(true), before any lock is taken.
StopSetFlag ==
    /\ stopPc = "running"
    /\ stopPc' = "flagged"
    /\ UNCHANGED <<recoveryVars, startupResult, lockVars, startPc, workerVars, loopVars,
                   retryTimers, networkVars, historyVars>>

cancelStartupSubscriptionWaits ==
    startupResult' = [s \in Subscriptions |->
                        IF startupResult[s] = "unset" THEN "cancelled" ELSE startupResult[s]]

\* stop(): the block under both locks.
StopTeardown ==
    /\ stopPc = "flagged"
    /\ LifecycleLockIsFree
    /\ stopPc' = "tornDown"
    /\ jobsClientReady' = FALSE
    /\ BeginGeneration(0)
    /\ subscriptionsNeedRecovery' = FALSE
    /\ cancelStartupSubscriptionWaits
    /\ UNCHANGED <<lockVars, startPc, workerVars, loopVars, retryTimers, networkVars, historyVars>>

WorkerHasEnded == workerPc \in {"none", "done"}

\* stop() returns once joinJobsThread has joined the worker, if there is one.
joinJobsThread ==
    /\ stopPc = "tornDown"
    /\ WorkerHasEnded
    /\ stopPc' = "returned"
    /\ UNCHANGED <<recoveryVars, startupResult, lockVars, startPc, workerVars, loopVars,
                   retryTimers, networkVars, historyVars>>
-----------------------------------------------------------------------------
(***************************************************************************)
(* worker: runJobs().                                                      *)
(***************************************************************************)

\* createJobsClient and the futures, between two looks at needStop.
WorkerCreateClient ==
    /\ workerPc = "create"
    /\ workerPc' \in IF needStop THEN {"done"} ELSE {"subscribe"}
    /\ UNCHANGED <<recoveryVars, startupResult, lockVars, mainVars, workerNext, loopVars,
                   retryTimers, networkVars, historyVars>>

\* needStop is read again after every call but the first: the two StartNext
\* subscriptions are queued by one function.
StopSeenAfter(s) == s >= 2 /\ needStop

\* After the last call: skip the waits if a call was refused.
WorkerSubscribed(s, queued) ==
    /\ workerNext' = s + 1
    /\ workerPc' = IF StopSeenAfter(s) THEN "done"
                   ELSE IF s < SubscriptionCount THEN "subscribe"
                   ELSE IF queued /\ \A t \in Subscriptions : startupResult[t] # "refused"
                        THEN "wait" ELSE "finish"

WorkerQueueSubscription ==
    /\ workerPc = "subscribe"
    /\ inflight' = inflight \union {<<0, workerNext>>}
    /\ WorkerSubscribed(workerNext, TRUE)
    /\ UNCHANGED <<recoveryVars, startupResult, lockVars, mainVars, loopVars, retryTimers,
                   connected, sessionSubscriptions, outages, failures, duplicates, historyVars>>

\* The client refuses to queue: complete(SUBSCRIPTION_QUEUE_FAILED), once only.
WorkerSubscriptionRefused ==
    /\ workerPc = "subscribe"
    /\ failures < MaxFailures
    /\ failures' = failures + 1
    /\ startupResult' = [startupResult EXCEPT ![workerNext] = IF @ = "unset" THEN "refused" ELSE @]
    /\ WorkerSubscribed(workerNext, FALSE)
    /\ UNCHANGED <<recoveryVars, lockVars, mainVars, loopVars, retryTimers,
                   inflight, connected, sessionSubscriptions, outages, duplicates, historyVars>>

StartupSubscriptionsReady == \A s \in Subscriptions : startupResult[s] = "ok"

\* The five waits share one deadline; they end early once every promise is set.
WorkerWaitEnds ==
    /\ workerPc = "wait"
    /\ \A s \in Subscriptions : startupResult[s] # "unset"
    /\ workerPc' = "finish"
    /\ UNCHANGED <<recoveryVars, startupResult, lockVars, mainVars, workerNext, loopVars,
                   retryTimers, networkVars, historyVars>>

\* The deadline passes first: startupSubscriptionsReady is false whatever arrives later.
WorkerWaitTimesOut ==
    /\ workerPc = "wait"
    /\ \E s \in Subscriptions : startupResult[s] = "unset"
    /\ workerPc' = "finishLate"
    /\ UNCHANGED <<recoveryVars, startupResult, lockVars, mainVars, workerNext, loopVars,
                   retryTimers, networkVars, historyVars>>

\* The last block of runJobs(), under both locks, up to the release of connectionRecoveryLock.
WorkerFinishStartup ==
    LET recover == \/ subscriptionsNeedRecovery
                   \/ workerPc = "finishLate"
                   \/ ~StartupSubscriptionsReady
    IN
    /\ workerPc \in {"finish", "finishLate"}
    /\ LifecycleLockIsFree
    /\ IF needStop
       THEN workerPc' = "done" /\ UNCHANGED <<recoveryVars, lockVars>>
       ELSE /\ workerPc' = "locked"
            /\ jobsClientReady' = TRUE
            /\ subscriptionsNeedRecovery' = recover
            /\ IF recover
               THEN /\ BeginGeneration(SubscriptionCount)
                    /\ Lock("worker", "resubscribe", connectionRecoveryGeneration')
               ELSE /\ Lock("worker", "poll", 0)
                    /\ UNCHANGED <<connectionRecoveryGeneration, pendingRecoverySubscriptions,
                                   connectionRecoveryFailed, completedRecoverySubscriptions>>
    /\ UNCHANGED <<startupResult, mainVars, workerNext, loopVars, retryTimers, networkVars,
                   historyVars>>
-----------------------------------------------------------------------------
(***************************************************************************)
(* The holder of subscriptionLifecycleLock: resubscribeAfterSessionLoss or *)
(* the poll that follows the release of connectionRecoveryLock.            *)
(***************************************************************************)

LockedPoll ==
    /\ lockTask = "poll"
    /\ publishStartNextPendingJobExecutionRequest
    /\ Unlock
    /\ UNCHANGED <<lockNext, recoveryVars, startupResult, mainVars, retryTimers, networkVars>>

\* What follows the lockNext-th Subscribe* call.
AfterLockedSubscribe ==
    /\ lockNext' = lockNext + 1
    /\ IF lockNext = SubscriptionCount THEN Unlock
       ELSE UNCHANGED <<lockHolder, lockTask, lockGeneration, workerVars, loopVars>>

LockedSubscriptionQueued ==
    /\ lockTask = "resubscribe"
    /\ inflight' = inflight \union {<<lockGeneration, lockNext>>}
    /\ AfterLockedSubscribe
    /\ UNCHANGED <<recoveryVars, startupResult, mainVars, retryTimers, connected,
                   sessionSubscriptions, outages, failures, duplicates, historyVars>>

LockedSubscriptionRefused ==
    /\ lockTask = "resubscribe"
    /\ failures < MaxFailures
    /\ failures' = failures + 1
    /\ completeRecoverySubscription(lockGeneration, lockNext, FALSE)
    /\ IF CompletionRequestsRetry(lockGeneration, lockNext, FALSE)
       THEN /\ lockTask' = "requestRetry"
            /\ UNCHANGED <<lockHolder, lockNext, lockGeneration, workerVars, loopVars>>
       ELSE AfterLockedSubscribe
    /\ UNCHANGED <<startupResult, mainVars, retryTimers, inflight, connected,
                   sessionSubscriptions, outages, duplicates>>

\* requestSubscriptionRecoveryRetry after connectionRecoveryLock was released and taken again.
LockedRequestRetry ==
    /\ lockTask = "requestRetry"
    /\ requestSubscriptionRecoveryRetry(lockGeneration)
    /\ lockNext' = lockNext + 1
    /\ IF lockNext = SubscriptionCount THEN Unlock
       ELSE lockTask' = "resubscribe" /\ UNCHANGED <<lockHolder, lockGeneration, workerVars, loopVars>>
    /\ UNCHANGED <<recoveryVars, startupResult, mainVars, networkVars, historyVars>>

\* A retry thread wakes up: retrySubscriptionRecovery.
retrySubscriptionRecovery(g) ==
    /\ g \in retryTimers
    /\ LifecycleLockIsFree
    /\ retryTimers' = retryTimers \ {g}
    /\ IF RetryStillNeeded(g)
       THEN /\ BeginGeneration(SubscriptionCount)
            /\ Lock("retry", "resubscribe", connectionRecoveryGeneration')
       ELSE UNCHANGED <<connectionRecoveryGeneration, pendingRecoverySubscriptions,
                        connectionRecoveryFailed, completedRecoverySubscriptions, lockVars>>
    /\ UNCHANGED <<jobsClientReady, subscriptionsNeedRecovery, startupResult, mainVars,
                   workerVars, loopVars, networkVars, historyVars>>
-----------------------------------------------------------------------------
(***************************************************************************)
(* loop: the callbacks of the MQTT connection, and the network.            *)
(***************************************************************************)

\* The broker accepts or refuses a subscription.  It can only accept one while connected.
Acknowledge(s, ok) ==
    /\ IF ok THEN connected /\ sessionSubscriptions' = sessionSubscriptions \union {s}
             ELSE failures < MaxFailures /\ UNCHANGED sessionSubscriptions
    /\ failures' = IF ok THEN failures ELSE failures + 1
    /\ UNCHANGED <<connected, outages>>

\* ackSubscribeTo...: complete the startup promise unless it was completed before.
StartupAck(s, ok) ==
    /\ loopPc = "idle"
    /\ <<0, s>> \in inflight
    /\ inflight' = inflight \ {<<0, s>>}
    /\ Acknowledge(s, ok)
    /\ startupResult' = [startupResult EXCEPT ![s] =
                            IF @ # "unset" THEN @ ELSE IF ok THEN "ok" ELSE "error"]
    /\ UNCHANGED <<recoveryVars, lockVars, mainVars, workerVars, loopVars, retryTimers, duplicates,
                   historyVars>>

\* The callback of createRecoverySubscriptionCallback, invoked a second time if again.
RecoveryAck(g, s, ok, again) ==
    /\ loopPc = "idle"
    /\ g # 0 /\ <<g, s>> \in inflight
    /\ IF again THEN duplicates < MaxDuplicates /\ duplicates' = duplicates + 1 /\ UNCHANGED inflight
                ELSE inflight' = inflight \ {<<g, s>>} /\ UNCHANGED duplicates
    /\ Acknowledge(s, ok)
    /\ completeRecoverySubscription(g, s, ok)
    /\ IF CompletionRequestsRetry(g, s, ok) THEN loopPc' = "requestRetry" /\ loopArg' = g
                                            ELSE UNCHANGED loopVars
    /\ UNCHANGED <<startupResult, lockVars, mainVars, workerVars, retryTimers>>

LoopRequestRetry ==
    /\ loopPc = "requestRetry"
    /\ requestSubscriptionRecoveryRetry(loopArg)
    /\ loopPc' = "idle"
    /\ UNCHANGED <<recoveryVars, startupResult, lockVars, mainVars, workerVars, loopArg,
                   networkVars, historyVars>>

ConnectionLost ==
    /\ connected
    /\ loopPc = "idle"
    /\ outages < MaxOutages
    /\ connected' = FALSE
    /\ outages' = outages + 1
    /\ UNCHANGED <<recoveryVars, startupResult, lockVars, mainVars, workerVars, loopVars,
                   retryTimers, inflight, sessionSubscriptions, failures, duplicates, historyVars>>

\* The connection is resumed; the broker kept the session or discarded it.
ConnectionResumes(sessionPresent) ==
    /\ ~connected
    /\ loopPc = "idle"
    /\ connected' = TRUE
    /\ sessionSubscriptions' = IF sessionPresent THEN sessionSubscriptions ELSE {}
    /\ loopPc' = IF sessionPresent THEN "resumedPresent" ELSE "resumedLost"
    /\ UNCHANGED <<recoveryVars, startupResult, lockVars, mainVars, workerVars, loopArg,
                   retryTimers, inflight, outages, failures, duplicates, historyVars>>

\* Mutant: a lost session is only remembered once startup is over.
RecoverOnResume_ReadyOnly == subscriptionsNeedRecovery \/ (loopPc = "resumedLost" /\ jobsClientReady)

\* Mutant: the resumption of an existing session forgets an interrupted recovery.
RecoverOnResume_Forgets == loopPc = "resumedLost"

RecoverOnResume == subscriptionsNeedRecovery \/ loopPc = "resumedLost"

\* onConnectionResumed from the lock to the release of connectionRecoveryLock.
onConnectionResumed ==
    /\ loopPc \in {"resumedPresent", "resumedLost"}
    /\ LifecycleLockIsFree
    /\ \/ /\ needStop
          /\ loopPc' = "idle"
          /\ UNCHANGED <<recoveryVars, lockVars>>
       \/ /\ ~needStop /\ ~jobsClientReady
          /\ subscriptionsNeedRecovery' = RecoverOnResume
          /\ loopPc' = "idle"
          /\ UNCHANGED <<jobsClientReady, connectionRecoveryGeneration, pendingRecoverySubscriptions,
                         connectionRecoveryFailed, completedRecoverySubscriptions, lockVars>>
       \/ /\ ~needStop /\ jobsClientReady
          /\ subscriptionsNeedRecovery' = RecoverOnResume
          /\ BeginGeneration(IF RecoverOnResume THEN SubscriptionCount ELSE 0)
          /\ Lock("loop", IF RecoverOnResume THEN "resubscribe" ELSE "poll", connectionRecoveryGeneration')
          /\ loopPc' = "locked"
          /\ UNCHANGED jobsClientReady
    /\ UNCHANGED <<startupResult, mainVars, workerVars, loopArg, retryTimers, networkVars,
                   historyVars>>

jobsSubscriptionsReady == jobsClientReady /\ ~subscriptionsNeedRecovery

\* A job arrives in startNextPendingJobReceivedHandler or nextJobChangedHandler: needStop and then,
\* under connectionRecoveryLock, the readiness of the subscriptions are examined.
JobMessage ==
    /\ loopPc = "idle"
    /\ connected
    /\ workerNext > 1                    \* a handler has been registered
    /\ \/ needStop /\ UNCHANGED <<loopPc, ignoredJob>>     \* MESSAGE_RECEIVED_AFTER_SHUTDOWN
       \/ /\ ~needStop
          /\ IF jobsSubscriptionsReady
             THEN loopPc' = "handleJob" /\ UNCHANGED ignoredJob
             ELSE ignoredJob' = TRUE /\ UNCHANGED loopPc
    /\ UNCHANGED <<recoveryVars, startupResult, lockVars, mainVars, workerVars, loopArg,
                   retryTimers, networkVars, polls>>

\* The handler, no longer under a lock, calls handleJob.
handleJob ==
    /\ loopPc = "handleJob"
    /\ loopPc' = "idle"
    /\ UNCHANGED <<recoveryVars, startupResult, lockVars, mainVars, workerVars, loopArg,
                   retryTimers, networkVars, historyVars>>
-----------------------------------------------------------------------------
\* stop() has returned: the process may exit.
Stopped == stopPc = "returned" /\ UNCHANGED vars

WorkerStep ==
    \/ WorkerCreateClient
    \/ WorkerQueueSubscription
    \/ WorkerSubscriptionRefused
    \/ WorkerWaitEnds
    \/ WorkerWaitTimesOut
    \/ WorkerFinishStartup

LockedStep ==
    \/ LockedPoll
    \/ LockedSubscriptionQueued
    \/ LockedSubscriptionRefused
    \/ LockedRequestRetry

LoopStep ==
    \/ \E s \in Subscriptions, ok \in BOOLEAN : StartupAck(s, ok)
    \/ \E m \in inflight, ok \in BOOLEAN, again \in BOOLEAN : RecoveryAck(m[1], m[2], ok, again)
    \/ LoopRequestRetry
    \/ ConnectionLost
    \/ \E sessionPresent \in BOOLEAN : ConnectionResumes(sessionPresent)
    \/ onConnectionResumed
    \/ JobMessage
    \/ handleJob

Next ==
    \/ start
    \/ launchJobsThread
    \/ StopSetFlag
    \/ StopTeardown
    \/ joinJobsThread
    \/ WorkerStep
    \/ LockedStep
    \/ \E g \in retryTimers : retrySubscriptionRecovery(g)
    \/ LoopStep
    \/ Stopped

(***************************************************************************)
(* Every thread of the process that can run does run, and a mutex that is  *)
(* free is acquired.  Nothing makes start(), stop(), an outage, a failure, *)
(* a message or the expiry of the startup deadline happen.                 *)
(***************************************************************************)
ThreadFairness ==
    /\ WF_vars(launchJobsThread)
    /\ WF_vars(StopTeardown)
    /\ WF_vars(joinJobsThread)
    /\ WF_vars(WorkerCreateClient \/ WorkerQueueSubscription \/ WorkerWaitEnds \/ WorkerFinishStartup)
    /\ WF_vars(LockedPoll \/ LockedSubscriptionQueued \/ LockedRequestRetry)
    /\ WF_vars(\E g \in retryTimers : retrySubscriptionRecovery(g))
    /\ WF_vars(LoopRequestRetry \/ onConnectionResumed \/ handleJob)

\* The connection is resumed after an outage and, while it is up, the broker acknowledges what it was
\* sent: the MQTT client reconnects and resends for ever.
NetworkFairness ==
    /\ WF_vars(\E s \in Subscriptions : StartupAck(s, TRUE))
    /\ WF_vars(\E m \in inflight : RecoveryAck(m[1], m[2], TRUE, FALSE))
    /\ WF_vars(\E sessionPresent \in BOOLEAN : ConnectionResumes(sessionPresent))

Spec == Init /\ [][Next]_vars
ThreadFairSpec == Spec /\ ThreadFairness
-----------------------------------------------------------------------------
(***************************************************************************)
(* Properties.                                                             *)
(***************************************************************************)
Generations == Nat

FlagTypes ==
    /\ jobsClientReady \in BOOLEAN
    /\ subscriptionsNeedRecovery \in BOOLEAN
    /\ connectionRecoveryFailed \in BOOLEAN
    /\ connected \in BOOLEAN
    /\ ignoredJob \in BOOLEAN

RecoveryTypes ==
    /\ connectionRecoveryGeneration \in Generations
    /\ pendingRecoverySubscriptions \in 0 .. SubscriptionCount
    /\ completedRecoverySubscriptions \in SUBSET Subscriptions

LockTypes ==
    /\ lockHolder \in {"nobody", "worker", "loop", "retry"}
    /\ lockTask \in {"none", "resubscribe", "requestRetry", "poll"}
    /\ lockNext \in 1 .. SubscriptionCount + 1
    /\ lockGeneration \in Generations

ThreadTypes ==
    /\ startPc \in {"idle", "launching", "done"}
    /\ stopPc \in {"running", "flagged", "tornDown", "returned"}
    /\ workerPc \in {"none", "create", "subscribe", "wait", "finish", "finishLate", "locked", "done"}
    /\ workerNext \in 1 .. SubscriptionCount + 1
    /\ startupResult \in [Subscriptions -> {"unset", "ok", "error", "refused", "cancelled"}]
    /\ loopPc \in {"idle", "requestRetry", "resumedPresent", "resumedLost", "locked", "handleJob"}
    /\ loopArg \in Generations
    /\ retryTimers \in SUBSET Generations

NetworkTypes ==
    /\ inflight \in SUBSET (Generations \X Subscriptions)
    /\ sessionSubscriptions \in SUBSET Subscriptions
    /\ outages \in 0 .. MaxOutages
    /\ failures \in 0 .. MaxFailures
    /\ duplicates \in 0 .. MaxDuplicates
    /\ polls \in Nat

\* The type of every variable.
TypeOK ==
    /\ FlagTypes
    /\ RecoveryTypes
    /\ LockTypes
    /\ ThreadTypes
    /\ NetworkTypes

Serving == jobsClientReady /\ ~subscriptionsNeedRecovery

\* While the feature serves jobs (jobsClientReady and not subscriptionsNeedRecovery, what the message
\* handlers examine), the broker's session holds all five subscriptions, unless the loss of the session
\* is still to be handled: no mixture of late acknowledgements, retries and resumptions lets the feature
\* believe in a subscription that is gone.
ServingMeansSubscribed ==
    (Serving /\ ~needStop /\ loopPc # "resumedLost") => sessionSubscriptions = Subscriptions

\* Every completion a recovery still counts on (pendingRecoverySubscriptions) will come: its call is
\* still to be made by the holder of the lock or its callback is in flight, and the counter agrees with
\* the mask.  One that got lost would leave the feature deaf until the next resumption, one that counted
\* twice would end the recovery too early.
NoCompletionIsLost ==
    /\ (pendingRecoverySubscriptions # 0 \/ completedRecoverySubscriptions # {}) =>
          pendingRecoverySubscriptions + Cardinality(completedRecoverySubscriptions) = SubscriptionCount
    /\ (pendingRecoverySubscriptions # 0 /\ ~needStop) =>
          \A s \in Subscriptions \ completedRecoverySubscriptions :
              \/ <<connectionRecoveryGeneration, s>> \in inflight
              \/ lockTask = "resubscribe" /\ lockNext <= s

\* As long as subscriptions need recovery, an attempt is under way, or a retry of the current generation
\* is sleeping or about to be scheduled: the hand-over from completeRecoverySubscription over
\* requestSubscriptionRecoveryRetry to the retry thread loses no failed recovery.
RecoveryIsNeverAbandoned ==
    (jobsClientReady /\ subscriptionsNeedRecovery /\ ~needStop) =>
        \/ pendingRecoverySubscriptions # 0
        \/ connectionRecoveryGeneration \in retryTimers
        \/ loopPc = "requestRetry" /\ loopArg = connectionRecoveryGeneration
        \/ lockTask = "requestRetry" /\ lockGeneration = connectionRecoveryGeneration

\* While resubscribeAfterSessionLoss queues its calls nobody begins another generation and stop() does
\* not tear down: subscriptionLifecycleLock serializes queueing with both.
QueueingIsNotOvertaken ==
    lockTask \in {"resubscribe", "requestRetry"} =>
        /\ lockGeneration = connectionRecoveryGeneration
        /\ jobsClientReady
        /\ stopPc \in {"running", "flagged"}

(***************************************************************************)
(* The inductive invariant behind the properties above.                    *)
(***************************************************************************)

\* What the holder of subscriptionLifecycleLock may rely on, and when the lock is held at all.
LockInv ==
    /\ lockHolder = "nobody" <=> lockTask = "none"
    /\ lockHolder = "worker" <=> workerPc = "locked"
    /\ lockHolder = "loop" <=> loopPc = "locked"
    /\ lockTask # "none" => jobsClientReady /\ stopPc \in {"running", "flagged"}
    /\ lockTask \in {"resubscribe", "requestRetry"} =>
          lockNext <= SubscriptionCount /\ lockGeneration = connectionRecoveryGeneration
    /\ lockTask = "requestRetry" => pendingRecoverySubscriptions = 0
    /\ lockTask = "poll" => ~subscriptionsNeedRecovery
    /\ stopPc \in {"tornDown", "returned"} => ~jobsClientReady

\* Where the worker and the event loop can be, given what has been reached.
ThreadInv ==
    /\ startPc # "done" => workerPc = "none"
    /\ workerPc \in {"none", "create"} => workerNext = 1
    /\ workerPc = "subscribe" => workerNext <= SubscriptionCount
    /\ jobsClientReady => workerPc \in {"locked", "done"}
    /\ stopPc = "returned" => workerPc \in {"none", "done"}
    /\ loopPc = "handleJob" => Serving \/ needStop

\* A recovery under way: the counter is the number of subscriptions without an outcome, and its
\* generation is never mistaken for that of the startup calls.
PendingInv ==
    /\ pendingRecoverySubscriptions # 0 =>
          jobsClientReady /\ subscriptionsNeedRecovery /\ connectionRecoveryGeneration # 0
    /\ (pendingRecoverySubscriptions # 0 \/ completedRecoverySubscriptions # {}) =>
          pendingRecoverySubscriptions + Cardinality(completedRecoverySubscriptions) = SubscriptionCount

\* What was acknowledged since the session was last lost is in the session.
SessionInv ==
    (~needStop /\ loopPc # "resumedLost") =>
        /\ (~jobsClientReady /\ ~subscriptionsNeedRecovery) =>
              \A s \in Subscriptions : startupResult[s] = "ok" => s \in sessionSubscriptions
        /\ (pendingRecoverySubscriptions # 0 /\ ~connectionRecoveryFailed) =>
              completedRecoverySubscriptions \subseteq sessionSubscriptions

IndInv ==
    /\ TypeOK
    /\ LockInv
    /\ ThreadInv
    /\ PendingInv
    /\ NoCompletionIsLost
    /\ RecoveryIsNeverAbandoned
    /\ SessionInv
    /\ ServingMeansSubscribed

\* Pending jobs are asked for only when every subscription is ready, and so never after stop() has torn
\* the feature down.
PollsOnlyWhenServing == [][polls' # polls => Serving']_vars

\* Once stop() has torn down, no callback, timer or late thread changes the recovery state or asks for
\* jobs; once stop() has returned no call of the MQTT client is made at all.
StopIsFinal ==
    [][/\ stopPc \in {"tornDown", "returned"} =>
            UNCHANGED <<recoveryVars, polls, lockVars>>
       /\ stopPc = "returned" => inflight' \subseteq inflight /\ UNCHANGED workerPc]_vars

\* A job is handled only while the feature still serves, or after stop() began: between the look at the
\* readiness and handleJob, with no lock held, nothing else takes the readiness away.
JobsHandledOnlyWhenServing ==
    [][(loopPc = "handleJob" /\ loopPc' = "idle") => Serving \/ needStop]_vars

\* A feature that was started serves or is stopped, and a recovery that is needed ends.
RecoveryCompletes ==
    NetworkFairness => ((workerPc # "none" /\ ~Serving) ~> (Serving \/ needStop))

\* A job that was ignored because the subscriptions were not ready is asked for again later.
IgnoredJobsArePolled == NetworkFairness => (ignoredJob ~> (~ignoredJob \/ needStop))

\* The abstract state: a torn down feature is stopped; the poll that follows the start or a resumption
\* with its session is made by the holder of subscriptionLifecycleLock.
phaseOfJobs ==
    IF stopPc \in {"tornDown", "returned"} THEN "stopped"
    ELSE IF ~jobsClientReady THEN "starting"
    ELSE IF subscriptionsNeedRecovery THEN "recovering" ELSE "serving"

Availability == INSTANCE JobsAvailability WITH
    phase <- phaseOfJobs,
    polled <- phaseOfJobs = "serving" /\ lockTask # "poll"

\* runJobs, recovery, retry and stop together implement the abstract specification.
ImplementsAvailability == Availability!Spec

=============================================================================
