------------------------ MODULE JobsRecovery_proofs ------------------------
(***************************************************************************)
(* Proofs about JobsRecovery, for every number of subscriptions and every  *)
(* bound on outages, failures and duplicates.  IndInv is shown inductive,  *)
(* one lemma per conjunct; the theorems at the end follow from it.         *)
(***************************************************************************)
EXTENDS JobsRecovery, FiniteSetTheorems, TLAPS

USE DEF needStop, recoveryVars, lockVars, mainVars, workerVars, loopVars, networkVars, historyVars,
        Subscriptions, Generations
-----------------------------------------------------------------------------
(***************************************************************************)
(* Types, first of the steps that several actions share.                   *)
(***************************************************************************)

\* Beginning a generation keeps the counters of the recovery in their ranges.
LEMMA BeginGenerationTypes ==
    ASSUME RecoveryTypes, NEW n \in 0 .. SubscriptionCount, BeginGeneration(n)
    PROVE  RecoveryTypes'
BY DEF RecoveryTypes, BeginGeneration

\* Taking subscriptionLifecycleLock for a task.
LEMMA LockingTypes ==
    ASSUME NEW h \in {"worker", "loop", "retry"}, NEW task \in {"resubscribe", "poll"},
           NEW g \in Generations, Lock(h, task, g)
    PROVE  LockTypes'
BY ConstantsAssumption DEF ConstantsAssumption, LockTypes, Lock

\* completeRecoverySubscription never decrements the counter below zero.
LEMMA CompletionTypes ==
    ASSUME TypeOK, NEW g, NEW s \in Subscriptions, NEW ok \in BOOLEAN,
           completeRecoverySubscription(g, s, ok), UNCHANGED connected
    PROVE  FlagTypes' /\ RecoveryTypes' /\ polls' \in Nat
<1> USE DEF TypeOK, completeRecoverySubscription, CompletionCounts, SubscriptionsRestored,
            publishStartNextPendingJobExecutionRequest
<1>1. FlagTypes' BY DEF FlagTypes
<1>2. pendingRecoverySubscriptions' \in 0 .. SubscriptionCount
  BY ConstantsAssumption DEF ConstantsAssumption, RecoveryTypes
<1>3. RecoveryTypes' BY <1>2 DEF RecoveryTypes
<1>4. polls' \in Nat BY DEF NetworkTypes
<1> QED BY <1>1, <1>3, <1>4

\* Leaving the function that held subscriptionLifecycleLock.
LEMMA UnlockTypes ==
    ASSUME TypeOK, Unlock
    PROVE  /\ lockHolder' = "nobody" /\ lockTask' = "none" /\ lockGeneration' \in Generations
           /\ workerPc' \in {"none", "create", "subscribe", "wait", "finish", "finishLate",
                             "locked", "done"}
           /\ loopPc' \in {"idle", "requestRetry", "resumedPresent", "resumedLost", "locked",
                           "handleJob"}
           /\ workerNext' = workerNext
           /\ loopArg' = loopArg
BY DEF TypeOK, Unlock, LockTypes, ThreadTypes

\* An answer of the broker.
LEMMA AcknowledgeTypes ==
    ASSUME TypeOK, NEW s \in Subscriptions, NEW ok \in BOOLEAN, Acknowledge(s, ok)
    PROVE  /\ sessionSubscriptions' \in SUBSET Subscriptions
           /\ failures' \in 0 .. MaxFailures
           /\ outages' \in 0 .. MaxOutages
           /\ connected' = connected
<1> USE ConstantsAssumption DEF ConstantsAssumption, TypeOK, NetworkTypes, Acknowledge
<1>1. sessionSubscriptions' \in SUBSET Subscriptions OBVIOUS
<1>2. failures' \in 0 .. MaxFailures OBVIOUS
<1>3. outages' \in 0 .. MaxOutages OBVIOUS
<1>4. connected' = connected OBVIOUS
<1> QED BY <1>1, <1>2, <1>3, <1>4

\* The worker's step to its next subscription.
LEMMA WorkerSubscribedTypes ==
    ASSUME TypeOK, ThreadInv, workerPc = "subscribe", NEW queued \in BOOLEAN,
           WorkerSubscribed(workerNext, queued)
    PROVE  /\ workerNext' \in 1 .. SubscriptionCount + 1
           /\ workerPc' \in {"done", "subscribe", "wait", "finish"}
           /\ workerPc' = "subscribe" => workerNext' <= SubscriptionCount
           /\ workerNext \in Subscriptions
BY ConstantsAssumption DEF ConstantsAssumption, TypeOK, ThreadTypes, ThreadInv, WorkerSubscribed

\* The worker's steps keep the types.
LEMMA WorkerTypes == ASSUME TypeOK, LockInv, ThreadInv, WorkerStep PROVE TypeOK'
<1> USE ConstantsAssumption DEF ConstantsAssumption, TypeOK
<1>1. CASE WorkerCreateClient
  BY <1>1 DEF WorkerCreateClient, FlagTypes, RecoveryTypes, LockTypes, ThreadTypes, NetworkTypes
<1>2. CASE WorkerQueueSubscription
  <2> USE <1>2, WorkerSubscribedTypes DEF WorkerQueueSubscription
  <2>1. FlagTypes' BY DEF FlagTypes
  <2>2. RecoveryTypes' BY DEF RecoveryTypes
  <2>3. LockTypes' BY DEF LockTypes
  <2>4. ThreadTypes' BY DEF ThreadTypes
  <2>5. NetworkTypes'
    <3>1. workerNext \in Subscriptions OBVIOUS
    <3>2. inflight' \in SUBSET (Generations \X Subscriptions) BY <3>1 DEF NetworkTypes
    <3> QED BY <3>2 DEF NetworkTypes
  <2> QED BY <2>1, <2>2, <2>3, <2>4, <2>5
<1>3. CASE WorkerSubscriptionRefused
  <2> USE <1>3, WorkerSubscribedTypes DEF WorkerSubscriptionRefused
  <2>1. FlagTypes' BY DEF FlagTypes
  <2>2. RecoveryTypes' BY DEF RecoveryTypes
  <2>3. LockTypes' BY DEF LockTypes
  <2>4. ThreadTypes' BY DEF ThreadTypes
  <2>5. NetworkTypes' BY DEF NetworkTypes
  <2> QED BY <2>1, <2>2, <2>3, <2>4, <2>5
<1>4. CASE WorkerWaitEnds
  BY <1>4 DEF WorkerWaitEnds, FlagTypes, RecoveryTypes, LockTypes, ThreadTypes, NetworkTypes
<1>5. CASE WorkerWaitTimesOut
  BY <1>5 DEF WorkerWaitTimesOut, FlagTypes, RecoveryTypes, LockTypes, ThreadTypes, NetworkTypes
<1>6. CASE WorkerFinishStartup
  <2> USE <1>6 DEF WorkerFinishStartup
  <2>1. FlagTypes'
    <3>1. connected' = connected /\ ignoredJob' = ignoredJob OBVIOUS
    <3>2. jobsClientReady' \in BOOLEAN BY DEF FlagTypes
    <3>3. subscriptionsNeedRecovery' \in BOOLEAN BY DEF FlagTypes
    <3>4. connectionRecoveryFailed' \in BOOLEAN BY DEF FlagTypes, BeginGeneration
    <3> QED BY <3>1, <3>2, <3>3, <3>4 DEF FlagTypes
  <2>2. RecoveryTypes'
    <3>1. BeginGeneration(SubscriptionCount) \/ UNCHANGED <<connectionRecoveryGeneration,
             pendingRecoverySubscriptions, completedRecoverySubscriptions>> OBVIOUS
    <3>2. SubscriptionCount \in 0 .. SubscriptionCount OBVIOUS
    <3>3. CASE BeginGeneration(SubscriptionCount) BY <3>2, <3>3, BeginGenerationTypes
    <3>4. CASE UNCHANGED <<connectionRecoveryGeneration, pendingRecoverySubscriptions,
                           completedRecoverySubscriptions>>
      BY <3>4 DEF RecoveryTypes
    <3> QED BY <3>1, <3>3, <3>4
  <2>3. LockTypes'
    <3>1. \/ UNCHANGED lockVars
          \/ Lock("worker", "poll", 0)
          \/ Lock("worker", "resubscribe", connectionRecoveryGeneration')
      OBVIOUS
    <3>2. CASE UNCHANGED lockVars BY <3>2 DEF LockTypes
    <3>3. connectionRecoveryGeneration' \in Generations BY <2>2 DEF RecoveryTypes
    <3> QED BY <3>1, <3>2, <3>3, LockingTypes
  <2>4. ThreadTypes' BY DEF ThreadTypes
  <2>5. NetworkTypes' BY DEF NetworkTypes
  <2> QED BY <2>1, <2>2, <2>3, <2>4, <2>5
<1> QED BY <1>1, <1>2, <1>3, <1>4, <1>5, <1>6 DEF WorkerStep

\* The steps of the lock's holder keep the types.
LEMMA LockedTypes == ASSUME TypeOK, LockInv, LockedStep PROVE TypeOK'
<1> USE ConstantsAssumption DEF ConstantsAssumption, TypeOK
<1>1. CASE LockedPoll
  <2> USE <1>1, UnlockTypes DEF LockedPoll, publishStartNextPendingJobExecutionRequest
  <2>1. FlagTypes' BY DEF FlagTypes
  <2>2. RecoveryTypes' BY DEF RecoveryTypes
  <2>3. LockTypes' BY DEF LockTypes
  <2>4. ThreadTypes' BY DEF ThreadTypes
  <2>5. NetworkTypes' BY DEF NetworkTypes
  <2> QED BY <2>1, <2>2, <2>3, <2>4, <2>5
<1>2. ASSUME AfterLockedSubscribe, lockTask \in {"resubscribe", "requestRetry"} PROVE LockTypes'
  BY <1>2, UnlockTypes DEF AfterLockedSubscribe, LockTypes, LockInv
<1>3. ASSUME lockTask \in {"resubscribe", "requestRetry"} PROVE lockNext \in Subscriptions
  BY <1>3 DEF LockTypes, LockInv
<1>4. CASE LockedSubscriptionQueued
  <2> USE <1>4 DEF LockedSubscriptionQueued
  <2>1. FlagTypes' BY DEF FlagTypes
  <2>2. RecoveryTypes' BY DEF RecoveryTypes
  <2>3. LockTypes' BY <1>2
  <2>4. ThreadTypes' BY UnlockTypes DEF ThreadTypes, AfterLockedSubscribe
  <2>5. NetworkTypes' BY <1>3 DEF NetworkTypes, LockTypes
  <2> QED BY <2>1, <2>2, <2>3, <2>4, <2>5
<1>5. CASE LockedSubscriptionRefused
  <2> USE <1>5 DEF LockedSubscriptionRefused
  <2>1. FlagTypes' /\ RecoveryTypes' /\ polls' \in Nat BY <1>3, CompletionTypes
  <2>2. LockTypes'
    <3>1. CASE CompletionRequestsRetry(lockGeneration, lockNext, FALSE) BY <3>1 DEF LockTypes
    <3>2. CASE AfterLockedSubscribe BY <3>2, <1>2
    <3> QED BY <3>1, <3>2
  <2>3. ThreadTypes' BY UnlockTypes DEF ThreadTypes, AfterLockedSubscribe
  <2>4. NetworkTypes' BY <2>1 DEF NetworkTypes
  <2> QED BY <2>1, <2>2, <2>3, <2>4
<1>6. CASE LockedRequestRetry
  <2> USE <1>6 DEF LockedRequestRetry
  <2>1. FlagTypes' BY DEF FlagTypes
  <2>2. RecoveryTypes' BY DEF RecoveryTypes
  <2>3. LockTypes'
    <3>1. CASE Unlock BY <3>1, <1>3, UnlockTypes DEF LockTypes
    <3>2. CASE ~Unlock BY <3>2, <1>3 DEF LockTypes
    <3> QED BY <3>1, <3>2
  <2>4. ThreadTypes'
    BY UnlockTypes DEF ThreadTypes, LockTypes, requestSubscriptionRecoveryRetry
  <2>5. NetworkTypes' BY DEF NetworkTypes
  <2> QED BY <2>1, <2>2, <2>3, <2>4, <2>5
<1> QED BY <1>1, <1>4, <1>5, <1>6 DEF LockedStep

\* The event loop's steps keep the types.
LEMMA LoopTypes == ASSUME TypeOK, LoopStep PROVE TypeOK'
<1> USE ConstantsAssumption DEF ConstantsAssumption, TypeOK
<1>1. ASSUME NEW s \in Subscriptions, NEW ok \in BOOLEAN, StartupAck(s, ok) PROVE TypeOK'
  <2> USE <1>1, AcknowledgeTypes DEF StartupAck
  <2>1. FlagTypes' BY DEF FlagTypes
  <2>2. RecoveryTypes' BY DEF RecoveryTypes
  <2>3. LockTypes' BY DEF LockTypes
  <2>4. ThreadTypes' BY DEF ThreadTypes
  <2>5. NetworkTypes' BY DEF NetworkTypes
  <2> QED BY <2>1, <2>2, <2>3, <2>4, <2>5
<1>2. ASSUME NEW m \in inflight, NEW ok \in BOOLEAN, NEW again \in BOOLEAN,
             RecoveryAck(m[1], m[2], ok, again)
      PROVE  TypeOK'
  <2> USE <1>2 DEF RecoveryAck
  <2>1. m[1] \in Generations /\ m[2] \in Subscriptions BY DEF NetworkTypes
  <2>2. FlagTypes' /\ RecoveryTypes' /\ polls' \in Nat
    BY <2>1, AcknowledgeTypes, CompletionTypes
  <2>3. LockTypes' BY DEF LockTypes
  <2>4. ThreadTypes' BY <2>1 DEF ThreadTypes
  <2>5. NetworkTypes'
    <3>1. inflight' \in SUBSET (Generations \X Subscriptions) BY DEF NetworkTypes
    <3>2. duplicates' \in 0 .. MaxDuplicates BY DEF NetworkTypes
    <3> QED BY <2>1, <2>2, <3>1, <3>2, AcknowledgeTypes DEF NetworkTypes
  <2> QED BY <2>2, <2>3, <2>4, <2>5
<1>3. CASE LoopRequestRetry
  BY <1>3 DEF LoopRequestRetry, requestSubscriptionRecoveryRetry, FlagTypes, RecoveryTypes, LockTypes,
              ThreadTypes, NetworkTypes
<1>4. CASE ConnectionLost
  <2> USE <1>4 DEF ConnectionLost
  <2>1. FlagTypes' BY DEF FlagTypes
  <2>2. outages' \in 0 .. MaxOutages BY DEF NetworkTypes
  <2>3. RecoveryTypes' /\ LockTypes' /\ ThreadTypes' BY DEF RecoveryTypes, LockTypes, ThreadTypes
  <2>4. NetworkTypes' BY <2>2 DEF NetworkTypes
  <2> QED BY <2>1, <2>3, <2>4
<1>5. ASSUME NEW present \in BOOLEAN, ConnectionResumes(present) PROVE TypeOK'
  <2> USE <1>5 DEF ConnectionResumes
  <2>1. FlagTypes' BY DEF FlagTypes
  <2>2. RecoveryTypes' /\ LockTypes' BY DEF RecoveryTypes, LockTypes
  <2>3. ThreadTypes' BY DEF ThreadTypes
  <2>4. NetworkTypes' BY DEF NetworkTypes
  <2> QED BY <2>1, <2>2, <2>3, <2>4
<1>6. CASE onConnectionResumed
  <2> USE <1>6 DEF onConnectionResumed
  <2> DEFINE expected == IF RecoverOnResume THEN SubscriptionCount ELSE 0
  <2>1. CASE needStop \/ ~jobsClientReady
    <3> USE <2>1
    <3>1. FlagTypes' BY DEF FlagTypes, RecoverOnResume
    <3>2. RecoveryTypes' /\ LockTypes' BY DEF RecoveryTypes, LockTypes
    <3>3. ThreadTypes' BY DEF ThreadTypes
    <3>4. NetworkTypes' BY DEF NetworkTypes
    <3> QED BY <3>1, <3>2, <3>3, <3>4
  <2>2. CASE ~needStop /\ jobsClientReady
    <3> USE <2>2
    <3>1. FlagTypes' BY DEF FlagTypes, RecoverOnResume, BeginGeneration
    <3>2. RecoveryTypes'
      <4>1. expected \in 0 .. SubscriptionCount OBVIOUS
      <4>2. BeginGeneration(expected) OBVIOUS
      <4> QED BY <4>1, <4>2, BeginGenerationTypes
    <3>3. LockTypes' BY <3>2, LockingTypes DEF RecoveryTypes
    <3>4. ThreadTypes' BY DEF ThreadTypes
    <3>5. NetworkTypes' BY DEF NetworkTypes
    <3> QED BY <3>1, <3>2, <3>3, <3>4, <3>5
  <2> QED BY <2>1, <2>2
<1>7. CASE JobMessage
  <2> USE <1>7 DEF JobMessage
  <2>1. FlagTypes' BY DEF FlagTypes
  <2>2. RecoveryTypes' /\ LockTypes' BY DEF RecoveryTypes, LockTypes
  <2>3. ThreadTypes' BY DEF ThreadTypes
  <2>4. NetworkTypes' BY DEF NetworkTypes
  <2> QED BY <2>1, <2>2, <2>3, <2>4
<1>8. CASE handleJob
  BY <1>8 DEF handleJob, FlagTypes, RecoveryTypes, LockTypes, ThreadTypes, NetworkTypes
<1> QED BY <1>1, <1>2, <1>3, <1>4, <1>5, <1>6, <1>7, <1>8 DEF LoopStep

\* The steps of main and of the retry threads keep the types.
LEMMA MainTypes ==
    ASSUME TypeOK, \/ start \/ launchJobsThread \/ StopSetFlag \/ StopTeardown \/ joinJobsThread
                   \/ \E g \in retryTimers : retrySubscriptionRecovery(g)
    PROVE  TypeOK'
<1> USE ConstantsAssumption DEF ConstantsAssumption, TypeOK
<1>1. CASE start
  BY <1>1 DEF start, FlagTypes, RecoveryTypes, LockTypes, ThreadTypes, NetworkTypes
<1>2. CASE launchJobsThread
  BY <1>2 DEF launchJobsThread, FlagTypes, RecoveryTypes, LockTypes, ThreadTypes, NetworkTypes
<1>3. CASE StopSetFlag
  BY <1>3 DEF StopSetFlag, FlagTypes, RecoveryTypes, LockTypes, ThreadTypes, NetworkTypes
<1>4. CASE StopTeardown
  <2> USE <1>4 DEF StopTeardown
  <2>1. FlagTypes' BY DEF FlagTypes, BeginGeneration
  <2>2. RecoveryTypes' BY BeginGenerationTypes
  <2>3. LockTypes' BY DEF LockTypes
  <2>4. ThreadTypes' BY DEF ThreadTypes, cancelStartupSubscriptionWaits
  <2>5. NetworkTypes' BY DEF NetworkTypes
  <2> QED BY <2>1, <2>2, <2>3, <2>4, <2>5
<1>5. CASE joinJobsThread
  BY <1>5 DEF joinJobsThread, FlagTypes, RecoveryTypes, LockTypes, ThreadTypes, NetworkTypes
<1>6. ASSUME NEW g \in retryTimers, retrySubscriptionRecovery(g) PROVE TypeOK'
  <2> USE <1>6 DEF retrySubscriptionRecovery
  <2>1. FlagTypes' BY DEF FlagTypes, BeginGeneration
  <2>2. RecoveryTypes'
    <3>1. CASE RetryStillNeeded(g)
      <4>1. SubscriptionCount \in 0 .. SubscriptionCount OBVIOUS
      <4> QED BY <3>1, <4>1, BeginGenerationTypes
    <3>2. CASE ~RetryStillNeeded(g) BY <3>2 DEF RecoveryTypes
    <3> QED BY <3>1, <3>2
  <2>3. LockTypes'
    <3>1. CASE RetryStillNeeded(g)
      <4>1. connectionRecoveryGeneration' \in Generations BY <2>2 DEF RecoveryTypes
      <4> QED BY <3>1, <4>1, LockingTypes
    <3>2. CASE ~RetryStillNeeded(g) BY <3>2 DEF LockTypes
    <3> QED BY <3>1, <3>2
  <2>4. ThreadTypes' BY DEF ThreadTypes
  <2>5. NetworkTypes' BY DEF NetworkTypes
  <2> QED BY <2>1, <2>2, <2>3, <2>4, <2>5
<1> QED BY <1>1, <1>2, <1>3, <1>4, <1>5, <1>6

\* Every step keeps the types.
LEMMA TypeStep == ASSUME TypeOK, LockInv, ThreadInv, [Next]_vars PROVE TypeOK'
<1>1. CASE UNCHANGED vars
  BY <1>1 DEF vars, TypeOK, FlagTypes, RecoveryTypes, LockTypes, ThreadTypes, NetworkTypes
<1> QED BY <1>1, MainTypes, WorkerTypes, LockedTypes, LoopTypes DEF Next, Stopped
-----------------------------------------------------------------------------
(***************************************************************************)
(* The lock and the threads.                                               *)
(***************************************************************************)

\* LockInv is preserved.
LEMMA LockStep == ASSUME TypeOK, LockInv, ThreadInv, PendingInv, [Next]_vars PROVE LockInv'
<1> USE DEF LockInv
<1>1. ASSUME UNCHANGED <<lockVars, jobsClientReady, subscriptionsNeedRecovery,
                         connectionRecoveryGeneration, pendingRecoverySubscriptions, stopPc>>,
             (workerPc = "locked") = (workerPc' = "locked"),
             (loopPc = "locked") = (loopPc' = "locked")
      PROVE  LockInv'
  BY <1>1
<1>a. ASSUME lockTask # "none", Unlock, lockNext' = lockNext + 1, UNCHANGED <<jobsClientReady, stopPc>>
      PROVE  LockInv'
  BY <1>a DEF Unlock
<1>b. ASSUME lockTask \in {"resubscribe", "requestRetry"}, lockNext # SubscriptionCount
       PROVE  lockNext + 1 <= SubscriptionCount
  BY <1>b, ConstantsAssumption DEF ConstantsAssumption, TypeOK, LockTypes
<1>2. CASE start \/ StopSetFlag \/ joinJobsThread \/ launchJobsThread
  BY <1>2 DEF start, StopSetFlag, joinJobsThread, launchJobsThread, ThreadInv
<1>3. CASE StopTeardown
  BY <1>3 DEF StopTeardown, LifecycleLockIsFree, BeginGeneration
<1>4. CASE WorkerCreateClient \/ WorkerWaitEnds \/ WorkerWaitTimesOut
  BY <1>4, <1>1 DEF WorkerCreateClient, WorkerWaitEnds, WorkerWaitTimesOut
<1>5. CASE WorkerQueueSubscription
  BY <1>5, <1>1 DEF WorkerQueueSubscription, WorkerSubscribed
<1>6. CASE WorkerSubscriptionRefused
  BY <1>6, <1>1 DEF WorkerSubscriptionRefused, WorkerSubscribed
<1>7. CASE WorkerFinishStartup
  <2> USE <1>7 DEF WorkerFinishStartup, LifecycleLockIsFree
  <2>1. CASE needStop BY <2>1
  <2>2. CASE ~needStop
    <3>1. stopPc' = "running" /\ jobsClientReady' /\ workerPc' = "locked" /\ loopPc' # "locked"
      BY <2>2
    <3>2. CASE Lock("worker", "poll", 0)
      <4>1. ~subscriptionsNeedRecovery' BY <2>2, <3>2 DEF Lock
      <4> QED BY <3>1, <3>2, <4>1 DEF Lock
    <3>3. CASE Lock("worker", "resubscribe", connectionRecoveryGeneration')
      BY <3>1, <3>3, ConstantsAssumption DEF ConstantsAssumption, Lock
    <3> QED BY <2>2, <3>2, <3>3
  <2> QED BY <2>1, <2>2
<1>8. CASE LockedPoll
  BY <1>8 DEF LockedPoll, Unlock
<1>9. CASE LockedSubscriptionQueued
  <2> USE <1>9 DEF LockedSubscriptionQueued, AfterLockedSubscribe
  <2>1. CASE lockNext = SubscriptionCount BY <2>1, <1>a
  <2>2. CASE lockNext # SubscriptionCount BY <2>2, <1>b
  <2> QED BY <2>1, <2>2
<1>10. CASE LockedSubscriptionRefused
  <2> USE <1>10 DEF LockedSubscriptionRefused
  <2>1. UNCHANGED <<jobsClientReady, connectionRecoveryGeneration, stopPc>>
    BY DEF completeRecoverySubscription
  <2>2. CASE CompletionRequestsRetry(lockGeneration, lockNext, FALSE)
    <3>1. pendingRecoverySubscriptions' = 0
      BY <2>2 DEF CompletionRequestsRetry, completeRecoverySubscription
    <3> QED BY <2>1, <2>2, <3>1
  <2>3. CASE AfterLockedSubscribe /\ lockNext = SubscriptionCount
    BY <2>1, <2>3, <1>a DEF AfterLockedSubscribe
  <2>4. CASE AfterLockedSubscribe /\ lockNext # SubscriptionCount
    BY <2>1, <2>4, <1>b DEF AfterLockedSubscribe
  <2> QED BY <2>2, <2>3, <2>4
<1>11. CASE LockedRequestRetry
  <2> USE <1>11 DEF LockedRequestRetry
  <2>1. CASE lockNext = SubscriptionCount BY <2>1, <1>a
  <2>2. CASE lockNext # SubscriptionCount BY <2>2, <1>b
  <2> QED BY <2>1, <2>2
<1>12. ASSUME NEW g \in retryTimers, retrySubscriptionRecovery(g) PROVE LockInv'
  BY <1>12, ConstantsAssumption
  DEF ConstantsAssumption, retrySubscriptionRecovery, LifecycleLockIsFree, RetryStillNeeded, BeginGeneration, Lock, TypeOK, ThreadTypes
<1>13. ASSUME NEW s \in Subscriptions, NEW ok \in BOOLEAN, StartupAck(s, ok) PROVE LockInv'
  BY <1>13 DEF StartupAck
<1>14. ASSUME NEW m \in inflight, NEW ok \in BOOLEAN, NEW again \in BOOLEAN,
             RecoveryAck(m[1], m[2], ok, again)
       PROVE  LockInv'
  BY <1>14 DEF RecoveryAck, completeRecoverySubscription, CompletionCounts, SubscriptionsRestored
<1>15. CASE LoopRequestRetry \/ ConnectionLost \/ handleJob \/ JobMessage
  BY <1>15, <1>1 DEF LoopRequestRetry, ConnectionLost, handleJob, JobMessage
<1>16. ASSUME NEW present \in BOOLEAN, ConnectionResumes(present) PROVE LockInv'
  BY <1>16, <1>1 DEF ConnectionResumes
<1>17. CASE onConnectionResumed
  <2> USE <1>17 DEF onConnectionResumed, LifecycleLockIsFree
  <2>1. CASE needStop \/ ~jobsClientReady BY <2>1
  <2>2. CASE ~needStop /\ jobsClientReady
    <3>1. stopPc' = "running" /\ jobsClientReady' /\ workerPc' # "locked" /\ loopPc' = "locked"
      BY <2>2 DEF TypeOK, ThreadTypes
    <3>2. CASE RecoverOnResume
      BY <2>2, <3>1, <3>2, ConstantsAssumption DEF ConstantsAssumption, Lock
    <3>3. CASE ~RecoverOnResume BY <2>2, <3>1, <3>3 DEF Lock
    <3> QED BY <3>2, <3>3
  <2> QED BY <2>1, <2>2
<1>18. CASE UNCHANGED vars
  BY <1>18, <1>1 DEF vars
<1> QED BY <1>2, <1>3, <1>4, <1>5, <1>6, <1>7, <1>8, <1>9, <1>10, <1>11, <1>12, <1>13, <1>14,
           <1>15, <1>16, <1>17, <1>18 DEF Next, WorkerStep, LockedStep, LoopStep, Stopped

\* ThreadInv is preserved.
LEMMA ThreadStep == ASSUME TypeOK, LockInv, ThreadInv, [Next]_vars PROVE ThreadInv'
<1> USE DEF ThreadInv
<1>1. ASSUME UNCHANGED <<startPc, stopPc, workerVars, loopPc, jobsClientReady, subscriptionsNeedRecovery>>
      PROVE  ThreadInv'
  BY <1>1 DEF Serving
<1>2. CASE start BY <1>2 DEF start, Serving
<1>3. CASE launchJobsThread
  BY <1>3, ConstantsAssumption DEF ConstantsAssumption, launchJobsThread, Serving, TypeOK, ThreadTypes
<1>4. CASE StopSetFlag BY <1>4 DEF StopSetFlag
<1>5. CASE StopTeardown BY <1>5 DEF StopTeardown
<1>6. CASE joinJobsThread BY <1>6 DEF joinJobsThread, WorkerHasEnded
<1>7. CASE WorkerCreateClient \/ WorkerWaitEnds \/ WorkerWaitTimesOut
  <2> USE DEF WorkerCreateClient, WorkerWaitEnds, WorkerWaitTimesOut
  <2>1. workerPc \in {"create", "wait"} /\ workerPc' \in {"done", "subscribe", "finish", "finishLate"}
    BY <1>7
  <2>2. UNCHANGED <<startPc, stopPc, loopPc, jobsClientReady, subscriptionsNeedRecovery>> BY <1>7
  <2>3. workerPc' = "subscribe" => workerNext' <= SubscriptionCount
    BY <1>7, <2>1, ConstantsAssumption DEF ConstantsAssumption
  <2> QED BY <2>1, <2>2, <2>3 DEF Serving
<1>8. CASE WorkerQueueSubscription
  BY <1>8, WorkerSubscribedTypes DEF WorkerQueueSubscription, Serving
<1>9. CASE WorkerSubscriptionRefused
  BY <1>9, WorkerSubscribedTypes DEF WorkerSubscriptionRefused, Serving
<1>10. CASE WorkerFinishStartup BY <1>10 DEF WorkerFinishStartup, Serving
<1>11. CASE LockedPoll BY <1>11 DEF LockedPoll, Unlock, LockInv, Serving
<1>12. CASE LockedSubscriptionQueued
  BY <1>12 DEF LockedSubscriptionQueued, AfterLockedSubscribe, Unlock, LockInv, Serving
<1>13. CASE LockedSubscriptionRefused
  <2> USE DEF LockedSubscriptionRefused
  <2>1. UNCHANGED jobsClientReady /\ (Serving => Serving')
    BY <1>13 DEF completeRecoverySubscription, SubscriptionsRestored, Serving
  <2>2. UNCHANGED <<mainVars, workerNext>> BY <1>13 DEF AfterLockedSubscribe, Unlock
  <2>3. (workerPc' = workerPc \/ (lockHolder = "worker" /\ workerPc' = "done"))
          /\ loopPc' \in {loopPc, "idle"}
    BY <1>13 DEF AfterLockedSubscribe, Unlock
  <2> QED BY <2>1, <2>2, <2>3 DEF LockInv
<1>14. CASE LockedRequestRetry
  BY <1>14 DEF LockedRequestRetry, Unlock, LockInv, Serving
<1>15. ASSUME NEW g \in retryTimers, retrySubscriptionRecovery(g) PROVE ThreadInv'
  BY <1>1, <1>15 DEF retrySubscriptionRecovery
<1>16. ASSUME NEW s \in Subscriptions, NEW ok \in BOOLEAN, StartupAck(s, ok) PROVE ThreadInv'
  BY <1>1, <1>16 DEF StartupAck
<1>17. ASSUME NEW m \in inflight, NEW ok \in BOOLEAN, NEW again \in BOOLEAN,
              RecoveryAck(m[1], m[2], ok, again)
       PROVE  ThreadInv'
  BY <1>17 DEF RecoveryAck, completeRecoverySubscription, SubscriptionsRestored
<1>18. CASE LoopRequestRetry \/ ConnectionLost \/ handleJob
  BY <1>18 DEF LoopRequestRetry, ConnectionLost, handleJob, Serving
<1>19. ASSUME NEW present \in BOOLEAN, ConnectionResumes(present) PROVE ThreadInv'
  BY <1>19 DEF ConnectionResumes
<1>20. CASE onConnectionResumed BY <1>20 DEF onConnectionResumed
<1>21. CASE JobMessage BY <1>21 DEF JobMessage, jobsSubscriptionsReady, Serving
<1>22. CASE UNCHANGED vars BY <1>1, <1>22 DEF vars
<1> QED BY <1>2, <1>3, <1>4, <1>5, <1>6, <1>7, <1>8, <1>9, <1>10, <1>11, <1>12, <1>13, <1>14, <1>15,
           <1>16, <1>17, <1>18, <1>19, <1>20, <1>21, <1>22
        DEF Next, WorkerStep, LockedStep, LoopStep, Stopped
-----------------------------------------------------------------------------
(***************************************************************************)
(* The accounting of a recovery.                                           *)
(***************************************************************************)

\* The mask of completed subscriptions is a finite set.
LEMMA FiniteCompleted == ASSUME TypeOK PROVE IsFiniteSet(completedRecoverySubscriptions)
<1>1. IsFiniteSet(1 .. SubscriptionCount) BY FS_Interval, ConstantsAssumption DEF ConstantsAssumption
<1>2. completedRecoverySubscriptions \subseteq 1 .. SubscriptionCount BY DEF TypeOK, RecoveryTypes
<1> QED BY <1>1, <1>2, FS_Subset

\* One more completed subscription and one less pending leave the sum as it is.
LEMMA CompletionAccounting ==
    ASSUME TypeOK, PendingInv, NEW g, NEW s \in Subscriptions, NEW ok \in BOOLEAN,
           completeRecoverySubscription(g, s, ok)
    PROVE  PendingInv'
<1> USE DEF completeRecoverySubscription, PendingInv
<1>1. CASE ~CompletionCounts(g, s) BY <1>1
<1>2. CASE CompletionCounts(g, s)
  <2>1. IsFiniteSet(completedRecoverySubscriptions) BY FiniteCompleted
  <2>2. Cardinality(completedRecoverySubscriptions \union {s})
          = Cardinality(completedRecoverySubscriptions) + 1
    BY <1>2, <2>1, FS_AddElement DEF CompletionCounts
  <2>3. Cardinality(completedRecoverySubscriptions) \in Nat BY <2>1, FS_CardinalityType
  <2>4. pendingRecoverySubscriptions' + Cardinality(completedRecoverySubscriptions') = SubscriptionCount
    <3>1. pendingRecoverySubscriptions + Cardinality(completedRecoverySubscriptions) = SubscriptionCount
      BY <1>2 DEF CompletionCounts
    <3>2. pendingRecoverySubscriptions' = pendingRecoverySubscriptions - 1
      BY <1>2
    <3>3. completedRecoverySubscriptions' = completedRecoverySubscriptions \union {s} BY <1>2
    <3>4. pendingRecoverySubscriptions \in Int /\ SubscriptionCount \in Int
      BY ConstantsAssumption DEF ConstantsAssumption, TypeOK, RecoveryTypes
    <3> HIDE DEF PendingInv, completeRecoverySubscription
    <3> QED BY <2>2, <2>3, <3>1, <3>2, <3>3, <3>4
  <2>5. pendingRecoverySubscriptions' # 0 =>
            jobsClientReady' /\ subscriptionsNeedRecovery' /\ connectionRecoveryGeneration' # 0
    BY <1>2 DEF CompletionCounts
  <2> QED BY <2>4, <2>5
<1> QED BY <1>1, <1>2

\* A generation that begins has no outcome yet and expects none or all of them.
LEMMA BeginningAccounting ==
    ASSUME TypeOK, NEW n \in {0, SubscriptionCount}, BeginGeneration(n),
           n # 0 => jobsClientReady' /\ subscriptionsNeedRecovery'
    PROVE  PendingInv'
<1>1. connectionRecoveryGeneration' # 0 BY DEF BeginGeneration, TypeOK, RecoveryTypes
<1> QED BY <1>1, FS_EmptySet, ConstantsAssumption DEF BeginGeneration, PendingInv, ConstantsAssumption

\* PendingInv is preserved.
LEMMA PendingStep == ASSUME TypeOK, LockInv, PendingInv, [Next]_vars PROVE PendingInv'
<1>1. ASSUME UNCHANGED <<jobsClientReady, subscriptionsNeedRecovery, pendingRecoverySubscriptions,
                         completedRecoverySubscriptions, connectionRecoveryGeneration>>
      PROVE  PendingInv'
  BY <1>1 DEF PendingInv
<1>2. CASE start \/ launchJobsThread \/ StopSetFlag \/ joinJobsThread
  BY <1>1, <1>2 DEF start, launchJobsThread, StopSetFlag, joinJobsThread
<1>3. CASE StopTeardown BY <1>3, BeginningAccounting DEF StopTeardown
<1>4. CASE WorkerCreateClient \/ WorkerQueueSubscription \/ WorkerSubscriptionRefused
           \/ WorkerWaitEnds \/ WorkerWaitTimesOut
  BY <1>1, <1>4 DEF WorkerCreateClient, WorkerQueueSubscription, WorkerSubscriptionRefused,
                    WorkerWaitEnds, WorkerWaitTimesOut
<1>5. CASE WorkerFinishStartup
  <2> USE <1>5 DEF WorkerFinishStartup
  <2>1. CASE needStop BY <1>1, <2>1
  <2>2. CASE ~needStop /\ BeginGeneration(SubscriptionCount) /\ subscriptionsNeedRecovery'
    BY <2>2, BeginningAccounting
  <2>3. CASE ~needStop /\ ~subscriptionsNeedRecovery' BY <2>3 DEF PendingInv
  <2> QED BY <2>1, <2>2, <2>3
<1>6. CASE LockedPoll \/ LockedSubscriptionQueued \/ LockedRequestRetry
  BY <1>1, <1>6 DEF LockedPoll, LockedSubscriptionQueued, LockedRequestRetry
<1>7. CASE LockedSubscriptionRefused
  <2>1. lockNext \in Subscriptions BY <1>7 DEF LockedSubscriptionRefused, LockInv, TypeOK, LockTypes
  <2> QED BY <1>7, <2>1, CompletionAccounting DEF LockedSubscriptionRefused
<1>8. ASSUME NEW g \in retryTimers, retrySubscriptionRecovery(g) PROVE PendingInv'
  BY <1>1, <1>8, BeginningAccounting DEF retrySubscriptionRecovery, RetryStillNeeded
<1>9. ASSUME NEW s \in Subscriptions, NEW ok \in BOOLEAN, StartupAck(s, ok) PROVE PendingInv'
  BY <1>1, <1>9 DEF StartupAck
<1>10. ASSUME NEW m \in inflight, NEW ok \in BOOLEAN, NEW again \in BOOLEAN,
              RecoveryAck(m[1], m[2], ok, again)
       PROVE  PendingInv'
  <2>1. m[2] \in Subscriptions BY DEF TypeOK, NetworkTypes
  <2> QED BY <1>10, <2>1, CompletionAccounting DEF RecoveryAck
<1>11. CASE LoopRequestRetry \/ ConnectionLost \/ JobMessage \/ handleJob
  BY <1>1, <1>11 DEF LoopRequestRetry, ConnectionLost, JobMessage, handleJob
<1>12. ASSUME NEW present \in BOOLEAN, ConnectionResumes(present) PROVE PendingInv'
  BY <1>1, <1>12 DEF ConnectionResumes
<1>13. CASE onConnectionResumed
  <2> USE <1>13 DEF onConnectionResumed
  <2>1. CASE needStop BY <1>1, <2>1
  <2>2. CASE ~needStop /\ ~jobsClientReady BY <2>2 DEF PendingInv
  <2>3. CASE ~needStop /\ jobsClientReady BY <2>3, BeginningAccounting
  <2> QED BY <2>1, <2>2, <2>3
<1>14. CASE UNCHANGED vars BY <1>1, <1>14 DEF vars
<1> QED BY <1>2, <1>3, <1>4, <1>5, <1>6, <1>7, <1>8, <1>9, <1>10, <1>11, <1>12, <1>13, <1>14
        DEF Next, WorkerStep, LockedStep, LoopStep, Stopped

\* The second half of NoCompletionIsLost: every outcome that is expected is on its way.
OutcomesAreOnTheirWay ==
    (pendingRecoverySubscriptions # 0 /\ ~needStop) =>
        \A s \in Subscriptions \ completedRecoverySubscriptions :
            \/ <<connectionRecoveryGeneration, s>> \in inflight
            \/ lockTask = "resubscribe" /\ lockNext <= s

\* A generation that begins is still to be queued by the new holder of the lock.
LEMMA BeginningOutcomes ==
    ASSUME NEW n, BeginGeneration(n),
           \/ n = 0
           \/ \E h \in {"worker", "loop", "retry"}, g \in Nat : Lock(h, "resubscribe", g)
    PROVE  OutcomesAreOnTheirWay'
BY ConstantsAssumption DEF ConstantsAssumption, BeginGeneration, Lock, OutcomesAreOnTheirWay

\* OutcomesAreOnTheirWay is preserved.
LEMMA OutcomesStep ==
    ASSUME TypeOK, LockInv, ThreadInv, PendingInv, OutcomesAreOnTheirWay, [Next]_vars
    PROVE  OutcomesAreOnTheirWay'
<1>1. ASSUME UNCHANGED <<connectionRecoveryGeneration, pendingRecoverySubscriptions,
                         completedRecoverySubscriptions, lockTask, lockNext>>,
             inflight \subseteq inflight', needStop => needStop'
      PROVE  OutcomesAreOnTheirWay'
  BY <1>1 DEF OutcomesAreOnTheirWay
<1>2. CASE start \/ launchJobsThread \/ StopSetFlag \/ joinJobsThread
  BY <1>1, <1>2 DEF start, launchJobsThread, StopSetFlag, joinJobsThread
<1>3. CASE StopTeardown BY <1>3 DEF StopTeardown, OutcomesAreOnTheirWay
<1>4. CASE WorkerCreateClient \/ WorkerQueueSubscription \/ WorkerSubscriptionRefused
           \/ WorkerWaitEnds \/ WorkerWaitTimesOut
  BY <1>1, <1>4 DEF WorkerCreateClient, WorkerQueueSubscription, WorkerSubscriptionRefused,
                    WorkerWaitEnds, WorkerWaitTimesOut
<1>5. CASE WorkerFinishStartup
  <2> USE <1>5 DEF WorkerFinishStartup
  <2>1. CASE needStop BY <1>1, <2>1
  <2>2. CASE ~needStop /\ BeginGeneration(SubscriptionCount)
                /\ Lock("worker", "resubscribe", connectionRecoveryGeneration')
    <3>1. connectionRecoveryGeneration' \in Nat BY <2>2 DEF BeginGeneration, TypeOK, RecoveryTypes
    <3> QED BY <2>2, <3>1, BeginningOutcomes
  <2>3. CASE ~needStop /\ UNCHANGED pendingRecoverySubscriptions
    BY <2>3 DEF ThreadInv, PendingInv, OutcomesAreOnTheirWay
  <2> QED BY <2>1, <2>2, <2>3
<1>6. CASE LockedPoll
  BY <1>6 DEF LockedPoll, OutcomesAreOnTheirWay
<1>7. lockTask \in {"resubscribe", "requestRetry"} =>
         /\ lockNext \in Subscriptions
         /\ lockGeneration = connectionRecoveryGeneration
  BY DEF LockInv, TypeOK, LockTypes
<1>8. ASSUME AfterLockedSubscribe, lockTask = "resubscribe", NEW s \in Subscriptions, lockNext < s
      PROVE  lockTask' = "resubscribe" /\ lockNext' <= s
  BY <1>7, <1>8, ConstantsAssumption DEF AfterLockedSubscribe, ConstantsAssumption
<1>9. CASE LockedSubscriptionQueued
  <2> USE <1>9 DEF LockedSubscriptionQueued
  <2> SUFFICES ASSUME pendingRecoverySubscriptions # 0, ~needStop,
                      NEW s \in Subscriptions \ completedRecoverySubscriptions
               PROVE  \/ <<connectionRecoveryGeneration, s>> \in inflight'
                      \/ lockTask' = "resubscribe" /\ lockNext' <= s
    BY DEF OutcomesAreOnTheirWay
  <2>1. CASE <<connectionRecoveryGeneration, s>> \in inflight BY <2>1
  <2>2. CASE lockNext = s BY <2>2, <1>7
  <2>3. CASE lockNext < s BY <2>3, <1>8
  <2> QED BY <1>7, <2>1, <2>2, <2>3 DEF OutcomesAreOnTheirWay
<1>10. CASE LockedSubscriptionRefused
  <2> USE <1>10 DEF LockedSubscriptionRefused
  <2> SUFFICES ASSUME pendingRecoverySubscriptions' # 0, ~needStop,
                      NEW s \in Subscriptions \ completedRecoverySubscriptions'
               PROVE  \/ <<connectionRecoveryGeneration, s>> \in inflight
                      \/ lockTask' = "resubscribe" /\ lockNext' <= s
    BY DEF OutcomesAreOnTheirWay, completeRecoverySubscription
  <2>1. pendingRecoverySubscriptions # 0 /\ s \notin completedRecoverySubscriptions /\ s # lockNext
    BY <1>7 DEF completeRecoverySubscription, CompletionCounts, PendingInv
  <2>2. ~CompletionRequestsRetry(lockGeneration, lockNext, FALSE)
    BY DEF CompletionRequestsRetry, completeRecoverySubscription
  <2>3. CASE <<connectionRecoveryGeneration, s>> \in inflight BY <2>3
  <2>4. CASE lockNext < s BY <1>8, <2>2, <2>4
  <2> QED BY <1>7, <2>1, <2>3, <2>4 DEF OutcomesAreOnTheirWay
<1>11. CASE LockedRequestRetry
  BY <1>11 DEF LockedRequestRetry, LockInv, OutcomesAreOnTheirWay
<1>12. ASSUME NEW g \in retryTimers, retrySubscriptionRecovery(g) PROVE OutcomesAreOnTheirWay'
  <2> USE <1>12 DEF retrySubscriptionRecovery
  <2>1. CASE RetryStillNeeded(g)
    <3>1. connectionRecoveryGeneration' \in Nat BY <2>1 DEF BeginGeneration, TypeOK, RecoveryTypes
    <3> QED BY <2>1, <3>1, BeginningOutcomes
  <2>2. CASE ~RetryStillNeeded(g) BY <1>1, <2>2
  <2> QED BY <2>1, <2>2
<1>13. ASSUME NEW s \in Subscriptions, NEW ok \in BOOLEAN, StartupAck(s, ok)
       PROVE  OutcomesAreOnTheirWay'
  BY <1>13 DEF StartupAck, OutcomesAreOnTheirWay, PendingInv
<1>14. ASSUME NEW m \in inflight, NEW ok \in BOOLEAN, NEW again \in BOOLEAN,
              RecoveryAck(m[1], m[2], ok, again)
       PROVE  OutcomesAreOnTheirWay'
  <2> USE <1>14 DEF RecoveryAck
  <2> SUFFICES ASSUME pendingRecoverySubscriptions' # 0, ~needStop,
                      NEW s \in Subscriptions \ completedRecoverySubscriptions'
               PROVE  \/ <<connectionRecoveryGeneration, s>> \in inflight'
                      \/ lockTask = "resubscribe" /\ lockNext <= s
    BY DEF OutcomesAreOnTheirWay, completeRecoverySubscription
  <2>1. pendingRecoverySubscriptions # 0 /\ s \notin completedRecoverySubscriptions
    BY DEF completeRecoverySubscription, CompletionCounts
  <2>2. <<m[1], m[2]>> # <<connectionRecoveryGeneration, s>>
    BY <2>1 DEF completeRecoverySubscription, CompletionCounts, PendingInv
  <2>3. <<connectionRecoveryGeneration, s>> \in inflight =>
            <<connectionRecoveryGeneration, s>> \in inflight'
    BY <2>2
  <2> QED BY <2>1, <2>3 DEF OutcomesAreOnTheirWay
<1>15. CASE LoopRequestRetry \/ ConnectionLost \/ JobMessage \/ handleJob
  BY <1>1, <1>15 DEF LoopRequestRetry, ConnectionLost, JobMessage, handleJob
<1>16. ASSUME NEW present \in BOOLEAN, ConnectionResumes(present) PROVE OutcomesAreOnTheirWay'
  BY <1>1, <1>16 DEF ConnectionResumes
<1>17. CASE onConnectionResumed
  <2> USE <1>17 DEF onConnectionResumed
  <2>1. CASE needStop \/ ~jobsClientReady BY <1>1, <2>1
  <2>2. CASE ~needStop /\ jobsClientReady
    <3>1. connectionRecoveryGeneration' \in Nat BY <2>2 DEF BeginGeneration, TypeOK, RecoveryTypes
    <3> QED BY <2>2, <3>1, BeginningOutcomes
  <2> QED BY <2>1, <2>2
<1>18. CASE UNCHANGED vars BY <1>1, <1>18 DEF vars
<1> QED BY <1>2, <1>3, <1>4, <1>5, <1>6, <1>9, <1>10, <1>11, <1>12, <1>13, <1>14, <1>15, <1>16,
           <1>17, <1>18 DEF Next, WorkerStep, LockedStep, LoopStep, Stopped
-----------------------------------------------------------------------------
(***************************************************************************)
(* No recovery is abandoned.                                               *)
(***************************************************************************)

\* A generation that expects outcomes is a recovery under way.
LEMMA BeginningIsARecovery ==
    ASSUME BeginGeneration(SubscriptionCount) PROVE RecoveryIsNeverAbandoned'
BY ConstantsAssumption DEF BeginGeneration, ConstantsAssumption, RecoveryIsNeverAbandoned

\* A completion ends the attempt in success, leaves outcomes to come, or asks for a retry.
LEMMA CompletionCases ==
    ASSUME TypeOK, NEW g, NEW s \in Subscriptions, NEW ok \in BOOLEAN,
           completeRecoverySubscription(g, s, ok)
    PROVE  \/ UNCHANGED recoveryVars /\ ~CompletionRequestsRetry(g, s, ok)
           \/ ~subscriptionsNeedRecovery'
           \/ pendingRecoverySubscriptions' # 0
           \/ CompletionRequestsRetry(g, s, ok) /\ g = connectionRecoveryGeneration'
<1> USE DEF completeRecoverySubscription, CompletionRequestsRetry
<1>1. CASE ~CompletionCounts(g, s) BY <1>1
<1>2. CASE CompletionCounts(g, s) /\ pendingRecoverySubscriptions' = 0 /\ ~connectionRecoveryFailed'
  BY <1>2 DEF SubscriptionsRestored
<1>3. CASE CompletionCounts(g, s) /\ pendingRecoverySubscriptions' = 0 /\ connectionRecoveryFailed'
  <2>1. pendingRecoverySubscriptions = 1 BY <1>3 DEF TypeOK, RecoveryTypes
  <2>2. connectionRecoveryFailed \/ ~ok BY <1>3
  <2>3. g = connectionRecoveryGeneration' BY <1>3 DEF CompletionCounts
  <2> QED BY <1>3, <2>1, <2>2, <2>3
<1> QED BY <1>1, <1>2, <1>3

\* RecoveryIsNeverAbandoned is preserved.
LEMMA AbandonedStep ==
    ASSUME TypeOK, LockInv, ThreadInv, PendingInv, RecoveryIsNeverAbandoned, [Next]_vars
    PROVE  RecoveryIsNeverAbandoned'
<1> USE DEF RecoveryIsNeverAbandoned
<1>1. ASSUME UNCHANGED <<recoveryVars, retryTimers>>, needStop => needStop',
             loopPc = "requestRetry" => UNCHANGED loopVars,
             lockTask = "requestRetry" => UNCHANGED <<lockTask, lockGeneration>>
      PROVE  RecoveryIsNeverAbandoned'
  BY <1>1
<1>2. CASE start \/ launchJobsThread \/ StopSetFlag \/ joinJobsThread
  BY <1>1, <1>2 DEF start, launchJobsThread, StopSetFlag, joinJobsThread
<1>3. CASE StopTeardown BY <1>3 DEF StopTeardown
<1>4. CASE WorkerCreateClient \/ WorkerQueueSubscription \/ WorkerSubscriptionRefused
           \/ WorkerWaitEnds \/ WorkerWaitTimesOut
  BY <1>1, <1>4 DEF WorkerCreateClient, WorkerQueueSubscription, WorkerSubscriptionRefused,
                    WorkerWaitEnds, WorkerWaitTimesOut
<1>5. CASE WorkerFinishStartup
  <2> USE <1>5 DEF WorkerFinishStartup
  <2>1. CASE needStop BY <1>1, <2>1
  <2>2. CASE BeginGeneration(SubscriptionCount) BY <2>2, BeginningIsARecovery
  <2>3. CASE ~needStop /\ ~subscriptionsNeedRecovery' BY <2>3
  <2> QED BY <2>1, <2>2, <2>3
<1>6. lockHolder = "loop" => loopPc = "locked" BY DEF LockInv
<1>7. CASE LockedPoll \/ LockedSubscriptionQueued
  <2>1. UNCHANGED <<recoveryVars, retryTimers, stopPc>> /\ lockTask # "requestRetry"
    BY <1>7 DEF LockedPoll, LockedSubscriptionQueued
  <2>2. loopPc = "requestRetry" => UNCHANGED loopVars
    BY <1>6, <1>7 DEF LockedPoll, LockedSubscriptionQueued, AfterLockedSubscribe, Unlock
  <2> QED BY <1>1, <2>1, <2>2
<1>8. lockTask \in {"resubscribe", "requestRetry"} =>
         lockNext \in Subscriptions /\ lockGeneration = connectionRecoveryGeneration
  BY DEF LockInv, TypeOK, LockTypes
<1>9. CASE LockedSubscriptionRefused
  <2> USE <1>9 DEF LockedSubscriptionRefused
  <2>1. CASE UNCHANGED recoveryVars /\ ~CompletionRequestsRetry(lockGeneration, lockNext, FALSE)
    BY <1>1, <1>6, <2>1 DEF AfterLockedSubscribe, Unlock
  <2>2. CASE ~subscriptionsNeedRecovery' \/ pendingRecoverySubscriptions' # 0 BY <2>2
  <2>3. CASE /\ CompletionRequestsRetry(lockGeneration, lockNext, FALSE)
             /\ lockGeneration = connectionRecoveryGeneration'
    BY <2>3
  <2> QED BY <1>8, <2>1, <2>2, <2>3, CompletionCases
<1>10. CASE LockedRequestRetry
  <2> USE <1>10 DEF LockedRequestRetry
  <2>1. UNCHANGED <<recoveryVars, stopPc>> OBVIOUS
  <2>2. RetryStillNeeded(lockGeneration) => connectionRecoveryGeneration \in retryTimers'
    BY <1>8 DEF requestSubscriptionRecoveryRetry
  <2> QED BY <1>8, <2>1, <2>2 DEF RetryStillNeeded, LockInv
<1>11. ASSUME NEW g \in retryTimers, retrySubscriptionRecovery(g) PROVE RecoveryIsNeverAbandoned'
  <2> USE <1>11 DEF retrySubscriptionRecovery
  <2>1. CASE RetryStillNeeded(g) BY <2>1, BeginningIsARecovery
  <2>2. CASE ~RetryStillNeeded(g) BY <2>2 DEF RetryStillNeeded
  <2> QED BY <2>1, <2>2
<1>12. ASSUME NEW s \in Subscriptions, NEW ok \in BOOLEAN, StartupAck(s, ok)
       PROVE  RecoveryIsNeverAbandoned'
  BY <1>1, <1>12 DEF StartupAck
<1>13. ASSUME NEW m \in inflight, NEW ok \in BOOLEAN, NEW again \in BOOLEAN,
              RecoveryAck(m[1], m[2], ok, again)
       PROVE  RecoveryIsNeverAbandoned'
  <2> USE <1>13 DEF RecoveryAck
  <2>0. m[2] \in Subscriptions BY DEF TypeOK, NetworkTypes
  <2>1. CASE UNCHANGED recoveryVars /\ ~CompletionRequestsRetry(m[1], m[2], ok)
    BY <1>1, <2>1
  <2>2. CASE ~subscriptionsNeedRecovery' \/ pendingRecoverySubscriptions' # 0 BY <2>2
  <2>3. CASE CompletionRequestsRetry(m[1], m[2], ok) /\ m[1] = connectionRecoveryGeneration'
    BY <2>3
  <2> QED BY <2>0, <2>1, <2>2, <2>3, CompletionCases
<1>14. CASE LoopRequestRetry
  BY <1>14 DEF LoopRequestRetry, requestSubscriptionRecoveryRetry, RetryStillNeeded
<1>15. CASE ConnectionLost \/ JobMessage \/ handleJob
  BY <1>1, <1>15 DEF ConnectionLost, JobMessage, handleJob
<1>16. ASSUME NEW present \in BOOLEAN, ConnectionResumes(present) PROVE RecoveryIsNeverAbandoned'
  BY <1>1, <1>16 DEF ConnectionResumes
<1>17. CASE onConnectionResumed
  <2> USE <1>17 DEF onConnectionResumed
  <2>1. CASE needStop \/ ~jobsClientReady BY <2>1
  <2>2. CASE ~needStop /\ jobsClientReady /\ RecoverOnResume BY <2>2, BeginningIsARecovery
  <2>3. CASE ~needStop /\ jobsClientReady /\ ~RecoverOnResume BY <2>3
  <2> QED BY <2>1, <2>2, <2>3
<1>18. CASE UNCHANGED vars BY <1>1, <1>18 DEF vars
<1> QED BY <1>2, <1>3, <1>4, <1>5, <1>7, <1>9, <1>10, <1>11, <1>12, <1>13, <1>14, <1>15, <1>16,
           <1>17, <1>18 DEF Next, WorkerStep, LockedStep, LoopStep, Stopped
-----------------------------------------------------------------------------
(***************************************************************************)
(* What was acknowledged is in the session.                                *)
(***************************************************************************)

SessionsAgree == SessionInv /\ ServingMeansSubscribed

\* A mask with as many members as there are subscriptions holds all of them.
LEMMA CompletedIsFull ==
    ASSUME NEW C \in SUBSET Subscriptions, 0 + Cardinality(C) = SubscriptionCount
    PROVE  C = Subscriptions
<1>1. SubscriptionCount \in Nat BY ConstantsAssumption DEF ConstantsAssumption
<1>2. IsFiniteSet(Subscriptions) /\ Cardinality(Subscriptions) = SubscriptionCount
  <2>1. IsFiniteSet(1 .. SubscriptionCount) /\ Cardinality(1 .. SubscriptionCount) =
           (IF 1 > SubscriptionCount THEN 0 ELSE SubscriptionCount - 1 + 1)
    BY <1>1, FS_Interval
  <2> QED BY <2>1, ConstantsAssumption DEF ConstantsAssumption
<1>3. IsFiniteSet(C) BY <1>2, FS_Subset
<1>4. Cardinality(C) = SubscriptionCount BY <1>3, FS_CardinalityType
<1> QED BY <1>2, <1>4, FS_Subset

\* A completion under which the session keeps what it has and, if the outcome is good, gains s.
LEMMA CompletionKeepsSessions ==
    ASSUME TypeOK, TypeOK', PendingInv, SessionsAgree,
           NEW g, NEW s \in Subscriptions, NEW ok \in BOOLEAN, loopPc # "resumedLost",
           completeRecoverySubscription(g, s, ok), UNCHANGED <<startupResult, stopPc>>,
           sessionSubscriptions \subseteq sessionSubscriptions', ok => s \in sessionSubscriptions'
    PROVE  SessionsAgree'
<1> USE DEF SessionsAgree, SessionInv, ServingMeansSubscribed, Serving
<1>0. sessionSubscriptions' \subseteq Subscriptions BY DEF TypeOK, NetworkTypes
<1>1. CASE ~CompletionCounts(g, s)
  <2>1. UNCHANGED recoveryVars BY <1>1 DEF completeRecoverySubscription
  <2> QED BY <2>1, <1>0
<1>2. CASE CompletionCounts(g, s)
  <2>1. jobsClientReady /\ jobsClientReady' /\ ~needStop /\ pendingRecoverySubscriptions # 0
    BY <1>2 DEF CompletionCounts, completeRecoverySubscription
  <2>2. /\ connectionRecoveryFailed' = (connectionRecoveryFailed \/ ~ok)
        /\ completedRecoverySubscriptions' = completedRecoverySubscriptions \union {s}
        /\ ~subscriptionsNeedRecovery' =>
              \/ ~subscriptionsNeedRecovery
              \/ pendingRecoverySubscriptions' = 0 /\ ~connectionRecoveryFailed'
    BY <1>2 DEF completeRecoverySubscription
  <2>3. ~connectionRecoveryFailed' => completedRecoverySubscriptions' \subseteq sessionSubscriptions'
    BY <2>1, <2>2
  <2>4. SessionInv' BY <2>1, <2>3
  <2>5. ASSUME ~subscriptionsNeedRecovery' PROVE sessionSubscriptions' = Subscriptions
    <3>1. pendingRecoverySubscriptions' = 0 /\ ~connectionRecoveryFailed'
      BY <2>1, <2>2, <2>5 DEF PendingInv
    <3>2. PendingInv' BY CompletionAccounting
    <3>3. completedRecoverySubscriptions' = Subscriptions
      <4>1. completedRecoverySubscriptions' # {} BY <2>2
      <4>2. 0 + Cardinality(completedRecoverySubscriptions') = SubscriptionCount
        BY <3>1, <3>2, <4>1 DEF PendingInv
      <4>3. completedRecoverySubscriptions' \in SUBSET Subscriptions BY DEF TypeOK, RecoveryTypes
      <4> QED BY <4>2, <4>3, CompletedIsFull
    <3> QED BY <1>0, <2>3, <3>1, <3>3
  <2> QED BY <2>4, <2>5
<1> QED BY <1>1, <1>2

\* SessionInv and ServingMeansSubscribed are preserved, together.
LEMMA SessionStep ==
    ASSUME TypeOK, TypeOK', LockInv, ThreadInv, PendingInv, SessionsAgree, [Next]_vars
    PROVE  SessionsAgree'
<1> DEFINE Frame == /\ UNCHANGED <<jobsClientReady, subscriptionsNeedRecovery,
                                    pendingRecoverySubscriptions, connectionRecoveryFailed,
                                    completedRecoverySubscriptions>>
                    /\ needStop => needStop'
                    /\ loopPc = "resumedLost" => loopPc' = "resumedLost"
<1>1. ASSUME Frame, UNCHANGED <<startupResult, sessionSubscriptions>> PROVE SessionsAgree'
  BY <1>1 DEF SessionsAgree, SessionInv, ServingMeansSubscribed, Serving
<1>2. CASE start \/ launchJobsThread \/ StopSetFlag \/ joinJobsThread
  BY <1>1, <1>2 DEF start, launchJobsThread, StopSetFlag, joinJobsThread
<1>3. CASE StopTeardown
  BY <1>3 DEF StopTeardown, SessionsAgree, SessionInv, ServingMeansSubscribed
<1>4. CASE WorkerCreateClient \/ WorkerQueueSubscription \/ WorkerWaitEnds \/ WorkerWaitTimesOut
  BY <1>1, <1>4 DEF WorkerCreateClient, WorkerQueueSubscription, WorkerWaitEnds, WorkerWaitTimesOut
<1>5. CASE WorkerSubscriptionRefused
  <2>1. Frame /\ UNCHANGED sessionSubscriptions BY <1>5 DEF WorkerSubscriptionRefused
  <2>2. \A s \in Subscriptions : startupResult'[s] = "ok" => startupResult[s] = "ok"
    BY <1>5 DEF WorkerSubscriptionRefused, TypeOK, ThreadTypes
  <2> HIDE DEF Frame
  <2> QED BY <2>1, <2>2 DEF Frame, SessionsAgree, SessionInv, ServingMeansSubscribed, Serving
<1>6. CASE WorkerFinishStartup
  <2> USE <1>6 DEF WorkerFinishStartup
  <2>1. CASE needStop BY <1>1, <2>1
  <2>2. ~jobsClientReady /\ pendingRecoverySubscriptions = 0 BY DEF ThreadInv, PendingInv
  <2>3. CASE ~needStop /\ subscriptionsNeedRecovery'
    BY <2>2, <2>3 DEF SessionsAgree, SessionInv, ServingMeansSubscribed, Serving, BeginGeneration
  <2>4. CASE ~needStop /\ ~subscriptionsNeedRecovery'
    <3>1. ~subscriptionsNeedRecovery /\ StartupSubscriptionsReady BY <2>4
    <3>2. UNCHANGED <<loopPc, sessionSubscriptions, pendingRecoverySubscriptions, stopPc>> BY <2>4
    <3>3. jobsClientReady' BY <2>4
    <3> HIDE <1>6
    <3>4. loopPc # "resumedLost" => Subscriptions \subseteq sessionSubscriptions
      BY <2>2, <2>4, <3>1 DEF SessionsAgree, SessionInv, StartupSubscriptionsReady
    <3>5. sessionSubscriptions \subseteq Subscriptions BY DEF TypeOK, NetworkTypes
    <3> QED BY <2>2, <3>2, <3>3, <3>4, <3>5
            DEF SessionsAgree, SessionInv, ServingMeansSubscribed, Serving
  <2> QED BY <2>1, <2>3, <2>4
<1>7. CASE LockedPoll \/ LockedSubscriptionQueued \/ LockedRequestRetry
  <2>1. UNCHANGED <<startupResult, sessionSubscriptions, recoveryVars, stopPc>>
    BY <1>7 DEF LockedPoll, LockedSubscriptionQueued, LockedRequestRetry
  <2>2. loopPc = "resumedLost" => loopPc' = "resumedLost"
    BY <1>7 DEF LockedPoll, LockedSubscriptionQueued, LockedRequestRetry, AfterLockedSubscribe,
                Unlock, LockInv
  <2> QED BY <1>1, <2>1, <2>2
<1>8. CASE LockedSubscriptionRefused
  <2> USE <1>8 DEF LockedSubscriptionRefused
  <2>1. lockNext \in Subscriptions BY DEF LockInv, TypeOK, LockTypes
  <2>2. CASE loopPc # "resumedLost" BY <2>1, <2>2, CompletionKeepsSessions
  <2>3. CASE loopPc = "resumedLost"
    <3>1. loopPc' = "resumedLost" BY <2>3 DEF AfterLockedSubscribe, Unlock, LockInv
    <3> QED BY <3>1 DEF SessionsAgree, SessionInv, ServingMeansSubscribed
  <2> QED BY <2>2, <2>3
<1>9. ASSUME NEW g \in retryTimers, retrySubscriptionRecovery(g) PROVE SessionsAgree'
  <2> USE <1>9 DEF retrySubscriptionRecovery
  <2>1. CASE RetryStillNeeded(g)
    BY <2>1 DEF RetryStillNeeded, BeginGeneration, SessionsAgree, SessionInv, ServingMeansSubscribed,
                Serving
  <2>2. CASE ~RetryStillNeeded(g) BY <1>1, <2>2
  <2> QED BY <2>1, <2>2
<1>10. ASSUME NEW s \in Subscriptions, NEW ok \in BOOLEAN, StartupAck(s, ok) PROVE SessionsAgree'
  <2> USE <1>10
  <2>1. Frame BY DEF StartupAck
  <2>2. /\ sessionSubscriptions \subseteq sessionSubscriptions'
        /\ sessionSubscriptions' \subseteq Subscriptions
        /\ loopPc # "resumedLost"
    BY DEF StartupAck, Acknowledge, TypeOK, NetworkTypes
  <2>3. \A t \in Subscriptions : startupResult'[t] = "ok" =>
                                     startupResult[t] = "ok" \/ t \in sessionSubscriptions'
    BY DEF StartupAck, Acknowledge, TypeOK, ThreadTypes
  <2> HIDE <1>10
  <2> QED BY <2>1, <2>2, <2>3 DEF SessionsAgree, SessionInv, ServingMeansSubscribed, Serving
<1>11. ASSUME NEW m \in inflight, NEW ok \in BOOLEAN, NEW again \in BOOLEAN,
              RecoveryAck(m[1], m[2], ok, again)
       PROVE  SessionsAgree'
  <2> USE <1>11 DEF RecoveryAck
  <2>1. m[2] \in Subscriptions BY DEF TypeOK, NetworkTypes
  <2>2. /\ sessionSubscriptions \subseteq sessionSubscriptions'
        /\ ok => m[2] \in sessionSubscriptions'
    BY DEF Acknowledge
  <2> QED BY <2>1, <2>2, CompletionKeepsSessions
<1>12. CASE LoopRequestRetry \/ ConnectionLost \/ JobMessage \/ handleJob
  BY <1>1, <1>12 DEF LoopRequestRetry, ConnectionLost, JobMessage, handleJob
<1>13. ASSUME NEW present \in BOOLEAN, ConnectionResumes(present) PROVE SessionsAgree'
  <2> USE <1>13 DEF ConnectionResumes
  <2>1. CASE present BY <1>1, <2>1
  <2>2. CASE ~present
    <3>1. loopPc' = "resumedLost" BY <2>2
    <3> QED BY <3>1 DEF SessionsAgree, SessionInv, ServingMeansSubscribed
  <2> QED BY <2>1, <2>2
<1>14. CASE onConnectionResumed
  <2> USE <1>14 DEF onConnectionResumed
  <2>1. CASE needStop BY <2>1 DEF SessionsAgree, SessionInv, ServingMeansSubscribed
  <2>2. CASE ~needStop /\ RecoverOnResume
    BY <2>2 DEF PendingInv, BeginGeneration, SessionsAgree, SessionInv, ServingMeansSubscribed, Serving
  <2>3. CASE ~needStop /\ ~RecoverOnResume
    BY <2>3 DEF RecoverOnResume, BeginGeneration, SessionsAgree, SessionInv, ServingMeansSubscribed,
                Serving
  <2> QED BY <2>1, <2>2, <2>3
<1>15. CASE UNCHANGED vars BY <1>1, <1>15 DEF vars
<1> QED BY <1>2, <1>3, <1>4, <1>5, <1>6, <1>7, <1>8, <1>9, <1>10, <1>11, <1>12, <1>13, <1>14, <1>15
        DEF Next, WorkerStep, LockedStep, LoopStep, Stopped
-----------------------------------------------------------------------------
(***************************************************************************)
(* The inductive invariant and what follows from it.                       *)
(***************************************************************************)

\* The inductive invariant holds before start().
LEMMA InitIndInv == Init => IndInv
<1> SUFFICES ASSUME Init PROVE IndInv OBVIOUS
<1> USE ConstantsAssumption DEF ConstantsAssumption, Init
<1>1. TypeOK
  <2>1. FlagTypes BY DEF FlagTypes
  <2>2. RecoveryTypes BY DEF RecoveryTypes
  <2>3. LockTypes BY DEF LockTypes
  <2>4. ThreadTypes BY DEF ThreadTypes
  <2>5. NetworkTypes BY DEF NetworkTypes
  <2> QED BY <2>1, <2>2, <2>3, <2>4, <2>5 DEF TypeOK
<1>2. LockInv BY DEF LockInv
<1>3. ThreadInv BY DEF ThreadInv
<1>4. PendingInv /\ NoCompletionIsLost /\ RecoveryIsNeverAbandoned
  BY DEF PendingInv, NoCompletionIsLost, RecoveryIsNeverAbandoned
<1>5. SessionInv /\ ServingMeansSubscribed BY DEF SessionInv, ServingMeansSubscribed, Serving
<1> QED BY <1>1, <1>2, <1>3, <1>4, <1>5 DEF IndInv

\* Every step keeps the inductive invariant, one action after another.
LEMMA NextIndInv == IndInv /\ [Next]_vars => IndInv'
<1> SUFFICES ASSUME IndInv, [Next]_vars PROVE IndInv' OBVIOUS
<1> USE DEF IndInv
<1>1. TypeOK' /\ LockInv' /\ ThreadInv' /\ PendingInv'
  BY TypeStep, LockStep, ThreadStep, PendingStep
<1>2. NoCompletionIsLost'
  <2>1. OutcomesAreOnTheirWay' BY OutcomesStep DEF NoCompletionIsLost, OutcomesAreOnTheirWay
  <2> QED BY <1>1, <2>1 DEF NoCompletionIsLost, OutcomesAreOnTheirWay, PendingInv
<1>3. RecoveryIsNeverAbandoned' BY AbandonedStep
<1>4. SessionInv' /\ ServingMeansSubscribed' BY <1>1, SessionStep DEF SessionsAgree
<1> QED BY <1>1, <1>2, <1>3, <1>4

\* IndInv holds in every reachable state of runJobs, the recovery callbacks, the retries and stop().
THEOREM InductiveInvariant == Spec => []IndInv
<1>1. Init => IndInv BY InitIndInv
<1>2. IndInv /\ [Next]_vars => IndInv' BY NextIndInv
<1> QED BY <1>1, <1>2, PTL DEF Spec

\* Every variable keeps its type; among them, pendingRecoverySubscriptions is never decremented
\* below zero by completeRecoverySubscription.
THEOREM TypeCorrect == Spec => []TypeOK
<1>1. IndInv => TypeOK BY DEF IndInv
<1> QED BY <1>1, InductiveInvariant, PTL

\* While the message handlers accept jobs the broker's session holds every subscription, however
\* outages, late or repeated acknowledgements and retries are interleaved.
THEOREM ServingIsSubscribed == Spec => []ServingMeansSubscribed
<1>1. IndInv => ServingMeansSubscribed BY DEF IndInv
<1> QED BY <1>1, InductiveInvariant, PTL

\* completeRecoverySubscription's counter and mask account for every outcome, and each one still
\* expected is on its way.
THEOREM CompletionsAreKept == Spec => []NoCompletionIsLost
<1>1. IndInv => NoCompletionIsLost BY DEF IndInv
<1> QED BY <1>1, InductiveInvariant, PTL

\* A recovery that is needed always has someone who will carry it on: requestSubscriptionRecoveryRetry
\* and retrySubscriptionRecovery hand it over without a gap.
THEOREM RecoveryIsCarriedOn == Spec => []RecoveryIsNeverAbandoned
<1>1. IndInv => RecoveryIsNeverAbandoned BY DEF IndInv
<1> QED BY <1>1, InductiveInvariant, PTL

\* resubscribeAfterSessionLoss is not overtaken by a new generation or by the teardown of stop().
THEOREM QueueingIsSerialized == Spec => []QueueingIsNotOvertaken
<1>1. IndInv => QueueingIsNotOvertaken BY DEF IndInv, LockInv, QueueingIsNotOvertaken
<1> QED BY <1>1, InductiveInvariant, PTL
-----------------------------------------------------------------------------
(***************************************************************************)
(* Action properties.                                                      *)
(***************************************************************************)

\* Asking for jobs: by the holder of the lock after a release of connectionRecoveryLock, or by the
\* last completion of a recovery.
LEMMA PollStep ==
    ASSUME IndInv, [Next]_vars, polls' # polls
    PROVE  Serving'
<1> USE DEF Serving
<1>1. CASE LockedPoll BY <1>1 DEF LockedPoll, IndInv, LockInv
<1>2. ASSUME NEW g, NEW s, NEW ok \in BOOLEAN, completeRecoverySubscription(g, s, ok)
      PROVE  Serving'
  BY <1>2 DEF completeRecoverySubscription, CompletionCounts, SubscriptionsRestored
<1>3. CASE LockedSubscriptionRefused BY <1>2, <1>3 DEF LockedSubscriptionRefused
<1>4. ASSUME NEW m \in inflight, NEW ok \in BOOLEAN, NEW again \in BOOLEAN,
             RecoveryAck(m[1], m[2], ok, again)
      PROVE  Serving'
  BY <1>2, <1>4 DEF RecoveryAck
<1>5. ASSUME \/ start \/ launchJobsThread \/ StopSetFlag \/ StopTeardown \/ joinJobsThread
             \/ WorkerStep \/ LockedSubscriptionQueued \/ LockedRequestRetry
             \/ \E g \in retryTimers : retrySubscriptionRecovery(g)
             \/ \E s \in Subscriptions, ok \in BOOLEAN : StartupAck(s, ok)
             \/ LoopRequestRetry \/ ConnectionLost
             \/ \E present \in BOOLEAN : ConnectionResumes(present)
             \/ onConnectionResumed \/ JobMessage \/ handleJob \/ UNCHANGED vars
      PROVE  FALSE
  BY <1>5 DEF start, launchJobsThread, StopSetFlag, StopTeardown, joinJobsThread, WorkerStep,
    WorkerCreateClient, WorkerQueueSubscription, WorkerSubscriptionRefused, WorkerWaitEnds,
    WorkerWaitTimesOut, WorkerFinishStartup, LockedSubscriptionQueued, LockedRequestRetry,
    retrySubscriptionRecovery, StartupAck, LoopRequestRetry, ConnectionLost, ConnectionResumes,
    onConnectionResumed, JobMessage, handleJob, vars
<1> QED BY <1>1, <1>3, <1>4, <1>5 DEF Next, LockedStep, LoopStep, Stopped

\* publishStartNextPendingJobExecutionRequest is called only when every subscription is ready, and so
\* never after stop() has torn the feature down.
THEOREM PollsAreServed == Spec => PollsOnlyWhenServing
<1>1. IndInv /\ [Next]_vars => [polls' # polls => Serving']_vars BY PollStep
<1> QED BY <1>1, InductiveInvariant, PTL DEF Spec, PollsOnlyWhenServing

\* Once torn down, nothing moves but the threads that end.
LEMMA StoppedStep ==
    ASSUME IndInv, [Next]_vars, stopPc \in {"tornDown", "returned"}
    PROVE  /\ UNCHANGED <<recoveryVars, polls, lockVars>>
           /\ stopPc = "returned" => inflight' \subseteq inflight /\ UNCHANGED workerPc
<1>1. lockTask = "none" /\ ~jobsClientReady /\ needStop BY DEF IndInv, LockInv
<1>2. stopPc = "returned" => workerPc \in {"none", "done"} BY DEF IndInv, ThreadInv
<1>3. CASE start \/ StopSetFlag \/ StopTeardown \/ joinJobsThread \/ launchJobsThread
  BY <1>1, <1>3 DEF start, StopSetFlag, StopTeardown, joinJobsThread, launchJobsThread
<1>4. CASE WorkerStep
  BY <1>1, <1>2, <1>4 DEF WorkerStep, WorkerCreateClient, WorkerQueueSubscription,
     WorkerSubscriptionRefused, WorkerWaitEnds, WorkerWaitTimesOut, WorkerFinishStartup
<1>5. CASE LockedStep
  BY <1>1, <1>5 DEF LockedStep, LockedPoll, LockedSubscriptionQueued, LockedSubscriptionRefused,
     LockedRequestRetry
<1>6. ASSUME NEW g \in retryTimers, retrySubscriptionRecovery(g)
      PROVE  /\ UNCHANGED <<recoveryVars, polls, lockVars>>
             /\ UNCHANGED <<inflight, workerPc>>
  BY <1>1, <1>6 DEF retrySubscriptionRecovery, RetryStillNeeded
<1>7. ASSUME NEW s \in Subscriptions, NEW ok \in BOOLEAN, StartupAck(s, ok)
      PROVE  UNCHANGED <<recoveryVars, polls, lockVars, retryTimers, workerPc>>
               /\ inflight' \subseteq inflight
  BY <1>7 DEF StartupAck
<1>8. ASSUME NEW m \in inflight, NEW ok \in BOOLEAN, NEW again \in BOOLEAN,
             RecoveryAck(m[1], m[2], ok, again)
      PROVE  UNCHANGED <<recoveryVars, polls, lockVars, retryTimers, workerPc>>
               /\ inflight' \subseteq inflight
  BY <1>1, <1>8 DEF RecoveryAck, completeRecoverySubscription, CompletionCounts
<1>9. CASE LoopRequestRetry
  BY <1>1, <1>9 DEF LoopRequestRetry, requestSubscriptionRecoveryRetry, RetryStillNeeded
<1>10. CASE \/ ConnectionLost \/ onConnectionResumed \/ JobMessage \/ handleJob
            \/ \E present \in BOOLEAN : ConnectionResumes(present)
  BY <1>1, <1>10 DEF ConnectionLost, onConnectionResumed, JobMessage, handleJob, ConnectionResumes
<1>11. CASE UNCHANGED vars BY <1>11 DEF vars
<1> QED BY <1>3, <1>4, <1>5, <1>6, <1>7, <1>8, <1>9, <1>10, <1>11 DEF Next, LoopStep, Stopped

\* stop() is final: late callbacks, timers and threads change nothing, and once it has returned the
\* MQTT client gets no further call.
THEOREM StoppingIsFinal == Spec => StopIsFinal
<1>1. IndInv /\ [Next]_vars =>
        [/\ stopPc \in {"tornDown", "returned"} =>
              UNCHANGED <<recoveryVars, polls, lockVars>>
         /\ stopPc = "returned" => inflight' \subseteq inflight /\ UNCHANGED workerPc]_vars
  BY StoppedStep
<1> QED BY <1>1, InductiveInvariant, PTL DEF Spec, StopIsFinal

\* handleJob starts only while the feature still serves or after stop() began.
THEOREM JobsAreHandledWhileServing == Spec => JobsHandledOnlyWhenServing
<1>1. IndInv => (loopPc = "handleJob" => Serving \/ needStop) BY DEF IndInv, ThreadInv
<1>2. IndInv /\ [Next]_vars =>
        [(loopPc = "handleJob" /\ loopPc' = "idle") => Serving \/ needStop]_vars
  BY <1>1
<1> QED BY <1>2, InductiveInvariant, PTL DEF Spec, JobsHandledOnlyWhenServing
-----------------------------------------------------------------------------
(***************************************************************************)
(* The refinement of JobsAvailability.                                     *)
(***************************************************************************)

\* Every step of the subscription management is a step of JobsAvailability or leaves its state alone.
LEMMA RefinementStep ==
    ASSUME IndInv, [Next]_vars PROVE [Availability!Next]_(Availability!vars)
<1> USE DEF phaseOfJobs, Availability!vars
<1>1. LockInv BY DEF IndInv
<1>2. ASSUME UNCHANGED <<jobsClientReady, subscriptionsNeedRecovery>>,
             (stopPc \in {"tornDown", "returned"}) = (stopPc' \in {"tornDown", "returned"}),
             (lockTask = "poll") = (lockTask' = "poll")
      PROVE  [Availability!Next]_(Availability!vars)
  BY <1>2
<1>3. CASE start \/ launchJobsThread \/ StopSetFlag \/ joinJobsThread
  BY <1>2, <1>3 DEF start, launchJobsThread, StopSetFlag, joinJobsThread
<1>4. CASE StopTeardown
  <2>1. lockTask = "none" BY <1>1, <1>4 DEF StopTeardown, LifecycleLockIsFree, LockInv
  <2>2. Availability!Stop BY <1>4, <2>1 DEF StopTeardown, Availability!Stop
  <2> QED BY <2>2 DEF Availability!Next
<1>5. CASE WorkerCreateClient \/ WorkerQueueSubscription \/ WorkerSubscriptionRefused
           \/ WorkerWaitEnds \/ WorkerWaitTimesOut
  BY <1>2, <1>5 DEF WorkerCreateClient, WorkerQueueSubscription, WorkerSubscriptionRefused,
                    WorkerWaitEnds, WorkerWaitTimesOut
<1>6. CASE WorkerFinishStartup
  <2>1. CASE needStop BY <1>2, <1>6, <2>1 DEF WorkerFinishStartup
  <2>2. CASE ~needStop
    <3>1. ~jobsClientReady BY <1>6 DEF WorkerFinishStartup, IndInv, ThreadInv
    <3>2. jobsClientReady' /\ (~subscriptionsNeedRecovery' => lockTask' = "poll")
      BY <1>6, <2>2 DEF WorkerFinishStartup, Lock
    <3>3. stopPc = "running" /\ stopPc' = "running" BY <1>6, <2>2 DEF WorkerFinishStartup
    <3>4. Availability!FinishStartup BY <3>1, <3>2, <3>3 DEF Availability!FinishStartup
    <3> QED BY <3>4 DEF Availability!Next
  <2> QED BY <2>1, <2>2
<1>7. CASE LockedPoll
  <2>1. phaseOfJobs = "serving" /\ lockTask = "poll" BY <1>1, <1>7 DEF LockedPoll, LockInv
  <2>2. phaseOfJobs' = "serving" /\ lockTask' = "none" BY <2>1, <1>7 DEF LockedPoll, Unlock
  <2>3. Availability!Poll BY <2>1, <2>2 DEF Availability!Poll
  <2> QED BY <2>3 DEF Availability!Next
<1>8. CASE LockedSubscriptionQueued \/ LockedRequestRetry
  BY <1>2, <1>8 DEF LockedSubscriptionQueued, LockedRequestRetry, AfterLockedSubscribe, Unlock
<1>9. CASE LockedSubscriptionRefused
  <2>1. UNCHANGED <<jobsClientReady, subscriptionsNeedRecovery, stopPc>>
    BY <1>9 DEF LockedSubscriptionRefused, completeRecoverySubscription
  <2>2. lockTask = "resubscribe" /\ lockTask' # "poll"
    BY <1>9 DEF LockedSubscriptionRefused, AfterLockedSubscribe, Unlock
  <2> QED BY <1>2, <2>1, <2>2
<1>10. ASSUME NEW g \in retryTimers, retrySubscriptionRecovery(g)
       PROVE  [Availability!Next]_(Availability!vars)
  <2>1. lockTask = "none" BY <1>1, <1>10 DEF retrySubscriptionRecovery, LifecycleLockIsFree, LockInv
  <2> QED BY <1>2, <1>10, <2>1 DEF retrySubscriptionRecovery, Lock
<1>11. ASSUME NEW s \in Subscriptions, NEW ok \in BOOLEAN, StartupAck(s, ok)
       PROVE  [Availability!Next]_(Availability!vars)
  BY <1>2, <1>11 DEF StartupAck
<1>12. ASSUME NEW m \in inflight, NEW ok \in BOOLEAN, NEW again \in BOOLEAN,
              RecoveryAck(m[1], m[2], ok, again)
       PROVE  [Availability!Next]_(Availability!vars)
  <2> USE <1>12 DEF RecoveryAck
  <2>1. CASE UNCHANGED <<jobsClientReady, subscriptionsNeedRecovery>> BY <1>2, <2>1
  <2>2. CASE ~UNCHANGED <<jobsClientReady, subscriptionsNeedRecovery>>
    <3>1. /\ CompletionCounts(m[1], m[2]) /\ pendingRecoverySubscriptions # 0
          /\ UNCHANGED <<jobsClientReady, stopPc, lockTask>> /\ ~subscriptionsNeedRecovery'
      BY <2>2 DEF completeRecoverySubscription, CompletionCounts, SubscriptionsRestored
    <3>2. jobsClientReady /\ stopPc = "running" BY <3>1 DEF CompletionCounts
    <3>3. subscriptionsNeedRecovery BY <3>1 DEF IndInv, PendingInv
    <3>4. lockTask # "poll" BY <1>1, <3>3 DEF LockInv
    <3>5. Availability!Recover BY <3>1, <3>2, <3>3, <3>4 DEF Availability!Recover
    <3> QED BY <3>5 DEF Availability!Next
  <2> QED BY <2>1, <2>2
<1>13. CASE \/ LoopRequestRetry \/ ConnectionLost \/ JobMessage \/ handleJob
            \/ \E present \in BOOLEAN : ConnectionResumes(present)
  BY <1>2, <1>13 DEF LoopRequestRetry, ConnectionLost, JobMessage, handleJob, ConnectionResumes
<1>14. CASE onConnectionResumed
  <2> USE <1>14 DEF onConnectionResumed
  <2>1. lockTask = "none" BY <1>1 DEF LifecycleLockIsFree, LockInv
  <2>2. CASE needStop BY <1>2, <2>2
  <2>3. CASE ~needStop /\ ~jobsClientReady
    <3>1. phaseOfJobs = "starting" /\ phaseOfJobs' = "starting" BY <2>3
    <3> QED BY <3>1
  <2>4. CASE ~needStop /\ jobsClientReady
    <3>1. stopPc' = "running" /\ jobsClientReady' /\ lockTask' \in {"resubscribe", "poll"}
      BY <2>4 DEF Lock
    <3>2. subscriptionsNeedRecovery' = RecoverOnResume /\ (~RecoverOnResume => lockTask' = "poll")
      BY <2>4 DEF Lock
    <3>3. CASE subscriptionsNeedRecovery
      <4>1. phaseOfJobs = "recovering" /\ phaseOfJobs' = "recovering"
        BY <2>4, <3>1, <3>2, <3>3 DEF RecoverOnResume
      <4> QED BY <4>1
    <3>4. CASE ~subscriptionsNeedRecovery
      <4>1. Availability!Resume BY <2>1, <2>4, <3>1, <3>2, <3>4 DEF Availability!Resume
      <4> QED BY <4>1 DEF Availability!Next
    <3> QED BY <3>3, <3>4
  <2> QED BY <2>2, <2>3, <2>4
<1>15. CASE UNCHANGED vars BY <1>2, <1>15 DEF vars
<1> QED BY <1>3, <1>4, <1>5, <1>6, <1>7, <1>8, <1>9, <1>10, <1>11, <1>12, <1>13, <1>14, <1>15
        DEF Next, WorkerStep, LockedStep, LoopStep, Stopped

\* The safety part of ImplementsAvailability: runJobs, the recovery, its retries and stop() behave as
\* JobsAvailability does.
THEOREM ImplementsAvailabilitySafely == Spec => ImplementsAvailability
<1>1. Init => Availability!Init BY DEF Init, Availability!Init, phaseOfJobs
<1>2. IndInv /\ [Next]_vars => [Availability!Next]_(Availability!vars) BY RefinementStep
<1> QED BY <1>1, <1>2, InductiveInvariant, PTL
    DEF Spec, ImplementsAvailability, Availability!Spec
=============================================================================
