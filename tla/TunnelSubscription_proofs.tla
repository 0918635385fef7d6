---------------------- MODULE TunnelSubscription_proofs ----------------------
(***************************************************************************)
(* Proofs about TunnelSubscription, for any notifications and any number   *)
(* of outages, failures and deliveries: the types, that the feature is     *)
(* subscribed or recovering, that it hears the handler in place unless     *)
(* start() put it behind a newer one, that stop() reaches every tunnel,    *)
(* and that every context goes through the life cycle of TunnelLifecycle.  *)
(***************************************************************************)
EXTENDS TunnelSubscription, SequenceTheorems, TLAPS

USE DEF recoveryVars, lockVars, mainVars, loopVars, contextVars, clientVars, networkVars
-----------------------------------------------------------------------------
(***************************************************************************)
(* Generations and the queue of requests.                                  *)
(***************************************************************************)

\* A new generation is the largest, and the old ones stay what they are.
LEMMA Newer ==
    ASSUME mConnectionRecoveryGeneration \in Nat,
           mConnectionRecoveryGeneration' = mConnectionRecoveryGeneration + 1
    PROVE  /\ mConnectionRecoveryGeneration' \in Nat
           /\ mConnectionRecoveryGeneration' \in Generations'
           /\ \A g \in Generations : g \in Generations'
           /\ \A s \in Seq(Generations) : s \in Seq(Generations')
           /\ \A S \in SUBSET Generations : S \in SUBSET Generations'
<1>1. Generations \subseteq Generations' BY DEF Generations
<1>2. mConnectionRecoveryGeneration' \in Generations' BY DEF Generations
<1>3. \A s \in Seq(Generations) : s \in Seq(Generations') BY <1>1, SeqMonotonic
<1> QED BY <1>1, <1>2, <1>3

\* What a generation may be depends on the current one only.
LEMMA Same ==
    ASSUME mConnectionRecoveryGeneration' = mConnectionRecoveryGeneration
    PROVE  Generations' = Generations
  BY DEF Generations

\* The bound on failed calls is kept.
LEMMA FailureCounted ==
    ASSUME failures \in 0 .. MaxFailures, CallFails
    PROVE  failures' \in 0 .. MaxFailures
  BY ConstantsAssumption DEF CallFails, ConstantsAssumption

\* A request that is queued stays so when another one is.
LEMMA QueuedStays ==
    ASSUME NEW new \in Generations, queue \in Seq(Generations), queue' = Append(queue, new)
    PROVE  \A g : Queued(g) => Queued(g)'
<1>1. /\ Len(queue') = Len(queue) + 1 /\ Len(queue) \in Nat
      /\ \A i \in 1 .. Len(queue) : queue'[i] = queue[i]
  BY AppendProperties, LenProperties
<1> SUFFICES ASSUME NEW g, NEW i \in 1 .. Len(queue), queue[i] = g PROVE Queued(g)'
  BY DEF Queued
<1>2. i \in 1 .. Len(queue') /\ queue'[i] = g BY <1>1
<1> QED BY <1>2 DEF Queued

\* A request is queued last.
LEMMA QueuedLast ==
    ASSUME NEW new \in Generations, queue \in Seq(Generations), queue' = Append(queue, new)
    PROVE  \E i \in 1 .. Len(queue') : queue'[i] = new
<1>1. /\ Len(queue') = Len(queue) + 1 /\ Len(queue) \in Nat /\ queue'[Len(queue) + 1] = new
  BY AppendProperties, LenProperties
<1> QED BY <1>1

-----------------------------------------------------------------------------
(***************************************************************************)
(* The inductive invariant.                                                *)
(***************************************************************************)

\* The inductive invariant holds before start().
LEMMA InitEstablishes == Init => IndInv
<1> SUFFICES ASSUME Init PROVE IndInv OBVIOUS
<1> USE DEF Init
<1>1. RecoveryTypes
  <2>1. 0 \in Generations BY DEF Generations
  <2> QED BY <2>1 DEF RecoveryTypes
<1>2. ThreadTypes BY DEF ThreadTypes, Generations
<1>3. ContextTypes BY ConstantsAssumption DEF ContextTypes, ConstantsAssumption
<1>4. NetworkTypes
  <2>1. queue \in Seq(Generations) /\ sent \in SUBSET Generations /\ handler \in Generations
    BY DEF Generations
  <2>2. deliveries \in 0 .. MaxDeliveries /\ outages \in 0 .. MaxOutages /\ failures \in 0 .. MaxFailures
    BY ConstantsAssumption DEF ConstantsAssumption
  <2> QED BY <2>1, <2>2 DEF NetworkTypes
<1>5. LockInv /\ MainInv BY DEF LockInv, MainInv
<1>6. SubscribedInv BY DEF SubscribedInv
<1>7. StartInv /\ OrderInv BY DEF StartInv, OrderInv, Late
<1>8. ContextInv BY ConstantsAssumption DEF ContextInv, ConstantsAssumption
<1> QED BY <1>1, <1>2, <1>3, <1>4, <1>5, <1>6, <1>7, <1>8 DEF IndInv, TypeOK

\* start() and stop(), by main.
LEMMA MainPreserves ==
    ASSUME IndInv,
           \/ start
           \/ RunSecureTunneling
           \/ SubscriptionQueued
           \/ SubscriptionRefused
           \/ MainRequestsRetry
           \/ StopTeardown
           \/ StopReturns
           \/ (\E c \in contextsToStop : StopSecureTunnel(c))
    PROVE  IndInv'
<1> USE DEF IndInv, TypeOK
<1>1. CASE start
  <2> USE <1>1 DEF start
  <2>1. ContextTypes' BY DEF ContextTypes
  <2>2. RecoveryTypes' BY Newer DEF RecoveryTypes
  <2>3. ThreadTypes' BY Newer DEF ThreadTypes, RecoveryTypes
  <2>4. NetworkTypes' BY Newer DEF NetworkTypes, RecoveryTypes
  <2>5. MainInv' BY DEF MainInv
  <2>6. LockInv' BY DEF LockInv, MainInv
  <2>7. SubscribedInv' BY DEF SubscribedInv, MainInv
  <2>8. StartInv' BY DEF StartInv
  <2>9. OrderInv' BY DEF OrderInv, StartInv, Late
  <2>10. ContextInv' BY DEF ContextInv, MayOpen
  <2> QED BY <2>1, <2>2, <2>3, <2>4, <2>5, <2>6, <2>7, <2>8, <2>9, <2>10
<1>2. CASE RunSecureTunneling
  <2> USE <1>2 DEF RunSecureTunneling
  <2>1. RecoveryTypes' /\ ContextTypes' /\ NetworkTypes'
    <3>1. RecoveryTypes' BY Same DEF RecoveryTypes
    <3>2. ContextTypes' BY Same DEF ContextTypes
    <3>3. NetworkTypes' BY Same DEF NetworkTypes
    <3> QED BY <3>1, <3>2, <3>3
  <2>2. ThreadTypes' BY DEF ThreadTypes, RecoveryTypes, Generations
  <2>3. LockInv' /\ MainInv' BY DEF LockInv, MainInv
  <2>4. SubscribedInv' BY DEF SubscribedInv, LossPending, AttemptUnderWay, Queued
  <2>5. (StartInv /\ OrderInv)' BY DEF StartInv, OrderInv, Late
  <2>6. ContextInv' BY DEF ContextInv, MayOpen
  <2> QED BY <2>1, <2>2, <2>3, <2>4, <2>5, <2>6
<1>3. CASE SubscriptionQueued
  <2> USE <1>3 DEF SubscriptionQueued
  <2>1. RecoveryTypes' /\ ThreadTypes' /\ ContextTypes'
    <3>1. RecoveryTypes' BY Same DEF RecoveryTypes
    <3>2. ThreadTypes' BY Same DEF ThreadTypes
    <3>3. ContextTypes' BY Same DEF ContextTypes
    <3> QED BY <3>1, <3>2, <3>3
  <2>2. NetworkTypes'
    <3>1. queue \in Seq(Generations) /\ mainGeneration \in Generations BY DEF NetworkTypes, ThreadTypes
    <3>2. Append(queue, mainGeneration) \in Seq(Generations) BY <3>1, AppendProperties
    <3> QED BY <3>2, Same DEF NetworkTypes
  <2>3. LockInv' /\ MainInv' BY DEF LockInv, MainInv
  <2>4. SubscribedInv'
    <3>1. queue \in Seq(Generations) /\ mainGeneration \in Generations BY DEF NetworkTypes, ThreadTypes
    <3>2. \A g : Queued(g) => Queued(g)' BY <3>1, QueuedStays
    <3>3. Queued(mainGeneration)' BY <3>1, QueuedLast DEF Queued
    <3> QED BY <3>2, <3>3 DEF SubscribedInv, LossPending, AttemptUnderWay
  <2>5. StartInv' BY DEF StartInv
  <2>6. OrderInv'
    <3>1. queue \in Seq(Generations) /\ mainGeneration \in Generations BY DEF NetworkTypes, ThreadTypes
    <3>2. /\ Len(queue') = Len(queue) + 1 /\ Len(queue) \in Nat
          /\ \A i \in 1 .. Len(queue) : queue'[i] = queue[i]
          /\ queue'[Len(queue) + 1] = mainGeneration
      BY <3>1, AppendProperties, LenProperties
    <3>3. /\ \A i \in 1 .. Len(queue) : queue[i] \in Nat
          /\ mainGeneration \in Nat /\ handler \in Nat /\ \A g \in sent : g \in Nat
      <4>1. \A i \in 1 .. Len(queue) : queue[i] \in Generations BY <3>1, ElementOfSeq
      <4>2. handler \in Generations /\ \A g \in sent : g \in Generations BY DEF NetworkTypes
      <4> QED BY <3>1, <4>1, <4>2 DEF Generations
    <3>4. ~overtaken /\ mStarted BY DEF StartInv, MainInv
    <3>5. /\ \A i, j \in 1 .. Len(queue) : i < j => queue[i] <= queue[j]
          /\ \A g \in sent : g <= handler /\ \A i \in 1 .. Len(queue) : g <= queue[i]
          /\ \A i \in 1 .. Len(queue) : handler <= queue[i]
          /\ ~mSubscriptionNeedsRecovery =>
                /\ handler # 0 => mOldestValidSubscriptionGeneration <= handler
                /\ \A i \in 1 .. Len(queue) : mOldestValidSubscriptionGeneration <= queue[i]
      BY <3>4 DEF OrderInv, Late
    <3>6. CASE overtaken'
      <4>1. \A i \in 1 .. Len(queue') : i \in 1 .. Len(queue) \/ queue'[i] = mainGeneration
        BY <3>2
      <4> QED BY <3>2, <3>5, <3>6, <4>1 DEF OrderInv, Late
    <3>7. CASE ~overtaken'
      <4>1. /\ handler <= mainGeneration
            /\ \A i \in 1 .. Len(queue) : queue[i] <= mainGeneration
            /\ \A g \in sent : g <= mainGeneration
        <5>1. ~(handler > mainGeneration) /\ \A i \in 1 .. Len(queue) : ~(queue[i] > mainGeneration)
          BY <3>7
        <5> QED BY <3>3, <3>5, <5>1
      <4>2. ~mSubscriptionNeedsRecovery => mOldestValidSubscriptionGeneration <= mainGeneration
        BY <3>3, <4>1 DEF StartInv, RecoveryTypes, Generations
      <4> QED BY <3>2, <3>4, <3>5, <4>1, <4>2 DEF OrderInv, Late
    <3> QED BY <3>6, <3>7 DEF NetworkTypes
  <2>7. ContextInv' BY DEF ContextInv, MayOpen
  <2> QED BY <2>1, <2>2, <2>3, <2>4, <2>5, <2>6, <2>7
<1>4. CASE SubscriptionRefused
  <2> USE <1>4 DEF SubscriptionRefused, CallFails, FailureCounts
  <2>1. RecoveryTypes' /\ ThreadTypes' /\ ContextTypes'
    <3>1. RecoveryTypes' BY Same DEF RecoveryTypes
    <3>2. ThreadTypes' BY Same DEF ThreadTypes
    <3>3. ContextTypes' BY Same DEF ContextTypes
    <3> QED BY <3>1, <3>2, <3>3
  <2>2. NetworkTypes' BY FailureCounted, Same DEF NetworkTypes
  <2>3. LockInv' /\ MainInv' BY DEF LockInv, MainInv
  <2>4. SubscribedInv' BY DEF SubscribedInv, LossPending, AttemptUnderWay, Queued
  <2>5. (StartInv /\ OrderInv)' BY DEF StartInv, OrderInv, Late
  <2>6. ContextInv' BY DEF ContextInv, MayOpen
  <2> QED BY <2>1, <2>2, <2>3, <2>4, <2>5, <2>6
<1>5. CASE MainRequestsRetry
  <2> USE <1>5 DEF MainRequestsRetry, requestSubscriptionRecoveryRetry, RetryStillNeeded
  <2>1. RecoveryTypes' /\ ThreadTypes' /\ ContextTypes' /\ NetworkTypes'
    <3>1. RecoveryTypes' BY Same DEF RecoveryTypes
    <3>2. ThreadTypes' BY Same DEF ThreadTypes
    <3>3. ContextTypes' BY Same DEF ContextTypes
    <3>4. NetworkTypes' BY Same DEF NetworkTypes
    <3> QED BY <3>1, <3>2, <3>3, <3>4
  <2>2. LockInv' /\ MainInv' BY DEF LockInv, MainInv
  <2>3. SubscribedInv' BY DEF SubscribedInv, LossPending, AttemptUnderWay, Queued
  <2>4. (StartInv /\ OrderInv)' BY DEF StartInv, OrderInv, Late
  <2>5. ContextInv' BY DEF ContextInv, MayOpen
  <2> QED BY <2>1, <2>2, <2>3, <2>4, <2>5
<1>6. CASE StopTeardown
  <2> USE <1>6 DEF StopTeardown, LifecycleLockIsFree
  <2>1. ContextTypes' BY DEF ContextTypes
  <2>2. RecoveryTypes'
    <3>1. /\ mConnectionRecoveryGeneration' \in Nat
          /\ mConnectionRecoveryGeneration' \in Generations'
      BY Newer DEF RecoveryTypes
    <3>2. mFeatureLifecycleGeneration' \in Nat BY DEF RecoveryTypes
    <3> QED BY <3>1, <3>2 DEF RecoveryTypes
  <2>3. ThreadTypes' BY Newer DEF ThreadTypes, RecoveryTypes, ContextTypes
  <2>4. NetworkTypes' BY Newer DEF NetworkTypes, RecoveryTypes
  <2>5. LockInv' /\ MainInv' BY DEF LockInv, MainInv
  <2>6. SubscribedInv' BY DEF SubscribedInv, LossPending, AttemptUnderWay, Queued
  <2>7. (StartInv /\ OrderInv)' BY DEF StartInv, OrderInv, Late
  <2>8. ContextInv' BY DEF ContextInv, MayOpen
  <2> QED BY <2>1, <2>2, <2>3, <2>4, <2>5, <2>6, <2>7, <2>8
<1>7. CASE StopReturns
  <2> USE <1>7 DEF StopReturns
  <2>1. RecoveryTypes' /\ ThreadTypes' /\ ContextTypes' /\ NetworkTypes'
    <3>1. RecoveryTypes' BY Same DEF RecoveryTypes
    <3>2. ThreadTypes' BY Same DEF ThreadTypes
    <3>3. ContextTypes' BY Same DEF ContextTypes
    <3>4. NetworkTypes' BY Same DEF NetworkTypes
    <3> QED BY <3>1, <3>2, <3>3, <3>4
  <2>2. LockInv' /\ MainInv' BY DEF LockInv, MainInv
  <2>3. SubscribedInv' BY DEF SubscribedInv, LossPending, AttemptUnderWay, Queued
  <2>4. (StartInv /\ OrderInv)' BY DEF StartInv, OrderInv, Late
  <2>5. ContextInv' BY DEF ContextInv, MayOpen
  <2> QED BY <2>1, <2>2, <2>3, <2>4, <2>5
<1>8. ASSUME NEW c \in contextsToStop, StopSecureTunnel(c) PROVE IndInv'
  <2> USE <1>8 DEF StopSecureTunnel
  <2>1. RecoveryTypes' /\ ThreadTypes' /\ NetworkTypes'
    <3>1. RecoveryTypes' BY Same DEF RecoveryTypes
    <3>2. ThreadTypes' BY Same DEF ThreadTypes
    <3>3. NetworkTypes' BY Same DEF NetworkTypes
    <3> QED BY <3>1, <3>2, <3>3
  <2>2. ContextTypes' BY DEF ContextTypes
  <2>3. LockInv' /\ MainInv' BY DEF LockInv, MainInv
  <2>4. SubscribedInv' BY DEF SubscribedInv, LossPending, AttemptUnderWay, Queued
  <2>5. (StartInv /\ OrderInv)' BY DEF StartInv, OrderInv, Late
  <2>6. ContextInv'
    <3>1. \A d \in 1 .. created : d \in Contexts
      BY ConstantsAssumption DEF ContextTypes, Contexts, ConstantsAssumption
    <3>2. \A d \in 1 .. created : stopping'[d] = IF d = c THEN TRUE ELSE stopping[d]
      BY <3>1 DEF ContextTypes
    <3>3. \A d \in 1 .. created : MayOpen(d) => stopping'[d] \/ d \in contextsToStop'
      BY <3>2 DEF ContextInv
    <3> QED BY <3>3 DEF ContextInv, MayOpen
  <2> QED BY <2>1, <2>2, <2>3, <2>4, <2>5, <2>6
<1> QED BY <1>1, <1>2, <1>3, <1>4, <1>5, <1>6, <1>7, <1>8

\* The recovery of the subscription and the acknowledgements.
LEMMA RecoveryPreserves ==
    ASSUME IndInv,
           \/ TakeSnapshot
           \/ onConnectionResumed
           \/ LockedSubscriptionQueued
           \/ LockedSubscriptionRefused
           \/ LockedRequestsRetry
           \/ LoopRequestsRetry
           \/ (\E g \in retryTimers : retrySubscriptionRecovery(g))
           \/ (\E g \in sent : Subscribed(g))
           \/ (\E g \in sent : SubscriptionFails(g))
    PROVE  IndInv'
<1> USE DEF IndInv, TypeOK
<1>1. CASE TakeSnapshot
  <2> USE <1>1 DEF TakeSnapshot
  <2>1. RecoveryTypes' /\ ThreadTypes' /\ ContextTypes' /\ NetworkTypes'
    <3>1. RecoveryTypes' BY Same DEF RecoveryTypes
    <3>2. ThreadTypes' BY Same DEF ThreadTypes
    <3>3. ContextTypes' BY Same DEF ContextTypes
    <3>4. NetworkTypes' BY Same DEF NetworkTypes
    <3> QED BY <3>1, <3>2, <3>3, <3>4
  <2>2. LockInv' /\ MainInv' BY DEF LockInv, MainInv
  <2>3. SubscribedInv' BY DEF SubscribedInv, LossPending, AttemptUnderWay, Queued, MainInv
  <2>4. (StartInv /\ OrderInv)' BY DEF StartInv, OrderInv, Late
  <2>5. ContextInv' BY DEF ContextInv, MayOpen
  <2> QED BY <2>1, <2>2, <2>3, <2>4, <2>5
<1>2. CASE onConnectionResumed
  <2> USE <1>2 DEF onConnectionResumed, LockAndSubscribe, LifecycleLockIsFree, OldestAfterLoss
  <2>1. ContextTypes' BY DEF ContextTypes
  <2>2. RecoveryTypes'
    <3>1. CASE mConnectionRecoveryGeneration' = mConnectionRecoveryGeneration + 1
      BY <3>1, Newer DEF RecoveryTypes
    <3>2. CASE mConnectionRecoveryGeneration' = mConnectionRecoveryGeneration
      BY <3>2, Same DEF RecoveryTypes
    <3> QED BY <3>1, <3>2
  <2>3. ThreadTypes'
    <3>1. CASE mConnectionRecoveryGeneration' = mConnectionRecoveryGeneration + 1
      BY <3>1, Newer DEF ThreadTypes, RecoveryTypes
    <3>2. CASE mConnectionRecoveryGeneration' = mConnectionRecoveryGeneration
      BY <3>2, Same DEF ThreadTypes, RecoveryTypes
    <3> QED BY <3>1, <3>2
  <2>4. NetworkTypes'
    <3>1. CASE mConnectionRecoveryGeneration' = mConnectionRecoveryGeneration + 1
      BY <3>1, Newer DEF NetworkTypes, RecoveryTypes
    <3>2. CASE mConnectionRecoveryGeneration' = mConnectionRecoveryGeneration
      BY <3>2, Same DEF NetworkTypes, RecoveryTypes
    <3> QED BY <3>1, <3>2
  <2>5. LockInv' /\ MainInv' BY DEF LockInv, MainInv
  <2>6. SubscribedInv' BY DEF SubscribedInv, LossPending, AttemptUnderWay, Queued, LockInv
  <2>7. OrderInv' BY DEF OrderInv, Late
  <2>8. StartInv'
    <3>1. CASE UNCHANGED <<mConnectionRecoveryGeneration, mSubscriptionNeedsRecovery, lockVars>>
      BY <3>1 DEF StartInv
    <3>2. CASE /\ mStarted /\ clientReady /\ mSubscriptionNeedsRecovery'
               /\ mConnectionRecoveryGeneration' = mConnectionRecoveryGeneration + 1
      <4>1. mainGeneration # mConnectionRecoveryGeneration'
        BY <3>2 DEF ThreadTypes, RecoveryTypes, Generations
      <4>2. mSubscriptionNeedsRecovery' /\ mainPc \notin {"idle", "createClient"} BY <3>2 DEF MainInv
      <4> QED BY <4>1, <4>2 DEF StartInv
    <3> QED BY <3>1, <3>2
  <2>9. ContextInv' BY DEF ContextInv, MayOpen
  <2> QED BY <2>1, <2>2, <2>3, <2>4, <2>5, <2>6, <2>7, <2>8, <2>9
<1>3. CASE LockedSubscriptionQueued
  <2> USE <1>3 DEF LockedSubscriptionQueued, Unlock
  <2>1. RecoveryTypes' /\ ThreadTypes' /\ ContextTypes'
    <3>1. RecoveryTypes' BY Same DEF RecoveryTypes
    <3>2. ThreadTypes' BY Same DEF ThreadTypes
    <3>3. ContextTypes' BY Same DEF ContextTypes
    <3> QED BY <3>1, <3>2, <3>3
  <2>2. NetworkTypes'
    <3>1. queue \in Seq(Generations) /\ lockGeneration \in Generations BY DEF NetworkTypes, ThreadTypes
    <3>2. Append(queue, lockGeneration) \in Seq(Generations) BY <3>1, AppendProperties
    <3> QED BY <3>2, Same DEF NetworkTypes
  <2>3. LockInv' /\ MainInv' BY DEF LockInv, MainInv
  <2>4. SubscribedInv'
    <3>1. queue \in Seq(Generations) /\ lockGeneration \in Generations BY DEF NetworkTypes, ThreadTypes
    <3>2. \A g : Queued(g) => Queued(g)' BY <3>1, QueuedStays
    <3>3. Queued(lockGeneration)' BY <3>1, QueuedLast DEF Queued
    <3> QED BY <3>2, <3>3 DEF SubscribedInv, LossPending, AttemptUnderWay, LockInv
  <2>5. StartInv' BY DEF StartInv, LockInv
  <2>6. OrderInv'
    <3>1. queue \in Seq(Generations) /\ lockGeneration \in Generations BY DEF NetworkTypes, ThreadTypes
    <3>2. /\ Len(queue') = Len(queue) + 1 /\ Len(queue) \in Nat
          /\ \A i \in 1 .. Len(queue) : queue'[i] = queue[i]
          /\ queue'[Len(queue) + 1] = lockGeneration
      BY <3>1, AppendProperties, LenProperties
    <3>3. \A i \in 1 .. Len(queue) : queue[i] \in Generations BY <3>1, ElementOfSeq
    <3>4. lockGeneration = mConnectionRecoveryGeneration BY DEF LockInv
    <3>5. /\ handler <= lockGeneration /\ mOldestValidSubscriptionGeneration <= lockGeneration
          /\ \A i \in 1 .. Len(queue) : queue[i] <= lockGeneration
          /\ \A g \in sent : g <= lockGeneration
      BY <3>3, <3>4 DEF NetworkTypes, RecoveryTypes, Generations
    <3>6. \A i \in 1 .. Len(queue') : i \in 1 .. Len(queue) \/ queue'[i] = lockGeneration BY <3>2
    <3>7. lockGeneration <= lockGeneration BY <3>4 DEF RecoveryTypes
    <3>8. UNCHANGED <<overtaken, mainGeneration, handler, sent, mStarted, mSubscriptionNeedsRecovery,
                      mOldestValidSubscriptionGeneration>>
      OBVIOUS
    <3>9. \A i, j \in 1 .. Len(queue') :
             i < j => Late(queue'[i]) \/ Late(queue'[j]) \/ queue'[i] <= queue'[j]
      <4> SUFFICES ASSUME NEW i \in 1 .. Len(queue'), NEW j \in 1 .. Len(queue'), i < j
                   PROVE  Late(queue'[i]) \/ Late(queue'[j]) \/ queue'[i] <= queue'[j]
        OBVIOUS
      <4>1. i \in 1 .. Len(queue) /\ queue'[i] = queue[i] BY <3>2
      <4>2. CASE j \in 1 .. Len(queue) BY <3>2, <4>1, <4>2 DEF OrderInv
      <4>3. CASE j \notin 1 .. Len(queue) BY <3>5, <3>6, <4>1, <4>3
      <4> QED BY <4>2, <4>3
    <3>10. ASSUME NEW i \in 1 .. Len(queue')
           PROVE  /\ \A g \in sent : Late(g) \/ Late(queue'[i]) \/ g <= queue'[i]
                  /\ Late(handler) \/ Late(queue'[i]) \/ handler <= queue'[i]
                  /\ (mStarted /\ ~mSubscriptionNeedsRecovery) =>
                        Late(queue'[i]) \/ mOldestValidSubscriptionGeneration <= queue'[i]
      <4>1. CASE i \in 1 .. Len(queue) BY <3>2, <4>1 DEF OrderInv
      <4>2. CASE i \notin 1 .. Len(queue)
        <5>1. queue'[i] = lockGeneration BY <3>6, <4>2
        <5> HIDE DEF LockedSubscriptionQueued
        <5> QED BY <3>5, <5>1
      <4> QED BY <4>1, <4>2
    <3> HIDE DEF LockedSubscriptionQueued
    <3> QED BY <3>8, <3>9, <3>10 DEF OrderInv, Late
  <2>7. ContextInv' BY DEF ContextInv, MayOpen
  <2> QED BY <2>1, <2>2, <2>3, <2>4, <2>5, <2>6, <2>7
<1>4. CASE LockedSubscriptionRefused
  <2> USE <1>4 DEF LockedSubscriptionRefused, Unlock, FailureCounts, CallFails
  <2>1. RecoveryTypes' /\ ThreadTypes' /\ ContextTypes'
    <3>1. RecoveryTypes' BY Same DEF RecoveryTypes
    <3>2. ThreadTypes' BY Same DEF ThreadTypes
    <3>3. ContextTypes' BY Same DEF ContextTypes
    <3> QED BY <3>1, <3>2, <3>3
  <2>2. NetworkTypes' BY FailureCounted, Same DEF NetworkTypes
  <2>3. LockInv' /\ MainInv' BY DEF LockInv, MainInv
  <2>4. SubscribedInv' BY DEF SubscribedInv, LossPending, AttemptUnderWay, Queued, LockInv
  <2>5. OrderInv' BY DEF OrderInv, Late
  <2>6. StartInv' BY DEF StartInv, LockInv
  <2>7. ContextInv' BY DEF ContextInv, MayOpen
  <2> QED BY <2>1, <2>2, <2>3, <2>4, <2>5, <2>6, <2>7
<1>5. CASE LockedRequestsRetry
  <2> USE <1>5 DEF LockedRequestsRetry, Unlock, requestSubscriptionRecoveryRetry, RetryStillNeeded
  <2>1. RecoveryTypes' /\ ThreadTypes' /\ ContextTypes' /\ NetworkTypes'
    <3>1. RecoveryTypes' BY Same DEF RecoveryTypes
    <3>2. ThreadTypes' BY Same DEF ThreadTypes
    <3>3. ContextTypes' BY Same DEF ContextTypes
    <3>4. NetworkTypes' BY Same DEF NetworkTypes
    <3> QED BY <3>1, <3>2, <3>3, <3>4
  <2>2. LockInv' /\ MainInv' BY DEF LockInv, MainInv
  <2>3. SubscribedInv' BY DEF SubscribedInv, LossPending, AttemptUnderWay, Queued, LockInv
  <2>4. OrderInv' BY DEF OrderInv, Late
  <2>5. StartInv' BY DEF StartInv, LockInv
  <2>6. ContextInv' BY DEF ContextInv, MayOpen
  <2> QED BY <2>1, <2>2, <2>3, <2>4, <2>5, <2>6
<1>6. CASE LoopRequestsRetry
  <2> USE <1>6 DEF LoopRequestsRetry, requestSubscriptionRecoveryRetry, RetryStillNeeded
  <2>1. RecoveryTypes' /\ ContextTypes' /\ NetworkTypes'
    <3>1. RecoveryTypes' BY Same DEF RecoveryTypes
    <3>2. ContextTypes' BY Same DEF ContextTypes
    <3>3. NetworkTypes' BY Same DEF NetworkTypes
    <3> QED BY <3>1, <3>2, <3>3
  <2>2. ThreadTypes' BY Same DEF ThreadTypes, RecoveryTypes, Generations
  <2>3. LockInv' /\ MainInv' BY DEF LockInv, MainInv
  <2>4. SubscribedInv' BY DEF SubscribedInv, LossPending, AttemptUnderWay, Queued
  <2>5. (StartInv /\ OrderInv)' BY DEF StartInv, OrderInv, Late
  <2>6. ContextInv' BY DEF ContextInv, MayOpen
  <2> QED BY <2>1, <2>2, <2>3, <2>4, <2>5, <2>6
<1>7. ASSUME NEW g \in retryTimers, retrySubscriptionRecovery(g) PROVE IndInv'
  <2> USE <1>7 DEF retrySubscriptionRecovery, LockAndSubscribe, LifecycleLockIsFree, RetryStillNeeded
  <2>1. ContextTypes' BY DEF ContextTypes
  <2>2. RecoveryTypes'
    <3>1. CASE mConnectionRecoveryGeneration' = mConnectionRecoveryGeneration + 1
      BY <3>1, Newer DEF RecoveryTypes
    <3>2. CASE mConnectionRecoveryGeneration' = mConnectionRecoveryGeneration
      BY <3>2, Same DEF RecoveryTypes
    <3> QED BY <3>1, <3>2
  <2>3. ThreadTypes'
    <3>1. CASE mConnectionRecoveryGeneration' = mConnectionRecoveryGeneration + 1
      BY <3>1, Newer DEF ThreadTypes, RecoveryTypes
    <3>2. CASE mConnectionRecoveryGeneration' = mConnectionRecoveryGeneration
      BY <3>2, Same DEF ThreadTypes, RecoveryTypes
    <3> QED BY <3>1, <3>2
  <2>4. NetworkTypes'
    <3>1. CASE mConnectionRecoveryGeneration' = mConnectionRecoveryGeneration + 1
      BY <3>1, Newer DEF NetworkTypes, RecoveryTypes
    <3>2. CASE mConnectionRecoveryGeneration' = mConnectionRecoveryGeneration
      BY <3>2, Same DEF NetworkTypes, RecoveryTypes
    <3> QED BY <3>1, <3>2
  <2>5. LockInv' /\ MainInv' BY DEF LockInv, MainInv
  <2>6. SubscribedInv' BY DEF SubscribedInv, LossPending, AttemptUnderWay, Queued
  <2>7. StartInv' /\ OrderInv'
    <3>1. OrderInv' BY DEF OrderInv, Late
    <3>2. CASE UNCHANGED <<mConnectionRecoveryGeneration, lockVars>> BY <3>1, <3>2 DEF StartInv
    <3>3. CASE /\ clientReady /\ mSubscriptionNeedsRecovery
               /\ mConnectionRecoveryGeneration' = mConnectionRecoveryGeneration + 1
      <4>1. mainGeneration # mConnectionRecoveryGeneration'
        BY <3>3 DEF ThreadTypes, RecoveryTypes, Generations
      <4>2. mSubscriptionNeedsRecovery /\ mainPc \notin {"idle", "createClient"} BY <3>3 DEF MainInv
      <4> QED BY <3>1, <4>1, <4>2 DEF StartInv
    <3> QED BY <3>1, <3>2, <3>3
  <2>8. ContextInv' BY DEF ContextInv, MayOpen
  <2> QED BY <2>1, <2>2, <2>3, <2>4, <2>5, <2>6, <2>7, <2>8
<1>8. ASSUME NEW g \in sent, Subscribed(g) PROVE IndInv'
  <2> USE <1>8 DEF Subscribed, CompletionCounts
  <2>1. RecoveryTypes' /\ ThreadTypes' /\ ContextTypes' /\ NetworkTypes'
    <3>1. RecoveryTypes' BY Same DEF RecoveryTypes
    <3>2. ThreadTypes' BY Same DEF ThreadTypes
    <3>3. ContextTypes' BY Same DEF ContextTypes
    <3>4. NetworkTypes' BY Same DEF NetworkTypes
    <3> QED BY <3>1, <3>2, <3>3, <3>4
  <2>2. LockInv' /\ MainInv' BY DEF LockInv, MainInv
  <2>3. SubscribedInv' BY DEF SubscribedInv, LossPending, AttemptUnderWay, Queued
  <2>4. StartInv'
    <3>1. CASE g # mConnectionRecoveryGeneration
      <4>1. mSubscriptionNeedsRecovery => mSubscriptionNeedsRecovery' BY <3>1
      <4> QED BY <4>1 DEF StartInv
    <3>2. CASE g = mConnectionRecoveryGeneration
      <4>1. g = mConnectionRecoveryGeneration BY <3>2
      <4>2. ~overtaken \/ mainPc # "subscribe" BY DEF StartInv
      <4>3. mainPc = "subscribe" => g <= handler BY <4>2 DEF OrderInv, Late
      <4>4. /\ mainGeneration \in Nat /\ handler \in Nat /\ mConnectionRecoveryGeneration \in Nat
            /\ mainGeneration <= mConnectionRecoveryGeneration
        BY DEF ThreadTypes, NetworkTypes, RecoveryTypes, Generations
      <4>5. (mainPc = "subscribe" /\ mainGeneration # mConnectionRecoveryGeneration) =>
               mainGeneration < handler
        BY <4>1, <4>3, <4>4
      <4> QED BY <4>5 DEF StartInv
    <3> QED BY <3>1, <3>2
  <2>5. OrderInv' BY DEF OrderInv, Late, RecoveryTypes, NetworkTypes, Generations
  <2>6. ContextInv' BY DEF ContextInv, MayOpen
  <2> QED BY <2>1, <2>2, <2>3, <2>4, <2>5, <2>6
<1>9. ASSUME NEW g \in sent, SubscriptionFails(g) PROVE IndInv'
  <2> USE <1>9 DEF SubscriptionFails, CallFails, FailureCounts, CompletionCounts
  <2>1. RecoveryTypes' /\ ContextTypes' BY Same DEF RecoveryTypes, ContextTypes
  <2>2. ThreadTypes' BY Same DEF ThreadTypes, NetworkTypes, Generations, RecoveryTypes
  <2>3. NetworkTypes' BY FailureCounted, Same DEF NetworkTypes
  <2>4. LockInv' /\ MainInv' BY DEF LockInv, MainInv
  <2>5. SubscribedInv' BY DEF SubscribedInv, LossPending, AttemptUnderWay, Queued
  <2>6. (StartInv /\ OrderInv)' BY DEF StartInv, OrderInv, Late
  <2>7. ContextInv' BY DEF ContextInv, MayOpen
  <2> QED BY <2>1, <2>2, <2>3, <2>4, <2>5, <2>6, <2>7
<1> QED BY <1>1, <1>2, <1>3, <1>4, <1>5, <1>6, <1>7, <1>8, <1>9

\* A notification and the contexts.
LEMMA ContextPreserves ==
    ASSUME IndInv,
           \/ ExamineNotification
           \/ AddContext
           \/ ConnectToSecureTunnel
           \/ ConnectToSecureTunnelFails
           \/ EraseContext
           \/ (\E n \in Notifications : Notification(n))
           \/ (\E c \in 1 .. created : OnTunnelStopped(c))
    PROVE  IndInv'
<1> USE DEF IndInv, TypeOK
<1>1. CASE ExamineNotification
  <2> USE <1>1 DEF ExamineNotification, FeatureStillRunning
  <2>1. RecoveryTypes' /\ ThreadTypes' /\ NetworkTypes'
    <3>1. RecoveryTypes' BY Same DEF RecoveryTypes
    <3>2. ThreadTypes' BY Same DEF ThreadTypes
    <3>3. NetworkTypes' BY Same DEF NetworkTypes
    <3> QED BY <3>1, <3>2, <3>3
  <2>2. ContextTypes'
    <3>1. loopNotification \in Notifications \union {NoNotification} BY DEF ThreadTypes
    <3>2. mLastSeenNotifyResponse' \in [Contexts -> Notifications \union {NoNotification}]
      BY <3>1 DEF ContextTypes
    <3> QED BY <3>2 DEF ContextTypes
  <2>3. LockInv' /\ MainInv' BY DEF LockInv, MainInv
  <2>4. SubscribedInv' BY DEF SubscribedInv, LossPending, AttemptUnderWay, Queued
  <2>5. (StartInv /\ OrderInv)' BY DEF StartInv, OrderInv, Late
  <2>6. ContextInv' BY DEF ContextInv, MayOpen
  <2> QED BY <2>1, <2>2, <2>3, <2>4, <2>5, <2>6
<1>2. CASE AddContext
  <2> USE <1>2 DEF AddContext, FeatureStillRunning
  <2>1. RecoveryTypes' /\ NetworkTypes' BY Same DEF RecoveryTypes, NetworkTypes
  <2>2. ThreadTypes'
    <3>1. created \in Nat /\ created' \in {created, created + 1} BY DEF ContextTypes
    <3>2. contextsToStop \in SUBSET (1 .. created') BY <3>1 DEF ThreadTypes
    <3> QED BY <3>2, Same DEF ThreadTypes
  <2>3. ContextTypes'
    <3>1. CASE ~FeatureStillRunning BY <3>1 DEF ContextTypes, FeatureStillRunning
    <3>2. CASE FeatureStillRunning
      <4>1. created + 1 \in 1 .. MaxDeliveries /\ created' = created + 1
        BY <3>2, ConstantsAssumption DEF ContextInv, ContextTypes, NetworkTypes, ConstantsAssumption
      <4>2. mContexts' \in SUBSET (1 .. created') /\ created' \in 0 .. MaxDeliveries
        <5>1. mContexts \in SUBSET (1 .. created) /\ created \in Nat BY DEF ContextTypes
        <5>2. mContexts' = mContexts \union {created + 1} BY <3>2, <4>1 DEF FeatureStillRunning
        <5>3. 1 .. created \subseteq 1 .. (created + 1) /\ created + 1 \in 1 .. (created + 1) BY <5>1
        <5> QED BY <4>1, <5>1, <5>2, <5>3, ConstantsAssumption DEF ConstantsAssumption
      <4>3. origin' \in [Contexts -> Notifications \union {NoNotification}]
        BY <3>2, <4>1 DEF ContextTypes, ThreadTypes
      <4> QED BY <4>2, <4>3 DEF ContextTypes
    <3> QED BY <3>1, <3>2
  <2>4. LockInv' /\ MainInv' BY DEF LockInv, MainInv
  <2>5. SubscribedInv' BY DEF SubscribedInv, LossPending, AttemptUnderWay, Queued
  <2>6. (StartInv /\ OrderInv)' BY DEF StartInv, OrderInv, Late
  <2>7. ContextInv'
    <3>1. CASE ~FeatureStillRunning BY <3>1 DEF ContextInv, MayOpen
    <3>2. CASE FeatureStillRunning
      <4>1. /\ created \in Nat /\ created' = created + 1 /\ created + 1 \in Contexts
            /\ deliveries \in Nat /\ created < deliveries
        BY <3>2, ConstantsAssumption
        DEF ContextInv, ContextTypes, NetworkTypes, Contexts, ConstantsAssumption
      <4>2. phase[created + 1] = "new" BY <4>1 DEF ContextInv
      <4>3. mainPc \notin {"stopping", "stopped"} BY <3>2 DEF MainInv
      <4>4. \A c \in 1 .. created' : c \in 1 .. created \/ c = created + 1 BY <4>1
      <4>5. \A c \in Contexts : c > created' => phase'[c] = "new" BY <4>1 DEF ContextInv, Contexts
      <4>6. \A c \in 1 .. created' : MayOpen(c)' => c \in mContexts'
        BY <3>2, <4>1, <4>4 DEF ContextInv, MayOpen
      <4> QED BY <3>2, <4>1, <4>2, <4>3, <4>5, <4>6 DEF ContextInv
    <3> QED BY <3>1, <3>2
  <2> QED BY <2>1, <2>2, <2>3, <2>4, <2>5, <2>6, <2>7
<1>3. CASE ConnectToSecureTunnel
  <2> USE <1>3 DEF ConnectToSecureTunnel
  <2>1. RecoveryTypes' /\ ThreadTypes' /\ NetworkTypes'
    <3>1. RecoveryTypes' BY Same DEF RecoveryTypes
    <3>2. ThreadTypes' BY Same DEF ThreadTypes
    <3>3. NetworkTypes' BY Same DEF NetworkTypes
    <3> QED BY <3>1, <3>2, <3>3
  <2>2. ContextTypes' BY DEF ContextTypes
  <2>3. LockInv' /\ MainInv' BY DEF LockInv, MainInv
  <2>4. SubscribedInv' BY DEF SubscribedInv, LossPending, AttemptUnderWay, Queued
  <2>5. (StartInv /\ OrderInv)' BY DEF StartInv, OrderInv, Late
  <2>6. ContextInv' BY DEF ContextInv, MayOpen, ContextTypes, NetworkTypes, Contexts
  <2> QED BY <2>1, <2>2, <2>3, <2>4, <2>5, <2>6
<1>4. CASE ConnectToSecureTunnelFails
  <2> USE <1>4 DEF ConnectToSecureTunnelFails, CallFails
  <2>1. RecoveryTypes' /\ ThreadTypes' /\ ContextTypes'
    <3>1. RecoveryTypes' BY Same DEF RecoveryTypes
    <3>2. ThreadTypes' BY Same DEF ThreadTypes
    <3>3. ContextTypes' BY Same DEF ContextTypes
    <3> QED BY <3>1, <3>2, <3>3
  <2>2. NetworkTypes' BY FailureCounted, Same DEF NetworkTypes
  <2>3. LockInv' /\ MainInv' BY DEF LockInv, MainInv
  <2>4. SubscribedInv' BY DEF SubscribedInv, LossPending, AttemptUnderWay, Queued
  <2>5. (StartInv /\ OrderInv)' BY DEF StartInv, OrderInv, Late
  <2>6. ContextInv' BY DEF ContextInv, MayOpen, ContextTypes, NetworkTypes, Contexts
  <2> QED BY <2>1, <2>2, <2>3, <2>4, <2>5, <2>6
<1>5. CASE EraseContext
  <2> USE <1>5 DEF EraseContext
  <2>1. RecoveryTypes' /\ ThreadTypes' /\ ContextTypes' /\ NetworkTypes'
    <3>1. RecoveryTypes' BY Same DEF RecoveryTypes
    <3>2. ThreadTypes' BY Same DEF ThreadTypes
    <3>3. ContextTypes' BY Same DEF ContextTypes
    <3>4. NetworkTypes' BY Same DEF NetworkTypes
    <3> QED BY <3>1, <3>2, <3>3, <3>4
  <2>2. LockInv' /\ MainInv' BY DEF LockInv, MainInv
  <2>3. SubscribedInv' BY DEF SubscribedInv, LossPending, AttemptUnderWay, Queued
  <2>4. (StartInv /\ OrderInv)' BY DEF StartInv, OrderInv, Late
  <2>5. ContextInv' BY DEF ContextInv, MayOpen
  <2> QED BY <2>1, <2>2, <2>3, <2>4, <2>5
<1>6. ASSUME NEW n \in Notifications, Notification(n) PROVE IndInv'
  <2> USE <1>6 DEF Notification
  <2>1. RecoveryTypes' /\ ContextTypes' BY Same DEF RecoveryTypes, ContextTypes
  <2>2. ThreadTypes' BY Same DEF ThreadTypes, RecoveryTypes
  <2>3. NetworkTypes' BY Same, ConstantsAssumption DEF NetworkTypes, ConstantsAssumption
  <2>4. LockInv' /\ MainInv' BY DEF LockInv, MainInv
  <2>5. SubscribedInv' BY DEF SubscribedInv, LossPending, AttemptUnderWay, Queued
  <2>6. (StartInv /\ OrderInv)' BY DEF StartInv, OrderInv, Late
  <2>7. ContextInv' BY DEF ContextInv, MayOpen, ContextTypes, NetworkTypes, Contexts
  <2> QED BY <2>1, <2>2, <2>3, <2>4, <2>5, <2>6, <2>7
<1>7. ASSUME NEW c \in 1 .. created, OnTunnelStopped(c) PROVE IndInv'
  <2> USE <1>7 DEF OnTunnelStopped
  <2>1. RecoveryTypes' /\ ThreadTypes' /\ NetworkTypes'
    <3>1. RecoveryTypes' BY Same DEF RecoveryTypes
    <3>2. ThreadTypes' BY Same DEF ThreadTypes
    <3>3. NetworkTypes' BY Same DEF NetworkTypes
    <3> QED BY <3>1, <3>2, <3>3
  <2>2. ContextTypes' BY DEF ContextTypes
  <2>3. LockInv' /\ MainInv' BY DEF LockInv, MainInv
  <2>4. SubscribedInv' BY DEF SubscribedInv, LossPending, AttemptUnderWay, Queued
  <2>5. (StartInv /\ OrderInv)' BY DEF StartInv, OrderInv, Late
  <2>6. ContextInv'
    <3>1. \A d \in 1 .. created : d \in Contexts
      BY ConstantsAssumption DEF ContextTypes, Contexts, ConstantsAssumption
    <3>2. \A d \in Contexts : phase'[d] = IF d = c THEN "ended" ELSE phase[d] BY DEF ContextTypes
    <3>3. \A d \in 1 .. created : MayOpen(d)' => MayOpen(d) /\ d # c BY <3>1, <3>2 DEF MayOpen
    <3>4. \A d \in Contexts : d > created => phase'[d] = "new"
      BY <3>2 DEF ContextInv, ContextTypes, Contexts
    <3> QED BY <3>3, <3>4 DEF ContextInv, MayOpen
  <2> QED BY <2>1, <2>2, <2>3, <2>4, <2>5, <2>6
<1> QED BY <1>1, <1>2, <1>3, <1>4, <1>5, <1>6, <1>7

\* The client and the network.
LEMMA ClientPreserves ==
    ASSUME IndInv,
           \/ SendSubscribe
           \/ ConnectionLost
           \/ (\E present \in BOOLEAN : ConnectionResumes(present))
    PROVE  IndInv'
<1> USE DEF IndInv, TypeOK
<1>1. CASE SendSubscribe
  <2> USE <1>1 DEF SendSubscribe
  <2>1. RecoveryTypes' /\ ThreadTypes' /\ ContextTypes'
    <3>1. RecoveryTypes' BY Same DEF RecoveryTypes
    <3>2. ThreadTypes' BY Same DEF ThreadTypes
    <3>3. ContextTypes' BY Same DEF ContextTypes
    <3> QED BY <3>1, <3>2, <3>3
  <2>2. NetworkTypes'
    <3>1. queue \in Seq(Generations) BY DEF NetworkTypes
    <3>2. Tail(queue) \in Seq(Generations) /\ Head(queue) \in Generations BY <3>1, HeadTailProperties
    <3> QED BY <3>2, Same DEF NetworkTypes
  <2>3. LockInv' /\ MainInv' BY DEF LockInv, MainInv
  <2>4. SubscribedInv'
    <3>1. queue \in Seq(Generations) BY DEF NetworkTypes
    <3>2. /\ Len(queue) \in Nat \ {0} /\ Len(queue') = Len(queue) - 1
          /\ \A i \in 1 .. Len(queue') : queue'[i] = queue[i + 1]
          /\ Head(queue) = queue[1]
      BY <3>1, HeadTailProperties, EmptySeq
    <3>3. \A g : Queued(g) => Queued(g)' \/ g \in sent'
      <4> SUFFICES ASSUME NEW g, NEW i \in 1 .. Len(queue), queue[i] = g
                   PROVE  Queued(g)' \/ g \in sent'
        BY DEF Queued
      <4>1. CASE i = 1 BY <3>2, <4>1
      <4>2. CASE i # 1
        <5>1. i - 1 \in 1 .. Len(queue') /\ queue'[i - 1] = queue[i] BY <3>2, <4>2
        <5> QED BY <5>1 DEF Queued
      <4> QED BY <4>1, <4>2
    <3> QED BY <3>3 DEF SubscribedInv, LossPending, AttemptUnderWay
  <2>5. /\ Len(queue) \in Nat \ {0} /\ Len(queue') = Len(queue) - 1
        /\ \A i \in 1 .. Len(queue') : i + 1 \in 1 .. Len(queue) /\ queue'[i] = queue[i + 1]
        /\ handler' = queue[1] /\ sent' = sent \union {queue[1]} /\ 1 \in 1 .. Len(queue)
    <3>1. queue \in Seq(Generations) BY DEF NetworkTypes
    <3>2. /\ Len(queue) \in Nat \ {0} /\ Len(queue') = Len(queue) - 1
          /\ \A i \in 1 .. Len(queue') : queue'[i] = queue[i + 1]
          /\ Head(queue) = queue[1]
      BY <3>1, HeadTailProperties, EmptySeq
    <3> QED BY <3>2
  <2>6. queue[1] \in Nat
    BY <2>2 DEF NetworkTypes, Generations
  <2>7. StartInv'
    <3>1. (mainPc = "subscribe" /\ mainGeneration # mConnectionRecoveryGeneration
              /\ ~mSubscriptionNeedsRecovery)' => (mainGeneration < handler)'
      <4>1. Late(handler) \/ Late(queue[1]) \/ handler <= queue[1] BY <2>5 DEF OrderInv
      <4>2. mainGeneration \in Nat /\ handler \in Nat BY DEF ThreadTypes, NetworkTypes, Generations
      <4> QED BY <2>5, <2>6, <4>1, <4>2 DEF StartInv, Late
    <3> QED BY <3>1 DEF StartInv
  <2>8. OrderInv'
    <3>1. \A i, j \in 1 .. Len(queue') :
             i < j => Late(queue'[i]) \/ Late(queue'[j]) \/ queue'[i] <= queue'[j]
      BY <2>5 DEF OrderInv
    <3>2. \A i \in 1 .. Len(queue') : Late(queue[1]) \/ Late(queue'[i]) \/ queue[1] <= queue'[i]
      BY <2>5 DEF OrderInv
    <3>3. \A g \in sent, i \in 1 .. Len(queue') : Late(g) \/ Late(queue'[i]) \/ g <= queue'[i]
      BY <2>5 DEF OrderInv
    <3>4. \A g \in sent : Late(g) \/ Late(queue[1]) \/ g <= queue[1] BY <2>5 DEF OrderInv
    <3>5. queue[1] <= queue[1] BY <2>6
    <3>6. (mStarted /\ ~mSubscriptionNeedsRecovery)' =>
             /\ Late(queue[1]) \/ mOldestValidSubscriptionGeneration <= queue[1]
             /\ \A i \in 1 .. Len(queue') :
                   Late(queue'[i]) \/ mOldestValidSubscriptionGeneration <= queue'[i]
      BY <2>5 DEF OrderInv
    <3> HIDE DEF SendSubscribe
    <3>7. UNCHANGED <<overtaken, mainGeneration, mStarted, mSubscriptionNeedsRecovery,
                      mOldestValidSubscriptionGeneration>>
      BY DEF SendSubscribe
    <3> QED BY <2>5, <3>1, <3>2, <3>3, <3>4, <3>5, <3>6, <3>7 DEF OrderInv, Late
  <2>9. ContextInv' BY DEF ContextInv, MayOpen
  <2> QED BY <2>1, <2>2, <2>3, <2>4, <2>5, <2>6, <2>7, <2>8, <2>9
<1>2. CASE ConnectionLost
  <2> USE <1>2 DEF ConnectionLost
  <2>1. RecoveryTypes' /\ ThreadTypes' /\ ContextTypes'
    <3>1. RecoveryTypes' BY Same DEF RecoveryTypes
    <3>2. ThreadTypes' BY Same DEF ThreadTypes
    <3>3. ContextTypes' BY Same DEF ContextTypes
    <3> QED BY <3>1, <3>2, <3>3
  <2>2. NetworkTypes'
    <3>1. outages' \in 0 .. MaxOutages BY ConstantsAssumption DEF NetworkTypes, ConstantsAssumption
    <3> QED BY <3>1, Same DEF NetworkTypes
  <2>3. LockInv' /\ MainInv' BY DEF LockInv, MainInv
  <2>4. SubscribedInv' BY DEF SubscribedInv, LossPending, AttemptUnderWay, Queued
  <2>5. (StartInv /\ OrderInv)' BY DEF StartInv, OrderInv, Late
  <2>6. ContextInv' BY DEF ContextInv, MayOpen
  <2> QED BY <2>1, <2>2, <2>3, <2>4, <2>5, <2>6
<1>3. ASSUME NEW present \in BOOLEAN, ConnectionResumes(present) PROVE IndInv'
  <2> USE <1>3 DEF ConnectionResumes
  <2>1. RecoveryTypes' /\ ThreadTypes' /\ ContextTypes' /\ NetworkTypes'
    <3>1. RecoveryTypes' BY Same DEF RecoveryTypes
    <3>2. ThreadTypes' BY Same DEF ThreadTypes
    <3>3. ContextTypes' BY Same DEF ContextTypes
    <3>4. NetworkTypes' BY Same DEF NetworkTypes
    <3> QED BY <3>1, <3>2, <3>3, <3>4
  <2>2. LockInv' /\ MainInv' BY DEF LockInv, MainInv
  <2>3. SubscribedInv' BY DEF SubscribedInv, LossPending, AttemptUnderWay, Queued
  <2>4. (StartInv /\ OrderInv)' BY DEF StartInv, OrderInv, Late
  <2>5. ContextInv' BY DEF ContextInv, MayOpen
  <2> QED BY <2>1, <2>2, <2>3, <2>4, <2>5
<1> QED BY <1>1, <1>2, <1>3

\* A step that changes nothing.
LEMMA StutterPreserves == ASSUME IndInv, UNCHANGED vars PROVE IndInv'
<1> USE DEF IndInv, TypeOK, vars
<1>1. RecoveryTypes' /\ ThreadTypes' /\ ContextTypes' /\ NetworkTypes'
  <2>1. RecoveryTypes' BY Same DEF RecoveryTypes
  <2>2. ThreadTypes' BY Same DEF ThreadTypes
  <2>3. ContextTypes' BY Same DEF ContextTypes
  <2>4. NetworkTypes' BY Same DEF NetworkTypes
  <2> QED BY <2>1, <2>2, <2>3, <2>4
<1>2. LockInv' /\ MainInv' BY DEF LockInv, MainInv
<1>3. SubscribedInv' BY DEF SubscribedInv, LossPending, AttemptUnderWay, Queued
<1>4. (StartInv /\ OrderInv)' BY DEF StartInv, OrderInv, Late
<1>5. ContextInv' BY DEF ContextInv, MayOpen
<1> QED BY <1>1, <1>2, <1>3, <1>4, <1>5

\* Every step preserves the invariant, whatever the bounds and the notifications.
THEOREM InductiveInvariant == Spec => []IndInv
<1>1. Init => IndInv BY InitEstablishes
<1>2. IndInv /\ [Next]_vars => IndInv'
  <2> SUFFICES ASSUME IndInv, [Next]_vars PROVE IndInv' OBVIOUS
  <2>1. CASE UNCHANGED vars BY <2>1, StutterPreserves
  <2>2. CASE start \/ InitialSubscriptionStep \/ StopTeardown \/ StopStep
    BY <2>2, MainPreserves DEF InitialSubscriptionStep, StopStep
  <2>3. CASE RetryStep \/ LockedStep \/ AcknowledgeStep
    BY <2>3, RecoveryPreserves DEF RetryStep, LockedStep, AcknowledgeStep
  <2>4. CASE LoopStep BY <2>4, RecoveryPreserves, ContextPreserves DEF LoopStep
  <2>5. CASE (\E n \in Notifications : Notification(n)) \/ (\E c \in 1 .. created : OnTunnelStopped(c))
    BY <2>5, ContextPreserves
  <2>6. CASE SendSubscribe \/ ConnectionLost \/ ResumeStep
    BY <2>6, ClientPreserves DEF ResumeStep
  <2>7. CASE Finished BY <2>7, StutterPreserves DEF Finished
  <2> QED BY <2>1, <2>2, <2>3, <2>4, <2>5, <2>6, <2>7 DEF Next
<1> QED BY <1>1, <1>2, PTL DEF Spec
-----------------------------------------------------------------------------
(***************************************************************************)
(* What follows from it.                                                   *)
(***************************************************************************)

\* Every variable keeps its type, and no generation is ahead of mConnectionRecoveryGeneration
\* (SecureTunnelingFeature.h).
THEOREM TypeCorrect == Spec => []TypeOK
<1>1. IndInv => TypeOK BY DEF IndInv
<1> QED BY <1>1, InductiveInvariant, PTL

\* The feature is subscribed, about to be, or knows that it is not
\* (SecureTunnelingFeature::onConnectionResumed, OnSubscribeComplete).
THEOREM SubscribedOrKnowing == Spec => []SubscribedOrRecovering
<1>1. IndInv => SubscribedOrRecovering
  <2> SUFFICES ASSUME IndInv PROVE SubscribedOrRecovering OBVIOUS
  <2>1. SubscribedInv BY DEF IndInv
  <2>2. ASSUME mainGeneration = mConnectionRecoveryGeneration,
               AttemptUnderWay(mConnectionRecoveryGeneration)
        PROVE  AttemptUnderWay(mainGeneration)
    BY <2>2
  <2> QED BY <2>1, <2>2 DEF SubscribedInv, SubscribedOrRecovering
<1> QED BY <1>1, InductiveInvariant, PTL

\* The handler in place is of an accepted generation, but for the one of start() that was queued behind a
\* newer one (OnSubscribeToTunnelsNotifyResponse, RunSecureTunneling).
THEOREM HandlerIsAccepted == Spec => []RecoveriesAreHeard
<1>1. IndInv => RecoveriesAreHeard
  <2> SUFFICES ASSUME IndInv PROVE RecoveriesAreHeard OBVIOUS
  <2>1. OrderInv BY DEF IndInv
  <2>2. handler <= mConnectionRecoveryGeneration BY DEF IndInv, TypeOK, NetworkTypes, Generations
  <2> QED BY <2>1, <2>2 DEF OrderInv, Late, RecoveriesAreHeard, CountsOnHandler, HandlerIsHeard
<1> QED BY <1>1, InductiveInvariant, PTL

\* No tunnel survives a stop() that it raced with (stop, OnSubscribeToTunnelsNotifyResponse).
THEOREM StopReachesAll == Spec => []StopReachesEveryContext
<1>1. IndInv => StopReachesEveryContext
  BY DEF IndInv, ContextInv, MayOpen, StopReachesEveryContext
<1> QED BY <1>1, InductiveInvariant, PTL

-----------------------------------------------------------------------------
(***************************************************************************)
(* The contexts and their life cycle.                                      *)
(***************************************************************************)

\* A context begins as the life cycle does.
LEMMA LifecycleBegins == ASSUME Init, NEW c \in Contexts PROVE Lifecycle(c)!Init
  BY DEF Init, Lifecycle!Init

\* The steps that change a context are steps of its life cycle; the others change nothing of it.
LEMMA LifecycleGoesOn ==
    ASSUME IndInv, [Next]_vars, NEW c \in Contexts
    PROVE  [Lifecycle(c)!Next]_(Lifecycle(c)!vars)
<1> USE DEF Lifecycle!Next, Lifecycle!vars
<1>1. /\ phase \in [Contexts -> {"new", "failed", "open", "ended"}] /\ stopping \in [Contexts -> BOOLEAN]
      /\ created \in 0 .. MaxDeliveries
  BY DEF IndInv, TypeOK, ContextTypes
<1>2. CASE UNCHANGED <<phase, stopping, mContexts>> BY <1>2
<1>3. ASSUME NEW d \in contextsToStop, StopSecureTunnel(d)
      PROVE  [Lifecycle(c)!Next]_(Lifecycle(c)!vars)
  <2>1. /\ UNCHANGED <<phase, mContexts>> /\ stopping' = [stopping EXCEPT ![d] = TRUE]
    BY <1>3 DEF StopSecureTunnel
  <2>2. CASE stopping'[c] = stopping[c] BY <2>1, <2>2
  <2>3. CASE stopping'[c] # stopping[c]
    <3>1. ~stopping[c] /\ stopping'[c] = TRUE BY <1>1, <2>1, <2>3
    <3> QED BY <2>1, <3>1 DEF Lifecycle!RequestStop
  <2> QED BY <2>2, <2>3
<1>4. CASE AddContext
  <2>1. UNCHANGED <<phase, stopping>> BY <1>4 DEF AddContext
  <2>2. CASE UNCHANGED mContexts BY <1>2, <2>1, <2>2
  <2>3. CASE created' = created + 1 /\ mContexts' = mContexts \union {created'}
    <3>1. phase[created'] = "new"
      <4>1. created' \in Contexts
        BY <1>1, <1>4, <2>3, ConstantsAssumption
        DEF AddContext, IndInv, ContextInv, TypeOK, NetworkTypes, Contexts, ConstantsAssumption
      <4> QED BY <1>1, <2>3, <4>1 DEF IndInv, ContextInv
    <3>2. phase[c] = "failed" => (c \in mContexts' <=> c \in mContexts) BY <2>3, <3>1
    <3> QED BY <2>1, <3>2
  <2> QED BY <1>4, <2>2, <2>3 DEF AddContext
<1>5. CASE ConnectToSecureTunnel
  <2>1. /\ phase[created] = "new" /\ phase' = [phase EXCEPT ![created] = "open"]
        /\ UNCHANGED <<stopping, mContexts>>
    BY <1>5 DEF ConnectToSecureTunnel, IndInv, ContextInv
  <2>2. CASE c = created BY <1>1, <2>1, <2>2 DEF Lifecycle!Open
  <2>3. CASE c # created
    <3>1. phase'[c] = phase[c] BY <1>1, <2>1, <2>3
    <3> QED BY <2>1, <3>1
  <2> QED BY <2>2, <2>3
<1>6. CASE ConnectToSecureTunnelFails
  <2>1. /\ phase[created] = "new" /\ phase' = [phase EXCEPT ![created] = "failed"]
        /\ UNCHANGED <<stopping, mContexts>> /\ created \in mContexts
    BY <1>1, <1>6 DEF ConnectToSecureTunnelFails, IndInv, ContextInv, MayOpen
  <2>2. CASE c = created BY <1>1, <2>1, <2>2 DEF Lifecycle!Fail
  <2>3. CASE c # created
    <3>1. phase'[c] = phase[c] BY <1>1, <2>1, <2>3
    <3> QED BY <2>1, <3>1
  <2> QED BY <2>2, <2>3
<1>7. CASE EraseContext
  <2>1. /\ phase[created] = "failed" /\ mContexts' = mContexts \ {created}
        /\ UNCHANGED <<phase, stopping>>
    BY <1>7 DEF EraseContext, IndInv, ContextInv
  <2>2. CASE c = created /\ c \in mContexts BY <2>1, <2>2 DEF Lifecycle!Release
  <2>3. CASE c # created \/ c \notin mContexts
    <3>1. c \in mContexts' <=> c \in mContexts BY <2>1, <2>3
    <3> QED BY <2>1, <3>1
  <2> QED BY <2>2, <2>3
<1>8. ASSUME NEW d \in 1 .. created, OnTunnelStopped(d)
      PROVE  [Lifecycle(c)!Next]_(Lifecycle(c)!vars)
  <2>1. /\ phase[d] = "open" /\ phase' = [phase EXCEPT ![d] = "ended"]
        /\ mContexts' = mContexts \ {d} /\ UNCHANGED stopping
    BY <1>8 DEF OnTunnelStopped
  <2>2. CASE c = d BY <1>1, <2>1, <2>2 DEF Lifecycle!End
  <2>3. CASE c # d
    <3>1. phase'[c] = phase[c] /\ (c \in mContexts' <=> c \in mContexts) BY <1>1, <2>1, <2>3
    <3> QED BY <2>1, <3>1
  <2> QED BY <2>2, <2>3
<1>9. CASE \/ start \/ InitialSubscriptionStep \/ StopTeardown \/ StopReturns
  BY <1>2, <1>9 DEF start, InitialSubscriptionStep, RunSecureTunneling, SubscriptionQueued,
                    SubscriptionRefused, MainRequestsRetry, StopTeardown, StopReturns
<1>10. CASE RetryStep \/ LockedStep
  BY <1>2, <1>10 DEF RetryStep, retrySubscriptionRecovery, LockedStep, LockedSubscriptionQueued,
                     LockedSubscriptionRefused, LockedRequestsRetry
<1>11. CASE TakeSnapshot \/ onConnectionResumed \/ LoopRequestsRetry \/ ExamineNotification
  BY <1>2, <1>11 DEF TakeSnapshot, onConnectionResumed, LoopRequestsRetry, ExamineNotification
<1>12. CASE \/ \E n \in Notifications : Notification(n)
            \/ SendSubscribe \/ AcknowledgeStep \/ ConnectionLost \/ ResumeStep \/ Finished
            \/ UNCHANGED vars
  BY <1>2, <1>12 DEF Notification, SendSubscribe, AcknowledgeStep, Subscribed, SubscriptionFails,
                     ConnectionLost, ResumeStep, ConnectionResumes, Finished, vars
<1> QED BY <1>3, <1>4, <1>5, <1>6, <1>7, <1>8, <1>9, <1>10, <1>11, <1>12 DEF Next, StopStep, LoopStep

\* Every context of the feature goes through the life cycle that TunnelContext implements: the
\* abstraction of a context by its phase is the one its own module justifies.
THEOREM ContextsImplementLifecycle == Spec => ContextsFollowLifecycle
<1>1. Init => \A c \in Contexts : Lifecycle(c)!Init BY LifecycleBegins
<1>2. IndInv /\ [Next]_vars => \A c \in Contexts : [Lifecycle(c)!Next]_(Lifecycle(c)!vars) BY LifecycleGoesOn
<1> QED BY <1>1, <1>2, InductiveInvariant, PTL DEF Spec, ContextsFollowLifecycle
=============================================================================
