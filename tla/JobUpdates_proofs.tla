-------------------------- MODULE JobUpdates_proofs --------------------------
(***************************************************************************)
(* Proofs about JobUpdates, for every set of jobs, every number of         *)
(* admissions and retries and every bound on failures, duplicates and      *)
(* steps of the clock.  IndInv is shown inductive, one lemma per conjunct. *)
(***************************************************************************)
EXTENDS JobUpdates, TLAPS

USE DEF needStop, mainVars, loopVars, updaterVars, mapVars, networkVars
-----------------------------------------------------------------------------
(***************************************************************************)
(* Types.                                                                  *)
(***************************************************************************)

PcValues == {"none", "begin", "publish", "getFuture", "wait", "sleep", "onComplete", "notify", "done"}

\* The two updates of an admitted job are updaters.
LEMMA UpdatesAreUpdaters == \A n \in 1 .. MaxAdmissions : Updates(n) \subseteq Updaters
BY DEF Updates, Updaters

\* Detaching an updater.
LEMMA PublishingTypes ==
    ASSUME ThreadTypes, NEW u \in Updaters, publishUpdateJobExecutionStatus(u)
    PROVE  /\ updaterPc' \in [Updaters -> PcValues]
           /\ retriesForever' \in [Updaters -> BOOLEAN]
           /\ attempt' \in [Updaters -> Nat]
<1> USE DEF ThreadTypes, publishUpdateJobExecutionStatus, PcValues
<1>1. updaterPc' \in [Updaters -> PcValues] OBVIOUS
<1>2. RetriesForever \in BOOLEAN BY DEF RetriesForever
<1>3. retriesForever' \in [Updaters -> BOOLEAN] BY <1>2
<1> QED BY <1>1, <1>3

\* Sweeping or erasing promises.
LEMMA ErasingTypes ==
    ASSUME NetworkTypes, NEW tokens, ErasePromises(tokens)
    PROVE  /\ DOMAIN promises' = DOMAIN promises \ tokens
           /\ DOMAIN promises' \subseteq Updaters \X Nat
           /\ promises' \in [DOMAIN promises' -> PromiseValues]
           /\ expired' \subseteq DOMAIN promises'
BY DEF NetworkTypes, ErasePromises

\* The end of an attempt.
LEMMA EndAttemptTypes ==
    ASSUME TypeOK, NEW u \in Updaters, NEW finished \in BOOLEAN, EndAttempt(u, finished)
    PROVE  /\ ThreadTypes'
           /\ DOMAIN promises' = DOMAIN promises \ {Token(u)}
           /\ DOMAIN promises' \subseteq Updaters \X Nat
           /\ promises' \in [DOMAIN promises' -> PromiseValues]
           /\ expired' \subseteq DOMAIN promises'
<1> USE DEF TypeOK, ThreadTypes, EndAttempt
<1>1. Completed(u) \in PcValues BY DEF Completed, PcValues
<1>2. updaterPc' \in [Updaters -> PcValues] BY <1>1 DEF PcValues
<1>3. attempt' \in [Updaters -> Nat] OBVIOUS
<1>4. reported' \subseteq Updaters OBVIOUS
<1>5. ThreadTypes' BY <1>2, <1>3, <1>4 DEF PcValues
<1>6. ErasePromises({Token(u)}) BY DEF ErasedAtTheEnd
<1> QED BY <1>5, <1>6, ErasingTypes

\* promise::set_value.
LEMMA SettingTypes ==
    ASSUME TypeOK, NEW t \in DOMAIN promises, NEW value \in PromiseValues, SetPromise(t, value)
    PROVE  /\ DOMAIN promises' = DOMAIN promises
           /\ promises' \in [DOMAIN promises' -> PromiseValues]
           /\ terminated' \in {terminated, "promiseAlreadySatisfied"}
BY DEF TypeOK, NetworkTypes, SetPromise

\* stop().
LEMMA MainTypesStep == ASSUME TypeOK, MainStep PROVE TypeOK'
<1> USE DEF TypeOK, MainStep, StopSetFlag, StopTeardown, StopNotify
<1>1. MainTypes' BY DEF MainTypes
<1>2. LoopTypes' BY DEF LoopTypes
<1>3. ThreadTypes' BY DEF ThreadTypes
<1>4. NetworkTypes' BY DEF NetworkTypes
<1> QED BY <1>1, <1>2, <1>3, <1>4

\* The handlers of a job.
LEMMA LoopTypesStep ==
    ASSUME TypeOK, JobInv, (\E j \in Jobs : JobArrives(j)) \/ HandlerStep
    PROVE  TypeOK'
<1> USE DEF TypeOK, HandlerReturns
<1>1. CASE \E j \in Jobs : JobArrives(j)
  <2> USE <1>1 DEF JobArrives
  <2>1. MainTypes' BY DEF MainTypes
  <2>2. LoopTypes' BY DEF LoopTypes
  <2>3. ThreadTypes' BY DEF ThreadTypes
  <2>4. NetworkTypes' BY DEF NetworkTypes
  <2> QED BY <2>1, <2>2, <2>3, <2>4
<1>2. CASE \E ready \in BOOLEAN : CheckReadiness(ready)
  <2> USE <1>2 DEF CheckReadiness
  <2>1. MainTypes' BY DEF MainTypes
  <2>2. LoopTypes' BY DEF LoopTypes
  <2>3. ThreadTypes' BY DEF ThreadTypes
  <2>4. NetworkTypes' BY DEF NetworkTypes
  <2> QED BY <2>1, <2>2, <2>3, <2>4
<1>3. CASE tryStartJob
  <2> USE <1>3 DEF tryStartJob
  <2>1. MainTypes' BY DEF MainTypes
  <2>2. admissions' \in 0 .. MaxAdmissions BY ConstantsAssumption DEF ConstantsAssumption, LoopTypes, JobInv
  <2>3. LoopTypes' BY <2>2 DEF LoopTypes
  <2>4. ThreadTypes' BY DEF ThreadTypes
  <2>5. NetworkTypes' BY DEF NetworkTypes
  <2> QED BY <2>1, <2>3, <2>4, <2>5
<1>4. CASE initJob
  <2> USE <1>4 DEF initJob
  <2>1. MainTypes' BY DEF MainTypes
  <2>2. LoopTypes' BY DEF LoopTypes
  <2>3. admissions \in 1 .. MaxAdmissions BY DEF LoopTypes, JobInv
  <2>4. \E u \in Updaters : publishUpdateJobExecutionStatus(u)
    BY <2>3, UpdatesAreUpdaters DEF Updates
  <2>5. engine' \in [1 .. MaxAdmissions -> {"none", "running", "done"}] BY <2>3 DEF ThreadTypes
  <2>6. ThreadTypes' BY <2>4, <2>5, PublishingTypes DEF ThreadTypes, PcValues
  <2>7. NetworkTypes' BY DEF NetworkTypes
  <2> QED BY <2>1, <2>2, <2>6, <2>7
<1> QED BY <1>1, <1>2, <1>3, <1>4 DEF HandlerStep

\* The end of a job.
LEMMA EngineTypesStep ==
    ASSUME TypeOK, NEW n \in 1 .. MaxAdmissions, JobEnds(n)
    PROVE  TypeOK'
<1> USE DEF TypeOK, JobEnds
<1>1. MainTypes' BY DEF MainTypes
<1>2. LoopTypes' BY DEF LoopTypes
<1>3. <<n, "final">> \in Updaters BY UpdatesAreUpdaters DEF Updates
<1>4. engine' \in [1 .. MaxAdmissions -> {"none", "running", "done"}] BY DEF ThreadTypes
<1>5. ThreadTypes' BY <1>3, <1>4, PublishingTypes DEF ThreadTypes, PcValues
<1>6. NetworkTypes' BY DEF NetworkTypes
<1> QED BY <1>1, <1>2, <1>5, <1>6

\* The updaters' threads.
LEMMA UpdaterTypesStep ==
    ASSUME TypeOK, NEW u \in Updaters, UpdaterStep(u) \/ WaitTimesOut(u)
    PROVE  TypeOK'
<1> USE DEF TypeOK
<1>1. CASE StartAttempt(u)
  <2> USE <1>1 DEF StartAttempt
  <2>1. MainTypes' BY DEF MainTypes
  <2>2. LoopTypes' BY DEF LoopTypes
  <2>3. Completed(u) \in PcValues BY DEF Completed, PcValues
  <2>4. updaterPc' \in [Updaters -> PcValues] BY <2>3 DEF ThreadTypes, PcValues
  <2>5. ThreadTypes' BY <2>4 DEF ThreadTypes, PcValues
  <2>6. CASE GivesUp(u)
    <3>1. NetworkTypes' BY <2>6 DEF NetworkTypes
    <3> QED BY <2>1, <2>2, <2>5, <3>1
  <2>7. CASE ~GivesUp(u)
    <3>1. ErasePromises(expired) BY <2>7
    <3>2. UNCHANGED networkVars OBVIOUS
    <3>3. NetworkTypes' BY <3>1, <3>2, ErasingTypes DEF NetworkTypes
    <3> QED BY <2>1, <2>2, <2>5, <3>3
  <2> QED BY <2>6, <2>7
<1>2. CASE PublishUpdate(u)
  <2> USE <1>2 DEF PublishUpdate
  <2>1. MainTypes' BY DEF MainTypes
  <2>2. LoopTypes' BY DEF LoopTypes
  <2>3. ThreadTypes' BY DEF ThreadTypes
  <2>4. Token(u) \in Updaters \X Nat
    <3>1. attempt[u] \in Nat BY DEF ThreadTypes
    <3> QED BY <3>1 DEF Token
  <2>5. DOMAIN promises' = DOMAIN promises \union {Token(u)} OBVIOUS
  <2>6. promises' \in [DOMAIN promises' -> PromiseValues]
    BY <2>5 DEF NetworkTypes, PromiseValues
  <2>7. NetworkTypes' BY <2>4, <2>5, <2>6 DEF NetworkTypes
  <2> QED BY <2>1, <2>2, <2>3, <2>7
<1>3. CASE GetFuture(u)
  <2> USE <1>3 DEF GetFuture
  <2>1. MainTypes' BY DEF MainTypes
  <2>2. LoopTypes' BY DEF LoopTypes
  <2>3. ThreadTypes' BY DEF ThreadTypes
  <2>4. NetworkTypes' BY DEF NetworkTypes
  <2> QED BY <2>1, <2>2, <2>3, <2>4
<1>4. CASE AnswerReceived(u) \/ WaitTimesOut(u)
  <2>1. PICK finished \in BOOLEAN : EndAttempt(u, finished)
    BY <1>4 DEF AnswerReceived, WaitTimesOut
  <2>2. failures' \in 0 .. MaxFailures
    <3>1. failures \in 0 .. MaxFailures BY DEF NetworkTypes
    <3>2. failures' = failures \/ (failures < MaxFailures /\ failures' = failures + 1)
      BY <1>4 DEF AnswerReceived, WaitTimesOut
    <3> QED BY <3>1, <3>2, ConstantsAssumption DEF ConstantsAssumption
  <2>3. /\ UNCHANGED <<mainVars, loopVars, engine, retriesForever, terminated>>
        /\ UNCHANGED <<published, duplicates, clockSteps>>
    BY <2>1 DEF EndAttempt
  <2>4. MainTypes' BY <2>3 DEF MainTypes
  <2>5. LoopTypes' BY <2>3 DEF LoopTypes
  <2>6. NetworkTypes' BY <2>1, <2>2, <2>3, EndAttemptTypes DEF NetworkTypes
  <2> QED BY <2>1, <2>4, <2>5, <2>6, EndAttemptTypes
<1>5. CASE PromiseBroken(u)
  <2> USE <1>5 DEF PromiseBroken
  <2>1. MainTypes' BY DEF MainTypes
  <2>2. LoopTypes' BY DEF LoopTypes
  <2>3. ThreadTypes' BY DEF ThreadTypes
  <2>4. NetworkTypes' BY DEF NetworkTypes
  <2> QED BY <2>1, <2>2, <2>3, <2>4
<1>6. CASE ClearHandlingJob(u) \/ NotifyStopped(u)
  <2> USE <1>6 DEF ClearHandlingJob, NotifyStopped
  <2>1. MainTypes'
    <3>1. CASE ClearHandlingJob(u) BY <3>1 DEF MainTypes
    <3>2. CASE NotifyStopped(u)
      <4>1. stoppedEvents' \in Nat BY <3>2 DEF MainTypes
      <4> QED BY <3>2, <4>1 DEF MainTypes
    <3> QED BY <3>1, <3>2
  <2>2. LoopTypes' BY DEF LoopTypes
  <2>3. ThreadTypes' BY DEF ThreadTypes
  <2>4. NetworkTypes' BY DEF NetworkTypes
  <2> QED BY <2>1, <2>2, <2>3, <2>4
<1> QED BY <1>1, <1>2, <1>3, <1>4, <1>5, <1>6 DEF UpdaterStep

\* The response handlers, and what they leave alone.
LEMMA ResponseSteps ==
    ASSUME TypeOK, ResponseStep
    PROVE  /\ TypeOK'
           /\ DOMAIN promises' = DOMAIN promises
           /\ UNCHANGED <<mainVars, loopVars, engine, updaterVars, expired, clockSteps, reported>>
<1> USE DEF TypeOK
<1>1. PICK t \in published, again \in BOOLEAN :
         \/ updateJobExecutionStatusAcceptedHandler(t, again)
         \/ \E value \in {"RETRYABLE_ERROR", "NON_RETRYABLE_ERROR"} :
               updateJobExecutionStatusRejectedHandler(t, value, again)
  BY DEF ResponseStep
<1> USE DEF updateJobExecutionStatusAcceptedHandler, updateJobExecutionStatusRejectedHandler
<1>2. Delivered(t, again) BY <1>1
<1>3. UNCHANGED <<mainVars, loopVars, engine, updaterVars, expired, clockSteps, reported>>
  BY <1>2 DEF Delivered
<1>4. published' \subseteq published /\ duplicates' \in 0 .. MaxDuplicates
  BY <1>2, ConstantsAssumption DEF Delivered, NetworkTypes, ConstantsAssumption
<1>5. failures' \in 0 .. MaxFailures
  BY <1>1, ConstantsAssumption DEF NetworkTypes, ConstantsAssumption
<1>6. /\ DOMAIN promises' = DOMAIN promises
      /\ promises' \in [DOMAIN promises' -> PromiseValues]
      /\ terminated' \in {terminated, "promiseAlreadySatisfied", "unknownToken"}
  <2>1. CASE t \in DOMAIN promises
    <3>1. PICK value \in PromiseValues : SetPromise(t, value) BY <1>1, <2>1 DEF PromiseValues
    <3> QED BY <2>1, <3>1, SettingTypes
  <2>2. CASE t \notin DOMAIN promises BY <1>1, <2>2 DEF NetworkTypes
  <2> QED BY <2>1, <2>2
<1>7. MainTypes' BY <1>3, <1>6 DEF MainTypes
<1>8. LoopTypes' BY <1>3 DEF LoopTypes
<1>9. ThreadTypes' BY <1>3 DEF ThreadTypes
<1>10. NetworkTypes' BY <1>3, <1>4, <1>5, <1>6 DEF NetworkTypes
<1> QED BY <1>3, <1>6, <1>7, <1>8, <1>9, <1>10

\* The system clock.
LEMMA ClockTypesStep == ASSUME TypeOK, PromisesExpire PROVE TypeOK'
<1> USE DEF TypeOK, PromisesExpire
<1>1. MainTypes' BY DEF MainTypes
<1>2. LoopTypes' BY DEF LoopTypes
<1>3. ThreadTypes' BY DEF ThreadTypes
<1>4. clockSteps' \in 0 .. MaxClockSteps
  BY ConstantsAssumption DEF ConstantsAssumption, NetworkTypes
<1>5. NetworkTypes' BY <1>4 DEF NetworkTypes
<1> QED BY <1>1, <1>2, <1>3, <1>5

\* Every step keeps the types.
LEMMA TypeStep == ASSUME TypeOK, JobInv, [Next]_vars PROVE TypeOK'
<1>1. CASE Next
  BY <1>1, MainTypesStep, LoopTypesStep, EngineTypesStep, UpdaterTypesStep, ResponseSteps,
     ClockTypesStep DEF Next, ProcessStep
<1>2. CASE UNCHANGED vars
  BY <1>2 DEF vars, TypeOK, MainTypes, LoopTypes, ThreadTypes, NetworkTypes
<1> QED BY <1>1, <1>2
-----------------------------------------------------------------------------
(***************************************************************************)
(* The course of a job.                                                    *)
(***************************************************************************)

\* Different jobs have different updates.
LEMMA UpdatesAreDisjoint ==
    \A m, n : m # n => \A u \in Updates(m) : u # <<n, "progress">> /\ u # <<n, "final">>
<1> SUFFICES ASSUME NEW m, NEW n, m # n, NEW u \in Updates(m)
             PROVE  u # <<n, "progress">> /\ u # <<n, "final">>
  OBVIOUS
<1>1. u = <<m, "progress">> \/ u = <<m, "final">> BY DEF Updates
<1> QED BY <1>1

Pending == {"begin", "publish", "getFuture", "wait", "sleep", "onComplete"}

\* An updater moves alone, and one that has a shutdownHandler stays pending until it clears handlingJob.
LEMMA UpdaterMoves ==
    ASSUME TypeOK, NEW u \in Updaters, UpdaterStep(u) \/ WaitTimesOut(u)
    PROVE  /\ UNCHANGED <<stopPc, loopVars, engine>>
           /\ \A v \in Updaters \ {u} : updaterPc'[v] = updaterPc[v]
           /\ updaterPc[u] # "none" /\ updaterPc'[u] # "none"
           /\ u[2] = "final" /\ updaterPc[u] \in Pending =>
                  updaterPc'[u] \in Pending \/ ClearHandlingJob(u)
<1> USE DEF TypeOK, ThreadTypes, Pending
<1>1. Completed(u) \in {"onComplete", "done"} /\ (u[2] = "final" => Completed(u) = "onComplete")
  BY DEF Completed
<1>2. CASE StartAttempt(u) BY <1>1, <1>2 DEF StartAttempt
<1>3. CASE PublishUpdate(u) BY <1>3 DEF PublishUpdate
<1>4. CASE GetFuture(u) BY <1>4 DEF GetFuture
<1>5. CASE AnswerReceived(u) \/ WaitTimesOut(u)
  <2>1. PICK finished \in BOOLEAN : EndAttempt(u, finished)
    BY <1>5 DEF AnswerReceived, WaitTimesOut
  <2>2. updaterPc[u] = "wait" BY <1>5 DEF AnswerReceived, WaitTimesOut
  <2> QED BY <1>1, <2>1, <2>2 DEF EndAttempt
<1>6. CASE PromiseBroken(u) BY <1>6 DEF PromiseBroken
<1>7. CASE ClearHandlingJob(u) BY <1>7 DEF ClearHandlingJob
<1>8. CASE NotifyStopped(u) BY <1>8 DEF NotifyStopped
<1> QED BY <1>2, <1>3, <1>4, <1>5, <1>6, <1>7, <1>8 DEF UpdaterStep

\* Detaching an updater moves that updater alone.
LEMMA PublishingMoves ==
    ASSUME TypeOK, NEW u \in Updaters, publishUpdateJobExecutionStatus(u)
    PROVE  /\ updaterPc'[u] = "begin"
           /\ \A v \in Updaters \ {u} : updaterPc'[v] = updaterPc[v]
BY DEF TypeOK, ThreadTypes, publishUpdateJobExecutionStatus

\* Initializing a job starts its engine or reports its rejection.
LEMMA InitializedJob ==
    ASSUME TypeOK, JobInv, initJob
    PROVE  /\ admissions \in 1 .. MaxAdmissions
           /\ \A m \in (1 .. MaxAdmissions) \ {admissions} :
                 engine'[m] = engine[m] /\ \A u \in Updates(m) : updaterPc'[u] = updaterPc[u]
           /\ \/ engine'[admissions] = "running" /\ updaterPc'[<<admissions, "final">>] = "none"
              \/ engine'[admissions] # "running" /\ updaterPc'[<<admissions, "final">>] = "begin"
           /\ loopPc' = "idle" /\ UNCHANGED admissions
<1> USE DEF initJob
<1>1. admissions \in 1 .. MaxAdmissions BY DEF TypeOK, LoopTypes, JobInv
<1>2. engine[admissions] = "none" /\ updaterPc[<<admissions, "final">>] = "none"
  BY <1>1 DEF JobInv, Updates
<1>3. \A m \in (1 .. MaxAdmissions) \ {admissions} :
         \A u \in Updates(m) : u \in Updaters /\ u # <<admissions, "final">> /\ u # <<admissions, "progress">>
  BY UpdatesAreUpdaters, UpdatesAreDisjoint
<1>4. <<admissions, "final">> \in Updaters /\ <<admissions, "progress">> \in Updaters
  BY <1>1, UpdatesAreUpdaters DEF Updates
<1>5. CASE loopJob \in InvalidJobs
  <2>1. publishUpdateJobExecutionStatus(<<admissions, "final">>) /\ UNCHANGED engine BY <1>5
  <2> QED BY <1>1, <1>2, <1>3, <1>4, <2>1, PublishingMoves DEF HandlerReturns
<1>6. CASE loopJob \notin InvalidJobs
  <2>1. publishUpdateJobExecutionStatus(<<admissions, "progress">>) BY <1>6
  <2>2. engine' = [engine EXCEPT ![admissions] = "running"] BY <1>6
  <2>3. /\ engine'[admissions] = "running"
        /\ \A m \in (1 .. MaxAdmissions) \ {admissions} : engine'[m] = engine[m]
    BY <1>1, <2>2 DEF TypeOK, ThreadTypes
  <2> QED BY <1>1, <1>2, <1>3, <1>4, <2>1, <2>3, PublishingMoves DEF HandlerReturns
<1> QED BY <1>5, <1>6

\* The engine of a job ends.
LEMMA EndedJob ==
    ASSUME TypeOK, NEW n \in 1 .. MaxAdmissions, JobEnds(n)
    PROVE  /\ engine[n] = "running" /\ engine'[n] = "done"
           /\ updaterPc'[<<n, "final">>] = "begin"
           /\ \A m \in (1 .. MaxAdmissions) \ {n} :
                 engine'[m] = engine[m] /\ \A u \in Updates(m) : updaterPc'[u] = updaterPc[u]
           /\ updaterPc'[<<n, "progress">>] = updaterPc[<<n, "progress">>]
           /\ UNCHANGED <<loopPc, admissions>>
<1> USE DEF JobEnds
<1>1. engine[n] = "running" /\ engine' = [engine EXCEPT ![n] = "done"] OBVIOUS
<1>2. engine'[n] = "done" /\ \A m \in (1 .. MaxAdmissions) \ {n} : engine'[m] = engine[m]
  BY <1>1 DEF TypeOK, ThreadTypes
<1>3. <<n, "final">> \in Updaters /\ <<n, "progress">> \in Updaters
  BY UpdatesAreUpdaters DEF Updates
<1>4. \A m \in (1 .. MaxAdmissions) \ {n} :
         \A u \in Updates(m) : u \in Updaters /\ u # <<n, "final">>
  BY UpdatesAreUpdaters, UpdatesAreDisjoint
<1>5. publishUpdateJobExecutionStatus(<<n, "final">>) OBVIOUS
<1> QED BY <1>1, <1>2, <1>3, <1>4, <1>5, PublishingMoves
-----------------------------------------------------------------------------
(***************************************************************************)
(* The conjuncts of the inductive invariant.                               *)
(***************************************************************************)

\* A job's number is fresh when it is initialized, and its final update when its engine ends.
LEMMA JobStep == ASSUME TypeOK, JobInv, [Next]_vars PROVE JobInv'
<1>1. CASE /\ UNCHANGED <<engine, updaterPc>>
           /\ MainStep \/ ResponseStep \/ PromisesExpire \/ UNCHANGED vars
  <2>1. UNCHANGED <<loopPc, admissions>>
    BY <1>1, ResponseSteps DEF MainStep, StopSetFlag, StopTeardown, StopNotify, PromisesExpire, vars
  <2> QED BY <1>1, <2>1 DEF JobInv
<1>2. CASE \E j \in Jobs : JobArrives(j)
  BY <1>2 DEF JobArrives, JobInv, TypeOK, LoopTypes
<1>3. CASE \E ready \in BOOLEAN : CheckReadiness(ready)
  BY <1>3 DEF CheckReadiness, HandlerReturns, JobInv
<1>4. CASE tryStartJob
  <2>1. UNCHANGED <<engine, updaterPc>> BY <1>4 DEF tryStartJob
  <2>2. \/ loopPc' = "idle" /\ UNCHANGED admissions
        \/ loopPc' = "initJob" /\ admissions' = admissions + 1
    BY <1>4 DEF tryStartJob, HandlerReturns
  <2>3. admissions \in Nat BY ConstantsAssumption DEF ConstantsAssumption, TypeOK, LoopTypes
  <2>4. loopPc # "initJob" BY <1>4 DEF tryStartJob
  <2>5. ASSUME NEW n \in 1 .. MaxAdmissions, n > admissions' \/ (n = admissions' /\ loopPc' = "initJob")
        PROVE  n > admissions
    BY <2>2, <2>3, <2>5
  <2> QED BY <2>1, <2>2, <2>3, <2>5 DEF JobInv
<1>5. CASE initJob
  <2>1. loopPc' = "idle" /\ UNCHANGED admissions BY <1>5, InitializedJob
  <2>2. SUFFICES ASSUME NEW n \in 1 .. MaxAdmissions
                 PROVE  /\ n > admissions => engine'[n] = "none" /\ \A u \in Updates(n) : updaterPc'[u] = "none"
                        /\ engine'[n] = "running" => updaterPc'[<<n, "final">>] = "none"
    BY <2>1 DEF JobInv
  <2>3. CASE n = admissions BY <1>5, <2>3, InitializedJob DEF TypeOK, LoopTypes
  <2>4. CASE n # admissions
    <3>1. engine'[n] = engine[n] /\ \A u \in Updates(n) : updaterPc'[u] = updaterPc[u]
      BY <1>5, <2>4, InitializedJob
    <3>2. <<n, "final">> \in Updates(n) BY DEF Updates
    <3> QED BY <3>1, <3>2 DEF JobInv
  <2> QED BY <2>3, <2>4
<1>6. CASE \E n \in 1 .. MaxAdmissions : JobEnds(n)
  <2>1. PICK m \in 1 .. MaxAdmissions : JobEnds(m) BY <1>6
  <2>2. UNCHANGED <<loopPc, admissions>> BY <2>1, EndedJob
  <2>3. engine[m] = "running" /\ engine'[m] = "done" BY <2>1, EndedJob
  <2>4. SUFFICES ASSUME NEW n \in 1 .. MaxAdmissions
                 PROVE  /\ (n > admissions \/ (n = admissions /\ loopPc = "initJob")) =>
                              engine'[n] = "none" /\ \A u \in Updates(n) : updaterPc'[u] = "none"
                        /\ engine'[n] = "running" => updaterPc'[<<n, "final">>] = "none"
    BY <2>2 DEF JobInv
  <2>5. CASE n = m BY <2>3, <2>5 DEF JobInv
  <2>6. CASE n # m
    <3>1. engine'[n] = engine[n] /\ \A u \in Updates(n) : updaterPc'[u] = updaterPc[u]
      BY <2>1, <2>6, EndedJob
    <3>2. <<n, "final">> \in Updates(n) BY DEF Updates
    <3> QED BY <3>1, <3>2 DEF JobInv
  <2> QED BY <2>5, <2>6
<1>7. CASE \E u \in Updaters : UpdaterStep(u) \/ WaitTimesOut(u)
  <2>1. PICK u \in Updaters : UpdaterStep(u) \/ WaitTimesOut(u) BY <1>7
  <2>2. UNCHANGED <<loopPc, admissions, engine>> BY <2>1, UpdaterMoves
  <2>3. \A v \in Updaters : updaterPc[v] = "none" => updaterPc'[v] = "none" BY <2>1, UpdaterMoves
  <2>4. \A n \in 1 .. MaxAdmissions : <<n, "final">> \in Updaters /\ Updates(n) \subseteq Updaters
    BY UpdatesAreUpdaters DEF Updates
  <2> QED BY <2>2, <2>3, <2>4 DEF JobInv
<1> QED
  BY <1>1, <1>2, <1>3, <1>4, <1>5, <1>6, <1>7, ResponseSteps
  DEF Next, ProcessStep, HandlerStep, MainStep, StopSetFlag, StopTeardown, StopNotify, PromisesExpire, vars

\* What happens to the age of the promises.
LEMMA ClockStep == ASSUME TypeOK, ClockInv, [Next]_vars PROVE ClockInv'
<1>1. CASE PromisesExpire
  BY <1>1, ConstantsAssumption DEF PromisesExpire, ClockInv, TypeOK, NetworkTypes, ConstantsAssumption
<1>2. CASE UNCHANGED clockSteps /\ expired' \subseteq expired BY <1>2 DEF ClockInv
<1>3. CASE ResponseStep BY <1>2, <1>3, ResponseSteps
<1>4. CASE \E u \in Updaters : UpdaterStep(u) \/ WaitTimesOut(u)
  <2>1. PICK u \in Updaters : UpdaterStep(u) \/ WaitTimesOut(u) BY <1>4
  <2> USE DEF StartAttempt, PublishUpdate, GetFuture, AnswerReceived, WaitTimesOut, PromiseBroken,
              ClearHandlingJob, NotifyStopped, EndAttempt, ErasePromises
  <2>2. UNCHANGED clockSteps BY <2>1 DEF UpdaterStep
  <2>3. expired' \subseteq expired BY <2>1 DEF UpdaterStep
  <2> QED BY <1>2, <2>2, <2>3
<1>5. CASE \/ MainStep \/ HandlerStep
           \/ \E j \in Jobs : JobArrives(j)
           \/ \E n \in 1 .. MaxAdmissions : JobEnds(n)
           \/ UNCHANGED vars
  BY <1>2, <1>5 DEF MainStep, StopSetFlag, StopTeardown, StopNotify, JobArrives, HandlerStep,
     CheckReadiness, tryStartJob, initJob, JobEnds, vars
<1> QED BY <1>1, <1>3, <1>4, <1>5 DEF Next, ProcessStep

\* Nobody starts or ends to wait.
LEMMA SameWaiters ==
    ASSUME Waiting' = Waiting, UNCHANGED attempt
    PROVE  {Token(u) : u \in Waiting}' = {Token(u) : u \in Waiting}
BY DEF Token

\* The map of promises follows the updaters.
LEMMA PromisesStep ==
    ASSUME TypeOK, JobInv, ClockInv, PromisesMatchWaiters, [Next]_vars
    PROVE  PromisesMatchWaiters'
<1> USE DEF PromisesMatchWaiters
<1>1. CASE /\ Waiting' = Waiting
           /\ UNCHANGED <<attempt, clockSteps>>
           /\ DOMAIN promises' \subseteq DOMAIN promises
           /\ clockSteps = 0 => DOMAIN promises' = DOMAIN promises
  BY <1>1, SameWaiters
<1>2. CASE MainStep \/ HandlerStep \/ (\E j \in Jobs : JobArrives(j)) \/ (\E n \in 1 .. MaxAdmissions : JobEnds(n))
  <2>1. UNCHANGED <<attempt, clockSteps, promises>>
    BY <1>2 DEF MainStep, StopSetFlag, StopTeardown, StopNotify, JobArrives, HandlerStep,
       CheckReadiness, tryStartJob, initJob, JobEnds, publishUpdateJobExecutionStatus
  <2>2. Waiting' = Waiting
    <3>1. CASE UNCHANGED updaterPc BY <3>1 DEF Waiting
    <3>2. ASSUME NEW u \in Updaters, updaterPc[u] = "none", publishUpdateJobExecutionStatus(u)
          PROVE  Waiting' = Waiting
      BY <3>2, PublishingMoves DEF Waiting
    <3>3. CASE initJob
      <4>1. admissions \in 1 .. MaxAdmissions BY <1>2, <3>3, InitializedJob
      <4>2. \A u \in Updates(admissions) : u \in Updaters /\ updaterPc[u] = "none"
        BY <3>3, <4>1, UpdatesAreUpdaters DEF JobInv, initJob
      <4>3. \E u \in Updates(admissions) : publishUpdateJobExecutionStatus(u)
        BY <3>3 DEF initJob, Updates
      <4> QED BY <3>2, <4>2, <4>3
    <3>4. CASE \E n \in 1 .. MaxAdmissions : JobEnds(n)
      <4>1. PICK n \in 1 .. MaxAdmissions : JobEnds(n) BY <3>4
      <4>2. <<n, "final">> \in Updaters BY UpdatesAreUpdaters DEF Updates
      <4>3. updaterPc[<<n, "final">>] = "none" BY <4>1 DEF JobEnds, JobInv
      <4> QED BY <3>2, <4>1, <4>2, <4>3 DEF JobEnds
    <3> QED
      BY <1>2, <3>1, <3>3, <3>4 DEF MainStep, StopSetFlag, StopTeardown, StopNotify, JobArrives,
         HandlerStep, CheckReadiness, tryStartJob
  <2> QED BY <1>1, <2>1, <2>2
<1>3. CASE ResponseStep
  <2>1. Waiting' = Waiting BY <1>3, ResponseSteps DEF Waiting
  <2> QED BY <1>1, <1>3, <2>1, ResponseSteps
<1>4. CASE PromisesExpire
  <2>1. UNCHANGED <<attempt, promises, updaterPc>> /\ clockSteps' # 0
    BY <1>4, ConstantsAssumption DEF PromisesExpire, TypeOK, NetworkTypes, ConstantsAssumption
  <2>2. Waiting' = Waiting BY <2>1 DEF Waiting
  <2> QED BY <2>1, <2>2, SameWaiters
<1>5. CASE UNCHANGED vars
  <2>1. Waiting' = Waiting BY <1>5 DEF Waiting, vars
  <2> QED BY <1>1, <1>5, <2>1 DEF vars
<1>6. CASE \E u \in Updaters : UpdaterStep(u) \/ WaitTimesOut(u)
  <2>1. PICK u \in Updaters : UpdaterStep(u) \/ WaitTimesOut(u) BY <1>6
  <2>2. CASE StartAttempt(u)
    <3>1. updaterPc[u] \notin {"getFuture", "wait"} BY <2>2 DEF StartAttempt
    <3>2. updaterPc'[u] \notin {"getFuture", "wait"} /\ \A v \in Updaters \ {u} : updaterPc'[v] = updaterPc[v]
      BY <2>2 DEF StartAttempt, Completed, TypeOK, ThreadTypes
    <3>3. Waiting' = Waiting BY <3>1, <3>2 DEF Waiting
    <3>4. UNCHANGED <<attempt, clockSteps>> BY <2>2 DEF StartAttempt
    <3>5. DOMAIN promises' \in {DOMAIN promises, DOMAIN promises \ expired}
      BY <2>2 DEF StartAttempt, ErasePromises
    <3> QED BY <1>1, <3>3, <3>4, <3>5 DEF ClockInv
  <2>3. CASE PublishUpdate(u)
    <3>1. Waiting' = Waiting \union {u} BY <2>3 DEF PublishUpdate, Waiting, TypeOK, ThreadTypes
    <3>2. DOMAIN promises' = DOMAIN promises \union {Token(u)} BY <2>3 DEF PublishUpdate
    <3>3. UNCHANGED <<attempt, clockSteps>> BY <2>3 DEF PublishUpdate
    <3>4. {Token(v) : v \in Waiting}' = {Token(v) : v \in Waiting} \union {Token(u)}
      BY <3>1, <3>3 DEF Token
    <3> QED BY <3>2, <3>3, <3>4
  <2>4. CASE GetFuture(u) \/ PromiseBroken(u) \/ ClearHandlingJob(u) \/ NotifyStopped(u)
    <3> USE DEF GetFuture, PromiseBroken, ClearHandlingJob, NotifyStopped
    <3>1. Waiting' = Waiting BY <2>4 DEF Waiting, TypeOK, ThreadTypes
    <3>2. UNCHANGED <<attempt, clockSteps, promises>> BY <2>4
    <3> QED BY <1>1, <3>1, <3>2
  <2>5. CASE AnswerReceived(u) \/ WaitTimesOut(u)
    <3>1. PICK finished \in BOOLEAN : EndAttempt(u, finished)
      BY <2>5 DEF AnswerReceived, WaitTimesOut
    <3>2. updaterPc'[u] \notin {"getFuture", "wait"} /\ \A v \in Updaters \ {u} : updaterPc'[v] = updaterPc[v]
      BY <3>1 DEF EndAttempt, Completed, TypeOK, ThreadTypes
    <3>3. Waiting' = Waiting \ {u} BY <3>2 DEF Waiting
    <3>4. \A v \in Updaters \ {u} : attempt'[v] = attempt[v]
      BY <3>1 DEF EndAttempt, TypeOK, ThreadTypes
    <3>5. Waiting \subseteq Updaters BY DEF Waiting
    <3>6. {Token(v) : v \in Waiting}' = {Token(v) : v \in Waiting \ {u}}
      BY <3>3, <3>4, <3>5 DEF Token
    <3>7. {Token(v) : v \in Waiting \ {u}} = {Token(v) : v \in Waiting} \ {Token(u)}
      BY DEF Token
    <3>8. DOMAIN promises' = DOMAIN promises \ {Token(u)} /\ UNCHANGED clockSteps
      BY <3>1 DEF EndAttempt, ErasePromises, ErasedAtTheEnd
    <3> QED BY <3>6, <3>7, <3>8
  <2> QED BY <2>1, <2>2, <2>3, <2>4, <2>5 DEF UpdaterStep
<1> QED BY <1>2, <1>3, <1>4, <1>5, <1>6 DEF Next, ProcessStep

\* A handler runs at a time, and none passes the look at needStop once it is set.
LEMMA LateStep == ASSUME TypeOK, LateInv, [Next]_vars PROVE LateInv'
<1> USE DEF LateInv
<1>1. CASE MainStep
  BY <1>1 DEF MainStep, StopSetFlag, StopTeardown, StopNotify
<1>2. CASE \E j \in Jobs : JobArrives(j)
  BY <1>2 DEF JobArrives, MessageIsAccepted
<1>3. CASE \E ready \in BOOLEAN : CheckReadiness(ready)
  BY <1>3 DEF CheckReadiness, HandlerReturns
<1>4. CASE tryStartJob
  BY <1>4 DEF tryStartJob, HandlerReturns, TypeOK, LoopTypes
<1>5. CASE initJob BY <1>5 DEF initJob, HandlerReturns
<1>6. CASE UNCHANGED <<stopPc, loopPc, lateJobs>> BY <1>6
<1>7. CASE \E n \in 1 .. MaxAdmissions : JobEnds(n) BY <1>6, <1>7 DEF JobEnds
<1>8. CASE \E u \in Updaters : UpdaterStep(u) \/ WaitTimesOut(u) BY <1>6, <1>8, UpdaterMoves
<1>9. CASE ResponseStep BY <1>6, <1>9, ResponseSteps
<1>10. CASE PromisesExpire \/ UNCHANGED vars BY <1>6, <1>10 DEF PromisesExpire, vars
<1> QED
  BY <1>1, <1>2, <1>3, <1>4, <1>5, <1>7, <1>8, <1>9, <1>10 DEF Next, ProcessStep, HandlerStep

\* Unless the job's shutdownHandler clears handlingJob in this step, it still will.
LEMMA WillClearStep ==
    ASSUME TypeOK, JobInv, [Next]_vars,
           NEW n \in 1 .. admissions, WillClear(n), ~ClearHandlingJob(<<n, "final">>)
    PROVE  n \in 1 .. admissions' /\ WillClear(n)'
<1>1. /\ admissions \in 0 .. MaxAdmissions /\ n \in 1 .. MaxAdmissions
      /\ <<n, "final">> \in Updaters
  <2>1. admissions \in 0 .. MaxAdmissions /\ n \in 1 .. MaxAdmissions
    BY ConstantsAssumption DEF TypeOK, LoopTypes, ConstantsAssumption
  <2> QED BY <2>1, UpdatesAreUpdaters DEF Updates
<1> USE DEF WillClear
<1>2. CASE UNCHANGED <<loopPc, admissions, engine, updaterPc>> BY <1>2
<1>3. CASE MainStep \/ PromisesExpire \/ UNCHANGED vars
  BY <1>2, <1>3 DEF MainStep, StopSetFlag, StopTeardown, StopNotify, PromisesExpire, vars
<1>4. CASE ResponseStep BY <1>2, <1>4, ResponseSteps
<1>5. CASE (\E j \in Jobs : JobArrives(j)) \/ \E ready \in BOOLEAN : CheckReadiness(ready)
  BY <1>5 DEF JobArrives, CheckReadiness
<1>6. CASE tryStartJob
  <2>1. /\ loopPc # "initJob" /\ UNCHANGED <<engine, updaterPc>>
        /\ admissions' = admissions \/ admissions' = admissions + 1
    BY <1>6 DEF tryStartJob
  <2> QED BY <1>1, <2>1
<1>7. CASE initJob
  <2>1. UNCHANGED admissions BY <1>7, InitializedJob
  <2>2. CASE n = admissions BY <1>7, <2>1, <2>2, InitializedJob
  <2>3. CASE n # admissions
    <3>1. engine'[n] = engine[n] /\ updaterPc'[<<n, "final">>] = updaterPc[<<n, "final">>]
      BY <1>1, <1>7, <2>3, InitializedJob DEF Updates
    <3> QED BY <2>1, <2>3, <3>1
  <2> QED BY <2>2, <2>3
<1>8. CASE \E m \in 1 .. MaxAdmissions : JobEnds(m)
  <2>1. PICK m \in 1 .. MaxAdmissions : JobEnds(m) BY <1>8
  <2>2. UNCHANGED <<loopPc, admissions>> BY <2>1, EndedJob
  <2>3. CASE n = m BY <2>1, <2>2, <2>3, EndedJob
  <2>4. CASE n # m
    <3>1. engine'[n] = engine[n] /\ updaterPc'[<<n, "final">>] = updaterPc[<<n, "final">>]
      BY <1>1, <2>1, <2>4, EndedJob DEF Updates
    <3> QED BY <2>2, <3>1
  <2> QED BY <2>3, <2>4
<1>9. CASE \E u \in Updaters : UpdaterStep(u) \/ WaitTimesOut(u)
  <2>1. PICK u \in Updaters : UpdaterStep(u) \/ WaitTimesOut(u) BY <1>9
  <2>2. UNCHANGED <<loopPc, admissions, engine>> BY <2>1, UpdaterMoves
  <2>3. updaterPc[<<n, "final">>] \in Pending => updaterPc'[<<n, "final">>] \in Pending
    <3>1. CASE u = <<n, "final">> BY <2>1, <3>1, UpdaterMoves
    <3>2. CASE u # <<n, "final">> BY <1>1, <2>1, <3>2, UpdaterMoves
    <3> QED BY <3>1, <3>2
  <2> QED BY <2>2, <2>3 DEF Pending
<1> QED BY <1>3, <1>4, <1>5, <1>6, <1>7, <1>8, <1>9 DEF Next, ProcessStep, HandlerStep

\* The flag is set with a new job and cleared by the last step that a job owes.
LEMMA HandlingStep == ASSUME TypeOK, JobInv, HandlingInv, [Next]_vars PROVE HandlingInv'
<1>1. CASE tryStartJob
  <2>1. CASE loopJob = latestJob
    BY <1>1, <2>1, WillClearStep DEF tryStartJob, HandlingInv, ClearHandlingJob
  <2>2. CASE loopJob # latestJob
    <3>1. admissions' \in 1 .. admissions' /\ loopPc' = "initJob"
      BY <1>1, <2>2, ConstantsAssumption DEF tryStartJob, TypeOK, LoopTypes, ConstantsAssumption
    <3> QED BY <3>1 DEF HandlingInv, WillClear
  <2> QED BY <2>1, <2>2
<1>2. CASE \E u \in Updaters : ClearHandlingJob(u) BY <1>2 DEF ClearHandlingJob, HandlingInv
<1>3. CASE ~tryStartJob /\ ~\E u \in Updaters : ClearHandlingJob(u)
  <2>1. UNCHANGED handlingJob
    <3>1. CASE ResponseStep BY <3>1, ResponseSteps
    <3>2. CASE \E u \in Updaters : UpdaterStep(u) \/ WaitTimesOut(u)
      BY <1>3, <3>2 DEF UpdaterStep, StartAttempt, PublishUpdate, GetFuture, AnswerReceived, WaitTimesOut,
         PromiseBroken, NotifyStopped, EndAttempt
    <3>3. CASE ~ResponseStep /\ ~\E u \in Updaters : UpdaterStep(u) \/ WaitTimesOut(u)
      BY <1>3, <3>3 DEF Next, ProcessStep, MainStep, StopSetFlag, StopTeardown, StopNotify, JobArrives,
         HandlerStep, CheckReadiness, initJob, JobEnds, PromisesExpire, vars
    <3> QED BY <3>1, <3>2, <3>3
  <2>2. ASSUME handlingJob PROVE \E n \in 1 .. admissions' : WillClear(n)'
    <3>1. PICK n \in 1 .. admissions : WillClear(n) BY <2>2 DEF HandlingInv
    <3>2. <<n, "final">> \in Updaters
      <4>1. n \in 1 .. MaxAdmissions
        BY ConstantsAssumption DEF TypeOK, LoopTypes, ConstantsAssumption
      <4> QED BY <4>1, UpdatesAreUpdaters DEF Updates
    <3> QED BY <1>3, <3>1, <3>2, WillClearStep
  <2> QED BY <2>1, <2>2 DEF HandlingInv
<1> QED BY <1>1, <1>2, <1>3

\* A notification is never taken back.
LEMMA StoppedEventsGrow ==
    ASSUME TypeOK, [Next]_vars PROVE stoppedEvents > 0 => stoppedEvents' > 0
<1>1. stoppedEvents \in Nat BY DEF TypeOK, MainTypes
<1>2. stoppedEvents' \in {stoppedEvents, stoppedEvents + 1}
  <2>1. CASE ResponseStep BY <2>1, ResponseSteps
  <2>2. CASE \E u \in Updaters : UpdaterStep(u) \/ WaitTimesOut(u)
    BY <2>2 DEF UpdaterStep, StartAttempt, PublishUpdate, GetFuture, AnswerReceived, WaitTimesOut,
       PromiseBroken, ClearHandlingJob, NotifyStopped, EndAttempt
  <2>3. CASE ~ResponseStep /\ ~\E u \in Updaters : UpdaterStep(u) \/ WaitTimesOut(u)
    BY <2>3 DEF Next, ProcessStep, MainStep, StopSetFlag, StopTeardown, StopNotify, JobArrives,
       HandlerStep, CheckReadiness, tryStartJob, initJob, JobEnds, PromisesExpire, vars
  <2> QED BY <2>1, <2>2, <2>3
<1> QED BY <1>1, <1>2

\* After stop() has returned, the job that owes the notification keeps owing it or sends it.
LEMMA WillNotifyStep ==
    ASSUME TypeOK, JobInv, [Next]_vars, stopPc = "returned",
           NEW n \in 1 .. admissions, WillNotify(n)
    PROVE  stoppedEvents' > 0 \/ (n \in 1 .. admissions' /\ WillNotify(n)')
<1>1. <<n, "final">> \in Updaters /\ n \in 1 .. MaxAdmissions
  <2>1. n \in 1 .. MaxAdmissions
    BY ConstantsAssumption DEF TypeOK, LoopTypes, ConstantsAssumption
  <2> QED BY <2>1, UpdatesAreUpdaters DEF Updates
<1>2. CASE ClearHandlingJob(<<n, "final">>)
  BY <1>1, <1>2 DEF ClearHandlingJob, WillNotify, TypeOK, ThreadTypes
<1>3. CASE NotifyStopped(<<n, "final">>)
  <2>1. stoppedEvents \in Nat BY DEF TypeOK, MainTypes
  <2>2. stoppedEvents' = stoppedEvents + 1 BY <1>3 DEF NotifyStopped, NotifiesStopped
  <2> QED BY <2>1, <2>2
<1>4. CASE WillClear(n) /\ ~ClearHandlingJob(<<n, "final">>)
  BY <1>4, WillClearStep DEF WillNotify
<1>5. CASE updaterPc[<<n, "final">>] = "notify" /\ ~NotifyStopped(<<n, "final">>)
  <2>1. updaterPc'[<<n, "final">>] = "notify"
    <3>1. CASE \E u \in Updaters : UpdaterStep(u) \/ WaitTimesOut(u)
      <4>1. PICK u \in Updaters : UpdaterStep(u) \/ WaitTimesOut(u) BY <3>1
      <4>2. u # <<n, "final">>
        BY <1>5, <4>1 DEF UpdaterStep, StartAttempt, PublishUpdate, GetFuture, AnswerReceived,
           WaitTimesOut, PromiseBroken, ClearHandlingJob
      <4> QED BY <1>1, <1>5, <4>1, <4>2, UpdaterMoves
    <3>2. CASE ResponseStep BY <1>5, <3>2, ResponseSteps
    <3>3. CASE initJob
      <4>1. n # admissions
        BY <1>1, <1>5, <3>3 DEF initJob, JobInv, Updates
      <4> QED BY <1>1, <1>5, <3>3, <4>1, InitializedJob DEF Updates
    <3>4. CASE \E m \in 1 .. MaxAdmissions : JobEnds(m)
      <4>1. PICK m \in 1 .. MaxAdmissions : JobEnds(m) BY <3>4
      <4>2. n # m BY <1>5, <4>1 DEF JobEnds, JobInv
      <4> QED BY <1>1, <1>5, <4>1, <4>2, EndedJob DEF Updates
    <3> QED
      BY <1>5, <3>1, <3>2, <3>3, <3>4 DEF Next, ProcessStep, MainStep, StopSetFlag, StopTeardown,
         StopNotify, JobArrives, HandlerStep, CheckReadiness, tryStartJob, PromisesExpire, vars
  <2>2. n \in 1 .. admissions'
    <3>1. CASE initJob BY <3>1, InitializedJob
    <3>2. CASE \E u \in Updaters : UpdaterStep(u) \/ WaitTimesOut(u) BY <3>2, UpdaterMoves
    <3>3. CASE ResponseStep BY <3>3, ResponseSteps
    <3>4. CASE tryStartJob
      <4>1. admissions' = admissions \/ admissions' = admissions + 1 BY <3>4 DEF tryStartJob
      <4>2. admissions \in Nat BY ConstantsAssumption DEF TypeOK, LoopTypes, ConstantsAssumption
      <4> QED BY <4>1, <4>2
    <3> QED
      BY <3>1, <3>2, <3>3, <3>4 DEF Next, ProcessStep, MainStep, StopSetFlag, StopTeardown,
         StopNotify, JobArrives, HandlerStep, CheckReadiness, JobEnds, PromisesExpire, vars
  <2> QED BY <2>1, <2>2 DEF WillNotify
<1> QED BY <1>2, <1>3, <1>4, <1>5 DEF WillNotify

\* stop() hands the notification over to a job only if that job still has to look at needStop.
LEMMA StopStep ==
    ASSUME TypeOK, JobInv, HandlingInv, StopIsNotForgotten, [Next]_vars
    PROVE  StopIsNotForgotten'
<1> USE DEF StopIsNotForgotten
<1>1. CASE stopPc = "returned"
  BY <1>1, StoppedEventsGrow, WillNotifyStep
<1>2. CASE StopNotify
  <2>1. stoppedEvents \in Nat BY DEF TypeOK, MainTypes
  <2>2. CASE ~handlingJob BY <1>2, <2>1, <2>2 DEF StopNotify
  <2>3. CASE handlingJob
    <3>1. PICK n \in 1 .. admissions : WillClear(n) BY <2>3 DEF HandlingInv
    <3>2. UNCHANGED <<loopPc, admissions, engine, updaterPc>> BY <1>2 DEF StopNotify
    <3> QED BY <3>1, <3>2 DEF WillNotify, WillClear
  <2> QED BY <2>2, <2>3
<1>3. CASE stopPc # "returned" /\ ~StopNotify
  <2>1. stopPc' # "returned"
    <3>1. CASE ResponseStep BY <1>3, <3>1, ResponseSteps
    <3>2. CASE \E u \in Updaters : UpdaterStep(u) \/ WaitTimesOut(u) BY <1>3, <3>2, UpdaterMoves
    <3> QED
      BY <1>3, <3>1, <3>2 DEF Next, ProcessStep, MainStep, StopSetFlag, StopTeardown, JobArrives,
         HandlerStep, CheckReadiness, tryStartJob, initJob, JobEnds, PromisesExpire, vars
  <2> QED BY <2>1
<1> QED BY <1>1, <1>2, <1>3
-----------------------------------------------------------------------------
(***************************************************************************)
(* The theorems.                                                           *)
(***************************************************************************)

\* IndInv holds of the feature before it starts.
LEMMA InitIndInv == Init => IndInv
<1> SUFFICES ASSUME Init PROVE IndInv OBVIOUS
<1> USE ConstantsAssumption DEF Init, ConstantsAssumption
<1>1. MainTypes BY DEF MainTypes
<1>2. LoopTypes BY DEF LoopTypes
<1>3. ThreadTypes BY DEF ThreadTypes
<1>4. NetworkTypes
  <2>1. DOMAIN promises = {} OBVIOUS
  <2>2. promises \in [DOMAIN promises -> PromiseValues] OBVIOUS
  <2>3. failures \in 0 .. MaxFailures /\ duplicates \in 0 .. MaxDuplicates /\ clockSteps \in 0 .. MaxClockSteps
    OBVIOUS
  <2> QED BY <2>1, <2>2, <2>3 DEF NetworkTypes
<1>5. JobInv BY UpdatesAreUpdaters DEF JobInv
<1>6. ClockInv BY DEF ClockInv
<1>7. PromisesMatchWaiters BY DEF PromisesMatchWaiters, Waiting
<1>8. LateInv BY DEF LateInv
<1>9. HandlingInv BY DEF HandlingInv
<1>10. StopIsNotForgotten BY DEF StopIsNotForgotten
<1> QED BY <1>1, <1>2, <1>3, <1>4, <1>5, <1>6, <1>7, <1>8, <1>9, <1>10 DEF IndInv, TypeOK

\* Every step of the threads keeps IndInv.
LEMMA NextIndInv == IndInv /\ [Next]_vars => IndInv'
BY TypeStep, JobStep, ClockStep, PromisesStep, LateStep, HandlingStep, StopStep DEF IndInv

\* The invariant behind the theorems below: how the threads of JobsFeature.cpp share handlingJob, the
\* map of promises and the numbers of the jobs.
THEOREM InductiveInvariant == Spec => []IndInv
BY InitIndInv, NextIndInv, PTL DEF Spec

\* Every variable of JobsFeature.cpp keeps to the values that the code gives it.
THEOREM TypeCorrect == Spec => []TypeOK
<1>1. IndInv => TypeOK BY DEF IndInv
<1> QED BY <1>1, InductiveInvariant, PTL

\* updateJobExecutionPromises holds no promise that nobody waits for, however the attempts time out,
\* are answered late, twice or not at all; and while the clock behaves, every one that somebody waits for.
THEOREM PromisesAreMatched == Spec => []PromisesMatchWaiters
<1>1. IndInv => PromisesMatchWaiters BY DEF IndInv
<1> QED BY <1>1, InductiveInvariant, PTL

\* The look at needStop that precedes tryStartJob lets at most one job start after stop() began.
THEOREM OneLateJob == Spec => []AtMostOneLateJob
<1>1. IndInv => AtMostOneLateJob BY DEF IndInv, LateInv, AtMostOneLateJob
<1> QED BY <1>1, InductiveInvariant, PTL

\* stop() that left FEATURE_STOPPED to a job is announced by its shutdownHandler or still will be: the
\* two look at each other's flag in the order that leaves no gap.
THEOREM StopIsRemembered == Spec => []StopIsNotForgotten
<1>1. IndInv => StopIsNotForgotten BY DEF IndInv
<1> QED BY <1>1, InductiveInvariant, PTL
=============================================================================
