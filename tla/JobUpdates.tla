----------------------------- MODULE JobUpdates -----------------------------
(***************************************************************************)
(* What the Jobs feature does with a job (src/source/jobs/JobsFeature.cpp):*)
(* it admits the job, starts a thread that executes it, reports its status *)
(* from detached threads that retry (src/source/util/Retry.cpp) and match  *)
(* responses to requests through a map of promises, and tells the client   *)
(* base when the feature has stopped.                                      *)
(*                                                                         *)
(* Threads: the CRT event loop (loopPc), which runs every MQTT handler to  *)
(* its end; one engine per admitted job; one updater per status update;    *)
(* and main, which calls stop().  JobsRecovery models the subscriptions:   *)
(* here a message may be ignored because they are not ready, and always is *)
(* once stop() has torn the feature down.                                  *)
(***************************************************************************)
EXTENDS Integers, FiniteSets

CONSTANTS
    Jobs,            \* identities (JobId, ExecutionNumber)
    InvalidJobs,     \* the ones whose document PlainJobDocument::Validate refuses
    NoJob,
    MaxRetries,      \* retryConfig.maxRetries once the feature stops: 3 in the code
    MaxAdmissions,   \* bound: jobs admitted
    MaxFailures,     \* bound: waits that time out and retryable rejections
    MaxDuplicates,   \* bound: responses delivered twice
    MaxClockSteps    \* bound: how often 15 s pass on the system clock for promises in use

ASSUME ConstantsAssumption ==
    /\ InvalidJobs \subseteq Jobs
    /\ NoJob \notin Jobs
    /\ MaxRetries \in Nat \ {0}
    /\ {MaxAdmissions, MaxFailures, MaxDuplicates, MaxClockSteps} \subseteq Nat

\* Jobs are numbered in the order in which they are admitted; each has at most two status updates:
\* IN_PROGRESS, and one of SUCCEEDED, FAILED and REJECTED, whose completion ends the job.
Updaters == (1 .. MaxAdmissions) \X {"progress", "final"}

VARIABLES
    stopPc,          \* main
    handlingJob, latestJob,
    loopPc, loopJob, \* the event loop and the job whose message it handles
    admissions,
    engine,          \* of the n-th admitted job
    updaterPc,
    retriesForever,  \* this updater's retryConfig: -1 retries and &needStop, or MaxRetries and nullptr
    attempt,         \* attempts this updater has finished
    promises,        \* updateJobExecutionPromises: client token -> what the promise was set to
    expired,         \* the tokens in it whose 15 s are over on the system clock
    published,       \* tokens of requests that may still be answered
    failures, duplicates, clockSteps,
    terminated,      \* the exception no one caught, if any
    stoppedEvents,   \* history: FEATURE_STOPPED notifications,
    lateJobs,        \* jobs admitted after stop() began,
    reported         \* updaters that got a conclusive answer

mainVars    == <<stopPc, handlingJob, stoppedEvents>>
loopVars    == <<loopPc, loopJob, latestJob, admissions, lateJobs>>
updaterVars == <<updaterPc, retriesForever, attempt>>
mapVars     == <<promises, expired>>
networkVars == <<published, failures, duplicates, clockSteps>>
vars == <<mainVars, loopVars, engine, updaterVars, mapVars, networkVars, terminated, reported>>

needStop == stopPc # "running"

\* A fresh client token for each attempt (UniqueString::GetRandomToken).
Token(u) == <<u, attempt[u]>>

Init ==
    /\ stopPc = "running" /\ handlingJob = FALSE /\ stoppedEvents = 0
    /\ loopPc = "idle" /\ loopJob = NoJob /\ latestJob = NoJob /\ admissions = 0 /\ lateJobs = 0
    /\ engine = [n \in 1 .. MaxAdmissions |-> "none"]
    /\ updaterPc = [u \in Updaters |-> "none"]
    /\ retriesForever = [u \in Updaters |-> FALSE]
    /\ attempt = [u \in Updaters |-> 0]
    /\ promises = [t \in {} |-> "unset"] /\ expired = {}
    /\ published = {} /\ failures = 0 /\ duplicates = 0 /\ clockSteps = 0
    /\ terminated = "no"
    /\ reported = {}
-----------------------------------------------------------------------------
(***************************************************************************)
(* main: stop().                                                           *)
(***************************************************************************)

StopSetFlag ==
    /\ stopPc = "running"
    /\ stopPc' = "flagged"
    /\ UNCHANGED <<handlingJob, stoppedEvents, loopVars, engine, updaterVars, mapVars, networkVars,
                   terminated, reported>>

\* The block under the locks: jobsClientReady is false from here on.
StopTeardown ==
    /\ stopPc = "flagged"
    /\ stopPc' = "tornDown"
    /\ UNCHANGED <<handlingJob, stoppedEvents, loopVars, engine, updaterVars, mapVars, networkVars,
                   terminated, reported>>

\* The end of stop(): notify unless a job is being handled.
StopNotify ==
    /\ stopPc = "tornDown"
    /\ stopPc' = "returned"
    /\ stoppedEvents' = IF handlingJob THEN stoppedEvents ELSE stoppedEvents + 1
    /\ UNCHANGED <<handlingJob, loopVars, engine, updaterVars, mapVars, networkVars, terminated,
                   reported>>
-----------------------------------------------------------------------------
(***************************************************************************)
(* loop: a job arrives.                                                    *)
(***************************************************************************)

\* Mutant: the handlers do not look at needStop.
MessageIsAccepted_Always == TRUE

MessageIsAccepted == ~needStop

\* startNextPendingJobReceivedHandler and nextJobChangedHandler, up to the look at needStop.  After
\* stop() began they only report an error.
JobArrives(j) ==
    /\ loopPc = "idle"
    /\ admissions < MaxAdmissions
    /\ MessageIsAccepted
    /\ loopPc' = "checkReady" /\ loopJob' = j
    /\ UNCHANGED <<mainVars, latestJob, admissions, lateJobs, engine, updaterVars, mapVars, networkVars,
                   terminated, reported>>

HandlerReturns == loopPc' = "idle" /\ loopJob' = NoJob

\* The look at the subscriptions, under connectionRecoveryLock; an ignored job is left to a later poll.
CheckReadiness(ready) ==
    /\ loopPc = "checkReady"
    /\ ready => stopPc \in {"running", "flagged"}
    /\ IF ready THEN loopPc' = "tryStartJob" /\ UNCHANGED loopJob ELSE HandlerReturns
    /\ UNCHANGED <<mainVars, latestJob, admissions, lateJobs, engine, updaterVars, mapVars,
                   networkVars, terminated, reported>>

tryStartJob ==
    /\ loopPc = "tryStartJob"
    /\ IF loopJob = latestJob
       THEN HandlerReturns /\ UNCHANGED <<handlingJob, latestJob, admissions, lateJobs>>
       ELSE /\ loopPc' = "initJob"
            /\ handlingJob' = TRUE
            /\ latestJob' = loopJob
            /\ admissions' = admissions + 1
            /\ lateJobs' = IF needStop THEN lateJobs + 1 ELSE lateJobs
            /\ UNCHANGED loopJob
    /\ UNCHANGED <<stopPc, stoppedEvents, engine, updaterVars, mapVars, networkVars,
                   terminated, reported>>

\* Mutant: no update is ever retried for ever.
RetriesForever_Never == FALSE

RetriesForever == ~needStop

\* publishUpdateJobExecutionStatus: choose the retry configuration, detach the updater's thread.
publishUpdateJobExecutionStatus(u) ==
    /\ updaterPc' = [updaterPc EXCEPT ![u] = "begin"]
    /\ retriesForever' = [retriesForever EXCEPT ![u] = RetriesForever]
    /\ UNCHANGED attempt

\* A job whose document is invalid is rejected, any other is reported to be in progress and executed:
\* executeJob only detaches a thread.
initJob ==
    /\ loopPc = "initJob"
    /\ IF loopJob \in InvalidJobs
       THEN publishUpdateJobExecutionStatus(<<admissions, "final">>) /\ UNCHANGED engine
       ELSE /\ publishUpdateJobExecutionStatus(<<admissions, "progress">>)
            /\ engine' = [engine EXCEPT ![admissions] = "running"]
    /\ HandlerReturns
    /\ UNCHANGED <<mainVars, latestJob, admissions, lateJobs, mapVars, networkVars, terminated, reported>>

\* runJob: the steps of the job have ended, its outcome is reported.
JobEnds(n) ==
    /\ engine[n] = "running"
    /\ engine' = [engine EXCEPT ![n] = "done"]
    /\ publishUpdateJobExecutionStatus(<<n, "final">>)
    /\ UNCHANGED <<mainVars, loopVars, mapVars, networkVars, terminated, reported>>
-----------------------------------------------------------------------------
(***************************************************************************)
(* updaters: Retry::exponentialBackoff around publishLambda.               *)
(***************************************************************************)

\* Only the update that ends a job has an onComplete, its shutdownHandler.
Completed(u) == IF u[2] = "final" THEN "onComplete" ELSE "done"

\* needStopFlag is looked at only by an updater that retries for ever: at the start and after the sleep
\* between two attempts, which stop() does not interrupt.
GivesUp(u) == retriesForever[u] /\ needStop

ErasePromises(tokens) ==
    /\ promises' = [t \in DOMAIN promises \ tokens |-> promises[t]]
    /\ expired' = expired \ tokens

\* Before an attempt: stop, or start publishLambda, which first erases the promises that were leaked,
\* judging by their age.
StartAttempt(u) ==
    /\ updaterPc[u] \in {"begin", "sleep"}
    /\ IF GivesUp(u)
       THEN updaterPc' = [updaterPc EXCEPT ![u] = Completed(u)] /\ UNCHANGED mapVars
       ELSE updaterPc' = [updaterPc EXCEPT ![u] = "publish"] /\ ErasePromises(expired)
    /\ UNCHANGED <<mainVars, loopVars, engine, retriesForever, attempt, networkVars, terminated,
                   reported>>

\* Insert a fresh promise and publish the request.
PublishUpdate(u) ==
    /\ updaterPc[u] = "publish"
    /\ promises' = [t \in DOMAIN promises \union {Token(u)} |->
                      IF t = Token(u) THEN "unset" ELSE promises[t]]
    /\ published' = published \union {Token(u)}
    /\ updaterPc' = [updaterPc EXCEPT ![u] = "getFuture"]
    /\ UNCHANGED <<mainVars, loopVars, engine, retriesForever, attempt, expired, failures, duplicates,
                   clockSteps, terminated, reported>>

\* updateJobExecutionPromises.at(clientToken).get_future()
GetFuture(u) ==
    /\ updaterPc[u] = "getFuture"
    /\ IF Token(u) \in DOMAIN promises
       THEN updaterPc' = [updaterPc EXCEPT ![u] = "wait"] /\ UNCHANGED terminated
       ELSE terminated' = "erasedPromise" /\ UNCHANGED updaterPc
    /\ UNCHANGED <<mainVars, loopVars, engine, retriesForever, attempt, mapVars, networkVars, reported>>

\* Mutant: the promise stays in the map.
ErasedAtTheEnd_Leaked(u) == {}

ErasedAtTheEnd(u) == {Token(u)}

\* The end of publishLambda and of the loop's body: erase the promise, then complete or sleep.
EndAttempt(u, finished) ==
    /\ ErasePromises(ErasedAtTheEnd(u))
    /\ attempt' = [attempt EXCEPT ![u] = @ + 1]
    /\ updaterPc' = [updaterPc EXCEPT ![u] =
                        IF finished \/ (~retriesForever[u] /\ attempt'[u] >= MaxRetries)
                        THEN Completed(u) ELSE "sleep"]
    /\ reported' = IF finished THEN reported \union {u} ELSE reported
    /\ UNCHANGED <<mainVars, loopVars, engine, retriesForever, published, duplicates,
                   clockSteps, terminated>>

\* updateFuture is ready and conclusive unless a retry was asked for; it is ready with an exception
\* if the promise was destroyed.
AnswerReceived(u) ==
    /\ updaterPc[u] = "wait"
    /\ Token(u) \in DOMAIN promises
    /\ promises[Token(u)] # "unset"
    /\ EndAttempt(u, promises[Token(u)] # "RETRYABLE_ERROR")
    /\ UNCHANGED failures

PromiseBroken(u) ==
    /\ updaterPc[u] = "wait"
    /\ Token(u) \notin DOMAIN promises
    /\ terminated' = "brokenPromise"
    /\ UNCHANGED <<mainVars, loopVars, engine, updaterVars, mapVars, networkVars, reported>>

\* 10 s pass without a response.
WaitTimesOut(u) ==
    /\ updaterPc[u] = "wait"
    /\ Token(u) \in DOMAIN promises
    /\ promises[Token(u)] = "unset"
    /\ failures < MaxFailures
    /\ failures' = failures + 1
    /\ EndAttempt(u, FALSE)

\* shutdownHandler: handlingJob.store(false), and then the look at needStop.
ClearHandlingJob(u) ==
    /\ updaterPc[u] = "onComplete"
    /\ handlingJob' = FALSE
    /\ updaterPc' = [updaterPc EXCEPT ![u] = "notify"]
    /\ UNCHANGED <<stopPc, stoppedEvents, loopVars, engine, retriesForever, attempt, mapVars, networkVars,
                   terminated, reported>>

\* Mutant: shutdownHandler leaves the notification to stop().
NotifiesStopped_Never == FALSE

NotifiesStopped == needStop

NotifyStopped(u) ==
    /\ updaterPc[u] = "notify"
    /\ stoppedEvents' = IF NotifiesStopped THEN stoppedEvents + 1 ELSE stoppedEvents
    /\ updaterPc' = [updaterPc EXCEPT ![u] = "done"]
    /\ UNCHANGED <<stopPc, handlingJob, loopVars, engine, retriesForever, attempt, mapVars, networkVars,
                   terminated, reported>>
-----------------------------------------------------------------------------
(***************************************************************************)
(* loop: the responses, and the system clock.                              *)
(***************************************************************************)

\* The response to a request is delivered, and may be delivered again.
Delivered(t, again) ==
    /\ loopPc = "idle"
    /\ t \in published
    /\ IF again THEN duplicates < MaxDuplicates /\ duplicates' = duplicates + 1 /\ UNCHANGED published
                ELSE published' = published \ {t} /\ UNCHANGED duplicates
    /\ UNCHANGED <<mainVars, loopVars, engine, updaterVars, expired, clockSteps, reported>>

\* promise::set_value throws when the promise has a value.
SetPromise(t, value) ==
    IF promises[t] = "unset"
    THEN promises' = [promises EXCEPT ![t] = value] /\ UNCHANGED terminated
    ELSE terminated' = "promiseAlreadySatisfied" /\ UNCHANGED promises

\* A token that is not in the map is logged and ignored.
updateJobExecutionStatusAcceptedHandler(t, again) ==
    /\ Delivered(t, again)
    /\ IF t \in DOMAIN promises THEN SetPromise(t, "ACCEPTED") ELSE UNCHANGED <<promises, terminated>>
    /\ UNCHANGED failures

\* A token that is not in the map is logged, and then looked up with at(), which throws.
updateJobExecutionStatusRejectedHandler(t, value, again) ==
    /\ Delivered(t, again)
    /\ IF value = "RETRYABLE_ERROR" THEN failures < MaxFailures /\ failures' = failures + 1
                                    ELSE UNCHANGED failures
    /\ IF t \in DOMAIN promises THEN SetPromise(t, value)
                                ELSE terminated' = "unknownToken" /\ UNCHANGED promises

\* The system clock is set forward, or the process was suspended: every promise is now 15 s old.
PromisesExpire ==
    /\ clockSteps < MaxClockSteps
    /\ clockSteps' = clockSteps + 1
    /\ expired' = DOMAIN promises
    /\ UNCHANGED <<mainVars, loopVars, engine, updaterVars, promises, published, failures, duplicates,
                   terminated, reported>>
-----------------------------------------------------------------------------
MainStep == StopSetFlag \/ StopTeardown \/ StopNotify

\* The loop finishes the handler it is in.
HandlerStep ==
    \/ \E ready \in BOOLEAN : CheckReadiness(ready)
    \/ tryStartJob
    \/ initJob

UpdaterStep(u) ==
    \/ StartAttempt(u)
    \/ PublishUpdate(u)
    \/ GetFuture(u)
    \/ AnswerReceived(u)
    \/ PromiseBroken(u)
    \/ ClearHandlingJob(u)
    \/ NotifyStopped(u)

ResponseStep ==
    \E t \in published, again \in BOOLEAN :
        \/ updateJobExecutionStatusAcceptedHandler(t, again)
        \/ \E value \in {"RETRYABLE_ERROR", "NON_RETRYABLE_ERROR"} :
              updateJobExecutionStatusRejectedHandler(t, value, again)

ProcessStep ==
    \/ MainStep
    \/ \E j \in Jobs : JobArrives(j)
    \/ HandlerStep
    \/ \E n \in 1 .. MaxAdmissions : JobEnds(n)
    \/ \E u \in Updaters : UpdaterStep(u) \/ WaitTimesOut(u)
    \/ ResponseStep
    \/ PromisesExpire

\* An exception that leaves a thread's function or a handler ends the process.
Next == terminated = "no" /\ ProcessStep

(***************************************************************************)
(* Threads run, and a response that the broker still owes is delivered at  *)
(* last: other messages do not overtake it for ever, as the event loop     *)
(* takes them in order.  Nothing makes a job arrive or end, a wait time    *)
(* out, the clock step or stop() begin.                                    *)
(***************************************************************************)
Fairness ==
    /\ WF_vars(terminated = "no" /\ (StopTeardown \/ StopNotify))
    /\ WF_vars(terminated = "no" /\ HandlerStep)
    /\ \A u \in Updaters : WF_vars(terminated = "no" /\ UpdaterStep(u))
    /\ SF_vars(terminated = "no" /\ \E t \in published : updateJobExecutionStatusAcceptedHandler(t, FALSE))

Spec == Init /\ [][Next]_vars
FairSpec == Spec /\ Fairness
-----------------------------------------------------------------------------
(***************************************************************************)
(* Properties.                                                             *)
(***************************************************************************)
PromiseValues == {"unset", "ACCEPTED", "RETRYABLE_ERROR", "NON_RETRYABLE_ERROR"}

MainTypes ==
    /\ stopPc \in {"running", "flagged", "tornDown", "returned"}
    /\ handlingJob \in BOOLEAN
    /\ stoppedEvents \in Nat
    /\ terminated \in {"no", "erasedPromise", "brokenPromise", "promiseAlreadySatisfied", "unknownToken"}

LoopTypes ==
    /\ loopPc \in {"idle", "checkReady", "tryStartJob", "initJob"}
    /\ loopJob \in Jobs \union {NoJob}
    /\ latestJob \in Jobs \union {NoJob}
    /\ admissions \in 0 .. MaxAdmissions
    /\ lateJobs \in Nat

ThreadTypes ==
    /\ engine \in [1 .. MaxAdmissions -> {"none", "running", "done"}]
    /\ updaterPc \in [Updaters -> {"none", "begin", "publish", "getFuture", "wait", "sleep",
                                   "onComplete", "notify", "done"}]
    /\ retriesForever \in [Updaters -> BOOLEAN]
    /\ attempt \in [Updaters -> Nat]
    /\ reported \subseteq Updaters

NetworkTypes ==
    /\ DOMAIN promises \subseteq Updaters \X Nat
    /\ promises \in [DOMAIN promises -> PromiseValues]
    /\ expired \subseteq DOMAIN promises
    /\ published \subseteq Updaters \X Nat
    /\ failures \in 0 .. MaxFailures
    /\ duplicates \in 0 .. MaxDuplicates
    /\ clockSteps \in 0 .. MaxClockSteps

\* The type of every variable.
TypeOK == MainTypes /\ LoopTypes /\ ThreadTypes /\ NetworkTypes

\* The updaters between the insertion of their promise and its removal.
Waiting == {u \in Updaters : updaterPc[u] \in {"getFuture", "wait"}}

\* updateJobExecutionPromises holds the promises of the updates that wait for a response and no other:
\* nothing leaks, and nobody waits on a promise that another thread has swept away while the system
\* clock behaves.
PromisesMatchWaiters ==
    /\ DOMAIN promises \subseteq {Token(u) : u \in Waiting}
    /\ clockSteps = 0 => DOMAIN promises = {Token(u) : u \in Waiting}

\* The n-th job still has its shutdownHandler to run, up to the point where handlingJob is cleared.
WillClear(n) ==
    \/ n = admissions /\ loopPc = "initJob"
    \/ engine[n] = "running"
    \/ updaterPc[<<n, "final">>] \in {"begin", "publish", "getFuture", "wait", "sleep",
                                      "onComplete"}

WillNotify(n) == WillClear(n) \/ updaterPc[<<n, "final">>] = "notify"

\* stop() does not end unannounced: when it left the notification to a job that was being handled, that
\* job has notified or still will, in whatever order handlingJob and needStop are set and looked at.
StopIsNotForgotten ==
    stopPc = "returned" => stoppedEvents > 0 \/ \E n \in 1 .. admissions : WillNotify(n)

\* At most one job, whose handler had looked at needStop before, starts after stop() began.
AtMostOneLateJob == lateJobs <= 1

(***************************************************************************)
(* The inductive invariant behind the safety properties above.             *)
(***************************************************************************)

Updates(n) == {<<n, "progress">>, <<n, "final">>}

\* A number is used for one job: nothing of it exists before the job is initialized, and its outcome
\* is not reported before the engine has ended.
JobInv ==
    /\ loopPc \in {"checkReady", "tryStartJob"} => admissions < MaxAdmissions
    /\ loopPc = "initJob" => admissions # 0
    /\ \A n \in 1 .. MaxAdmissions :
          /\ (n > admissions \/ (n = admissions /\ loopPc = "initJob")) =>
                engine[n] = "none" /\ \A u \in Updates(n) : updaterPc[u] = "none"
          /\ engine[n] = "running" => updaterPc[<<n, "final">>] = "none"

\* No promise has expired before the system clock steps.
ClockInv == clockSteps = 0 => expired = {}

\* A job that starts late is the one whose handler was already running.
LateInv ==
    /\ lateJobs <= 1
    /\ lateJobs # 0 => needStop /\ loopPc \notin {"checkReady", "tryStartJob"}

\* The flag is set on behalf of a job that will clear it.
HandlingInv == handlingJob => \E n \in 1 .. admissions : WillClear(n)

IndInv ==
    /\ TypeOK
    /\ JobInv
    /\ ClockInv
    /\ PromisesMatchWaiters
    /\ LateInv
    /\ HandlingInv
    /\ StopIsNotForgotten

\* Once begun, stop() is announced, unless a job never ends or the process was terminated.
StopIsAnnounced ==
    <>needStop => \/ <>(stoppedEvents > 0 \/ terminated # "no")
                  \/ <>[](\E n \in 1 .. MaxAdmissions : engine[n] = "running")

\* "if we never properly update the job execution status, we'll never receive the next job": the outcome
\* of a job gets a conclusive answer, through time-outs and retryable errors, unless the feature stops.
OutcomeIsReported ==
    \A n \in 1 .. MaxAdmissions :
        updaterPc[<<n, "final">>] = "begin" ~>
            (<<n, "final">> \in reported \/ needStop \/ terminated # "no")

=============================================================================
