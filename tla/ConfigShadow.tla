----------------------------- MODULE ConfigShadow -----------------------------
(***************************************************************************)
(* The configuration of the device kept in a named shadow                  *)
(* (src/source/shadow/ConfigShadow.cpp): at its start the client           *)
(* subscribes to the shadow's topics, fetches the shadow, takes over the   *)
(* sections the cloud wants changed if they are valid, and reports its     *)
(* configuration.  Every wait has a deadline, and every failure leaves the *)
(* rest undone.                                                            *)
(*                                                                         *)
(* The answers carry no correlation the handlers check: once the topics    *)
(* are subscribed, the answer to another client's request for the same     *)
(* shadow is taken for the own one, and every answer sets the same         *)
(* promise.                                                                *)
(***************************************************************************)
EXTENDS ConfigLoading, BlockingRequest

VARIABLES
  shadowStep,     \* where reconfigureWithConfigShadow is
  shadowAnswer    \* configShadowExistsPromise with configDelta: "none" until an answer comes

svars == <<shadowStep, shadowAnswer>>

ShadowInit == shadowStep = "idle" /\ shadowAnswer = "none"

-----------------------------------------------------------------------------
(* Both acknowledgements of a step are awaited before the next one.        *)
Awaited ==
  [getSubscribing |-> {"getAccepted", "getRejected"},
   updateSubscribing |-> {"updateAccepted", "updateRejected"},
   fetching |-> {"getPublished"},
   updating |-> {"updatePublished"}]
Waiting == shadowStep \in DOMAIN Awaited

GoTo(step) ==
  /\ shadowStep' = step
  /\ promises' = IF step \in DOMAIN Awaited THEN Unset(Awaited[step]) ELSE promises

SubscribeToGet ==
  /\ shadowStep = "begin"
  /\ GoTo("getSubscribing")
  /\ UNCHANGED <<config, shadowAnswer>>

(* A failed acknowledgement ends the reconfiguration.                      *)
AfterSuccess(step, next) ==
  /\ shadowStep = step
  /\ AllSet(Awaited[step])
  /\ IF AllTrue(Awaited[step]) THEN GoTo(next) ELSE GoTo("done")
  /\ UNCHANGED <<config, shadowAnswer>>

SubscribeToUpdate == AfterSuccess("getSubscribing", "updateSubscribing")
Fetch == AfterSuccess("updateSubscribing", "fetching")
Fetched == AfterSuccess("fetching", "awaiting")

(* The shadow exists and differs, or there is nothing to take over and     *)
(* the shadow is written with the local configuration.                     *)
AnswerReceived ==
  /\ shadowStep = "awaiting"
  /\ shadowAnswer # "none"
  /\ GoTo(IF shadowAnswer = "delta" THEN "resetting" ELSE "updating")
  /\ UNCHANGED <<config, shadowAnswer>>

-----------------------------------------------------------------------------
(* resetClientConfigWithJSON: a section that both the desired state and    *)
(* the delta have is loaded afresh from the desired state, and replaces    *)
(* the client's if it is valid.                                            *)
Replaced_Unchecked(section, loaded, valid) == loaded
Replaced(section, loaded, valid) == IF valid THEN loaded ELSE section

ResetConfig(c, desired, delta) ==
  LET both == DOMAIN desired \cap DOMAIN delta
      Reset(name, load(_), valid(_)) ==
        IF name \in both THEN Replaced(c[name], load(desired[name]), valid(load(desired[name]))) ELSE c[name]
      ValidJobs(j) == TRUE
  IN [c EXCEPT
       !.jobs = Reset("jobs", JobsFromJson, ValidJobs),
       !.tunneling = Reset("tunneling", TunnelingFromJson, ValidTunneling),
       !.defender = Reset("defender", DefenderFromJson, ValidDefender),
       !.pubSub = Reset("pubSub", PubSubFromJson, ValidPubSub),
       !.sampleShadow = Reset("sampleShadow", SampleShadowFromJson, ValidSampleShadow)]

(* What the cloud may desire: a change of one section.                     *)
Remote == {"jobs", "defender", "pubSub", "sampleShadow"}
Desired == UNION {{[section \in {s} |-> given] : given \in FileChoices[s]} : s \in Remote}

ResetClientConfig ==
  /\ shadowStep = "resetting"
  /\ \E desired \in Desired : config' = ResetConfig(config, desired, desired)
  /\ GoTo("updating")
  /\ UNCHANGED <<shadowAnswer>>

(* updateShadowWithLocalConfig: whatever becomes of the publication, the   *)
(* start goes on.                                                          *)
Updated ==
  /\ shadowStep = "updating"
  /\ AllSet(Awaited["updating"])
  /\ GoTo("done")
  /\ UNCHANGED <<config, shadowAnswer>>

(* The deadline of a wait.                                                 *)
ShadowTimesOut ==
  /\ \/ Waiting /\ ~AllSet(Awaited[shadowStep])
     \/ shadowStep = "awaiting" /\ shadowAnswer = "none"
  /\ GoTo("done")
  /\ UNCHANGED <<config, shadowAnswer>>

-----------------------------------------------------------------------------
(* The callbacks, on the event loop thread. *)
ShadowAck ==
  /\ Waiting
  /\ \E n \in Awaited[shadowStep], ok \in Outcomes : ~IsSet(n) /\ Fulfil(n, ok)
  /\ UNCHANGED <<config, svars>>

Listening == shadowStep \notin {"idle", "begin"}

(* getNamedShadowAcceptedHandler and getNamedShadowRejectedHandler: the    *)
(* shadow is missing or an error came with the answer, it has no delta, or *)
(* it has one.                                                             *)
GetAnswered ==
  /\ Listening
  /\ shadowAnswer = "none"
  /\ shadowAnswer' \in {"missing", "same", "delta"}
  /\ UNCHANGED <<config, promises, shadowStep>>

(* A shadow without a desired state is dereferenced unset, and a further   *)
(* answer sets the promise again: the exception leaves the callback.       *)
GetAnswerKills ==
  /\ Listening
  /\ shadowStep' = "died"
  /\ UNCHANGED <<config, promises, shadowAnswer>>

ShadowByMain ==
  SubscribeToGet \/ SubscribeToUpdate \/ Fetch \/ Fetched \/ AnswerReceived
    \/ ResetClientConfig \/ Updated \/ ShadowTimesOut
ShadowByEventLoop == ShadowAck \/ GetAnswered \/ GetAnswerKills
=============================================================================
