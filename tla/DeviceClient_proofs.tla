------------------------- MODULE DeviceClient_proofs -------------------------
(***************************************************************************)
(* Proofs about DeviceClient, for any certificates and any number of       *)
(* starts and outages: a runtime configuration on disk is complete         *)
(* whenever the process dies, a device that has one is never provisioned   *)
(* again, the client connects with an identity that is whole, and the      *)
(* features run with a valid configuration.  And about LogPipeline, the    *)
(* client's log, for any messages: their order is kept, and none that was  *)
(* queued is lost by a shutdown.                                           *)
(***************************************************************************)
EXTENDS DeviceClient, LogPipeline, SequenceTheorems, TLAPS

USE DEF cvars, fvars, svars, lvars, dvars, service, files, Publication

-----------------------------------------------------------------------------
(* The configuration through the steps that load it. *)

\* Loading neither adds nor removes a section.
LEMMA SectionsStay ==
  ASSUME NEW c, NEW doc, NEW name, NEW given, NEW made
  PROVE  /\ DOMAIN LoadFromJson(c, doc) = DOMAIN c
         /\ DOMAIN LoadFromCliArgs(c, name, given, made) = DOMAIN c
         /\ DOMAIN StoreRuntimeConfig(c) = DOMAIN c
<1>1. DOMAIN LoadFromJson(c, doc) = DOMAIN c BY DEF LoadFromJson
<1>2. DOMAIN LoadFromCliArgs(c, name, given, made) = DOMAIN c BY DEF LoadFromCliArgs
<1>3. DOMAIN StoreRuntimeConfig(c) = DOMAIN c BY DEF StoreRuntimeConfig
<1> QED BY <1>1, <1>2, <1>3

\* A runtime configuration that says that it is complete is loaded as such.
LEMMA RuntimeLoaded ==
  ASSUME NEW c, NEW file, "runtime" \in DOMAIN c,
         "completed" \in DOMAIN file, file.completed = "true"
  PROVE  StoreRuntimeConfig(LoadFromJson(c, [runtime |-> file])).runtime.completed = "true"
<1> DEFINE loaded == LoadFromJson(c, [runtime |-> file])
<1>1. loaded.runtime = RuntimeFromJson(file) BY DEF LoadFromJson
<1>2. RuntimeFromJson(file).completed = "true" BY DEF RuntimeFromJson, Is, @@
<1>3. StoreRuntimeConfig(loaded).runtime = loaded.runtime
  <2>1. "runtime" \in DOMAIN loaded BY SectionsStay
  <2> HIDE DEF loaded
  <2> QED BY <2>1 DEF StoreRuntimeConfig
<1> QED BY <1>1, <1>2, <1>3

\* Config::init: once the runtime configuration was looked for it is loaded, whatever follows.
LEMMA LoadingPreserves == ASSUME IndInv, LoadConfig PROVE IndInv'
<1> USE DEF IndInv
<1>1. /\ main = "load" /\ UNCHANGED <<main, goal, promises, fvars>>
      /\ LoadNext(runtimeFile)
  BY DEF LoadConfig
<1>2. "runtime" \in DOMAIN config BY <1>1 DEF LoadInv
<1>3. "runtime" \in DOMAIN config' /\
      (loading' \in {"proxy", "validate", "accepted"} =>
         (runtimeFile # << >> => config'.runtime.completed = "true"))
  <2>1. CASE ParseCliArgs \/ RefuseCliArgs
    BY <1>2, <2>1 DEF ParseCliArgs, RefuseCliArgs
  <2>2. CASE ParseConfigFile
    <3>1. loading' = "cli" BY <2>2 DEF ParseConfigFile
    <3>2. config' = config \/ \E doc \in Documents : config' = LoadFromJson(config, doc)
      BY <2>2 DEF ParseConfigFile
    <3> QED BY <1>2, <3>1, <3>2, SectionsStay
  <2>3. CASE LoadCliArgs
    <3>1. loading' \in {"refused", "environment"} BY <2>3 DEF LoadCliArgs
    <3>2. config' = config \/ \E name, given, made : config' = LoadFromCliArgs(config, name, given, made)
      BY <2>3 DEF LoadCliArgs
    <3> QED BY <1>2, <3>1, <3>2, SectionsStay
  <2>4. CASE LoadFromEnvironment
    <3>1. loading' = "runtime" BY <2>4 DEF LoadFromEnvironment
    <3>2. \E t : config' = [config EXCEPT !.tunneling.token = t] BY <2>4 DEF LoadFromEnvironment
    <3> QED BY <1>2, <3>1, <3>2
  <2>5. CASE ParseRuntimeConfig(runtimeFile)
    <3>1. CASE runtimeFile = << >> BY <1>2, <2>5, <3>1 DEF ParseRuntimeConfig
    <3>2. CASE runtimeFile # << >>
      <4>1. config' = StoreRuntimeConfig(LoadFromJson(config, [runtime |-> runtimeFile]))
        BY <2>5, <3>2 DEF ParseRuntimeConfig
      <4>2. "completed" \in DOMAIN runtimeFile /\ runtimeFile.completed = "true"
        BY <3>2 DEF LoadInv
      <4> QED BY <1>2, <4>1, <4>2, SectionsStay, RuntimeLoaded
    <3> QED BY <3>1, <3>2
  <2>6. CASE ParseProxyConfig
    <3>1. loading = "proxy" BY <2>6 DEF ParseProxyConfig
    <3>2. config' = config \/ \E proxy : config' = [config EXCEPT !.proxy = proxy]
      BY <2>6 DEF ParseProxyConfig
    <3>3. config'.runtime = config.runtime /\ DOMAIN config' = DOMAIN config BY <1>2, <3>2
    <3> QED BY <1>1, <1>2, <3>1, <3>3 DEF LoadInv
  <2>7. CASE ValidateConfig
    <3>1. loading = "validate" /\ config' = [config EXCEPT !.sensors.settings = KeptSensors(@)]
      BY <2>7 DEF ValidateConfig
    <3>2. config'.runtime = config.runtime /\ DOMAIN config' = DOMAIN config BY <1>2, <3>1
    <3> QED BY <1>1, <1>2, <3>1, <3>2 DEF LoadInv
  <2> QED BY <1>1, <2>1, <2>2, <2>3, <2>4, <2>5, <2>6, <2>7 DEF LoadNext
<1>4. FilesInv' /\ RuntimeConfigIsComplete' BY <1>1 DEF FilesInv, RuntimeConfigIsComplete
<1>5. LoadInv' BY <1>1, <1>3 DEF LoadInv
<1>6. GoalInv' /\ ProvisionInv' BY <1>1 DEF GoalInv, ProvisionInv
<1> QED BY <1>4, <1>5, <1>6

-----------------------------------------------------------------------------
(* A step that leaves alone what provisioning works on, and begins neither *)
(* it nor a start.                                                         *)
LEMMA ProvisioningUntouched ==
  ASSUME IndInv, UNCHANGED <<things, certFiles, keyFiles, runtimeFile>>,
         main' = "provision" =>
           main = "provision" /\ UNCHANGED <<provisioning, promises, answer, certPath, keyPath, config>>,
         main' = "connecting" /\ goal' = "provision" =>
           (main = "connecting" /\ goal = "provision") \/ runtimeFile = << >>,
         main' = "disconnecting" => goal' # "provision",
         main' \in {"load", "ended"} => main' = main /\ UNCHANGED <<config, loading>>,
         main' = "init" =>
           (main = "init" \/ (main = "load" /\ loading = "accepted")) /\ UNCHANGED config
  PROVE  IndInv'
<1> USE DEF IndInv
<1>1. FilesInv' BY DEF FilesInv
<1>2. RuntimeConfigIsComplete' BY DEF RuntimeConfigIsComplete
<1>3. LoadInv' BY DEF LoadInv
<1>4. GoalInv' BY DEF GoalInv
<1>5. ProvisionInv'
  <2> SUFFICES ASSUME main' = "provision" PROVE ProvisionInv' BY DEF ProvisionInv
  <2>1. main = "provision" /\ UNCHANGED <<provisioning, promises, answer, certPath, keyPath, config>>
    OBVIOUS
  <2>2. CreatingInv' BY <2>1 DEF ProvisionInv, CreatingInv, UsesCsr
  <2>3. RegisteringInv' BY <2>1 DEF ProvisionInv, RegisteringInv
  <2>4. HasCredentials => HasCredentials' BY <2>1 DEF HasCredentials
  <2> QED BY <2>1, <2>2, <2>3, <2>4 DEF ProvisionInv
<1> QED BY <1>1, <1>2, <1>3, <1>4, <1>5

\* What is on disk survives the process, and the next start begins afresh.
LEMMA EndPreserves == ASSUME IndInv, Ends PROVE IndInv'
<1> USE DEF IndInv, Ends
<1>1. FilesInv' BY DEF FilesInv
<1>2. RuntimeConfigIsComplete' BY DEF RuntimeConfigIsComplete
<1>3. "runtime" \in DOMAIN config' BY DEF Defaults
<1>4. LoadInv' BY <1>3 DEF LoadInv
<1>5. GoalInv' /\ ProvisionInv' BY DEF GoalInv, ProvisionInv
<1> QED BY <1>1, <1>2, <1>4, <1>5

\* The next start of the process finds the disk as the last one left it.
LEMMA RestartPreserves == ASSUME IndInv, Restart PROVE IndInv'
<1> USE DEF IndInv, Restart
<1>1. FilesInv' BY DEF FilesInv
<1>2. RuntimeConfigIsComplete' BY DEF RuntimeConfigIsComplete
<1>3. LoadInv' BY DEF LoadInv
<1>4. GoalInv' /\ ProvisionInv' BY DEF GoalInv, ProvisionInv
<1> QED BY <1>1, <1>2, <1>3, <1>4

-----------------------------------------------------------------------------
(* The steps of provisioning. *)

\* ProvisionDevice, by main.
LEMMA ProvisionPreserves == ASSUME IndInv, Provision PROVE IndInv'
<1> USE DEF IndInv
<1>1. /\ main = "provision" /\ ProvisioningByMain /\ UNCHANGED <<main, goal, loading, config>>
  BY DEF Provision
<1>2. UNCHANGED <<certFiles, keyFiles, things, certPath>>
  BY <1>1 DEF ProvisioningByMain, ProvisionDevice, CreateSubscribed, RegisterSubscribed, Subscribed,
              Created, Registered, WaitTimesOut, OpenRuntimeConfig, WriteRuntimeConfig
<1>3. FilesInv' BY <1>2 DEF FilesInv
<1>4. GoalInv' BY <1>1 DEF GoalInv
<1>5. CASE ProvisionDevice \/ CreateSubscribed \/ Created \/ RegisterSubscribed \/ Registered \/ WaitTimesOut
  <2>1. runtimeFile' = runtimeFile
    BY <1>5 DEF ProvisionDevice, CreateSubscribed, RegisterSubscribed, Subscribed, Created, Registered,
                WaitTimesOut
  <2>2. RuntimeConfigIsComplete' BY <1>2, <2>1 DEF RuntimeConfigIsComplete
  <2>3. LoadInv' BY <1>1, <2>1 DEF LoadInv
  <2>4. CASE ProvisionDevice
    <3>1. provisioning = "begin" /\ provisioning' \in {"failed", "createSubscribing", "died"}
      BY <2>4 DEF ProvisionDevice
    <3>2. ProvisionInv' BY <1>1, <2>1, <3>1 DEF ProvisionInv, CreatingInv, RegisteringInv
    <3> QED BY <1>3, <1>4, <2>2, <2>3, <3>2
  <2>5. CASE CreateSubscribed
    <3>1. /\ provisioning = "createSubscribing" /\ answer' = "none"
          /\ \/ provisioning' = "failed"
             \/ provisioning' = "creating" /\ promises' = Unset({"publishAck", "completed"})
      BY <2>5 DEF CreateSubscribed, Subscribed
    <3>2. CreatingInv'
      BY <3>1 DEF CreatingInv, Unset
    <3>3. ProvisionInv' BY <1>1, <2>1, <3>1, <3>2 DEF ProvisionInv, RegisteringInv
    <3> QED BY <1>3, <1>4, <2>2, <2>3, <3>3
  <2>6. CASE Created
    <3>1. /\ provisioning = "creating"
          /\ \/ provisioning' = "failed"
             \/ /\ provisioning' = "registerSubscribing" /\ promises["completed"] = "true"
                /\ keyPath' = IF UsesCsr THEN KeyPathAfterCsr ELSE keyPath
      BY <2>6 DEF Created, RequestSucceeded, AllTrue
    <3>2. provisioning' = "registerSubscribing" => HasCredentials'
      BY <1>1, <1>2, <3>1 DEF ProvisionInv, CreatingInv, HasCredentials, KeyPathAfterCsr
    <3>3. ProvisionInv' BY <1>1, <2>1, <3>1, <3>2 DEF ProvisionInv, CreatingInv, RegisteringInv
    <3> QED BY <1>3, <1>4, <2>2, <2>3, <3>3
  <2>7. CASE RegisterSubscribed
    <3>1. /\ provisioning = "registerSubscribing" /\ answer' = "none" /\ keyPath' = keyPath
          /\ \/ provisioning' = "failed"
             \/ provisioning' = "registering" /\ promises' = Unset({"publishAck", "completed"})
      BY <2>7 DEF RegisterSubscribed, Subscribed
    <3>2. RegisteringInv' BY <3>1 DEF RegisteringInv, Unset
    <3>3. HasCredentials' BY <1>1, <1>2, <3>1 DEF ProvisionInv, HasCredentials
    <3>4. ProvisionInv' BY <1>1, <2>1, <3>1, <3>2, <3>3 DEF ProvisionInv, CreatingInv
    <3> QED BY <1>3, <1>4, <2>2, <2>3, <3>4
  <2>8. CASE Registered
    <3>1. /\ provisioning = "registering" /\ keyPath' = keyPath
          /\ provisioning' = "failed" \/ (provisioning' = "export" /\ promises["completed"] = "true")
      BY <2>8 DEF Registered, RequestSucceeded, AllTrue
    <3>2. HasCredentials' BY <1>1, <1>2, <3>1 DEF ProvisionInv, HasCredentials
    <3>3. provisioning' = "export" => certPath' \in things'
      BY <1>1, <1>2, <3>1 DEF ProvisionInv, RegisteringInv
    <3>4. ProvisionInv' BY <1>1, <2>1, <3>1, <3>2, <3>3 DEF ProvisionInv, CreatingInv, RegisteringInv
    <3> QED BY <1>3, <1>4, <2>2, <2>3, <3>4
  <2>9. CASE WaitTimesOut
    <3>1. provisioning' = "failed" BY <2>9 DEF WaitTimesOut
    <3>2. ProvisionInv' BY <3>1 DEF ProvisionInv, CreatingInv, RegisteringInv
    <3> QED BY <1>3, <1>4, <2>2, <2>3, <3>2
  <2> QED BY <1>5, <2>4, <2>5, <2>6, <2>7, <2>8, <2>9
<1>6. CASE OpenRuntimeConfig
  <2>1. /\ provisioning = "export" /\ keyPath' = keyPath
        /\ \/ provisioning' = "failed" /\ runtimeFile' = runtimeFile
           \/ provisioning' = "exporting" /\ runtimeFile' = << >>
    BY <1>6 DEF OpenRuntimeConfig
  <2>2. RuntimeConfigIsComplete' BY <1>2, <2>1 DEF RuntimeConfigIsComplete
  <2>3. LoadInv' BY <1>1, <2>1 DEF LoadInv
  <2>4. HasCredentials' /\ certPath' \in things' BY <1>1, <1>2, <2>1 DEF ProvisionInv, HasCredentials
  <2>5. ProvisionInv' BY <2>1, <2>4 DEF ProvisionInv, CreatingInv, RegisteringInv
  <2> QED BY <1>3, <1>4, <2>2, <2>3, <2>5
<1>7. CASE WriteRuntimeConfig
  <2>1. /\ provisioning = "exporting" /\ provisioning' = "provisioned"
        /\ runtimeFile' = RuntimeConfig \/ runtimeFile' = << >>
    BY <1>7 DEF WriteRuntimeConfig
  <2>2. HasCredentials /\ certPath \in things BY <1>1, <2>1 DEF ProvisionInv
  <2>3. keyPath \in keyFiles => keyPath = certPath
    BY <2>2, ProvisioningConstants DEF HasCredentials, FilesInv, ProvisioningConstants
  <2>4. RuntimeConfigIsComplete'
    <3>1. CASE runtimeFile' = RuntimeConfig
      <4>1. runtimeFile'.cert = certPath /\ runtimeFile'.key = keyPath BY <3>1 DEF RuntimeConfig
      <4> QED BY <1>2, <2>2, <2>3, <4>1 DEF HasCredentials, RuntimeConfigIsComplete
    <3>2. CASE runtimeFile' = << >> BY <3>2 DEF RuntimeConfigIsComplete
    <3> QED BY <2>1, <3>1, <3>2
  <2>5. runtimeFile' # << >> => "completed" \in DOMAIN runtimeFile' /\ runtimeFile'.completed = "true"
    BY <2>1 DEF RuntimeConfig
  <2>6. LoadInv' BY <1>1, <2>5 DEF LoadInv
  <2>7. ProvisionInv' BY <2>1 DEF ProvisionInv, CreatingInv, RegisteringInv
  <2> QED BY <1>3, <1>4, <2>4, <2>6, <2>7
<1> QED BY <1>1, <1>5, <1>6, <1>7 DEF ProvisioningByMain

-----------------------------------------------------------------------------
\* The service, and its answers and acknowledgements on the event loop.
LEMMA AnswersPreserve ==
  ASSUME IndInv, main = "provision",
         ServiceAnswers \/ ProvisioningByEventLoop,
         UNCHANGED <<main, goal, loading, config>>
  PROVE  IndInv'
<1> USE DEF IndInv
<1>1. runtimeFile' = runtimeFile
  BY DEF ServiceAnswers, ProvisioningByEventLoop, SubscriptionAck, PublishAck, AcceptedDelivered,
         RejectedDelivered, AnswerDeliveredTwice
<1>2. LoadInv' /\ GoalInv' BY <1>1 DEF LoadInv, GoalInv
<1>3. CASE provisioning' = "died"
  <2>1. UNCHANGED <<certFiles, keyFiles, things>>
    BY <1>3 DEF ServiceAnswers, ProvisioningByEventLoop, SubscriptionAck, PublishAck, AcceptedDelivered,
                RejectedDelivered, AnswerDeliveredTwice
  <2>2. FilesInv' /\ RuntimeConfigIsComplete' BY <1>1, <2>1 DEF FilesInv, RuntimeConfigIsComplete
  <2>3. ProvisionInv' BY <1>3 DEF ProvisionInv, CreatingInv, RegisteringInv
  <2> QED BY <1>2, <2>2, <2>3
<1>4. CASE provisioning' # "died"
  <2>1. /\ provisioning' = provisioning
        /\ provisioning \in {"createSubscribing", "registerSubscribing", "creating", "registering"}
    BY <1>4 DEF ServiceAnswers, ProvisioningByEventLoop, SubscriptionAck, PublishAck, AcceptedDelivered,
                RejectedDelivered, AnswerDeliveredTwice
  <2>2. runtimeFile = << >> BY <2>1 DEF ProvisionInv
  <2>3. RuntimeConfigIsComplete' BY <1>1, <2>2 DEF RuntimeConfigIsComplete
  <2>4. UsesCsr' = UsesCsr BY DEF UsesCsr
  <2>5. CASE ServiceAnswers
    <3> USE <2>5 DEF ServiceAnswers
    <3>1. FilesInv' BY DEF FilesInv
    <3>2. CASE provisioning = "creating"
      <4>1. /\ answer' \in Certificates
            /\ UNCHANGED <<promises, things, certFiles, keyFiles, certPath, keyPath>>
        BY <3>2
      <4>2. CreatingInv' BY <3>2, <4>1, <2>4 DEF ProvisionInv, CreatingInv
      <4> QED BY <1>1, <1>2, <2>1, <2>2, <2>3, <3>1, <3>2, <4>2 DEF ProvisionInv, RegisteringInv
    <3>3. CASE provisioning # "creating"
      <4>1. /\ provisioning = "registering" /\ answer' = "registered" /\ things' = things \cup {certPath}
            /\ UNCHANGED <<promises, certFiles, keyFiles, certPath, keyPath>>
        BY <3>3
      <4>2. RegisteringInv' BY <4>1 DEF ProvisionInv, RegisteringInv
      <4>3. HasCredentials' BY <4>1 DEF ProvisionInv, HasCredentials
      <4> QED BY <1>1, <1>2, <2>1, <2>2, <2>3, <3>1, <4>1, <4>2, <4>3 DEF ProvisionInv, CreatingInv
    <3> QED BY <3>2, <3>3
  <2>6. CASE SubscriptionAck
    <3>1. /\ provisioning \in {"createSubscribing", "registerSubscribing"}
          /\ UNCHANGED <<certFiles, keyFiles, certPath, keyPath, things>>
      BY <2>6 DEF SubscriptionAck
    <3>2. FilesInv' BY <3>1 DEF FilesInv
    <3>3. HasCredentials => HasCredentials' BY <3>1 DEF HasCredentials
    <3>4. ProvisionInv' BY <1>1, <2>1, <3>1, <3>3 DEF ProvisionInv, CreatingInv, RegisteringInv
    <3> QED BY <1>2, <2>3, <3>2, <3>4
  <2>7. CASE PublishAck
    <3>1. /\ provisioning \in {"creating", "registering"}
          /\ \E ok \in Outcomes : promises' = [promises EXCEPT !["publishAck"] = ok]
          /\ UNCHANGED <<answer, certFiles, keyFiles, certPath, keyPath, things>>
      BY <2>7 DEF PublishAck, Fulfil
    <3>2. DOMAIN promises = {"publishAck", "completed"} BY <3>1 DEF ProvisionInv, CreatingInv, RegisteringInv
    <3>3. DOMAIN promises' = DOMAIN promises /\ promises'["completed"] = promises["completed"]
      BY <3>1, <3>2
    <3>4. FilesInv' BY <3>1 DEF FilesInv
    <3>5. CreatingInv' BY <2>1, <2>4, <3>1, <3>3 DEF ProvisionInv, CreatingInv
    <3>6. RegisteringInv' BY <2>1, <3>1, <3>3 DEF ProvisionInv, RegisteringInv
    <3>7. HasCredentials => HasCredentials' BY <3>1 DEF HasCredentials
    <3>8. ProvisionInv' BY <1>1, <2>1, <3>1, <3>5, <3>6, <3>7 DEF ProvisionInv
    <3> QED BY <1>2, <2>3, <3>4, <3>8
  <2>8. CASE AcceptedDelivered
    <3>1. PICK ok \in Outcomes :
            /\ promises' = [promises EXCEPT !["completed"] = ok]
            /\ IF provisioning = "creating" THEN StoreCredentials(ok) ELSE UNCHANGED files
      BY <2>8 DEF AcceptedDelivered, Fulfil
    <3>2. /\ provisioning \in {"creating", "registering"} /\ answer \notin {"none", "rejected"}
          /\ UNCHANGED <<answer, things>>
      BY <2>8 DEF AcceptedDelivered
    <3>3. DOMAIN promises = {"publishAck", "completed"} BY <3>2 DEF ProvisionInv, CreatingInv, RegisteringInv
    <3>4. DOMAIN promises' = DOMAIN promises /\ promises'["completed"] = ok BY <3>1, <3>3
    <3>5. CASE provisioning = "creating"
      <4>1. StoreCredentials(ok) /\ answer \in Certificates
        BY <3>1, <3>2, <3>5 DEF ProvisionInv, CreatingInv
      <4>2. FilesInv' BY <4>1 DEF StoreCredentials, FilesInv
      <4>3. ok = "true" => certPath' \in certFiles' /\ (UsesCsr \/ (keyPath' \in keyFiles' /\ keyPath' = certPath'))
        BY <4>1 DEF StoreCredentials
      <4>4. CreatingInv' BY <2>4, <3>2, <3>3, <3>4, <4>1, <4>3 DEF CreatingInv
      <4>5. ProvisionInv' BY <1>1, <2>1, <2>2, <3>5, <4>4 DEF ProvisionInv, RegisteringInv
      <4> QED BY <1>2, <2>3, <4>2, <4>5
    <3>6. CASE provisioning = "registering"
      <4>1. UNCHANGED <<certFiles, keyFiles, certPath, keyPath>> BY <3>1, <3>6
      <4>2. FilesInv' BY <4>1 DEF FilesInv
      <4>3. RegisteringInv' BY <3>2, <3>3, <3>4, <3>6, <4>1 DEF ProvisionInv, RegisteringInv
      <4>4. HasCredentials' BY <3>6, <4>1 DEF ProvisionInv, HasCredentials
      <4>5. ProvisionInv' BY <1>1, <2>1, <2>2, <3>6, <4>3, <4>4 DEF ProvisionInv, CreatingInv
      <4> QED BY <1>2, <2>3, <4>2, <4>5
    <3> QED BY <3>2, <3>5, <3>6
  <2>9. CASE RejectedDelivered
    <3>1. /\ provisioning \in {"creating", "registering"} /\ answer' = "rejected"
          /\ promises' = [promises EXCEPT !["completed"] = "false"]
          /\ UNCHANGED <<certFiles, keyFiles, certPath, keyPath, things>>
      BY <2>9 DEF RejectedDelivered, Fulfil
    <3>2. DOMAIN promises = {"publishAck", "completed"} BY <3>1 DEF ProvisionInv, CreatingInv, RegisteringInv
    <3>3. DOMAIN promises' = DOMAIN promises /\ promises'["completed"] = "false" BY <3>1, <3>2
    <3>4. FilesInv' BY <3>1 DEF FilesInv
    <3>5. CreatingInv' BY <3>1, <3>2, <3>3 DEF CreatingInv
    <3>6. RegisteringInv' BY <3>1, <3>2, <3>3 DEF RegisteringInv
    <3>7. HasCredentials => HasCredentials' BY <3>1 DEF HasCredentials
    <3>8. ProvisionInv' BY <1>1, <2>1, <2>2, <3>1, <3>5, <3>6, <3>7 DEF ProvisionInv
    <3> QED BY <1>2, <2>3, <3>4, <3>8
  <2> QED BY <1>4, <2>5, <2>6, <2>7, <2>8, <2>9 DEF ProvisioningByEventLoop, AnswerDeliveredTwice
<1> QED BY <1>3, <1>4

-----------------------------------------------------------------------------
(* Every other step. *)

\* main() around provisioning: the lock, the connections, what is stored and taken over.
LEMMA StartPreserves ==
  ASSUME IndInv,
         \/ BeginInit \/ TakeLock \/ Initialize \/ EstablishConnection
         \/ StoreRuntime \/ Reconfigure \/ Reconfigured \/ Disconnect \/ Disconnected
  PROVE  IndInv'
<1>1. CASE BeginInit BY <1>1, ProvisioningUntouched DEF BeginInit
<1>2. CASE TakeLock BY <1>2, ProvisioningUntouched DEF TakeLock, IndInv, GoalInv
<1>3. CASE Initialize
  <2>1. /\ main = "init" /\ UNCHANGED <<cvars, promises, fvars>>
        /\ \/ main' = "connecting" /\ goal' = IF NeedsProvisioning THEN "provision" ELSE "serve"
           \/ main' = "closing" /\ goal' = goal
    BY <1>3 DEF Initialize, Abort
  <2>2. NeedsProvisioning => runtimeFile = << >>
    BY <2>1 DEF NeedsProvisioning, IndInv, LoadInv
  <2> QED BY <2>1, <2>2, ProvisioningUntouched
<1>4. CASE EstablishConnection
  <2>1. /\ main = "connecting" /\ main' \in {"connecting", "closing"}
        /\ UNCHANGED <<cvars, promises, fvars, goal>>
    BY <1>4 DEF EstablishConnection, Abort
  <2> QED BY <2>1, ProvisioningUntouched
<1>5. CASE StoreRuntime
  <2>1. /\ UNCHANGED <<things, certFiles, keyFiles, runtimeFile>>
        /\ main' = "closing" \/ (main' = "disconnecting" /\ goal' = "serve")
    BY <1>5 DEF StoreRuntime, Abort
  <2> QED BY <2>1, ProvisioningUntouched
<1>6. CASE Reconfigure BY <1>6, ProvisioningUntouched DEF Reconfigure
<1>7. CASE Reconfigured BY <1>7, ProvisioningUntouched DEF Reconfigured
<1>8. CASE Disconnect BY <1>8, ProvisioningUntouched DEF Disconnect, IndInv, GoalInv
<1>9. CASE Disconnected
  <2>1. /\ main = "disconnecting" /\ main' = "connecting" /\ UNCHANGED <<cvars, promises, fvars, goal>>
    BY <1>9 DEF Disconnected
  <2>2. goal # "provision" BY <2>1 DEF IndInv, GoalInv
  <2> QED BY <2>1, <2>2, ProvisioningUntouched
<1> QED BY <1>1, <1>2, <1>3, <1>4, <1>5, <1>6, <1>7, <1>8, <1>9

\* The connection is up: provisioning begins, if that is what it was made for.
LEMMA ConnectedPreserves == ASSUME IndInv, Connected PROVE IndInv'
<1>1. /\ main = "connecting" /\ UNCHANGED <<cvars, promises, answer, service, files, runtimeFile, goal>>
      /\ \/ main' \in {"closing", "shadow", "adding"}
         \/ main' = "provision" /\ goal = "provision" /\ provisioning' = "begin"
  BY DEF Connected, Abort
<1>2. CASE main' # "provision" BY <1>1, <1>2, ProvisioningUntouched
<1>3. CASE main' = "provision"
  <2> USE DEF IndInv
  <2>1. goal = "provision" /\ provisioning' = "begin" BY <1>1, <1>3
  <2>2. runtimeFile = << >> BY <1>1, <2>1 DEF GoalInv
  <2>3. FilesInv' /\ RuntimeConfigIsComplete' BY <1>1 DEF FilesInv, RuntimeConfigIsComplete
  <2>4. LoadInv' /\ GoalInv' BY <1>1, <1>3 DEF LoadInv, GoalInv
  <2>5. ProvisionInv' BY <1>1, <2>1, <2>2 DEF ProvisionInv, CreatingInv, RegisteringInv
  <2> QED BY <2>3, <2>4, <2>5
<1> QED BY <1>2, <1>3

\* The features, the connection and its resumption.
LEMMA ServingPreserves ==
  ASSUME IndInv,
         \/ AddFeatures \/ StartFeature \/ SampleShadowStarted \/ AllStarted \/ StopFeature \/ AllStopped
         \/ SignalReceived \/ SampleShadowAck
  PROVE  IndInv'
<1>1. CASE AddFeatures BY <1>1, ProvisioningUntouched DEF AddFeatures
<1>2. CASE StartFeature
  <2>1. /\ main = "starting" /\ main' \in {"starting", "startWaiting"} /\ UNCHANGED <<cvars, fvars>>
    BY <1>2 DEF StartFeature
  <2> QED BY <2>1, ProvisioningUntouched
<1>3. CASE SampleShadowStarted BY <1>3, ProvisioningUntouched DEF SampleShadowStarted
<1>4. CASE AllStarted BY <1>4, ProvisioningUntouched DEF AllStarted
<1>5. CASE StopFeature BY <1>5, ProvisioningUntouched DEF StopFeature
<1>6. CASE AllStopped BY <1>6, ProvisioningUntouched DEF AllStopped
<1>7. CASE SignalReceived
  <2>1. main' \in {"closing", "stopping"} /\ UNCHANGED <<cvars, fvars>> BY <1>7 DEF SignalReceived
  <2> QED BY <2>1, ProvisioningUntouched
<1>8. CASE SampleShadowAck BY <1>8, ProvisioningUntouched DEF SampleShadowAck
<1> QED BY <1>1, <1>2, <1>3, <1>4, <1>5, <1>6, <1>7, <1>8

\* Steps that leave main where it is and do not touch what it works on.
LEMMA EventLoopPreserves ==
  ASSUME IndInv,
         \/ ConnectionCompleted \/ DisconnectCompleted \/ Outage \/ HandleConnectionResumed
         \/ CopyActiveFeatures \/ NotifyFeatures \/ WorkerEnds \/ UNCHANGED vars
  PROVE  IndInv'
<1>1. UNCHANGED <<cvars, promises, fvars, main, goal>>
  BY DEF ConnectionCompleted, DisconnectCompleted, Outage, HandleConnectionResumed,
         CopyActiveFeatures, NotifyFeatures, WorkerEnds, vars
<1>2. main' = "disconnecting" => goal' # "provision" BY <1>1 DEF IndInv, GoalInv
<1> QED BY <1>1, <1>2, ProvisioningUntouched

\* What the service and the event loop do, in provisioning and for the configuration shadow.
LEMMA DeliveryPreserves == ASSUME IndInv, ServiceStep \/ Delivery PROVE IndInv'
<1>1. CASE ServiceStep BY <1>1, AnswersPreserve DEF ServiceStep
<1>2. CASE Delivery
  <2>1. CASE main = "provision" /\ ProvisioningByEventLoop /\ UNCHANGED <<config, svars>>
    BY <1>2, <2>1, AnswersPreserve DEF Delivery
  <2>2. CASE main \in {"shadow", "disconnecting"} /\ ShadowByEventLoop /\ UNCHANGED fvars
    <3>1. UNCHANGED <<main, goal>> BY <1>2 DEF Delivery
    <3>2. main' = "disconnecting" => goal' # "provision" BY <3>1 DEF IndInv, GoalInv
    <3> QED BY <2>2, <3>1, <3>2, ProvisioningUntouched
  <2> QED BY <1>2, <2>1, <2>2 DEF Delivery
<1> QED BY <1>1, <1>2

\* The first start: nothing is on disk.
LEMMA InitEstablishes == Init => IndInv
<1> SUFFICES ASSUME Init PROVE IndInv OBVIOUS
<1>1. /\ main = "load" /\ loading = "start" /\ config = Defaults
      /\ runtimeFile = << >> /\ certFiles = {} /\ keyFiles = {}
  BY DEF Init, LoadInit, ProvisioningInit
<1>2. LoadInv BY <1>1 DEF LoadInv, Defaults
<1>3. FilesInv /\ RuntimeConfigIsComplete BY <1>1 DEF FilesInv, RuntimeConfigIsComplete
<1>4. GoalInv /\ ProvisionInv BY <1>1 DEF GoalInv, ProvisionInv
<1> QED BY <1>2, <1>3, <1>4 DEF IndInv

\* Every step preserves the invariant, the end of the process at any point included.
THEOREM InductiveInvariant == Spec => []IndInv
<1>1. Init => IndInv BY InitEstablishes
<1>2. IndInv /\ [Next]_vars => IndInv'
  <2> SUFFICES ASSUME IndInv, [Next]_vars PROVE IndInv' OBVIOUS
  <2>1. CASE LoadConfig BY <2>1, LoadingPreserves
  <2>2. CASE Main /\ ~LoadConfig /\ ~Exit
    BY <2>2, StartPreserves, ConnectedPreserves, ProvisionPreserves, ServingPreserves DEF Main
  <2>3. CASE Exit \/ Killed \/ Dies BY <2>3, EndPreserves DEF Exit, Killed, Dies
  <2>4. CASE Restart BY <2>4, RestartPreserves
  <2>5. CASE (EventLoop /\ ~Dies) \/ WorkerEnds \/ Outage \/ HandleConnectionResumed
             \/ DisconnectCompleted \/ UNCHANGED vars
    BY <2>5, EventLoopPreserves DEF EventLoop
  <2>6. CASE SignalReceived \/ SampleShadowAck BY <2>6, ServingPreserves
  <2>7. CASE ServiceStep \/ Delivery BY <2>7, DeliveryPreserves
  <2> QED BY <2>1, <2>2, <2>3, <2>4, <2>5, <2>6, <2>7 DEF Next, Main, EventLoop
<1> QED BY <1>1, <1>2, PTL DEF Spec

-----------------------------------------------------------------------------
\* A runtime configuration on disk names stored files and a registered thing whenever the process dies
\* (FleetProvisioning::ExportRuntimeConfig, Config::ParseConfigFile).
THEOREM RuntimeConfigIsWhole == Spec => []RuntimeConfigIsComplete
<1>1. IndInv => RuntimeConfigIsComplete BY DEF IndInv
<1> QED BY <1>1, InductiveInvariant, PTL

\* A device that has a runtime configuration is never given another certificate (main.cpp,
\* FleetProvisioning::ProvisionDevice).
THEOREM NeverProvisionedAgain == Spec => ProvisionsOnce
<1>1. IndInv /\ [Next]_vars => (created' # created => runtimeFile = << >>)
  <2> SUFFICES ASSUME IndInv, [Next]_vars, created' # created PROVE runtimeFile = << >> OBVIOUS
  <2>1. ServiceStep
    <3>1. ~UNCHANGED created OBVIOUS
    <3>2. ~(Main \/ EventLoop \/ WorkerEnds)
      <4>1. ~(LoadConfig \/ BeginInit \/ TakeLock \/ Initialize \/ EstablishConnection \/ Connected)
        BY <3>1 DEF LoadConfig, BeginInit, TakeLock, Initialize, EstablishConnection, Connected
      <4>2. ~Provision
        BY <3>1 DEF Provision, ProvisioningByMain, ProvisionDevice, CreateSubscribed, RegisterSubscribed,
                    Subscribed, Created, Registered, WaitTimesOut, OpenRuntimeConfig, WriteRuntimeConfig
      <4>3. ~(StoreRuntime \/ Reconfigure \/ Reconfigured \/ Disconnect \/ Disconnected)
        BY <3>1 DEF StoreRuntime, Reconfigure, Reconfigured, Disconnect, Disconnected
      <4>4. ~(AddFeatures \/ StartFeature \/ SampleShadowStarted \/ AllStarted \/ StopFeature \/ AllStopped)
        BY <3>1 DEF AddFeatures, StartFeature, SampleShadowStarted, AllStarted, StopFeature, AllStopped
      <4>5. ~(Exit \/ Dies) BY <3>1 DEF Exit, Dies, Ends
      <4>6. ~(ConnectionCompleted \/ CopyActiveFeatures \/ NotifyFeatures \/ WorkerEnds)
        BY <3>1 DEF ConnectionCompleted, CopyActiveFeatures, NotifyFeatures, WorkerEnds
      <4> QED BY <4>1, <4>2, <4>3, <4>4, <4>5, <4>6 DEF Main, EventLoop
    <3>3. ~(Killed \/ Restart \/ SignalReceived \/ Outage \/ HandleConnectionResumed)
      BY <3>1 DEF Killed, Ends, Restart, SignalReceived, Outage, HandleConnectionResumed
    <3>4. ~(SampleShadowAck \/ DisconnectCompleted \/ UNCHANGED vars)
      BY <3>1 DEF SampleShadowAck, DisconnectCompleted, vars
    <3>5. ~Delivery
      BY <3>1 DEF Delivery, ProvisioningByEventLoop, SubscriptionAck, PublishAck, AcceptedDelivered,
                  RejectedDelivered, AnswerDeliveredTwice
    <3> QED BY <3>2, <3>3, <3>4, <3>5 DEF Next
  <2>2. main = "provision" /\ provisioning = "creating" BY <2>1 DEF ServiceStep, ServiceAnswers
  <2> QED BY <2>2 DEF IndInv, ProvisionInv
<1> QED BY <1>1, InductiveInvariant, PTL DEF Spec, ProvisionsOnce

-----------------------------------------------------------------------------
(* What validation and the sections that are replaced after it make of a   *)
(* configuration.                                                          *)

\* The sections as declared, of which the proofs need these fields.
LEMMA DeclaredSections ==
  /\ NoRuntime.completed = "false"
  /\ Defaults.sensors = NoSensors /\ Defaults.identity = NoIdentity
  /\ NoSensors = [enabled |-> NoSensors.enabled, settings |-> NoSensors.settings]
  /\ NoSensors.settings = << >>
<1>1. NoRuntime.completed = "false" BY DEF NoRuntime
<1>2. Defaults.sensors = NoSensors /\ Defaults.identity = NoIdentity BY DEF Defaults
<1>3. NoSensors.settings = << >> BY DEF NoSensors
<1>4. NoSensors = [enabled |-> NoSensors.enabled, settings |-> NoSensors.settings] BY DEF NoSensors
<1> QED BY <1>1, <1>2, <1>3, <1>4

\* Disabling what is not valid leaves what stays enabled as it is.
LEMMA KeptTwice ==
  ASSUME NEW settings \in SensorSettings
  PROVE  KeptSensors(KeptSensors(settings)) = KeptSensors(settings)
<1> DEFINE kept == KeptSensors(settings)
<1>1. Len(settings) \in Nat BY DEF SensorSettings
<1>2. \A i \in 1 .. Len(settings) : settings[i] \in [enabled : Flag, kind : {"valid", "invalid"}]
  BY ElementOfSeq DEF SensorSettings
<1>3. CASE Len(settings) > MaxSensorSize
  <2>1. kept = [i \in 1 .. Len(settings) |-> [settings[i] EXCEPT !.enabled = "false"]]
    BY <1>3 DEF KeptSensors
  <2> HIDE DEF kept
  <2>2. Len(kept) = Len(settings) BY <1>1, <2>1
  <2>3. KeptSensors(kept) = [i \in 1 .. Len(settings) |-> [kept[i] EXCEPT !.enabled = "false"]]
    BY <1>3, <2>2 DEF KeptSensors
  <2>4. \A i \in 1 .. Len(settings) : [kept[i] EXCEPT !.enabled = "false"] = kept[i]
    BY <1>2, <2>1
  <2> QED BY <2>1, <2>3, <2>4 DEF kept
<1>4. CASE ~(Len(settings) > MaxSensorSize)
  <2>1. kept = [i \in 1 .. Len(settings) |->
                  IF settings[i].kind = "valid" THEN settings[i] ELSE [settings[i] EXCEPT !.enabled = "false"]]
    BY <1>4 DEF KeptSensors
  <2> HIDE DEF kept
  <2>2. Len(kept) = Len(settings) BY <1>1, <2>1
  <2>3. KeptSensors(kept) =
          [i \in 1 .. Len(settings) |->
             IF kept[i].kind = "valid" THEN kept[i] ELSE [kept[i] EXCEPT !.enabled = "false"]]
    BY <1>4, <2>2 DEF KeptSensors
  <2>4. \A i \in 1 .. Len(settings) :
           (IF kept[i].kind = "valid" THEN kept[i] ELSE [kept[i] EXCEPT !.enabled = "false"]) = kept[i]
    BY <1>2, <2>1
  <2> QED BY <2>1, <2>3, <2>4 DEF kept
<1> QED BY <1>3, <1>4

\* Validation accepts the sensors that validation kept.
LEMMA KeptIsValid ==
  ASSUME NEW s, s = [enabled |-> s.enabled, settings |-> s.settings], s.settings \in SensorSettings,
         ValidSensors(s)
  PROVE  ValidSensors([s EXCEPT !.settings = KeptSensors(@)])
<1> DEFINE kept == KeptSensors(s.settings)
<1>1. s.settings \in SensorSettings OBVIOUS
<1>2. KeptSensors(kept) = kept BY <1>1, KeptTwice
<1>3. DOMAIN kept = 1 .. Len(s.settings) /\ Len(s.settings) \in Nat BY <1>1 DEF KeptSensors, SensorSettings
<1> HIDE DEF kept
<1>4. CASE s.settings = << >>
  <2>1. kept = << >> BY <1>3, <1>4 DEF kept, KeptSensors, MaxSensorSize
  <2> QED BY <2>1 DEF ValidSensors, kept
<1>5. CASE \E i \in 1 .. Len(s.settings) : kept[i].enabled = "true"
  <2>1. Len(kept) = Len(s.settings) BY <1>3 DEF kept, KeptSensors
  <2> QED BY <1>2, <1>5, <2>1 DEF ValidSensors, kept
<1> QED BY <1>4, <1>5 DEF ValidSensors, kept

\* resetClientConfigWithJSON leaves a valid configuration valid, whatever the cloud desires.
LEMMA ResetKeepsValid ==
  ASSUME NEW c, DOMAIN c = DOMAIN Defaults, Validate(c), NEW desired, NEW delta
  PROVE  DOMAIN ResetConfig(c, desired, delta) = DOMAIN c /\ Validate(ResetConfig(c, desired, delta))
<1> DEFINE r == ResetConfig(c, desired, delta)
<1>1. /\ DOMAIN r = DOMAIN c
      /\ r.mqtt = c.mqtt /\ r.identity = c.identity /\ r.provisioning = c.provisioning
      /\ r.secureElement = c.secureElement /\ r.sensors = c.sensors
  BY DEF ResetConfig, Defaults
<1>2. ValidTunneling(c.tunneling) => ValidTunneling(r.tunneling) BY DEF ResetConfig, Replaced, Defaults
<1>3. ValidDefender(c.defender) => ValidDefender(r.defender) BY DEF ResetConfig, Replaced, Defaults
<1>4. ValidPubSub(c.pubSub) => ValidPubSub(r.pubSub) BY DEF ResetConfig, Replaced, Defaults
<1>5. ValidSampleShadow(c.sampleShadow) => ValidSampleShadow(r.sampleShadow)
  BY DEF ResetConfig, Replaced, Defaults
<1> HIDE DEF r
<1>6. Validate(r) BY <1>1, <1>2, <1>3, <1>4, <1>5 DEF Validate, ValidIdentity
<1> QED BY <1>1, <1>6 DEF r

\* Storing a complete runtime configuration over the identity leaves a valid configuration valid.
LEMMA StoredIsValid ==
  ASSUME NEW c, DOMAIN c = DOMAIN Defaults, DOMAIN NoIdentity \subseteq DOMAIN c.identity, Validate(c),
         NEW file,
         {"cert", "key"} \subseteq DOMAIN file,
         file.cert # "gone", file.key # "gone",
         ValidRuntime(LoadFromJson(c, [runtime |-> file]).runtime)
  PROVE  LET stored == StoreRuntimeConfig(LoadFromJson(c, [runtime |-> file]))
         IN  /\ DOMAIN stored = DOMAIN c /\ DOMAIN stored.identity = DOMAIN c.identity
             /\ Validate(stored)
<1> DEFINE l == LoadFromJson(c, [runtime |-> file])
           s == StoreRuntimeConfig(l)
<1>1. /\ DOMAIN l = DOMAIN c /\ l.runtime = RuntimeFromJson(file)
      /\ l.identity = c.identity /\ l.tunneling = c.tunneling /\ l.defender = c.defender
      /\ l.provisioning = c.provisioning /\ l.pubSub = c.pubSub
      /\ l.sampleShadow = c.sampleShadow /\ l.secureElement = c.secureElement /\ l.sensors = c.sensors
      /\ l.mqtt = c.mqtt
  BY DEF LoadFromJson, Defaults
<1>2. ValidRuntime(l.runtime) OBVIOUS
<1>3. l.runtime.cert \notin {"", "gone"} /\ l.runtime.key \notin {"", "gone"} /\ l.runtime.thingName # ""
  <2>1. CASE Is(file, "completed", "true")
    <3>1. l.runtime = file @@ NoRuntime BY <1>1, <2>1 DEF RuntimeFromJson
    <3>2. l.runtime.cert = file.cert /\ l.runtime.key = file.key BY <3>1 DEF @@
    <3> HIDE DEF l
    <3> QED BY <1>2, <3>2 DEF ValidRuntime
  <2>2. CASE ~Is(file, "completed", "true")
    <3>1. l.runtime = NoRuntime BY <1>1, <2>2 DEF RuntimeFromJson
    <3> HIDE DEF l
    <3>2. l.runtime.completed = "false" BY <3>1, DeclaredSections
    <3> QED BY <1>2, <3>2 DEF ValidRuntime
  <2> QED BY <2>1, <2>2
<1> HIDE DEF l
<1>4. s = [l EXCEPT !.identity.cert = l.runtime.cert, !.identity.key = l.runtime.key,
                    !.identity.thingName = l.runtime.thingName]
  BY <1>2 DEF StoreRuntimeConfig
<1> HIDE DEF s
<1>5. /\ DOMAIN s = DOMAIN c
      /\ s.tunneling = c.tunneling /\ s.defender = c.defender
      /\ s.provisioning = c.provisioning /\ s.pubSub = c.pubSub
      /\ s.sampleShadow = c.sampleShadow /\ s.secureElement = c.secureElement /\ s.sensors = c.sensors
      /\ s.mqtt = c.mqtt
  BY <1>1, <1>4 DEF Defaults
<1>6. s.identity = [c.identity EXCEPT !.cert = l.runtime.cert, !.key = l.runtime.key,
                                      !.thingName = l.runtime.thingName]
  BY <1>1, <1>4 DEF Defaults
<1>7. ValidIdentity(c) => ValidIdentity(s)
  <2>1. {"rootCa", "endpoint", "cert", "key", "thingName"} \subseteq DOMAIN c.identity BY DEF NoIdentity
  <2>2. /\ s.identity.cert = l.runtime.cert /\ s.identity.key = l.runtime.key
        /\ s.identity.thingName = l.runtime.thingName
        /\ s.identity.rootCa = c.identity.rootCa /\ s.identity.endpoint = c.identity.endpoint
    BY <1>6, <2>1
  <2> QED BY <1>3, <1>5, <2>2 DEF ValidIdentity
<1>8. Validate(s) BY <1>5, <1>7 DEF Validate
<1>9. DOMAIN s.identity = DOMAIN c.identity BY <1>6
<1> QED BY <1>5, <1>8, <1>9 DEF s, l

-----------------------------------------------------------------------------
\* A step that neither changes the configuration nor accepts one.
LEMMA ConfigUntouched ==
  ASSUME IndInv, ConfigInv, UNCHANGED config,
         runtimeFile' = runtimeFile \/ runtimeFile' = << >> \/ runtimeFile' = RuntimeConfig,
         main' \in {"load", "ended"} => main' = main,
         Configured' => Configured
  PROVE  ConfigInv'
<1> USE DEF ConfigInv
<1>1. Configured' => Validate(config') BY DEF Validate, ValidIdentity
<1>2. runtimeFile' # << >> => {"cert", "key"} \subseteq DOMAIN runtimeFile' BY DEF RuntimeConfig
<1>3. main' \in {"load", "ended"} => main \in {"load", "ended"} OBVIOUS
<1> QED BY <1>1, <1>2, <1>3

\* The next start begins with the sections as declared.
LEMMA EndKeepsConfig == ASSUME ConfigInv, Ends PROVE ConfigInv'
<1> USE DEF ConfigInv, Ends
<1>1. config' = Defaults OBVIOUS
<1>2. config'.sensors = NoSensors /\ config'.identity = NoIdentity BY <1>1, DeclaredSections
<1>3. /\ config'.sensors = [enabled |-> config'.sensors.enabled, settings |-> config'.sensors.settings]
      /\ config'.sensors.settings \in SensorSettings
  <2>1. << >> \in SensorSettings BY EmptySeq DEF SensorSettings
  <2> QED BY <1>2, <2>1, DeclaredSections
<1>4. ~Configured' BY DEF Configured
<1>5. DOMAIN config' = DOMAIN Defaults /\ DOMAIN NoIdentity \subseteq DOMAIN config'.identity BY <1>1, <1>2
<1>6. runtimeFile' # << >> => {"cert", "key"} \subseteq DOMAIN runtimeFile' OBVIOUS
<1> QED BY <1>3, <1>4, <1>5, <1>6

\* What the steps of Config::init make of the configuration.
Loaded(c) ==
  /\ DOMAIN c = DOMAIN Defaults
  /\ DOMAIN NoIdentity \subseteq DOMAIN c.identity
  /\ c.sensors = [enabled |-> c.sensors.enabled, settings |-> c.sensors.settings]
  /\ c.sensors.settings \in SensorSettings

\* The sensors of a configuration file are a list of settings.
LEMMA DocumentSensors ==
  ASSUME NEW doc \in Documents, "sensors" \in DOMAIN doc
  PROVE  doc.sensors \in SensorSettings
<1>1. DOMAIN FileChoices = {"provisioning", "identity", "log", "jobs", "tunneling", "defender", "pubSub",
                            "sampleShadow", "configShadow", "secureElement"}
  BY DEF FileChoices, InFile, @@
<1>2. CASE \E given : DOMAIN given = focus \cap DOMAIN FileChoices /\ doc = Only(Plain, DOMAIN Plain \ focus) @@ given
  <2>1. PICK given : /\ DOMAIN given = focus \cap DOMAIN FileChoices
                     /\ doc = Only(Plain, DOMAIN Plain \ focus) @@ given
    BY <1>2
  <2>2. DOMAIN doc = DOMAIN Only(Plain, DOMAIN Plain \ focus) \cup DOMAIN given BY <2>1 DEF @@
  <2>3. DOMAIN Only(Plain, DOMAIN Plain \ focus) \subseteq {"identity", "jobs", "tunneling"}
    BY DEF Only, Plain
  <2> QED BY <1>1, <2>1, <2>2, <2>3
<1>3. CASE \E n \in 1 .. MaxSensorSize + 1 : \E s \in [1 .. n -> Sensors] : doc = Plain @@ [sensors |-> s]
  <2>0. PICK n \in 1 .. MaxSensorSize + 1 : \E s \in [1 .. n -> Sensors] : doc = Plain @@ [sensors |-> s]
    BY <1>3
  <2>1. PICK s \in [1 .. n -> Sensors] : doc = Plain @@ [sensors |-> s] BY <2>0
  <2>2. doc.sensors = s BY <2>1 DEF Plain, @@
  <2>3. Sensors \subseteq [enabled : Flag, kind : {"valid", "invalid"}] BY DEF Sensors, Flag
  <2>4. n \in Nat BY DEF MaxSensorSize
  <2>5. s \in [1 .. n -> [enabled : Flag, kind : {"valid", "invalid"}]] BY <2>3
  <2>6. s \in Seq([enabled : Flag, kind : {"valid", "invalid"}])
    <3> DEFINE S == [enabled : Flag, kind : {"valid", "invalid"}]
    <3>1. s \in [1 .. n -> S] BY <2>5
    <3> HIDE DEF S
    <3>2. s \in Seq(S) BY <2>4, <3>1, IsASeq
    <3> QED BY <3>2 DEF S
  <2> QED BY <2>2, <2>6 DEF SensorSettings
<1> QED BY <1>2, <1>3 DEF Documents

\* PlainConfig::LoadFromJson keeps the sections and what is in them.
LEMMA JsonKeepsLoaded ==
  ASSUME NEW c, Loaded(c), NEW doc, "sensors" \in DOMAIN doc => doc.sensors \in SensorSettings
  PROVE  Loaded(LoadFromJson(c, doc))
<1> DEFINE l == LoadFromJson(c, doc)
<1>1. /\ DOMAIN l = DOMAIN Defaults
      /\ l.identity = c.identity \/ l.identity = IdentityFromJson(c.identity, doc.identity)
      /\ \/ l.sensors = c.sensors
         \/ "sensors" \in DOMAIN doc /\ l.sensors = SensorsFromJson(doc.sensors)
  <2>1. DOMAIN l = DOMAIN c BY DEF LoadFromJson
  <2>2. {"identity", "sensors"} \subseteq DOMAIN c BY DEF Loaded, Defaults
  <2>3. l.identity = IF "identity" \in DOMAIN doc THEN IdentityFromJson(c.identity, doc.identity) ELSE c.identity
    BY <2>2 DEF LoadFromJson
  <2>4. l.sensors = IF "sensors" \in DOMAIN doc THEN SensorsFromJson(doc["sensors"]) ELSE c.sensors
    BY <2>2 DEF LoadFromJson
  <2> HIDE DEF l
  <2> QED BY <2>1, <2>3, <2>4 DEF Loaded
<1> HIDE DEF l
<1>2. DOMAIN NoIdentity \subseteq DOMAIN l.identity
  BY <1>1 DEF Loaded, IdentityFromJson, Only, @@
<1>3. /\ l.sensors = [enabled |-> l.sensors.enabled, settings |-> l.sensors.settings]
      /\ l.sensors.settings \in SensorSettings
  BY <1>1 DEF Loaded, SensorsFromJson
<1> QED BY <1>1, <1>2, <1>3 DEF Loaded, l

\* LoadFromCliArgs keeps the sections and what is in them.
LEMMA CliKeepsLoaded ==
  ASSUME NEW c, Loaded(c), NEW name, NEW given, NEW made
  PROVE  Loaded(LoadFromCliArgs(c, name, given, made))
<1> DEFINE l == LoadFromCliArgs(c, name, given, made)
<1>1. /\ DOMAIN l = DOMAIN Defaults
      /\ \/ l.identity = c.identity
         \/ l.identity = given @@ c.identity
         \/ l.identity = Only(given, DOMAIN given \ {"rootCa"}) @@ c.identity
      /\ l.sensors = c.sensors
  BY DEF LoadFromCliArgs, Loaded, Defaults
<1> HIDE DEF l
<1>2. DOMAIN NoIdentity \subseteq DOMAIN l.identity BY <1>1 DEF Loaded, Only, @@
<1> QED BY <1>1, <1>2 DEF Loaded, l

\* ValidateAndStoreRuntimeConfig keeps the sections and what is in them.
LEMMA StoringKeepsLoaded == ASSUME NEW c, Loaded(c) PROVE Loaded(StoreRuntimeConfig(c))
<1> DEFINE s == StoreRuntimeConfig(c)
<1>1. DOMAIN s = DOMAIN c /\ s.sensors = c.sensors /\ DOMAIN s.identity = DOMAIN c.identity
  BY DEF StoreRuntimeConfig, Loaded, Defaults
<1> HIDE DEF s
<1> QED BY <1>1 DEF Loaded, s

\* What validation leaves of the sensors' settings is a list of settings.
LEMMA KeptIsTyped ==
  ASSUME NEW settings \in SensorSettings
  PROVE  KeptSensors(settings) \in SensorSettings
<1> DEFINE Setting == [enabled : Flag, kind : {"valid", "invalid"}]
<1>1. Len(settings) \in Nat BY DEF SensorSettings
<1>2. \A i \in 1 .. Len(settings) : settings[i] \in Setting
  BY ElementOfSeq DEF SensorSettings
<1>3. \A i \in 1 .. Len(settings) : [settings[i] EXCEPT !.enabled = "false"] \in Setting
  BY <1>2 DEF Flag
<1> HIDE DEF Setting
<1>4. KeptSensors(settings) \in [1 .. Len(settings) -> Setting] BY <1>2, <1>3 DEF KeptSensors
<1> QED BY <1>1, <1>4 DEF SensorSettings, Setting

\* Config::init accepts only what Validate() accepts, after it disabled sensors too.
LEMMA LoadingKeepsConfig == ASSUME IndInv, ConfigInv, LoadConfig PROVE ConfigInv'
<1>1. /\ main = "load" /\ UNCHANGED <<main, runtimeFile>>
      /\ LoadNext(runtimeFile)
  BY DEF LoadConfig
<1>2. Loaded(config) BY <1>1 DEF ConfigInv, Loaded
<1>3. Loaded(config') /\ (loading' = "accepted" => Validate(config'))
  <2>1. CASE ParseCliArgs \/ RefuseCliArgs
    BY <1>2, <2>1 DEF ParseCliArgs, RefuseCliArgs
  <2>2. CASE ParseConfigFile
    <3>1. loading' = "cli" BY <2>2 DEF ParseConfigFile
    <3>2. config' = config \/ \E doc \in Documents : config' = LoadFromJson(config, doc)
      BY <2>2 DEF ParseConfigFile
    <3> QED BY <1>2, <3>1, <3>2, DocumentSensors, JsonKeepsLoaded
  <2>3. CASE LoadCliArgs
    <3>1. loading' \in {"refused", "environment"} BY <2>3 DEF LoadCliArgs
    <3>2. config' = config \/ \E name, given, made : config' = LoadFromCliArgs(config, name, given, made)
      BY <2>3 DEF LoadCliArgs
    <3> QED BY <1>2, <3>1, <3>2, CliKeepsLoaded
  <2>4. CASE LoadFromEnvironment
    <3>1. loading' = "runtime" BY <2>4 DEF LoadFromEnvironment
    <3>2. \E t : config' = [config EXCEPT !.tunneling.token = t] BY <2>4 DEF LoadFromEnvironment
    <3> QED BY <1>2, <3>1, <3>2 DEF Loaded, Defaults
  <2>5. CASE ParseRuntimeConfig(runtimeFile)
    <3>1. loading' = "proxy" BY <2>5 DEF ParseRuntimeConfig
    <3>2. \/ config' = config
          \/ config' = StoreRuntimeConfig(LoadFromJson(config, [runtime |-> runtimeFile]))
      BY <2>5 DEF ParseRuntimeConfig
    <3>3. "sensors" \notin DOMAIN [runtime |-> runtimeFile] OBVIOUS
    <3> QED BY <1>2, <3>1, <3>2, <3>3, JsonKeepsLoaded, StoringKeepsLoaded
  <2>6. CASE ParseProxyConfig
    <3>1. loading' \in {"validate", "refused"} BY <2>6 DEF ParseProxyConfig
    <3>2. config' = config \/ \E proxy : config' = [config EXCEPT !.proxy = proxy]
      BY <2>6 DEF ParseProxyConfig
    <3> QED BY <1>2, <3>1, <3>2 DEF Loaded, Defaults
  <2>7. CASE ValidateConfig
    <3>1. /\ config' = [config EXCEPT !.sensors.settings = KeptSensors(@)]
          /\ loading' = "accepted" => Validate(config)
      BY <2>7 DEF ValidateConfig
    <3>2. /\ DOMAIN config' = DOMAIN config /\ config'.identity = config.identity
          /\ config'.sensors = [config.sensors EXCEPT !.settings = KeptSensors(@)]
          /\ config'.mqtt = config.mqtt /\ config'.secureElement = config.secureElement
          /\ config'.defender = config.defender /\ config'.tunneling = config.tunneling
          /\ config'.provisioning = config.provisioning /\ config'.pubSub = config.pubSub
          /\ config'.sampleShadow = config.sampleShadow
      BY <1>2, <3>1 DEF Loaded, Defaults
    <3>3. ValidSensors(config.sensors) => ValidSensors(config'.sensors)
      BY <1>2, <3>2, KeptIsValid DEF Loaded
    <3>4. Loaded(config') BY <1>2, <3>2, KeptIsTyped DEF Loaded
    <3>5. loading' = "accepted" => Validate(config')
      BY <3>1, <3>2, <3>3 DEF Validate, ValidIdentity
    <3> QED BY <3>4, <3>5
  <2> QED BY <1>1, <2>1, <2>2, <2>3, <2>4, <2>5, <2>6, <2>7 DEF LoadNext
<1>4. runtimeFile # << >> => {"cert", "key"} \subseteq DOMAIN runtimeFile BY DEF ConfigInv
<1>5. Configured' => loading' = "accepted" BY <1>1 DEF Configured
<1> QED BY <1>1, <1>3, <1>4, <1>5 DEF ConfigInv, Loaded

\* What provisioning stores is complete and names files: the configuration stays valid.
LEMMA StoringKeepsConfig == ASSUME IndInv, ConfigInv, StoreRuntime PROVE ConfigInv'
<1>1. /\ main = "provision" /\ UNCHANGED <<runtimeFile, certFiles, keyFiles, loading>>
      /\ \/ /\ main' = "disconnecting" /\ runtimeFile # << >>
            /\ ValidRuntime(LoadFromJson(config, [runtime |-> runtimeFile]).runtime)
            /\ config' = StoreRuntimeConfig(LoadFromJson(config, [runtime |-> runtimeFile]))
         \/ main' = "closing" /\ UNCHANGED config
  BY DEF StoreRuntime, Abort
<1>2. CASE main' = "closing"
  <2>1. ~Configured' /\ runtimeFile' = runtimeFile /\ config' = config BY <1>1, <1>2 DEF Configured
  <2> QED BY <1>2, <2>1, ConfigUntouched
<1>3. CASE main' # "closing"
  <2>1. Validate(config) BY <1>1 DEF ConfigInv, Configured
  <2>2. /\ {"cert", "key"} \subseteq DOMAIN runtimeFile
        /\ runtimeFile.cert # "gone" /\ runtimeFile.key # "gone"
    BY <1>1, <1>3, ProvisioningConstants
    DEF ConfigInv, IndInv, FilesInv, RuntimeConfigIsComplete, ProvisioningConstants
  <2>3. DOMAIN config' = DOMAIN Defaults /\ Validate(config')
    BY <1>1, <1>3, <2>1, <2>2, StoredIsValid DEF ConfigInv
  <2>4. DOMAIN NoIdentity \subseteq DOMAIN config'.identity
    BY <1>1, <1>3, <2>1, <2>2, StoredIsValid DEF ConfigInv
  <2> QED BY <1>1, <1>3, <2>2, <2>3, <2>4 DEF ConfigInv
<1> QED BY <1>2, <1>3

\* reconfigureWithConfigShadow leaves the configuration valid at each of its steps.
LEMMA ReconfigureKeepsConfig == ASSUME IndInv, ConfigInv, Reconfigure PROVE ConfigInv'
<1>1. /\ main = "shadow" /\ UNCHANGED <<runtimeFile, main>>
      /\ config' = config \/ \E desired : config' = ResetConfig(config, desired, desired)
  BY DEF Reconfigure, ShadowByMain, SubscribeToGet, SubscribeToUpdate, Fetch, Fetched, AfterSuccess,
         AnswerReceived, ResetClientConfig, Updated, ShadowTimesOut
<1>2. CASE config' = config BY <1>1, <1>2, ConfigUntouched DEF Configured
<1>3. CASE \E desired : config' = ResetConfig(config, desired, desired)
  <2>1. Validate(config) BY <1>1 DEF ConfigInv, Configured
  <2>2. DOMAIN config' = DOMAIN config /\ Validate(config') BY <1>3, <2>1, ResetKeepsValid DEF ConfigInv
  <2>3. config'.identity = config.identity BY <1>3 DEF ResetConfig, ConfigInv, Defaults
  <2> QED BY <1>1, <2>2, <2>3 DEF ConfigInv
<1> QED BY <1>1, <1>2, <1>3

\* The steps that leave the configuration alone.
LEMMA RestKeepsConfig ==
  ASSUME IndInv, ConfigInv, [Next]_vars,
         ~LoadConfig, ~StoreRuntime, ~Reconfigure, ~Exit, ~Killed, ~Dies
  PROVE  ConfigInv'
<1>1. CASE BeginInit \/ TakeLock \/ Initialize \/ EstablishConnection \/ Connected
  BY <1>1, ConfigUntouched
  DEF BeginInit, TakeLock, Initialize, EstablishConnection, Connected, Abort, Configured
<1>2. CASE Provision
  <2>1. UNCHANGED <<config, main, loading>> BY <1>2 DEF Provision
  <2>2. runtimeFile' = runtimeFile \/ runtimeFile' = << >> \/ runtimeFile' = RuntimeConfig
    BY <1>2 DEF Provision, ProvisioningByMain, ProvisionDevice, CreateSubscribed, RegisterSubscribed,
                Subscribed, Created, Registered, WaitTimesOut, OpenRuntimeConfig, WriteRuntimeConfig
  <2> QED BY <2>1, <2>2, ConfigUntouched DEF Configured
<1>3. CASE Reconfigured \/ Disconnect \/ Disconnected \/ AddFeatures \/ StartFeature
  BY <1>3, ConfigUntouched
  DEF Reconfigured, Disconnect, Disconnected, AddFeatures, StartFeature, Configured
<1>4. CASE SampleShadowStarted \/ AllStarted \/ StopFeature \/ AllStopped \/ SignalReceived
  BY <1>4, ConfigUntouched
  DEF SampleShadowStarted, AllStarted, StopFeature, AllStopped, SignalReceived, Configured
<1>5. CASE Restart
  <2>1. ~Configured' BY <1>5 DEF Restart, Configured, IndInv, LoadInv
  <2> QED BY <1>5, <2>1 DEF Restart, ConfigInv
<1>6. CASE ConnectionCompleted \/ DisconnectCompleted \/ Outage \/ HandleConnectionResumed
           \/ CopyActiveFeatures \/ NotifyFeatures \/ WorkerEnds \/ UNCHANGED vars
  BY <1>6, ConfigUntouched
  DEF ConnectionCompleted, DisconnectCompleted, Outage, HandleConnectionResumed, CopyActiveFeatures,
      NotifyFeatures, WorkerEnds, vars, Configured
<1>7. CASE ServiceStep \/ SampleShadowAck
  BY <1>7, ConfigUntouched DEF ServiceStep, ServiceAnswers, SampleShadowAck, Configured
<1>8. CASE Delivery
  <2>1. UNCHANGED <<main, loading>> BY <1>8 DEF Delivery
  <2>2. UNCHANGED <<config, runtimeFile>>
    BY <1>8 DEF Delivery, ProvisioningByEventLoop, SubscriptionAck, PublishAck, AcceptedDelivered,
                RejectedDelivered, AnswerDeliveredTwice, ShadowByEventLoop, ShadowAck, GetAnswered,
                GetAnswerKills
  <2> QED BY <2>1, <2>2, ConfigUntouched DEF Configured
<1> QED BY <1>1, <1>2, <1>3, <1>4, <1>5, <1>6, <1>7, <1>8 DEF Next, Main, EventLoop

\* The second invariant holds throughout, given the first.
LEMMA ConfigStaysValid == Spec => []ConfigInv
<1>1. Init => ConfigInv
  <2> SUFFICES ASSUME Init PROVE ConfigInv OBVIOUS
  <2>1. main = "load" /\ loading = "start" /\ config = Defaults /\ runtimeFile = << >>
    BY DEF Init, LoadInit, ProvisioningInit
  <2>2. << >> \in SensorSettings BY EmptySeq DEF SensorSettings
  <2>3. ~Configured BY <2>1 DEF Configured
  <2> QED BY <2>1, <2>2, <2>3, DeclaredSections DEF ConfigInv
<1>2. IndInv /\ ConfigInv /\ [Next]_vars => ConfigInv'
  <2> SUFFICES ASSUME IndInv, ConfigInv, [Next]_vars PROVE ConfigInv' OBVIOUS
  <2>1. CASE LoadConfig BY <2>1, LoadingKeepsConfig
  <2>2. CASE StoreRuntime BY <2>2, StoringKeepsConfig
  <2>3. CASE Reconfigure BY <2>3, ReconfigureKeepsConfig
  <2>4. CASE Exit \/ Killed \/ Dies BY <2>4, EndKeepsConfig DEF Exit, Killed, Dies
  <2> QED BY <2>1, <2>2, <2>3, <2>4, RestKeepsConfig
<1> QED BY <1>1, <1>2, InductiveInvariant, PTL DEF Spec

\* The features are made with a configuration that Validate() accepts, also after provisioning stored a new
\* identity in it and the configuration shadow replaced sections of it (main.cpp,
\* ConfigShadow::resetClientConfigWithJSON).
THEOREM ConfigIsValidForFeatures == Spec => []FeaturesRunValidConfig
<1>1. ConfigInv => FeaturesRunValidConfig BY DEF ConfigInv, Configured, FeaturesRunValidConfig
<1> QED BY <1>1, ConfigStaysValid, PTL

-----------------------------------------------------------------------------
(* The identity. *)

\* What is given for the identity is of the claim, or names nothing.
ClaimGiven(given) ==
  /\ "cert" \in DOMAIN given => given.cert \in {"claim", "gone"}
  /\ "key" \in DOMAIN given => given.key = "claim"
  /\ "thingName" \in DOMAIN given => given.thingName = "thing"

ClaimSection(i) ==
  /\ DOMAIN NoIdentity \subseteq DOMAIN i
  /\ i.cert \in {"", "claim", "gone"} /\ i.key \in {"", "claim"} /\ i.thingName \in {"", "thing"}

\* Loading what is given over a section leaves it one of the claim.
LEMMA GivenOverSection ==
  ASSUME NEW given, ClaimGiven(given), NEW i, ClaimSection(i)
  PROVE  /\ ClaimSection(given @@ i)
         /\ ClaimSection(Only(given, DOMAIN given \ {"rootCa"}) @@ i)
<1>1. {"cert", "key", "thingName"} \subseteq DOMAIN i BY DEF ClaimSection, NoIdentity
<1>2. ASSUME NEW g, ClaimGiven(g) PROVE ClaimSection(g @@ i)
  <2>1. DOMAIN i \subseteq DOMAIN (g @@ i) BY DEF @@
  <2>2. /\ (g @@ i).cert = IF "cert" \in DOMAIN g THEN g.cert ELSE i.cert
        /\ (g @@ i).key = IF "key" \in DOMAIN g THEN g.key ELSE i.key
        /\ (g @@ i).thingName = IF "thingName" \in DOMAIN g THEN g.thingName ELSE i.thingName
    BY <1>1 DEF @@
  <2> QED BY <1>2, <2>1, <2>2 DEF ClaimSection, ClaimGiven
<1>3. ClaimGiven(Only(given, DOMAIN given \ {"rootCa"})) BY DEF ClaimGiven, Only
<1> QED BY <1>2, <1>3

\* What an operator may give for the identity, in the file and on the command line.
LEMMA ChosenIdentity ==
  /\ \A g \in FileChoices["identity"] : ClaimGiven(g)
  /\ \A g \in CliChoices["identity"] : ClaimGiven(g)
<1>1. ASSUME NEW fields, NEW g \in Choices(fields), NEW f \in DOMAIN g
      PROVE  g[f] \in fields[f] /\ f \in DOMAIN fields
  BY DEF Choices
<1>2. FileChoices["identity"] = Choices(InFile["identity"]) BY DEF FileChoices, InFile, @@
<1>3. CliChoices["identity"] = Choices(OnCommandLine["identity"]) 
  <2>1. "identity" \in DOMAIN OnCommandLine BY DEF OnCommandLine
  <2> QED BY <2>1 DEF CliChoices
<1>4. /\ InFile["identity"].cert = {"claim", "gone"} /\ InFile["identity"].key = {"claim"}
      /\ InFile["identity"].thingName = {"thing"}
  BY DEF InFile
<1>5. /\ OnCommandLine["identity"].cert = {"claim", "gone"} /\ OnCommandLine["identity"].key = {"claim"}
      /\ "thingName" \notin DOMAIN OnCommandLine["identity"]
  BY DEF OnCommandLine
<1> QED BY <1>1, <1>2, <1>3, <1>4, <1>5 DEF ClaimGiven

\* What a configuration file may say of the identity: it is Plain's unless it is in focus.
LEMMA DocumentIdentity ==
  ASSUME NEW doc \in Documents
  PROVE  /\ "identity" \in DOMAIN doc => ClaimGiven(doc.identity)
         /\ "identity" \in DOMAIN doc /\ "identity" \notin focus =>
               {"cert", "key"} \subseteq DOMAIN doc.identity /\ doc.identity.key = "claim"
         /\ "secureElement" \in DOMAIN doc => "secureElement" \in focus
<1>0. /\ Plain["identity"] = [endpoint |-> "endpoint", cert |-> "claim", key |-> "claim", thingName |-> "thing"]
      /\ DOMAIN Plain = {"identity", "jobs", "tunneling"}
  BY DEF Plain
<1>1. /\ ClaimGiven(Plain["identity"])
      /\ {"cert", "key"} \subseteq DOMAIN Plain["identity"] /\ Plain["identity"].key = "claim"
  BY <1>0 DEF ClaimGiven
<1>2. CASE \E given : /\ DOMAIN given = focus \cap DOMAIN FileChoices
                      /\ \A s \in DOMAIN given : given[s] \in FileChoices[s]
                      /\ doc = Only(Plain, DOMAIN Plain \ focus) @@ given
  <2>1. PICK given : /\ DOMAIN given = focus \cap DOMAIN FileChoices
                     /\ \A s \in DOMAIN given : given[s] \in FileChoices[s]
                     /\ doc = Only(Plain, DOMAIN Plain \ focus) @@ given
    BY <1>2
  <2>2. DOMAIN Only(Plain, DOMAIN Plain \ focus) = {"identity", "jobs", "tunneling"} \ focus
    BY <1>0 DEF Only
  <2>3. DOMAIN doc = ({"identity", "jobs", "tunneling"} \ focus) \cup DOMAIN given BY <2>1, <2>2 DEF @@
  <2>4. "secureElement" \in DOMAIN doc => "secureElement" \in focus BY <2>1, <2>3
  <2>5. CASE "identity" \in focus
    <3>1. "identity" \in DOMAIN doc => "identity" \in DOMAIN given BY <2>3, <2>5
    <3>2. "identity" \in DOMAIN doc => doc.identity = given["identity"] BY <2>1, <2>2, <2>5, <3>1 DEF @@
    <3> QED BY <2>1, <2>4, <2>5, <3>1, <3>2, ChosenIdentity
  <2>6. CASE "identity" \notin focus
    <3>1. doc.identity = Only(Plain, DOMAIN Plain \ focus)["identity"] BY <2>1, <2>2, <2>6 DEF @@
    <3>2. doc.identity = Plain["identity"] BY <1>0, <2>6, <3>1 DEF Only
    <3> QED BY <1>1, <2>4, <3>2
  <2> QED BY <2>5, <2>6
<1>3. CASE \E s : doc = Plain @@ [sensors |-> s]
  <2>1. PICK s : doc = Plain @@ [sensors |-> s] BY <1>3
  <2>2. DOMAIN doc = DOMAIN Plain \cup {"sensors"} BY <2>1 DEF @@
  <2>3. doc.identity = Plain["identity"] BY <1>0, <2>1 DEF @@
  <2> QED BY <1>0, <1>1, <2>2, <2>3
<1> QED BY <1>2, <1>3 DEF Documents

\* The identity through PlainConfig::LoadFromJson and LoadFromCliArgs.
LEMMA LoadingKeepsClaim ==
  ASSUME Loaded(config), OperatorGave, UNCHANGED focus,
         \/ \E doc \in Documents : config' = LoadFromJson(config, doc)
         \/ \E name \in (focus \cap DOMAIN OnCommandLine) \cup {"none"} :
               \E given \in IF name = "none" THEN {<< >>} ELSE CliChoices[name] :
                  \E made : config' = LoadFromCliArgs(config, name, given, made)
  PROVE  OperatorGave'
<1>0. {"identity", "secureElement"} \subseteq DOMAIN config BY DEF Loaded, Defaults
<1>1. ClaimSection(config.identity) BY DEF Loaded, OperatorGave, ClaimSection
<1>2. CASE \E doc \in Documents : config' = LoadFromJson(config, doc)
  <2>1. PICK doc \in Documents : config' = LoadFromJson(config, doc) BY <1>2
  <2>2. config'.identity = IF "identity" \in DOMAIN doc THEN IdentityFromJson(config.identity, doc.identity)
                                                       ELSE config.identity
    BY <1>0, <2>1 DEF LoadFromJson
  <2>3. config'.secureElement = IF "secureElement" \in DOMAIN doc THEN SecureElementFromJson(doc["secureElement"])
                                                                 ELSE config.secureElement
    BY <1>0, <2>1 DEF LoadFromJson
  <2>4. ClaimSection(config'.identity)
    BY <1>1, <2>2, DocumentIdentity, GivenOverSection DEF IdentityFromJson
  <2>5. "identity" \notin focus /\ config'.identity.cert = "claim" => config'.identity.key = "claim"
    <3>1. CASE "identity" \notin DOMAIN doc BY <2>2, <3>1 DEF OperatorGave
    <3>2. CASE "identity" \in DOMAIN doc /\ "identity" \notin focus
      <4>1. {"cert", "key"} \subseteq DOMAIN doc.identity /\ doc.identity.key = "claim"
        BY <3>2, DocumentIdentity
      <4>2. config'.identity.key = "claim" BY <2>2, <3>2, <4>1 DEF IdentityFromJson, Only, @@
      <4> QED BY <4>2
    <3> QED BY <3>1, <3>2
  <2>6. "enabled" \in DOMAIN config'.secureElement
    BY <2>3 DEF OperatorGave, SecureElementFromJson, WhenEnabled, NoSecureElement, @@
  <2>7. config'.secureElement.enabled = "true" => "secureElement" \in focus
    BY <2>3, DocumentIdentity DEF OperatorGave
  <2> QED BY <2>4, <2>5, <2>6, <2>7 DEF OperatorGave, ClaimSection
<1>3. CASE \E name \in (focus \cap DOMAIN OnCommandLine) \cup {"none"} :
             \E given \in IF name = "none" THEN {<< >>} ELSE CliChoices[name] :
                \E made : config' = LoadFromCliArgs(config, name, given, made)
  <2>1. PICK name \in (focus \cap DOMAIN OnCommandLine) \cup {"none"} :
               \E given \in IF name = "none" THEN {<< >>} ELSE CliChoices[name] :
                  \E made : config' = LoadFromCliArgs(config, name, given, made)
    BY <1>3
  <2>2a. PICK given \in (IF name = "none" THEN {<< >>} ELSE CliChoices[name]) :
                \E made : config' = LoadFromCliArgs(config, name, given, made)
    BY <2>1
  <2>2. PICK made : config' = LoadFromCliArgs(config, name, given, made) BY <2>2a
  <2>3. config'.identity =
          IF name # "identity" THEN config.identity
          ELSE IF Is(given, "rootCa", "gone") THEN Only(given, DOMAIN given \ {"rootCa"}) @@ config.identity
          ELSE given @@ config.identity
    BY <1>0, <2>2 DEF LoadFromCliArgs
  <2>4. config'.secureElement = (IF "secureElement" = name THEN given ELSE << >>) @@ config.secureElement
    BY <1>0, <2>2 DEF LoadFromCliArgs, SecureElementFromCli
  <2>5. ClaimSection(config'.identity)
    <3>1. CASE name # "identity" BY <1>1, <2>3, <3>1
    <3>2. CASE name = "identity"
      <4>1. ClaimGiven(given) BY <2>2a, <3>2, ChosenIdentity
      <4> QED BY <1>1, <2>3, <3>2, <4>1, GivenOverSection
    <3> QED BY <3>1, <3>2
  <2>6. "identity" \notin focus => config'.identity = config.identity BY <2>1, <2>3
  <2>7. "enabled" \in DOMAIN config'.secureElement BY <2>4 DEF OperatorGave, @@
  <2>8. config'.secureElement.enabled = "true" => "secureElement" \in focus
    <3>1. CASE name = "secureElement" BY <2>1, <3>1
    <3>2. CASE name # "secureElement"
      <4>0. config'.secureElement = << >> @@ config.secureElement /\ "enabled" \notin DOMAIN << >>
        BY <2>4, <3>2
      <4>1. config'.secureElement.enabled = config.secureElement.enabled
        BY <4>0 DEF OperatorGave, @@
      <4> QED BY <4>1 DEF OperatorGave
    <3> QED BY <3>1, <3>2
  <2> QED BY <2>5, <2>6, <2>7, <2>8 DEF OperatorGave, ClaimSection
<1> QED BY <1>2, <1>3

\* ValidateAndStoreRuntimeConfig takes the whole identity over, or nothing of it.
LEMMA StoredIdentity ==
  ASSUME NEW c, Loaded(c), NEW file, "completed" \in DOMAIN file, file.completed = "true",
         {"cert", "key", "thingName"} \subseteq DOMAIN file
  PROVE  LET loaded == LoadFromJson(c, [runtime |-> file])
             stored == StoreRuntimeConfig(loaded)
         IN  IF ValidRuntime(loaded.runtime)
             THEN /\ stored.identity.cert = file.cert /\ stored.identity.key = file.key
                  /\ stored.identity.thingName = file.thingName
             ELSE stored.identity = c.identity /\ stored.secureElement = c.secureElement
<1> DEFINE loaded == LoadFromJson(c, [runtime |-> file])
           stored == StoreRuntimeConfig(loaded)
<1>1. /\ {"identity", "runtime", "secureElement"} \subseteq DOMAIN c
      /\ {"cert", "key", "thingName"} \subseteq DOMAIN c.identity
  BY DEF Loaded, Defaults, NoIdentity
<1>2. loaded.runtime = file @@ NoRuntime BY <1>1 DEF LoadFromJson, RuntimeFromJson, Is
<1>3. /\ loaded.runtime.cert = file.cert /\ loaded.runtime.key = file.key
      /\ loaded.runtime.thingName = file.thingName
  BY <1>2 DEF @@
<1>4. loaded.identity = c.identity /\ loaded.secureElement = c.secureElement /\ DOMAIN loaded = DOMAIN c
  BY <1>1 DEF LoadFromJson
<1> HIDE DEF loaded
<1>5. CASE ValidRuntime(loaded.runtime)
  <2>1. /\ stored.identity.cert = loaded.runtime.cert /\ stored.identity.key = loaded.runtime.key
        /\ stored.identity.thingName = loaded.runtime.thingName
    BY <1>1, <1>4, <1>5 DEF StoreRuntimeConfig
  <2> QED BY <1>3, <1>5, <2>1 DEF loaded
<1>6. CASE ~ValidRuntime(loaded.runtime)
  <2>1. stored = loaded BY <1>6 DEF StoreRuntimeConfig
  <2> QED BY <1>4, <1>6, <2>1 DEF loaded
<1> QED BY <1>5, <1>6

\* A step that changes neither the configuration nor, but for provisioning, what is on disk.
LEMMA IdentityUntouched ==
  ASSUME IdentityInv, UNCHANGED <<config, focus>>,
         \/ runtimeFile' = runtimeFile
         \/ main = "provision" /\ main' = main /\ runtimeFile' \in {<< >>, RuntimeConfig},
         main' \in {"load", "ended"} => main' = main /\ UNCHANGED loading,
         main' = "provision" => main = "provision" \/ OfClaim(config.identity),
         main' \in {"init", "connecting", "shadow", "disconnecting", "adding", "starting", "startWaiting", "running"} =>
           main \in {"init", "connecting", "shadow", "disconnecting", "adding", "starting", "startWaiting", "running"}
  PROVE  IdentityInv'
<1> USE DEF IdentityInv
<1>1. runtimeFile' # << >> => {"cert", "key", "thingName"} \subseteq DOMAIN runtimeFile' BY DEF RuntimeConfig
<1>2. runtimeFile' = runtimeFile =>
        (OperatorGave' <=> OperatorGave) /\ (OfRuntime(config.identity)' <=> OfRuntime(config.identity))
  BY DEF OperatorGave, OfRuntime
<1>3. OfClaim(config.identity)' <=> OfClaim(config.identity) BY DEF OfClaim
<1> HIDE DEF IdentityInv
<1>4. CASE runtimeFile' = runtimeFile BY <1>1, <1>2, <1>3, <1>4 DEF IdentityInv
<1>5. CASE main = "provision" /\ main' = main BY <1>1, <1>3, <1>5 DEF IdentityInv
<1> QED BY <1>4, <1>5

\* The sections as declared name nothing.
LEMMA NothingIsGiven ==
  /\ NoIdentity.cert = "" /\ NoIdentity.key = "" /\ NoIdentity.thingName = ""
  /\ "enabled" \in DOMAIN NoSecureElement /\ NoSecureElement.enabled = "false"
<1>1. NoIdentity.cert = "" /\ NoIdentity.key = "" /\ NoIdentity.thingName = "" BY DEF NoIdentity
<1>2. "enabled" \in DOMAIN NoSecureElement BY DEF NoSecureElement
<1>3. NoSecureElement.enabled = "false" BY DEF NoSecureElement
<1> QED BY <1>1, <1>2, <1>3

\* The next start begins with the sections as declared.
LEMMA EndKeepsIdentity == ASSUME IdentityInv, Ends PROVE IdentityInv'
<1>1. /\ main' = "ended" /\ config' = Defaults /\ UNCHANGED <<focus, runtimeFile>> BY DEF Ends
<1>2. config'.identity = NoIdentity /\ config'.secureElement = NoSecureElement BY <1>1 DEF Defaults
<1>3. OperatorGave' BY <1>2, NothingIsGiven DEF OperatorGave
<1> QED BY <1>1, <1>3 DEF IdentityInv

\* Config::init: the identity is the operator's until the runtime configuration replaces it, and then
\* it is whole.
LEMMA LoadingKeepsIdentity == ASSUME IndInv, ConfigInv, IdentityInv, LoadConfig PROVE IdentityInv'
<1>1. main = "load" /\ UNCHANGED <<main, runtimeFile>> /\ LoadNext(runtimeFile) BY DEF LoadConfig
<1>2. Loaded(config) BY <1>1 DEF ConfigInv, Loaded
<1>3. /\ OperatorGave \/ (loading \in {"proxy", "validate", "accepted", "refused"} /\ OfRuntime(config.identity))
      /\ "secureElement" \in focus => "identity" \notin focus
      /\ runtimeFile # << >> =>
           /\ {"cert", "key", "thingName"} \subseteq DOMAIN runtimeFile
           /\ "completed" \in DOMAIN runtimeFile /\ runtimeFile.completed = "true"
  BY <1>1 DEF IdentityInv, IndInv, LoadInv
<1>4. ASSUME UNCHANGED <<focus, config>>, loading' \in {"proxy", "validate", "accepted", "refused"} \/ OperatorGave
      PROVE  \/ OperatorGave'
             \/ loading' \in {"proxy", "validate", "accepted", "refused"} /\ OfRuntime(config.identity)'
  BY <1>1, <1>3, <1>4 DEF OperatorGave, OfRuntime
<1>5. /\ "secureElement" \in focus' => "identity" \notin focus'
      /\ \/ OperatorGave'
         \/ loading' \in {"proxy", "validate", "accepted", "refused"} /\ OfRuntime(config.identity)'
  <2>1. CASE ParseCliArgs
    <3>1. OperatorGave /\ config' = config /\ (focus' = focus \/ (focus = {} /\ focus' \in Focuses))
      BY <1>3, <2>1 DEF ParseCliArgs
    <3>2. CASE focus' = focus BY <1>3, <1>4, <3>1, <3>2
    <3>3. CASE focus = {} /\ focus' \in Focuses
      <4>1. \/ \E s : s # "secureElement" /\ focus' = {s}
            \/ focus' = {"provisioning", "secureElement"}
        BY <3>3 DEF Focuses
      <4>2. OperatorGave' BY <3>1, <3>3 DEF OperatorGave
      <4> QED BY <4>1, <4>2
    <3> QED BY <3>1, <3>2, <3>3
  <2>2. CASE RefuseCliArgs
    <3>1. UNCHANGED <<focus, config>> /\ OperatorGave BY <1>3, <2>2 DEF RefuseCliArgs
    <3> QED BY <1>3, <1>4, <3>1
  <2>3. CASE ParseConfigFile
    <3>1. /\ OperatorGave /\ UNCHANGED focus
          /\ config' = config \/ \E doc \in Documents : config' = LoadFromJson(config, doc)
      BY <1>3, <2>3 DEF ParseConfigFile
    <3>2. CASE config' = config BY <1>3, <1>4, <3>1, <3>2
    <3>3. CASE \E doc \in Documents : config' = LoadFromJson(config, doc)
      BY <1>2, <1>3, <3>1, <3>3, LoadingKeepsClaim
    <3> QED BY <3>1, <3>2, <3>3
  <2>4. CASE LoadCliArgs
    <3>1. /\ OperatorGave /\ UNCHANGED focus
          /\ \/ config' = config
             \/ \E name \in (focus \cap DOMAIN OnCommandLine) \cup {"none"} :
                   \E given \in IF name = "none" THEN {<< >>} ELSE CliChoices[name] :
                      \E made : config' = LoadFromCliArgs(config, name, given, made)
      BY <1>3, <2>4 DEF LoadCliArgs
    <3>2. CASE config' = config BY <1>3, <1>4, <3>1, <3>2
    <3>3. CASE config' # config BY <1>2, <1>3, <3>1, <3>3, LoadingKeepsClaim
    <3> QED BY <3>2, <3>3
  <2>5. CASE LoadFromEnvironment
    <3>1. OperatorGave /\ UNCHANGED focus /\ \E t : config' = [config EXCEPT !.tunneling.token = t]
      BY <1>3, <2>5 DEF LoadFromEnvironment
    <3>2. config'.identity = config.identity /\ config'.secureElement = config.secureElement
      BY <3>1, <1>2 DEF Loaded, Defaults
    <3> QED BY <1>3, <3>1, <3>2 DEF OperatorGave
  <2>6. CASE ParseRuntimeConfig(runtimeFile)
    <3>1. OperatorGave /\ UNCHANGED focus /\ loading' = "proxy" BY <1>3, <2>6 DEF ParseRuntimeConfig
    <3>2. CASE runtimeFile = << >>
      <4>1. config' = config BY <2>6, <3>2 DEF ParseRuntimeConfig
      <4> QED BY <1>3, <1>4, <3>1, <4>1
    <3>3. CASE runtimeFile # << >>
      <4> DEFINE loaded == LoadFromJson(config, [runtime |-> runtimeFile])
      <4>1. config' = StoreRuntimeConfig(loaded) BY <2>6, <3>3 DEF ParseRuntimeConfig
      <4>2. CASE ValidRuntime(loaded.runtime)
        <5>1. /\ config'.identity.cert = runtimeFile.cert /\ config'.identity.key = runtimeFile.key
              /\ config'.identity.thingName = runtimeFile.thingName
          BY <1>2, <1>3, <3>3, <4>1, <4>2, StoredIdentity
        <5>2. OfRuntime(config.identity)' BY <1>1, <3>3, <5>1 DEF OfRuntime
        <5> QED BY <1>3, <3>1, <5>2
      <4>3. CASE ~ValidRuntime(loaded.runtime)
        <5>1. config'.identity = config.identity /\ config'.secureElement = config.secureElement
          BY <1>2, <1>3, <3>3, <4>1, <4>3, StoredIdentity
        <5> QED BY <1>3, <3>1, <5>1 DEF OperatorGave
      <4> QED BY <4>2, <4>3
    <3> QED BY <3>2, <3>3
  <2>7. CASE ParseProxyConfig \/ ValidateConfig
    <3>1. /\ loading' \in {"proxy", "validate", "accepted", "refused"} /\ UNCHANGED focus
          /\ \/ config' = config
             \/ \E proxy : config' = [config EXCEPT !.proxy = proxy]
             \/ config' = [config EXCEPT !.sensors.settings = KeptSensors(@)]
      BY <2>7 DEF ParseProxyConfig, ValidateConfig
    <3>2. config'.identity = config.identity /\ config'.secureElement = config.secureElement
      BY <1>2, <3>1 DEF Loaded, Defaults
    <3> QED BY <1>1, <1>3, <3>1, <3>2 DEF OperatorGave, OfRuntime
  <2> QED BY <1>1, <2>1, <2>2, <2>3, <2>4, <2>5, <2>6, <2>7 DEF LoadNext
<1> QED BY <1>1, <1>3, <1>5 DEF IdentityInv

\* Validate() accepts no identity of the operator that is not whole.
LEMMA AcceptedIsWhole ==
  ASSUME ConfigInv, IdentityInv, main = "load", loading = "accepted"
  PROVE  OfClaim(config.identity) \/ OfRuntime(config.identity)
<1>1. CASE OperatorGave
  <2>1. ValidIdentity(config) BY DEF ConfigInv, Configured, Validate
  <2>2. config.identity.cert = "claim" /\ config.identity.thingName = "thing"
    BY <1>1, <2>1 DEF OperatorGave, ValidIdentity
  <2>3. CASE config.secureElement.enabled = "true"
    <3>1. "identity" \notin focus BY <1>1, <2>3 DEF OperatorGave, IdentityInv
    <3> QED BY <1>1, <2>2, <3>1 DEF OperatorGave, OfClaim
  <2>4. CASE config.secureElement.enabled # "true"
    BY <1>1, <2>1, <2>2, <2>4 DEF OperatorGave, ValidIdentity, OfClaim
  <2> QED BY <2>3, <2>4
<1>2. CASE OfRuntime(config.identity) BY <1>2
<1> QED BY <1>1, <1>2 DEF IdentityInv

\* The runtime configuration just stored replaces the identity as a whole.
LEMMA StoringKeepsIdentity == ASSUME IndInv, ConfigInv, IdentityInv, StoreRuntime PROVE IdentityInv'
<1> DEFINE loaded == LoadFromJson(config, [runtime |-> runtimeFile])
<1>1. /\ main = "provision" /\ UNCHANGED <<runtimeFile, focus>>
      /\ \/ /\ main' = "disconnecting" /\ runtimeFile # << >> /\ ValidRuntime(loaded.runtime)
            /\ config' = StoreRuntimeConfig(loaded)
         \/ main' = "closing" /\ UNCHANGED config
  BY DEF StoreRuntime, Abort
<1> HIDE DEF loaded
<1>2. CASE main' = "closing" BY <1>1, <1>2 DEF IdentityInv
<1>3. CASE main' # "closing"
  <2>1. {"identity", "runtime", "secureElement"} \subseteq DOMAIN config BY DEF ConfigInv, Defaults
  <2>2. {"cert", "key", "thingName"} \subseteq DOMAIN config.identity BY DEF ConfigInv, NoIdentity
  <2>3. /\ {"cert", "key", "thingName"} \subseteq DOMAIN runtimeFile
        /\ "completed" \in DOMAIN runtimeFile /\ runtimeFile.completed = "true"
    BY <1>1, <1>3 DEF IdentityInv, IndInv, LoadInv
  <2>4. loaded.runtime = runtimeFile @@ NoRuntime BY <2>1, <2>3 DEF loaded, LoadFromJson, RuntimeFromJson, Is
  <2>5. loaded.identity = config.identity /\ DOMAIN loaded = DOMAIN config BY <2>1 DEF loaded, LoadFromJson
  <2>6. /\ loaded.runtime.cert = runtimeFile.cert /\ loaded.runtime.key = runtimeFile.key
        /\ loaded.runtime.thingName = runtimeFile.thingName
    BY <2>3, <2>4 DEF @@
  <2>7. /\ config'.identity.cert = loaded.runtime.cert /\ config'.identity.key = loaded.runtime.key
        /\ config'.identity.thingName = loaded.runtime.thingName
    BY <1>1, <1>3, <2>1, <2>2, <2>5 DEF StoreRuntimeConfig
  <2>8. OfRuntime(config.identity)' BY <1>1, <1>3, <2>6, <2>7 DEF OfRuntime
  <2> QED BY <1>1, <1>3, <2>3, <2>8 DEF IdentityInv
<1> QED BY <1>2, <1>3

\* The shadow may replace other sections only.
LEMMA ReconfigureKeepsIdentity == ASSUME ConfigInv, IdentityInv, Reconfigure PROVE IdentityInv'
<1>1. /\ main = "shadow" /\ UNCHANGED <<runtimeFile, main, focus>>
      /\ config' = config \/ \E desired : config' = ResetConfig(config, desired, desired)
  BY DEF Reconfigure, ShadowByMain, SubscribeToGet, SubscribeToUpdate, Fetch, Fetched, AfterSuccess,
         AnswerReceived, ResetClientConfig, Updated, ShadowTimesOut
<1>2. config'.identity = config.identity BY <1>1 DEF ResetConfig, ConfigInv, Defaults
<1> QED BY <1>1, <1>2 DEF IdentityInv, OfClaim, OfRuntime

\* The steps that leave the configuration alone.
LEMMA RestKeepsIdentity ==
  ASSUME IndInv, ConfigInv, IdentityInv, [Next]_vars,
         ~LoadConfig, ~StoreRuntime, ~Reconfigure, ~Exit, ~Killed, ~Dies
  PROVE  IdentityInv'
<1>1. CASE BeginInit
  <2>1. /\ main = "load" /\ loading = "accepted" /\ main' = "init"
        /\ UNCHANGED <<config, focus, runtimeFile>>
    BY <1>1 DEF BeginInit
  <2>2. OfClaim(config.identity) \/ OfRuntime(config.identity) BY <2>1, AcceptedIsWhole
  <2> QED BY <2>1, <2>2 DEF IdentityInv, OfClaim, OfRuntime
<1>2. CASE TakeLock \/ Initialize \/ EstablishConnection
  BY <1>2, IdentityUntouched DEF TakeLock, Initialize, EstablishConnection, Abort
<1>3. CASE Connected
  <2>1. /\ main = "connecting" /\ UNCHANGED <<config, focus, runtimeFile>>
        /\ main' \in {"provision", "closing", "shadow", "adding"}
        /\ main' = "provision" => goal = "provision"
    BY <1>3 DEF Connected, Abort
  <2>2. goal = "provision" => runtimeFile = << >> BY <2>1 DEF IndInv, GoalInv
  <2>3. main' = "provision" => OfClaim(config.identity) BY <2>1, <2>2 DEF IdentityInv, OfRuntime
  <2> QED BY <2>1, <2>3, IdentityUntouched
<1>4. CASE Provision
  <2>1. UNCHANGED <<config, focus, main, loading>> /\ main = "provision" BY <1>4 DEF Provision
  <2>2. runtimeFile' = runtimeFile \/ runtimeFile' = << >> \/ runtimeFile' = RuntimeConfig
    BY <1>4 DEF Provision, ProvisioningByMain, ProvisionDevice, CreateSubscribed, RegisterSubscribed,
                Subscribed, Created, Registered, WaitTimesOut, OpenRuntimeConfig, WriteRuntimeConfig
  <2> QED BY <2>1, <2>2, IdentityUntouched
<1>5. CASE Reconfigured \/ Disconnect \/ Disconnected \/ AddFeatures \/ StartFeature
  BY <1>5, IdentityUntouched DEF Reconfigured, Disconnect, Disconnected, AddFeatures, StartFeature
<1>6. CASE SampleShadowStarted \/ AllStarted \/ StopFeature \/ AllStopped \/ SignalReceived
  BY <1>6, IdentityUntouched DEF SampleShadowStarted, AllStarted, StopFeature, AllStopped, SignalReceived
<1>7. CASE Restart
  <2>1. /\ main = "ended" /\ main' = "load" /\ UNCHANGED <<config, focus, runtimeFile, loading>>
    BY <1>7 DEF Restart
  <2>2. loading = "start" BY <2>1 DEF IndInv, LoadInv
  <2> QED BY <2>1, <2>2 DEF IdentityInv, OperatorGave
<1>8. CASE ConnectionCompleted \/ DisconnectCompleted \/ Outage \/ HandleConnectionResumed
           \/ CopyActiveFeatures \/ NotifyFeatures \/ WorkerEnds \/ UNCHANGED vars
  BY <1>8, IdentityUntouched
  DEF ConnectionCompleted, DisconnectCompleted, Outage, HandleConnectionResumed, CopyActiveFeatures,
      NotifyFeatures, WorkerEnds, vars
<1>9. CASE ServiceStep \/ SampleShadowAck
  BY <1>9, IdentityUntouched DEF ServiceStep, ServiceAnswers, SampleShadowAck
<1>10. CASE Delivery
  <2>1. UNCHANGED <<main, loading, focus>> BY <1>10 DEF Delivery
  <2>2. UNCHANGED <<config, runtimeFile>>
    BY <1>10 DEF Delivery, ProvisioningByEventLoop, SubscriptionAck, PublishAck, AcceptedDelivered,
                RejectedDelivered, AnswerDeliveredTwice, ShadowByEventLoop, ShadowAck, GetAnswered,
                GetAnswerKills
  <2> QED BY <2>1, <2>2, IdentityUntouched
<1> QED BY <1>1, <1>2, <1>3, <1>4, <1>5, <1>6, <1>7, <1>8, <1>9, <1>10 DEF Next, Main, EventLoop

\* The client connects and serves with a whole identity, however often the process is killed while it
\* is provisioned: the claim's, or that of the runtime configuration on disk (Config::init,
\* ValidateAndStoreRuntimeConfig, main).
THEOREM ConnectsWithWholeIdentity == Spec => []IdentityIsWhole
<1>1. Init => IdentityInv
  <2> SUFFICES ASSUME Init PROVE IdentityInv OBVIOUS
  <2>1. main = "load" /\ focus = {} /\ config = Defaults /\ runtimeFile = << >>
    BY DEF Init, LoadInit, ProvisioningInit
  <2>2. config.identity = NoIdentity /\ config.secureElement = NoSecureElement BY <2>1 DEF Defaults
  <2>3. OperatorGave BY <2>2, NothingIsGiven DEF OperatorGave
  <2> QED BY <2>1, <2>3 DEF IdentityInv
<1>2. IndInv /\ ConfigInv /\ IdentityInv /\ [Next]_vars => IdentityInv'
  <2> SUFFICES ASSUME IndInv, ConfigInv, IdentityInv, [Next]_vars PROVE IdentityInv' OBVIOUS
  <2>1. CASE LoadConfig BY <2>1, LoadingKeepsIdentity
  <2>2. CASE StoreRuntime BY <2>2, StoringKeepsIdentity
  <2>3. CASE Reconfigure BY <2>3, ReconfigureKeepsIdentity
  <2>4. CASE Exit \/ Killed \/ Dies BY <2>4, EndKeepsIdentity DEF Exit, Killed, Dies
  <2> QED BY <2>1, <2>2, <2>3, <2>4, RestKeepsIdentity
<1>3. IdentityInv => IdentityIsWhole BY DEF IdentityInv, IdentityIsWhole
<1> QED BY <1>1, <1>2, <1>3, InductiveInvariant, ConfigStaysValid, PTL DEF Spec

-----------------------------------------------------------------------------
USE DEF queueVars

(* The client's log: sequences of messages. *)

\* A message appended after the others keeps their order.
LEMMA AppendInOrder ==
  ASSUME NEW messages \in Seq(Nat), NEW message \in Nat, NEW late,
         InOrderBut(late, messages),
         message # late => \A m \in Range(messages) \ {late} : m < message
  PROVE  InOrderBut(late, Append(messages, message))
<1> DEFINE longer == Append(messages, message)
<1>1. /\ Len(messages) \in Nat /\ DOMAIN messages = 1 .. Len(messages)
      /\ Len(longer) = Len(messages) + 1
      /\ \A i \in 1 .. Len(messages) : longer[i] = messages[i] /\ messages[i] \in Nat
      /\ longer[Len(messages) + 1] = message /\ DOMAIN longer = 1 .. Len(messages) + 1
  BY AppendProperties, LenProperties, ElementOfSeq
<1>2. \A i \in 1 .. Len(messages) : messages[i] \in Range(messages) BY <1>1 DEF Range
<1> SUFFICES ASSUME NEW i \in DOMAIN longer, NEW j \in DOMAIN longer, i < j,
                    longer[i] # late, longer[j] # late
             PROVE  longer[i] < longer[j]
  BY DEF InOrderBut
<1>3. CASE j \in 1 .. Len(messages)
  <2>1. i \in 1 .. Len(messages) BY <1>1, <1>3
  <2> HIDE DEF longer
  <2> QED BY <1>1, <1>3, <2>1 DEF InOrderBut
<1>4. CASE j = Len(messages) + 1
  <2>1. i \in 1 .. Len(messages) BY <1>1, <1>4
  <2>2. messages[i] \in Range(messages) \ {late} BY <1>1, <1>2, <2>1
  <2> QED BY <1>1, <1>4, <2>1, <2>2
<1> QED BY <1>1, <1>3, <1>4

\* What an appended message adds.
LEMMA AppendAdds ==
  ASSUME NEW messages \in Seq(Nat), NEW message \in Nat
  PROVE  /\ Append(messages, message) \in Seq(Nat)
         /\ Range(Append(messages, message)) = Range(messages) \cup {message}
         /\ Range(messages) \subseteq Nat
         /\ IsInjective(messages) /\ message \notin Range(messages)
               => IsInjective(Append(messages, message))
<1> DEFINE longer == Append(messages, message)
<1>1. /\ Len(messages) \in Nat /\ DOMAIN messages = 1 .. Len(messages)
      /\ longer \in Seq(Nat)
      /\ Len(longer) = Len(messages) + 1
      /\ \A i \in 1 .. Len(messages) : longer[i] = messages[i] /\ messages[i] \in Nat
      /\ longer[Len(messages) + 1] = message /\ DOMAIN longer = 1 .. Len(messages) + 1
  BY AppendProperties, LenProperties, ElementOfSeq
<1> HIDE DEF longer
<1>2. DOMAIN longer = DOMAIN messages \cup {Len(messages) + 1} BY <1>1
<1>3. Range(longer) = Range(messages) \cup {message} BY <1>1, <1>2 DEF Range
<1>4. Range(messages) \subseteq Nat BY <1>1 DEF Range
<1>5. ASSUME IsInjective(messages), message \notin Range(messages) PROVE IsInjective(longer)
  BY <1>1, <1>2, <1>5 DEF Range, IsInjective
<1> QED BY <1>1, <1>3, <1>4, <1>5 DEF longer

\* The null message that LogQueue::shutdown puts in front.
LEMMA NullInFront ==
  ASSUME logQueue \in Seq(Nat), InOrderBut(NoMessage, logQueue)
  PROVE  /\ ShutdownQueue \in Seq(Nat) /\ InOrderBut(NoMessage, ShutdownQueue)
         /\ Range(ShutdownQueue) \ {NoMessage} = Queued
<1>1. <<NoMessage>> \in Seq(Nat) /\ Len(<<NoMessage>>) = 1 /\ <<NoMessage>>[1] = NoMessage
  BY DEF NoMessage
<1>2. /\ Len(logQueue) \in Nat /\ DOMAIN logQueue = 1 .. Len(logQueue)
      /\ ShutdownQueue \in Seq(Nat) /\ Len(ShutdownQueue) = Len(logQueue) + 1
      /\ DOMAIN ShutdownQueue = 1 .. Len(logQueue) + 1
      /\ ShutdownQueue[1] = NoMessage
      /\ \A i \in 1 .. Len(logQueue) + 1 : i # 1 => ShutdownQueue[i] = logQueue[i - 1]
  BY <1>1, ConcatProperties, LenProperties DEF ShutdownQueue
<1>3. InOrderBut(NoMessage, ShutdownQueue)
  <2> SUFFICES ASSUME NEW i \in 1 .. Len(logQueue) + 1, NEW j \in 1 .. Len(logQueue) + 1, i < j,
                      ShutdownQueue[i] # NoMessage, ShutdownQueue[j] # NoMessage
               PROVE  ShutdownQueue[i] < ShutdownQueue[j]
    BY <1>2 DEF InOrderBut
  <2>1. i # 1 /\ j # 1 /\ i - 1 \in DOMAIN logQueue /\ j - 1 \in DOMAIN logQueue /\ i - 1 < j - 1 BY <1>2
  <2> QED BY <1>2, <2>1 DEF InOrderBut
<1>4. ASSUME NEW m \in Queued PROVE m \in Range(ShutdownQueue)
  <2>1. PICK i \in 1 .. Len(logQueue) : m = logQueue[i] BY <1>2 DEF Queued, Range
  <2>2. i + 1 \in 1 .. Len(logQueue) + 1 /\ i + 1 # 1 /\ (i + 1) - 1 = i BY <1>2
  <2> QED BY <1>2, <2>1, <2>2 DEF Range
<1>5. ASSUME NEW m \in Range(ShutdownQueue) \ {NoMessage} PROVE m \in Queued
  <2>1. PICK i \in 1 .. Len(logQueue) + 1 : m = ShutdownQueue[i] BY <1>2 DEF Range
  <2>2. i # 1 /\ i - 1 \in DOMAIN logQueue BY <1>2, <1>5, <2>1
  <2> QED BY <1>2, <1>5, <2>1, <2>2 DEF Queued, Range
<1> QED BY <1>2, <1>3, <1>4, <1>5 DEF Queued

\* What a consumer takes is the first message: later ones wait.
LEMMA TakeFirst ==
  ASSUME logQueue \in Seq(Nat), InOrderBut(NoMessage, logQueue), getNextLog
  PROVE  /\ logQueue' \in Seq(Nat) /\ InOrderBut(NoMessage, logQueue')
         /\ NextLog \in Nat
         /\ Queued' \subseteq Queued
         /\ Queued = Queued' \cup ({NextLog} \ {NoMessage})
         /\ NextLog # NoMessage => NextLog \in Queued /\ \A m \in Queued' : NextLog < m
<1>1. CASE logQueue = <<>>
  BY <1>1 DEF getNextLog, NextLog, NoMessage, Queued, Range
<1>2. CASE logQueue # <<>>
  <2>1. /\ Len(logQueue) \in Nat \ {0} /\ DOMAIN logQueue = 1 .. Len(logQueue)
        /\ logQueue' = Tail(logQueue) /\ logQueue' \in Seq(Nat) /\ Len(logQueue') = Len(logQueue) - 1
        /\ DOMAIN logQueue' = 1 .. Len(logQueue) - 1
        /\ \A i \in 1 .. Len(logQueue) - 1 : logQueue'[i] = logQueue[i + 1]
    BY <1>2, EmptySeq, LenProperties, HeadTailProperties DEF getNextLog
  <2>2. NextLog = logQueue[1] /\ NextLog \in Nat BY <1>2, HeadTailProperties DEF NextLog
  <2>3. InOrderBut(NoMessage, logQueue')
    <3> SUFFICES ASSUME NEW i \in 1 .. Len(logQueue) - 1, NEW j \in 1 .. Len(logQueue) - 1, i < j,
                        logQueue'[i] # NoMessage, logQueue'[j] # NoMessage
                 PROVE  logQueue'[i] < logQueue'[j]
      BY <2>1 DEF InOrderBut
    <3>1. i + 1 \in DOMAIN logQueue /\ j + 1 \in DOMAIN logQueue /\ i + 1 < j + 1 BY <2>1
    <3> QED BY <2>1, <3>1 DEF InOrderBut
  <2>4. ASSUME NEW m \in Queued'
        PROVE  m \in Queued /\ (NextLog # NoMessage => NextLog < m)
    <3>1. PICK i \in 1 .. Len(logQueue) - 1 : m = logQueue'[i] BY <2>1, <2>4 DEF Queued, Range
    <3>2. m # NoMessage BY <2>4 DEF Queued
    <3>3. i + 1 \in DOMAIN logQueue /\ 1 \in DOMAIN logQueue /\ 1 < i + 1 /\ m = logQueue[i + 1]
      BY <2>1, <3>1
    <3> QED BY <2>2, <3>2, <3>3 DEF Queued, Range, InOrderBut
  <2>5. ASSUME NEW m \in Queued PROVE m \in Queued' \/ m = NextLog
    <3>1. PICK i \in 1 .. Len(logQueue) : m = logQueue[i] BY <2>1 DEF Queued, Range
    <3>2. CASE i = 1 BY <2>2, <3>1, <3>2
    <3>3. CASE i # 1
      <4>1. i - 1 \in 1 .. Len(logQueue) - 1 /\ (i - 1) + 1 = i BY <2>1, <3>3
      <4>2. m = logQueue'[i - 1] /\ i - 1 \in DOMAIN logQueue' BY <2>1, <3>1, <4>1
      <4>3. m # NoMessage BY DEF Queued
      <4> QED BY <4>2, <4>3 DEF Queued, Range
    <3> QED BY <3>2, <3>3
  <2>6. NextLog # NoMessage => NextLog \in Queued BY <2>1, <2>2 DEF Queued, Range
  <2> QED BY <2>1, <2>2, <2>3, <2>4, <2>5, <2>6 DEF Queued
<1> QED BY <1>1, <1>2
-----------------------------------------------------------------------------
(* The client's log: the invariant. *)

\* Nothing is logged at first.
LEMMA LogInitEstablishes == LogInit => LogInv
<1> SUFFICES ASSUME LogInit PROVE LogInv OBVIOUS
<1>1. Range(written) = {} /\ Queued = {} /\ InHand = {}
  BY DEF LogInit, Range, Queued, InHand, NoMessage
<1>2. LogTypes /\ LogPhases BY DEF LogInit, LogTypes, LogPhases, NoMessage
<1>3. LogPlaces BY <1>1 DEF LogInit, LogPlaces, IsInjective, InOrderBut, NoMessage
<1>4. LogOrder
  <2>1. InOrderBut(NoMessage, written) BY DEF LogInit, InOrderBut
  <2>2. NoMessage \in 0 .. logged BY DEF LogInit, NoMessage
  <2> QED BY <2>1, <2>2 DEF LogInit, LogOrder, NoMessage
<1>5. LogPromise BY DEF LogInit, LogPromise
<1> QED BY <1>2, <1>3, <1>4, <1>5 DEF LogInv

\* The messages are numbers from 1 on.
LEMMA MessagesAreNumbers ==
  ASSUME LogInv
  PROVE  /\ Range(written) \subseteq 1 .. logged /\ Queued \subseteq 1 .. logged
         /\ InHand \subseteq 1 .. logged
         /\ held # NoMessage => held \in InHand
         /\ flushed # NoMessage => flushed \in InHand
         /\ logged \in Nat
  BY DEF LogInv, LogPlaces, LogTypes, InHand

\* A message that is logged is later than all the others.
LEMMA LogMessagePreserves == ASSUME LogInv, LogMessage PROVE LogInv'
<1> USE DEF LogInv
<1>1. /\ logged' = logged + 1 /\ logQueue' = Append(logQueue, logged + 1)
      /\ UNCHANGED <<needsShutdown, writerPc, held, mainPc, flushed, flush, promised, written>>
  BY DEF LogMessage, addLog
<1>2. logged \in Nat /\ logged + 1 \in Nat /\ logQueue \in Seq(Nat) BY DEF LogTypes
<1>3. Range(written)' = Range(written) /\ InHand' = InHand BY <1>1 DEF InHand
<1>4. Range(logQueue') = Range(logQueue) \cup {logged + 1} /\ logQueue' \in Seq(Nat)
  BY <1>1, <1>2, AppendAdds
<1>5. Queued' = Queued \cup {logged + 1} BY <1>2, <1>4 DEF Queued, NoMessage
<1>6. LogTypes' BY <1>1, <1>2, <1>4 DEF LogTypes
<1>7. LogPhases' BY <1>1 DEF LogPhases
<1>8. LogPlaces'
  <2>1. (1 .. logged)' = (1 .. logged) \cup {logged + 1} BY <1>1, <1>2
  <2>2. (Range(written) \cup InHand \cup Queued = 1 .. logged)'
    BY <1>3, <1>5, <2>1 DEF LogPlaces
  <2>3. InOrderBut(NoMessage, logQueue')
    <3>1. \A m \in Range(logQueue) \ {NoMessage} : m < logged + 1
      BY <1>2, MessagesAreNumbers DEF Queued
    <3> QED BY <1>1, <1>2, <3>1, AppendInOrder DEF LogPlaces
  <2>4. \A taken \in Range(written) \cup InHand, waiting \in Queued' : taken < waiting
    BY <1>2, <1>5, MessagesAreNumbers DEF LogPlaces
  <2> QED BY <1>1, <1>3, <2>2, <2>3, <2>4 DEF LogPlaces
<1>9. LogOrder' BY <1>1, <1>2, <1>3 DEF LogOrder
<1>10. LogPromise'
  <2>1. promised \in Nat BY DEF LogTypes
  <2> QED BY <1>1, <1>2, <2>1 DEF LogPromise
<1> QED BY <1>6, <1>7, <1>8, <1>9, <1>10

\* A null message in front of the queue changes nothing of what waits.
LEMMA NullPreserves ==
  ASSUME LogInv, logQueue' = ShutdownQueue, UNCHANGED <<held, flushed, logged, written>>
  PROVE  /\ Queued' = Queued /\ InHand' = InHand /\ logQueue' \in Seq(Nat)
         /\ LogPlaces'
<1>1. logQueue \in Seq(Nat) /\ InOrderBut(NoMessage, logQueue) BY DEF LogInv, LogTypes, LogPlaces
<1>2. Queued' = Queued /\ logQueue' \in Seq(Nat) /\ InOrderBut(NoMessage, logQueue')
  BY <1>1, NullInFront DEF Queued
<1>3. InHand' = InHand BY DEF InHand
<1> QED BY <1>2, <1>3 DEF LogInv, LogPlaces

\* reconfigure hands the queue over before anything is shut down.
LEMMA ReplacePreserves == ASSUME LogInv, NEW kind, ReplaceLogger(kind) PROVE LogInv'
<1> USE DEF LogInv
<1>1. /\ mainPc = "boot" /\ logQueue' = ShutdownQueue
      /\ UNCHANGED <<needsShutdown, held, flushed, flush, promised, logged, written>>
      /\ (writerPc' = "created" /\ mainPc' = "running") \/ UNCHANGED <<writerPc, mainPc>>
  BY DEF ReplaceLogger, HandedOver
<1>2. ~needsShutdown /\ flushed = NoMessage /\ flush = "none" BY <1>1 DEF LogPhases
<1>3. Queued' = Queued /\ InHand' = InHand /\ logQueue' \in Seq(Nat) /\ LogPlaces' BY <1>1, NullPreserves
<1>4. LogTypes' BY <1>1, <1>3 DEF LogTypes
<1>5. LogPhases' BY <1>1, <1>2 DEF LogPhases
<1>6. LogOrder' BY <1>1, <1>2 DEF LogOrder, LogPhases
<1>7. LogPromise' BY <1>1, <1>2 DEF LogPromise
<1> QED BY <1>3, <1>4, <1>5, <1>6, <1>7

\* start() makes the thread.
LEMMA StartLoggerPreserves == ASSUME LogInv, StartLogger PROVE LogInv'
<1> USE DEF LogInv
<1>1. /\ mainPc = "boot" /\ writerPc' = "created" /\ mainPc' = "running"
      /\ UNCHANGED <<logQueue, needsShutdown, held, flushed, flush, promised, logged, written>>
  BY DEF StartLogger
<1>2. ~needsShutdown /\ held = NoMessage /\ flushed = NoMessage /\ flush = "none"
  BY <1>1 DEF LogPhases
<1>3. Queued' = Queued /\ InHand' = InHand BY <1>1 DEF Queued, InHand
<1>4. LogTypes' BY <1>1 DEF LogTypes
<1>5. LogPhases' BY <1>1, <1>2 DEF LogPhases
<1>6. LogPlaces' BY <1>1, <1>3 DEF LogPlaces
<1>7. LogOrder' BY <1>1, <1>2 DEF LogOrder
<1>8. LogPromise' BY <1>1, <1>2 DEF LogPromise
<1> QED BY <1>4, <1>5, <1>6, <1>7, <1>8

\* Steps that neither take nor write a message: of the writer, which enters "get" only before
\* the shutdown, and of main, which ends the flush when the queue is empty.
LEMMA QuietPreserves ==
  ASSUME LogInv,
         UNCHANGED <<logQueue, needsShutdown, held, flushed, flush, promised, logged, written>>,
         writerPc' = writerPc \/ (writerPc # "write" /\ writerPc' # "write" /\ mainPc' # "boot"),
         writerPc' = "get" => writerPc = "get" \/ ~needsShutdown,
         mainPc' = mainPc \/
            (/\ mainPc' # "boot" /\ needsShutdown /\ flushed = NoMessage
             /\ mainPc' \in {"running", "ending", "exited"} =>
                   mainPc \in {"running", "ending", "exited"} \/ logQueue = <<>>)
  PROVE  LogInv'
<1> USE DEF LogInv
<1>1. Queued' = Queued /\ InHand' = InHand BY DEF Queued, InHand
<1>2. LogTypes' BY DEF LogTypes
<1>3. LogPhases' BY DEF LogPhases
<1>4. LogPlaces' BY <1>1 DEF LogPlaces
<1>5. LogOrder'
  <2>1. CASE ~needsShutdown BY <2>1 DEF LogOrder, LogPhases
  <2>2. CASE needsShutdown BY <2>2 DEF LogOrder, LogPhases
  <2> QED BY <2>1, <2>2
<1>6. LogPromise'
  <2>1. CASE mainPc' = mainPc BY <2>1 DEF LogPromise
  <2>2. CASE mainPc \in {"running", "ending", "exited"} BY <2>2 DEF LogPromise
  <2>3. CASE flushed = NoMessage /\ logQueue = <<>>
    <3>1. Queued = {} BY <2>3 DEF Queued, Range
    <3>2. InHand \subseteq {held} BY <2>3 DEF InHand
    <3>3. 1 .. logged \subseteq Range(written) \cup {held} BY <3>1, <3>2 DEF LogPlaces
    <3>4. promised <= logged /\ promised \in Nat /\ logged \in Nat BY DEF LogPromise, LogTypes
    <3>5. 1 .. promised \subseteq 1 .. logged BY <3>4
    <3> QED BY <3>3, <3>4, <3>5 DEF LogPromise
  <2>4. CASE mainPc' \notin {"running", "ending", "exited"} BY <2>4 DEF LogPromise
  <2> QED BY <2>1, <2>2, <2>3, <2>4
<1> QED BY <1>2, <1>3, <1>4, <1>5, <1>6

\* The writer begins, and looks at the shutdown.
LEMMA WriterLooksPreserves ==
  ASSUME LogInv, WriterBegins \/ WriterLooksAtShutdown
  PROVE  LogInv'
<1>1. /\ UNCHANGED <<logQueue, needsShutdown, held, flushed, flush, promised, logged, written, mainPc>>
      /\ writerPc # "write" /\ writerPc' # "write" /\ writerPc # "none"
      /\ writerPc' = "get" => ~needsShutdown
  BY DEF WriterBegins, WriterLooksAtShutdown
<1>2. mainPc # "boot" BY <1>1 DEF LogInv, LogPhases
<1> QED BY <1>1, <1>2, QuietPreserves

\* flush() looks at the queue, shutdown() ends.
LEMMA FlushLooksPreserves ==
  ASSUME LogInv, FlushLooks \/ EndShutdown
  PROVE  LogInv'
<1>1. /\ UNCHANGED <<logQueue, needsShutdown, held, flushed, flush, promised, logged, written, writerPc>>
      /\ mainPc \in {"flush", "ending"} /\ mainPc' # "boot"
      /\ mainPc' \in {"running", "ending", "exited"} => mainPc = "ending" \/ logQueue = <<>>
  BY DEF FlushLooks, EndShutdown
<1>2. needsShutdown /\ flushed = NoMessage BY <1>1 DEF LogInv, LogPhases
<1> QED BY <1>1, <1>2, QuietPreserves

\* The writer takes the first message; after a shutdown that is the one that may come late.
LEMMA WriterTakesPreserves == ASSUME LogInv, WriterGetsLog PROVE LogInv'
<1> USE DEF LogInv
<1>1. /\ writerPc = "get" /\ getNextLog /\ held' = NextLog
      /\ writerPc' = IF NextLog = NoMessage THEN "check" ELSE "write"
      /\ UNCHANGED <<needsShutdown, mainPc, flushed, flush, promised, logged, written>>
  BY DEF WriterGetsLog
<1>2. held = NoMessage /\ mainPc # "boot" BY <1>1 DEF LogPhases
<1>3. /\ logQueue' \in Seq(Nat) /\ InOrderBut(NoMessage, logQueue') /\ NextLog \in Nat
      /\ Queued' \subseteq Queued /\ Queued = Queued' \cup ({NextLog} \ {NoMessage})
      /\ NextLog # NoMessage => NextLog \in Queued /\ \A m \in Queued' : NextLog < m
  BY <1>1, TakeFirst DEF LogTypes, LogPlaces
<1>4. InHand' = InHand \cup ({NextLog} \ {NoMessage}) BY <1>1, <1>2 DEF InHand
<1>5. Range(written)' = Range(written) BY <1>1
<1>6. LogTypes' BY <1>1, <1>3 DEF LogTypes
<1>7. LogPhases' BY <1>1, <1>2 DEF LogPhases
<1>8. \A m \in Range(written) \cup InHand : NextLog # NoMessage => m < NextLog /\ m # NextLog
  <2>1. Range(written) \cup InHand \subseteq Nat BY MessagesAreNumbers
  <2> QED BY <1>3, <2>1 DEF LogPlaces
<1>9. LogPlaces'
  <2>1. (InHand \cap Range(written) = {})' BY <1>4, <1>5, <1>8 DEF LogPlaces
  <2>2. (held = flushed => held = NoMessage)' BY <1>1, <1>8, MessagesAreNumbers
  <2>3. \A taken \in Range(written) \cup InHand', waiting \in Queued' : taken < waiting
    BY <1>3, <1>4 DEF LogPlaces
  <2>4. Range(written) \cup InHand' \cup Queued' = 1 .. logged BY <1>3, <1>4 DEF LogPlaces
  <2> QED BY <1>1, <1>3, <1>5, <2>1, <2>2, <2>3, <2>4 DEF LogPlaces
<1>10. LogOrder'
  <2>1. PICK late \in 0 .. logged :
          /\ InOrderBut(late, written) /\ late = NoMessage
          /\ flushed # NoMessage => \A message \in Range(written) \ {late} : message < flushed
    BY <1>1 DEF LogOrder
  <2>2. NoMessage \notin Range(written) BY MessagesAreNumbers DEF NoMessage
  <2>3. CASE NextLog = NoMessage BY <1>1, <2>1, <2>3 DEF LogOrder
  <2>4. CASE NextLog # NoMessage /\ needsShutdown
    <3>1. NextLog \in 0 .. logged' BY <1>1, <1>3, <2>4, MessagesAreNumbers
    <3>2. InOrderBut(NextLog, written)
      <4>1. \A i \in DOMAIN written : written[i] # NoMessage BY <2>2 DEF Range
      <4> QED BY <2>1, <4>1 DEF InOrderBut
    <3>3. \A message \in Range(written) \ {NextLog} : message \in Range(written) \ {late}
      BY <2>1, <2>2
    <3> QED BY <1>1, <1>5, <2>1, <2>4, <3>1, <3>2, <3>3 DEF LogOrder
  <2>5. CASE NextLog # NoMessage /\ ~needsShutdown
    BY <1>1, <1>5, <1>8, <2>1, <2>5 DEF LogOrder
  <2> QED BY <2>3, <2>4, <2>5
<1>11. LogPromise'
  <2>1. \A n \in 1 .. promised : n # held BY <1>2 DEF NoMessage
  <2> QED BY <1>1, <1>5, <2>1 DEF LogPromise
<1> QED BY <1>6, <1>7, <1>9, <1>10, <1>11

\* The writer writes what it holds.
LEMMA WriterWritesPreserves == ASSUME LogInv, WriterWrites PROVE LogInv'
<1> USE DEF LogInv
<1>1. /\ writerPc = "write" /\ written' = Append(written, held)
      /\ held' = NoMessage /\ writerPc' = "check"
      /\ UNCHANGED <<logQueue, needsShutdown, mainPc, flushed, flush, promised, logged>>
  BY DEF WriterWrites
<1>2. held # NoMessage /\ held \in Nat /\ written \in Seq(Nat) /\ mainPc # "boot"
  BY <1>1 DEF LogPhases, LogTypes
<1>3. held \in InHand /\ held \notin Range(written) /\ held # flushed
  BY <1>2, MessagesAreNumbers DEF LogPlaces
<1>4. written' \in Seq(Nat) /\ Range(written') = Range(written) \cup {held} /\ IsInjective(written')
  BY <1>1, <1>2, <1>3, AppendAdds DEF LogPlaces
<1>5. InHand' = InHand \ {held} BY <1>1, <1>2, <1>3 DEF InHand
<1>6. Queued' = Queued BY <1>1 DEF Queued
<1>7. LogTypes' BY <1>1, <1>4 DEF LogTypes, NoMessage
<1>8. LogPhases' BY <1>1, <1>2 DEF LogPhases
<1>9. LogPlaces' BY <1>1, <1>3, <1>4, <1>5, <1>6 DEF LogPlaces
<1>10. LogOrder'
  <2>1. PICK late \in 0 .. logged :
          /\ InOrderBut(late, written)
          /\ ~needsShutdown => late = NoMessage
          /\ ~needsShutdown => \A message \in Range(written) : message < held
          /\ needsShutdown => late = held
          /\ flushed # NoMessage => \A message \in Range(written) \ {late} : message < flushed
    BY <1>1, <1>2 DEF LogOrder
  <2>2. held # late => \A m \in Range(written) \ {late} : m < held BY <2>1
  <2>3. InOrderBut(late, written') BY <1>1, <1>2, <2>1, <2>2, AppendInOrder
  <2>4. flushed # NoMessage => needsShutdown BY DEF LogPhases
  <2>5. flushed # NoMessage => \A message \in Range(written') \ {late} : message < flushed
    BY <1>4, <2>1, <2>4
  <2> QED BY <1>1, <2>1, <2>3, <2>5 DEF LogOrder
<1>11. LogPromise' BY <1>1, <1>4 DEF LogPromise
<1> QED BY <1>7, <1>8, <1>9, <1>10, <1>11

\* The first shutdown(): what the writer holds may be written late, and all that was logged
\* is promised.
LEMMA ShutdownPreserves == ASSUME LogInv, Shutdown PROVE LogInv'
<1> USE DEF LogInv
<1>1. /\ needsShutdown' = TRUE /\ logQueue' = ShutdownQueue
      /\ UNCHANGED <<writerPc, held, flushed, logged, written>>
      /\ mainPc \in {"running", "boot"}
      /\ \/ mainPc' = "flush" /\ (flush = "none" => flush' = "made")
         \/ mainPc' = "ending" /\ (flush = "none" => flush' = "skipped")
      /\ flush = "none" => promised' = logged
      /\ flush # "none" => UNCHANGED <<promised, flush>>
  BY DEF Shutdown
<1>2. Queued' = Queued /\ InHand' = InHand /\ logQueue' \in Seq(Nat) /\ LogPlaces' BY <1>1, NullPreserves
<1>3. flushed = NoMessage BY <1>1 DEF LogPhases
<1>4. LogTypes' BY <1>1, <1>2 DEF LogTypes
<1>5. LogPhases' BY <1>1, <1>3 DEF LogPhases
<1>6. LogOrder'
  <2>1. CASE needsShutdown
    BY <1>1, <1>3, <2>1 DEF LogOrder
  <2>2. CASE ~needsShutdown
    <3>1. InOrderBut(NoMessage, written) BY <2>2 DEF LogOrder
    <3>2. InOrderBut(held, written)
      <4>1. \A i \in DOMAIN written : written[i] # NoMessage
        BY MessagesAreNumbers DEF Range, NoMessage
      <4> QED BY <3>1, <4>1 DEF InOrderBut
    <3>3. held \in 0 .. logged BY MessagesAreNumbers DEF NoMessage
    <3>4. writerPc = "get" => held = NoMessage BY DEF LogPhases
    <3> QED BY <1>1, <1>3, <3>2, <3>3, <3>4 DEF LogOrder
  <2> QED BY <2>1, <2>2
<1>7. LogPromise'
  <2>1. CASE flush = "none" BY <1>1, <2>1 DEF LogPromise, LogTypes
  <2>2. CASE flush # "none"
    <3>1. mainPc = "running" BY <1>1, <2>2 DEF LogPhases
    <3> QED BY <1>1, <2>2, <3>1 DEF LogPromise
  <2> QED BY <2>1, <2>2
<1> QED BY <1>2, <1>4, <1>5, <1>6, <1>7

\* flush() takes the first message, past the one the writer may hold.
LEMMA FlushTakesPreserves == ASSUME LogInv, FlushGetsLog PROVE LogInv'
<1> USE DEF LogInv
<1>1. /\ mainPc = "take" /\ flushed = NoMessage /\ getNextLog /\ flushed' = NextLog
      /\ mainPc' = IF NextLog = NoMessage THEN "flush" ELSE "take"
      /\ UNCHANGED <<needsShutdown, writerPc, held, flush, promised, logged, written>>
  BY DEF FlushGetsLog
<1>2. needsShutdown BY <1>1 DEF LogPhases
<1>3. /\ logQueue' \in Seq(Nat) /\ InOrderBut(NoMessage, logQueue') /\ NextLog \in Nat
      /\ Queued' \subseteq Queued /\ Queued = Queued' \cup ({NextLog} \ {NoMessage})
      /\ NextLog # NoMessage => NextLog \in Queued /\ \A m \in Queued' : NextLog < m
  BY <1>1, TakeFirst DEF LogTypes, LogPlaces
<1>4. InHand' = InHand \cup ({NextLog} \ {NoMessage}) BY <1>1 DEF InHand
<1>5. Range(written)' = Range(written) BY <1>1
<1>6. LogTypes' BY <1>1, <1>3 DEF LogTypes
<1>7. LogPhases' BY <1>1, <1>2 DEF LogPhases
<1>8. \A m \in Range(written) \cup InHand : NextLog # NoMessage => m < NextLog /\ m # NextLog
  <2>1. Range(written) \cup InHand \subseteq Nat BY MessagesAreNumbers
  <2> QED BY <1>3, <2>1 DEF LogPlaces
<1>9. LogPlaces'
  <2>1. (InHand \cap Range(written) = {})' BY <1>4, <1>5, <1>8 DEF LogPlaces
  <2>2. (held = flushed => held = NoMessage)' BY <1>1, <1>8, MessagesAreNumbers
  <2>3. \A taken \in Range(written) \cup InHand', waiting \in Queued' : taken < waiting
    BY <1>3, <1>4 DEF LogPlaces
  <2>4. Range(written) \cup InHand' \cup Queued' = 1 .. logged BY <1>3, <1>4 DEF LogPlaces
  <2> QED BY <1>1, <1>3, <1>5, <2>1, <2>2, <2>3, <2>4 DEF LogPlaces
<1>10. LogOrder' BY <1>1, <1>2, <1>8 DEF LogOrder
<1>11. LogPromise' BY <1>1 DEF LogPromise
<1> QED BY <1>6, <1>7, <1>9, <1>10, <1>11

\* flush() writes what it took.
LEMMA FlushWritesPreserves == ASSUME LogInv, FlushWrites PROVE LogInv'
<1> USE DEF LogInv
<1>1. /\ mainPc = "take" /\ flushed # NoMessage /\ written' = Append(written, flushed)
      /\ flushed' = NoMessage /\ mainPc' = "flush"
      /\ UNCHANGED <<logQueue, needsShutdown, writerPc, held, flush, promised, logged>>
  BY DEF FlushWrites
<1>2. needsShutdown /\ flushed \in Nat /\ written \in Seq(Nat) BY <1>1 DEF LogPhases, LogTypes
<1>3. flushed \in InHand /\ flushed \notin Range(written) /\ held # flushed
  BY <1>1, MessagesAreNumbers DEF LogPlaces
<1>4. written' \in Seq(Nat) /\ Range(written') = Range(written) \cup {flushed} /\ IsInjective(written')
  BY <1>1, <1>2, <1>3, AppendAdds DEF LogPlaces
<1>5. InHand' = InHand \ {flushed} BY <1>1, <1>3 DEF InHand
<1>6. Queued' = Queued BY <1>1 DEF Queued
<1>7. LogTypes' BY <1>1, <1>4 DEF LogTypes, NoMessage
<1>8. LogPhases' BY <1>1, <1>2 DEF LogPhases
<1>9. LogPlaces' BY <1>1, <1>3, <1>4, <1>5, <1>6 DEF LogPlaces
<1>10. LogOrder'
  <2>1. PICK late \in 0 .. logged :
          /\ InOrderBut(late, written)
          /\ writerPc = "get" => late = NoMessage
          /\ writerPc = "write" => late = held
          /\ \A message \in Range(written) \ {late} : message < flushed
    BY <1>1, <1>2 DEF LogOrder
  <2>2. InOrderBut(late, written') BY <1>1, <1>2, <2>1, AppendInOrder
  <2> QED BY <1>1, <1>2, <2>1, <2>2 DEF LogOrder
<1>11. LogPromise' BY <1>1 DEF LogPromise
<1> QED BY <1>7, <1>8, <1>9, <1>10, <1>11

\* Every step keeps the invariant.
LEMMA LogStepPreserves == ASSUME LogInv, [LogNext]_logVars PROVE LogInv'
<1>1. CASE LogMessage BY <1>1, LogMessagePreserves
<1>2. CASE \E kind \in {"stdout", "file"} : ReplaceLogger(kind) BY <1>2, ReplacePreserves
<1>3. CASE StartLogger BY <1>3, StartLoggerPreserves
<1>4. CASE MainThread
  BY <1>4, ShutdownPreserves, FlushLooksPreserves, FlushTakesPreserves, FlushWritesPreserves
  DEF MainThread
<1>5. CASE WriterThread
  BY <1>5, WriterLooksPreserves, WriterTakesPreserves, WriterWritesPreserves DEF WriterThread
<1>6. CASE UNCHANGED logVars
  <2>1. /\ UNCHANGED <<logQueue, needsShutdown, held, flushed, flush, promised, logged, written>>
        /\ writerPc' = writerPc /\ mainPc' = mainPc
    BY <1>6 DEF logVars
  <2> QED BY <2>1, QuietPreserves
<1> QED BY <1>1, <1>2, <1>3, <1>4, <1>5, <1>6 DEF LogNext

\* The invariant of the client's log, for any number of messages.
THEOREM LogInvariant == LogSpec => []LogInv
<1> QED BY LogInitEstablishes, LogStepPreserves, PTL DEF LogSpec

\* The log is in order but for one message (StartLogger, LogQueue, flush).
THEOREM LogOrderIsKept == LogSpec => []OrderIsKept
<1>1. LogInv => OrderIsKept BY DEF LogInv, LogOrder, OrderIsKept
<1> QED BY <1>1, LogInvariant, PTL

\* No message is lost or written twice, and shutdown() writes what was logged before it
\* (LogQueue::shutdown, FileLogger::flush).
THEOREM LogLosesNothing == LogSpec => []LogIsFlushed
<1>1. LogInv => LogIsFlushed
  <2> SUFFICES ASSUME LogInv PROVE LogIsFlushed OBVIOUS
  <2>1. Range(written) \cap (InHand \cup Queued) = {} /\ InHand \cap Queued = {}
    <3>1. \A taken \in Range(written) \cup InHand, waiting \in Queued : taken # waiting
      <4>1. Range(written) \cup InHand \subseteq Nat BY MessagesAreNumbers
      <4> QED BY <4>1 DEF LogInv, LogPlaces
    <3> QED BY <3>1 DEF LogInv, LogPlaces
  <2> QED BY <2>1 DEF LogInv, LogPlaces, LogPromise, LogIsFlushed
<1> QED BY <1>1, LogInvariant, PTL
=============================================================================
