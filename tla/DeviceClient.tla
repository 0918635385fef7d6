----------------------------- MODULE DeviceClient -----------------------------
(***************************************************************************)
(* The client as a process: main (src/source/main.cpp) loads the           *)
(* configuration, takes the lock file, connects with the claim identity    *)
(* and provisions the device if that was never done, connects again with   *)
(* the permanent identity, takes over its configuration shadow, starts the *)
(* features, sleeps until a signal and stops them.  Around it run the      *)
(* event loop of the connection (src/source/SharedCrtResourceManager.cpp), *)
(* which tells the registered features of a resumed connection             *)
(* (src/source/FeatureRegistry.cpp), and the worker that a feature starts  *)
(* then.  The process may be killed at any point and started again: what   *)
(* stays is what is on disk.                                               *)
(***************************************************************************)
EXTENDS FleetProvisioning, ConfigShadow, LockFile

CONSTANTS
  MaxStarts,      \* bound: starts of the process
  MaxOutages      \* bound: interruptions of the connection

ASSUME DeviceClientConstants == MaxStarts \in Nat /\ MaxOutages \in Nat

VARIABLES
  main,           \* where main is
  goal,           \* what the connection is for: "provision", "serve" or "start"
  connection,     \* "none", "connecting", "up", "down", "closing", "closed"
  eventLoop,      \* "idle", "resumed" (before the registry's lock), "notifying"
  features,       \* FeatureRegistry: feature -> "added", "started", "stopping"
  worker,         \* the recovery worker of the Jobs feature
  starts, outages

dvars == <<main, goal, connection, eventLoop, features, worker, starts, outages>>
lvars == <<lockFile, holder>>
vars == <<cvars, promises, fvars, svars, lvars, dvars>>

me == CHOOSE c \in Clients : TRUE

Init ==
  /\ LoadInit /\ RequestInit /\ ProvisioningInit /\ ShadowInit /\ LockInit
  /\ main = "load" /\ goal = "serve"
  /\ connection = "none" /\ eventLoop = "idle"
  /\ features = << >> /\ worker = "none"
  /\ starts = 1 /\ outages = 0

-----------------------------------------------------------------------------
(* The process ends: only what is on disk stays, and the counters.         *)
Ends ==
  /\ main' = "ended" /\ goal' = "serve"
  /\ connection' = "none" /\ eventLoop' = "idle"
  /\ features' = << >> /\ worker' = "none"
  /\ loading' = "start" /\ config' = Defaults
  /\ promises' = << >>
  /\ provisioning' = "idle" /\ answer' = "none" /\ certPath' = "" /\ keyPath' = ""
  /\ shadowStep' = "idle" /\ shadowAnswer' = "none"
  /\ UNCHANGED <<focus, service, certFiles, keyFiles, runtimeFile, starts, outages>>

(* Killed, crashed, or sent a signal while main is not in sigwait(): the   *)
(* logger's thread, started before main blocked the signals, does not      *)
(* block them, and the default action ends the process.                    *)
Killed ==
  /\ main # "ended"
  /\ starts < MaxStarts
  /\ Ends
  /\ IF holder[me].at = "down" THEN UNCHANGED lvars ELSE LockCrash(me)

(* An exception that leaves a callback of the event loop.                  *)
Dies ==
  /\ main # "ended"
  /\ provisioning = "died" \/ shadowStep = "died"
  /\ Ends
  /\ LockCrash(me)

Restart ==
  /\ main = "ended"
  /\ starts < MaxStarts
  /\ starts' = starts + 1
  /\ main' = "load"
  /\ UNCHANGED <<cvars, promises, fvars, svars, lvars, goal, connection, eventLoop, features, worker, outages>>

-----------------------------------------------------------------------------
(* main() up to the first connection. *)
Abort == main' = "closing"

LoadConfig ==
  /\ main = "load"
  /\ LoadNext(runtimeFile)
  /\ UNCHANGED <<promises, fvars, svars, lvars, dvars>>

BeginInit ==
  /\ main = "load"
  /\ loading = "accepted"
  /\ LockBegin(me, config.identity.thingName)
  /\ main' = "init"
  /\ UNCHANGED <<cvars, promises, fvars, svars, goal, connection, eventLoop, features, worker, starts, outages>>

TakeLock ==
  /\ main = "init"
  /\ LockStep(me)
  /\ UNCHANGED <<cvars, promises, fvars, svars, dvars>>

(* Fleet provisioning runs unless a loaded runtime configuration says that *)
(* it has completed.                                                       *)
NeedsProvisioning_Always == config.provisioning.enabled = "true"
NeedsProvisioning == config.provisioning.enabled = "true" /\ config.runtime.completed # "true"

(* buildClient fails only if the SDK's log is asked for and its directory  *)
(* or file is not as it must be.                                           *)
SetupLogging == BOOLEAN
BuildClient == IF config.log.sdk = "true" THEN SetupLogging ELSE {TRUE}

Initialize ==
  /\ main = "init"
  /\ holder[me].at = "holding"
  /\ \E built \in BuildClient :
       IF built
       THEN main' = "connecting" /\ goal' = IF NeedsProvisioning THEN "provision" ELSE "serve"
       ELSE Abort /\ UNCHANGED goal
  /\ UNCHANGED <<cvars, promises, fvars, svars, lvars, connection, eventLoop, features, worker, starts, outages>>

-----------------------------------------------------------------------------
(* attemptConnection: establishConnection, retried without end unless it   *)
(* must abort. *)
UsesSecureElement == config.secureElement.enabled = "true"
UsesConfigShadow == config.configShadow.enabled = "true"

LocateCredentials ==
  /\ config.identity.cert \in certFiles \cup {"claim"}
  /\ ~UsesSecureElement => config.identity.key \in keyFiles \cup {"claim", "file"}

Retries == connection \in {"none", "closed"}

EstablishConnection ==
  /\ main = "connecting"
  /\ Retries
  /\ \/ LocateCredentials /\ connection' = "connecting" /\ UNCHANGED main
     \/ Abort /\ UNCHANGED connection
  /\ UNCHANGED <<cvars, promises, fvars, svars, lvars, goal, eventLoop, features, worker, starts, outages>>

(* onConnectionCompleted, which main waits for without a deadline.         *)
ConnectionCompleted ==
  /\ connection = "connecting" /\ eventLoop = "idle"
  /\ connection' \in {"up", "none"}
  /\ UNCHANGED <<cvars, promises, fvars, svars, lvars, main, goal, eventLoop, features, worker, starts, outages>>

(* A secure element ends the start in every build.  The objects of the     *)
(* configuration shadow live until the connection is made again.           *)
Connected ==
  /\ main = "connecting"
  /\ connection \in {"up", "down"}
  /\ \/ /\ goal = "provision"
        /\ main' = "provision" /\ provisioning' = "begin"
        /\ UNCHANGED svars
     \/ /\ goal = "serve" /\ UsesSecureElement
        /\ Abort
        /\ UNCHANGED <<provisioning, svars>>
     \/ /\ goal = "serve" /\ ~UsesSecureElement /\ UsesConfigShadow
        /\ main' = "shadow" /\ shadowStep' = "begin"
        /\ UNCHANGED <<provisioning, shadowAnswer>>
     \/ /\ goal = "serve" => ~UsesSecureElement /\ ~UsesConfigShadow
        /\ goal # "provision"
        /\ main' = "adding"
        /\ shadowStep' = "idle" /\ shadowAnswer' = "none"
        /\ UNCHANGED <<provisioning>>
  /\ UNCHANGED <<cvars, promises, answer, service, files, runtimeFile, lvars,
                 goal, connection, eventLoop, features, worker, starts, outages>>

-----------------------------------------------------------------------------
(* Provisioning under the claim identity. *)
Provision ==
  /\ main = "provision"
  /\ ProvisioningByMain
  /\ UNCHANGED <<cvars, svars, lvars, dvars>>

(* The runtime configuration just written is parsed and must be valid.     *)
StoreRuntime ==
  /\ main = "provision"
  /\ provisioning \in {"provisioned", "failed"}
  /\ LET loaded == LoadFromJson(config, [runtime |-> runtimeFile]) IN
     IF provisioning = "provisioned" /\ runtimeFile # << >> /\ ValidRuntime(loaded.runtime)
     THEN config' = StoreRuntimeConfig(loaded) /\ main' = "disconnecting" /\ goal' = "serve"
     ELSE Abort /\ UNCHANGED <<config, goal>>
  /\ provisioning' = "idle"
  /\ UNCHANGED <<focus, loading, promises, answer, service, files, runtimeFile, svars, lvars,
                 connection, eventLoop, features, worker, starts, outages>>

(* reconfigureWithConfigShadow, which never fails the start.               *)
Reconfigure ==
  /\ main = "shadow"
  /\ ShadowByMain
  /\ UNCHANGED <<focus, loading, fvars, lvars, dvars>>

Reconfigured ==
  /\ main = "shadow"
  /\ shadowStep = "done"
  /\ main' = "disconnecting" /\ goal' = "start"
  /\ UNCHANGED <<cvars, promises, fvars, svars, lvars, connection, eventLoop, features, worker, starts, outages>>

(* disconnect(): the callback is awaited, but not without end; a           *)
(* connection that is no more cannot be disconnected and is not waited for.*)
Disconnect ==
  /\ main \in {"disconnecting", "closing"}
  /\ connection \in {"up", "down"}
  /\ connection' = "closing"
  /\ UNCHANGED <<cvars, promises, fvars, svars, lvars, main, goal, eventLoop, features, worker, starts, outages>>

DisconnectCompleted ==
  /\ connection = "closing" /\ eventLoop = "idle"
  /\ connection' = "closed"
  /\ UNCHANGED <<cvars, promises, fvars, svars, lvars, main, goal, eventLoop, features, worker, starts, outages>>

GivesUpDisconnect_Never == FALSE
GivesUpDisconnect == connection = "closing"

Disconnected ==
  /\ main = "disconnecting"
  /\ connection = "closed" \/ GivesUpDisconnect
  /\ main' = "connecting" /\ connection' = "closed"
  /\ UNCHANGED <<cvars, promises, fvars, svars, lvars, goal, eventLoop, features, worker, starts, outages>>

-----------------------------------------------------------------------------
(* The features, in the order of their names; one that is disabled is      *)
(* registered as nullptr. *)
Order == <<"defender", "jobs", "pubSub", "sampleShadow", "tunneling", "sensors">>
Enabled == {f \in {Order[i] : i \in 1..Len(Order)} : config[f].enabled = "true"}
First(names) == CHOOSE f \in names : \E i \in 1..Len(Order) :
                  Order[i] = f /\ \A j \in 1..(i - 1) : Order[j] \notin names
Added == {f \in DOMAIN features : features[f] = "added"}

AddFeatures ==
  /\ main = "adding"
  /\ features' = [f \in Enabled |-> "added"]
  /\ main' = "starting"
  /\ UNCHANGED <<cvars, promises, fvars, svars, lvars, goal, connection, eventLoop, worker, starts, outages>>

(* startAll holds featuresLock over every start(); the one of the sample   *)
(* shadow waits for its subscriptions.                                     *)
StartFeature ==
  /\ main = "starting"
  /\ Added # {}
  /\ IF First(Added) = "sampleShadow"
     THEN promises' = Unset({"sampleShadow"}) /\ main' = "startWaiting" /\ UNCHANGED features
     ELSE features' = [features EXCEPT ![First(Added)] = "started"] /\ UNCHANGED <<promises, main>>
  /\ UNCHANGED <<cvars, fvars, svars, lvars, goal, connection, eventLoop, worker, starts, outages>>

SampleShadowAck ==
  /\ main = "startWaiting"
  /\ connection = "up" /\ eventLoop = "idle"
  /\ ~IsSet("sampleShadow")
  /\ \E ok \in Outcomes : Fulfil("sampleShadow", ok)
  /\ UNCHANGED <<cvars, fvars, svars, lvars, dvars>>

(* With or without its subscriptions the start goes on.                    *)
GivesUpSampleShadow_Never == FALSE
GivesUpSampleShadow == ~IsSet("sampleShadow")

SampleShadowStarted ==
  /\ main = "startWaiting"
  /\ IsSet("sampleShadow") \/ GivesUpSampleShadow
  /\ features' = [features EXCEPT !["sampleShadow"] = "started"]
  /\ main' = "starting"
  /\ UNCHANGED <<cvars, promises, fvars, svars, lvars, goal, connection, eventLoop, worker, starts, outages>>

AllStarted ==
  /\ main = "starting"
  /\ Added = {}
  /\ main' = "running"
  /\ UNCHANGED <<cvars, promises, fvars, svars, lvars, goal, connection, eventLoop, features, worker, starts, outages>>

-----------------------------------------------------------------------------
(* SIGINT or SIGTERM in sigwait(): shutdown().  stopAll holds featuresLock *)
(* over every stop(), and the one of Jobs waits for its worker. *)
SignalReceived ==
  /\ main = "running"
  /\ main' = IF features = << >> THEN "closing" ELSE "stopping"
  /\ UNCHANGED <<cvars, promises, fvars, svars, lvars, goal, connection, eventLoop, features, worker, starts, outages>>

Remaining == DOMAIN features
BeginsStop(f) == features[f] # "stopping"

StopFeature ==
  /\ main = "stopping"
  /\ Remaining # {}
  /\ LET f == First(Remaining) IN
     IF BeginsStop(f) THEN features' = [features EXCEPT ![f] = "stopping"]
     ELSE /\ f = "jobs" => worker = "none"
          /\ features' = [g \in Remaining \ {f} |-> features[g]]
  /\ UNCHANGED <<cvars, promises, fvars, svars, lvars, main, goal, connection, eventLoop, worker, starts, outages>>

AllStopped ==
  /\ main = "stopping"
  /\ Remaining = {}
  /\ main' = "closing"
  /\ UNCHANGED <<cvars, promises, fvars, svars, lvars, goal, connection, eventLoop, features, worker, starts, outages>>

(* The end of shutdown() and of deviceClientAbort(): exit() destroys the   *)
(* lock file. *)
Exit ==
  /\ \/ main = "closing" /\ (connection \in {"none", "connecting", "closed"} \/ GivesUpDisconnect)
     \/ main = "load" /\ loading = "refused"
     \/ main = "init" /\ holder[me].at = "refused"
  /\ Ends
  /\ IF holder[me].at = "down" THEN UNCHANGED lvars ELSE LockRelease(me)

-----------------------------------------------------------------------------
(* The event loop. *)
Outage ==
  /\ connection = "up"
  /\ outages < MaxOutages
  /\ outages' = outages + 1
  /\ connection' = "down"
  /\ UNCHANGED <<cvars, promises, fvars, svars, lvars, main, goal, eventLoop, features, worker, starts>>

HandleConnectionResumed ==
  /\ connection = "down" /\ eventLoop = "idle"
  /\ connection' = "up" /\ eventLoop' = "resumed"
  /\ UNCHANGED <<cvars, promises, fvars, svars, lvars, main, goal, features, worker, starts, outages>>

(* The registry's lock, which main may hold, guards the copy of the        *)
(* features, not the calls that follow. *)
LockHeldByMain == main \in {"starting", "startWaiting", "stopping"}

CopyActiveFeatures ==
  /\ eventLoop = "resumed"
  /\ ~LockHeldByMain
  /\ eventLoop' = IF "jobs" \in DOMAIN features THEN "notifying" ELSE "idle"
  /\ UNCHANGED <<cvars, promises, fvars, svars, lvars, main, goal, connection, features, worker, starts, outages>>

NotifyFeatures ==
  /\ eventLoop = "notifying"
  /\ eventLoop' = "idle"
  /\ worker' = IF "jobs" \in DOMAIN features /\ features["jobs"] # "stopping" THEN "waiting" ELSE worker
  /\ UNCHANGED <<cvars, promises, fvars, svars, lvars, main, goal, connection, features, starts, outages>>

(* The worker's acknowledgement comes on the event loop, or its deadline   *)
(* passes. *)
WorkerEnds ==
  /\ worker = "waiting"
  /\ worker' = "none"
  /\ UNCHANGED <<cvars, promises, fvars, svars, lvars, main, goal, connection, eventLoop, features, starts, outages>>

(* The service answers, and its answers and the acknowledgements are       *)
(* delivered while the connection is up and no callback is running. *)
ServiceStep ==
  /\ main = "provision"
  /\ ServiceAnswers
  /\ UNCHANGED <<cvars, svars, lvars, dvars>>

Delivery ==
  /\ connection = "up" /\ eventLoop = "idle"
  /\ \/ main = "provision" /\ ProvisioningByEventLoop /\ UNCHANGED <<config, svars>>
     \/ main \in {"shadow", "disconnecting"} /\ ShadowByEventLoop /\ UNCHANGED fvars
  /\ UNCHANGED <<focus, loading, lvars, dvars>>

-----------------------------------------------------------------------------
Main ==
  \/ LoadConfig \/ BeginInit \/ TakeLock \/ Initialize \/ EstablishConnection \/ Connected
  \/ Provision \/ StoreRuntime \/ Reconfigure \/ Reconfigured \/ Disconnect \/ Disconnected
  \/ AddFeatures \/ StartFeature \/ SampleShadowStarted \/ AllStarted
  \/ StopFeature \/ AllStopped \/ Exit

EventLoop ==
  \/ ConnectionCompleted \/ CopyActiveFeatures \/ NotifyFeatures \/ Dies

Next ==
  \/ Main \/ EventLoop \/ WorkerEnds
  \/ Killed \/ Restart \/ SignalReceived \/ Outage \/ HandleConnectionResumed
  \/ ServiceStep \/ SampleShadowAck \/ Delivery \/ DisconnectCompleted

Spec == Init /\ [][Next]_vars

(* main, the event loop and the worker are threads that run on, and the    *)
(* deadline of a wait passes; signals, outages, the answers of the service,*)
(* a connection that comes back and one that closes are not promised.      *)
FairSpec == Spec /\ WF_vars(Main) /\ WF_vars(EventLoop) /\ WF_vars(WorkerEnds)

-----------------------------------------------------------------------------
(* When the features are made, the configuration they run with is valid:   *)
(* what provisioning stored and what the shadow replaced went through      *)
(* Validate() (main.cpp:368-456, ConfigShadow.cpp:255-355). *)
FeaturesRunValidConfig == main \in {"adding", "running"} => Validate(config)

(* The identity a connection is made with is whole: the claim's, or the    *)
(* one of the runtime configuration on disk, never the certificate of one  *)
(* with the key or the thing name of the other (Config.cpp:2806-2822).     *)
OfClaim(i) == i.cert = "claim" /\ i.key = "claim" /\ i.thingName = "thing"
OfRuntime(i) ==
  /\ runtimeFile # << >>
  /\ i.cert = runtimeFile.cert /\ i.key = runtimeFile.key /\ i.thingName = runtimeFile.thingName

IdentityIsWhole ==
  main \in {"connecting", "running"} => OfClaim(config.identity) \/ OfRuntime(config.identity)

(* The service is never asked for another certificate by a device that has *)
(* a runtime configuration on disk, however the process was killed and     *)
(* started again (main.cpp:367-398, FleetProvisioning.cpp:678-725). *)
ProvisionsOnce == [][created' # created => runtimeFile = << >>]_vars

(* Provisioning and reconfiguration end whatever is lost.                  *)
StartupEnds == main \in {"provision", "shadow"} ~> main \notin {"provision", "shadow"}

(* A shutdown ends, with a connection that does not close and a worker     *)
(* whose answers wait behind the event loop that waits for stopAll's lock. *)
ShutdownEnds == main \in {"stopping", "closing"} ~> main = "ended"

(* The event loop gets out of the notice of a resumed connection, though   *)
(* main holds the registry's lock while it waits for the event loop        *)
(* (FeatureRegistry.cpp:64-89, SampleShadowFeature.cpp:406-427). *)
NoticeEnds == eventLoop = "resumed" ~> eventLoop = "idle"

-----------------------------------------------------------------------------
(* The inductive invariant of the proofs. *)
FilesInv == certFiles \subseteq Certificates /\ keyFiles \subseteq Certificates

(* Once the runtime configuration was looked for it is loaded, if there is *)
(* one.                                                                    *)
LoadInv ==
  /\ main \in {"load", "ended"} => "runtime" \in DOMAIN config
  /\ main = "ended" => loading = "start"
  /\ main = "init" \/ (main = "load" /\ loading \in {"proxy", "validate", "accepted"}) =>
       (runtimeFile # << >> => config.runtime.completed = "true")
  /\ runtimeFile # << >> => "completed" \in DOMAIN runtimeFile /\ runtimeFile.completed = "true"

(* Provisioning is begun without a runtime configuration.                  *)
GoalInv ==
  /\ main = "connecting" /\ goal = "provision" => runtimeFile = << >>
  /\ main = "disconnecting" => goal # "provision"

(* What ProvisionDevice relies on at each of its steps.                    *)
HasCredentials ==
  /\ certPath \in certFiles
  /\ keyPath \in {"file", ""} \/ (keyPath \in keyFiles /\ keyPath = certPath)

CreatingInv ==
  provisioning = "creating" =>
    /\ DOMAIN promises = Publication
    /\ answer \in Certificates \cup {"none", "rejected"}
    /\ promises["completed"] = "true" =>
         /\ certPath \in certFiles
         /\ UsesCsr \/ (keyPath \in keyFiles /\ keyPath = certPath)

RegisteringInv ==
  provisioning = "registering" =>
    /\ DOMAIN promises = Publication
    /\ answer \in {"none", "rejected", "registered"}
    /\ answer = "registered" => certPath \in things
    /\ promises["completed"] = "true" => answer = "registered"

ProvisionInv ==
  main = "provision" =>
    /\ provisioning \in {"begin", "createSubscribing", "creating", "registerSubscribing", "registering",
                          "export", "exporting"} => runtimeFile = << >>
    /\ CreatingInv /\ RegisteringInv
    /\ provisioning \in {"registerSubscribing", "registering", "export", "exporting"} => HasCredentials
    /\ provisioning \in {"export", "exporting"} => certPath \in things

IndInv ==
  /\ FilesInv /\ LoadInv /\ GoalInv /\ ProvisionInv
  /\ RuntimeConfigIsComplete

(* The configuration has its sections and the identity its fields.  It is  *)
(* valid from the time it was accepted until the shutdown, which the       *)
(* sensors rely on that validation disabled, and the runtime configuration *)
(* that is stored over the identity names files.                           *)
SensorSettings == Seq([enabled : Flag, kind : {"valid", "invalid"}])

Configured ==
  \/ main = "load" /\ loading = "accepted"
  \/ main \in {"init", "connecting", "provision", "shadow", "disconnecting", "adding", "starting",
               "startWaiting", "running"}

ConfigInv ==
  /\ DOMAIN config = DOMAIN Defaults
  /\ DOMAIN NoIdentity \subseteq DOMAIN config.identity
  /\ main \in {"load", "ended"} =>
       /\ config.sensors = [enabled |-> config.sensors.enabled, settings |-> config.sensors.settings]
       /\ config.sensors.settings \in SensorSettings
  /\ runtimeFile # << >> => {"cert", "key"} \subseteq DOMAIN runtimeFile
  /\ Configured => Validate(config)

(* What the operator may have given of the identity, in whole or in part.  *)
OperatorGave ==
  /\ config.identity.cert \in {"", "claim", "gone"}
  /\ config.identity.key \in {"", "claim"}
  /\ config.identity.thingName \in {"", "thing"}
  /\ "identity" \notin focus /\ config.identity.cert = "claim" => config.identity.key = "claim"
  /\ "enabled" \in DOMAIN config.secureElement
  /\ config.secureElement.enabled = "true" => "secureElement" \in focus

(* The identity is the operator's until the runtime configuration was      *)
(* looked for, and whole once Validate() accepted it; provisioning, which  *)
(* runs under the claim's, replaces it by the one it has stored.           *)
IdentityInv ==
  /\ "secureElement" \in focus => "identity" \notin focus
  /\ runtimeFile # << >> => {"cert", "key", "thingName"} \subseteq DOMAIN runtimeFile
  /\ main \in {"load", "ended"} =>
       \/ OperatorGave
       \/ loading \in {"proxy", "validate", "accepted", "refused"} /\ OfRuntime(config.identity)
  /\ main = "provision" => OfClaim(config.identity)
  /\ main \in {"init", "connecting", "shadow", "disconnecting", "adding", "starting", "startWaiting",
               "running"} => OfClaim(config.identity) \/ OfRuntime(config.identity)
=============================================================================
