-------------------------- MODULE FleetProvisioning --------------------------
(***************************************************************************)
(* Provisioning the device under its claim identity                        *)
(* (src/source/fleetprovisioning/FleetProvisioning.cpp): create a key and  *)
(* a certificate, or a certificate for a signing request, register the     *)
(* thing with a template, and write the runtime configuration that makes   *)
(* the new identity permanent.  main waits for every answer; the answers   *)
(* come on the event loop thread, may be rejected, lost or delivered       *)
(* twice, and the process may die between any two steps.                   *)
(*                                                                         *)
(* A certificate stands for its identifier: the service creates a new one  *)
(* for every request, and the files of the device are named after it.      *)
(***************************************************************************)
EXTENDS ConfigLoading, BlockingRequest

CONSTANT Certificates     \* identifiers the service may hand out

(* An identifier is no other value a path or an answer may have.           *)
ASSUME ProvisioningConstants ==
  Certificates \cap {"", "gone", "claim", "file", "none", "rejected", "registered"} = {}

VARIABLES
  provisioning,   \* where ProvisionDevice is
  answer,         \* the service's answer to the request main waits for: a certificate, "registered", "rejected"
  created, things, \* the service: certificates created, certificates with a registered thing
  certFiles, keyFiles, \* the device: certificates and keys stored
  certPath, keyPath,   \* members of FleetProvisioning
  runtimeFile     \* the runtime configuration on disk, << >> when missing or cut short

fvars == <<provisioning, answer, created, things, certFiles, keyFiles,
           certPath, keyPath, runtimeFile>>
service == <<created, things>>
files == <<certFiles, keyFiles, certPath, keyPath>>

Subscriptions == {"acceptedAck", "rejectedAck"}
Publication == {"publishAck", "completed"}

ProvisioningInit ==
  /\ provisioning = "idle"
  /\ answer = "none"
  /\ created = {} /\ things = {}
  /\ certFiles = {} /\ keyFiles = {}
  /\ certPath = "" /\ keyPath = ""
  /\ runtimeFile = << >>

-----------------------------------------------------------------------------
(* GetCsrFileContent and LocateDeviceKey: the request file must be there,  *)
(* small, protected and not empty, the key there and protected.  A signing *)
(* request without a key path is dereferenced unset and ends the process.  *)
UsesCsr == config.provisioning.csr # ""
CsrIsUsable == config.provisioning.deviceKey # ""

(* MapParameters: template parameters that are no JSON end it.             *)
ParametersAreValid == config.provisioning.parameters # "bad"

(* ProvisionDevice up to its first request: the directories, the           *)
(* parameters, and how the certificate is to be made.                      *)
ProvisionDevice ==
  /\ provisioning = "begin"
  /\ \/ provisioning' = "failed" /\ UNCHANGED promises
     \/ /\ ParametersAreValid
        /\ UsesCsr => CsrIsUsable
        /\ ~UsesCsr => config.secureElement.enabled # "true"
        /\ provisioning' = "createSubscribing"
        /\ promises' = Unset(Subscriptions)
     \/ /\ ParametersAreValid /\ UsesCsr /\ ~CsrIsUsable
        /\ provisioning' = "died"
        /\ UNCHANGED promises
  /\ UNCHANGED <<answer, service, files, runtimeFile>>

(* The waits for the subscriptions and then for the publication of one     *)
(* request: CreateCertificateAndKey, CreateCertificateUsingCSR and         *)
(* RegisterThing wait the same way.  The request is published only when    *)
(* both subscriptions are acknowledged.                                    *)
Subscribed(step, next) ==
  /\ provisioning = step
  /\ AllSet(Subscriptions)
  /\ IF AllTrue(Subscriptions)
     THEN provisioning' = next /\ promises' = Unset(Publication)
     ELSE provisioning' = "failed" /\ UNCHANGED promises
  /\ answer' = "none"
  /\ UNCHANGED <<service, files, runtimeFile>>

CreateSubscribed == Subscribed("createSubscribing", "creating")
RegisterSubscribed == Subscribed("registerSubscribing", "registering")

(* Both the acknowledgement of the publication and the answer must come,   *)
(* and both must be good.                                                  *)
RequestSucceeded_Published == promises["publishAck"] = "true"
RequestSucceeded == AllTrue(Publication)

(* A signing request keeps the device's own key, except with a secure      *)
(* element, whose key has no path.                                         *)
KeyPathAfterCsr == IF config.secureElement.enabled = "true" THEN "" ELSE "file"

Created ==
  /\ provisioning = "creating"
  /\ AllSet(Publication)
  /\ IF RequestSucceeded
     THEN /\ provisioning' = "registerSubscribing"
          /\ promises' = Unset(Subscriptions)
          /\ keyPath' = IF UsesCsr THEN KeyPathAfterCsr ELSE keyPath
     ELSE provisioning' = "failed" /\ UNCHANGED <<promises, keyPath>>
  /\ UNCHANGED <<answer, service, certFiles, keyFiles, certPath, runtimeFile>>

Registered ==
  /\ provisioning = "registering"
  /\ AllSet(Publication)
  /\ provisioning' = IF RequestSucceeded THEN "export" ELSE "failed"
  /\ UNCHANGED <<promises, answer, service, files, runtimeFile>>

(* The deadline of a wait passes: ProvisionDevice gives up.                *)
WaitTimesOut_Subscriptions ==
  /\ provisioning \in {"createSubscribing", "registerSubscribing"} /\ ~AllSet(Subscriptions)
  /\ provisioning' = "failed"
  /\ UNCHANGED <<promises, answer, service, files, runtimeFile>>

WaitTimesOut ==
  /\ \/ provisioning \in {"createSubscribing", "registerSubscribing"} /\ ~AllSet(Subscriptions)
     \/ provisioning \in {"creating", "registering"} /\ ~AllSet(Publication)
  /\ provisioning' = "failed"
  /\ UNCHANGED <<promises, answer, service, files, runtimeFile>>

(* ExportRuntimeConfig opens the file, which empties it, and then writes   *)
(* it; a write that fails is not noticed.                                  *)
OpenRuntimeConfig ==
  /\ provisioning = "export"
  /\ \/ provisioning' = "failed" /\ UNCHANGED runtimeFile
     \/ provisioning' = "exporting" /\ runtimeFile' = << >>
  /\ UNCHANGED <<promises, answer, service, files>>

RuntimeConfig == [completed |-> "true", cert |-> certPath, key |-> keyPath, thingName |-> "device"]

WriteRuntimeConfig ==
  /\ provisioning = "exporting"
  /\ provisioning' = "provisioned"
  /\ runtimeFile' \in {RuntimeConfig, << >>}
  /\ UNCHANGED <<promises, answer, service, files>>

-----------------------------------------------------------------------------
(* The callbacks, on the event loop thread. *)
SubscriptionAck ==
  /\ provisioning \in {"createSubscribing", "registerSubscribing"}
  /\ \E n \in Subscriptions, ok \in Outcomes : ~IsSet(n) /\ Fulfil(n, ok)
  /\ UNCHANGED <<provisioning, answer, service, files, runtimeFile>>

PublishAck ==
  /\ provisioning \in {"creating", "registering"}
  /\ ~IsSet("publishAck")
  /\ \E ok \in Outcomes : Fulfil("publishAck", ok)
  /\ UNCHANGED <<provisioning, answer, service, files, runtimeFile>>

(* The service creates a certificate, or registers the thing, whether the  *)
(* device learns of it or not.                                             *)
ServiceAnswers ==
  /\ provisioning \in {"creating", "registering"}
  /\ answer = "none"
  /\ IF provisioning = "creating"
     THEN \E c \in Certificates \ created :
            answer' = c /\ created' = created \cup {c} /\ UNCHANGED things
     ELSE answer' = "registered" /\ things' = things \cup {certPath} /\ UNCHANGED created
  /\ UNCHANGED <<promises, provisioning, files, runtimeFile>>

(* The accepted handler names the files after the certificate, stores the  *)
(* certificate and then the key, and sets and checks their permissions.    *)
StoreCredentials(ok) ==
  /\ certPath' = answer
  /\ keyPath' = IF UsesCsr THEN keyPath ELSE answer
  /\ \/ /\ certFiles' = certFiles \cup {answer}
        /\ keyFiles' = IF UsesCsr THEN keyFiles ELSE keyFiles \cup {answer}
     \/ /\ certFiles' \in {certFiles, certFiles \cup {answer}}
        /\ ok = "false"
        /\ UNCHANGED keyFiles

AcceptedDelivered ==
  /\ provisioning \in {"creating", "registering"}
  /\ answer \notin {"none", "rejected"}
  /\ ~IsSet("completed")
  /\ \E ok \in Outcomes :
       /\ Fulfil("completed", ok)
       /\ IF provisioning = "creating" THEN StoreCredentials(ok) ELSE UNCHANGED files
  /\ UNCHANGED <<provisioning, answer, service, runtimeFile>>

RejectedDelivered ==
  /\ provisioning \in {"creating", "registering"}
  /\ answer = "none"
  /\ answer' = "rejected"
  /\ Fulfil("completed", "false")
  /\ UNCHANGED <<provisioning, service, files, runtimeFile>>

(* The answer is delivered a second time: the promise is set already and   *)
(* set_value throws out of the callback.                                   *)
AnswerDeliveredTwice ==
  /\ provisioning \in {"creating", "registering"}
  /\ answer # "none" /\ IsSet("completed")
  /\ provisioning' = "died"
  /\ UNCHANGED <<promises, answer, service, files, runtimeFile>>

ProvisioningByMain ==
  ProvisionDevice \/ CreateSubscribed \/ Created \/ RegisterSubscribed \/ Registered
    \/ WaitTimesOut \/ OpenRuntimeConfig \/ WriteRuntimeConfig
ProvisioningByEventLoop ==
  SubscriptionAck \/ PublishAck \/ AcceptedDelivered \/ RejectedDelivered \/ AnswerDeliveredTwice

-----------------------------------------------------------------------------
(* A runtime configuration on disk names a certificate whose files the     *)
(* device has and whose thing is registered, at every point at which the   *)
(* process may die: the next start takes it for the device's identity      *)
(* without asking again (FleetProvisioning.cpp:559-572, Config.cpp:2806).  *)
RuntimeConfigIsComplete ==
  runtimeFile # << >> =>
    /\ runtimeFile.cert \in certFiles \cap things
    /\ runtimeFile.key \in keyFiles \cup {"file", ""}
    /\ runtimeFile.key \in keyFiles => runtimeFile.key = runtimeFile.cert
=============================================================================
