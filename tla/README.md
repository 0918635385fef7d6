# TLA+ verification of the AWS IoT Device Client

The device client (`src/source/`) connects an IoT device to AWS IoT over one MQTT
connection and runs *features* on it: Jobs, Secure Tunneling, Device Defender, shadows,
sensor and Pub/Sub samples. This directory holds TLA+ modules of the client, from the
configuration it loads to the process that is killed and started again, the TLC runs that
check them, and TLAPS proofs about them.

* Check a run: `tlc -config JobsRecovery.cfg JobsRecovery` (all runs are listed
  under [Runs](#runs)).
* Check the proofs: `tlapm JobsRecovery_proofs.tla`, `tlapm JobUpdates_proofs.tla`,
  `tlapm TunnelContext_proofs.tla`, `tlapm TunnelSubscription_proofs.tla`,
  `tlapm TcpForward_proofs.tla`, `tlapm JobEngine_proofs.tla`, `tlapm Features_proofs.tla`,
  `tlapm DeviceClient_proofs.tla`.

Paths below are relative to `src/source/`.

## The system

### Threads

* **main** reads the configuration, connects, starts the features, waits for signals and
  calls `shutdown()`, which stops every feature (`main.cpp`, `FeatureRegistry.cpp`).
* **The CRT event loop** of the MQTT connection delivers every message, acknowledgement
  and `onConnectionResumed`, one at a time. It is modelled as one thread ("loop").
* **Feature threads**: the startup worker of Jobs, the engine thread of each job, one
  updater thread for each status update, the threads that sleep before a retry, the file
  monitors, the log writer. All but the Jobs worker are detached.

### Components

| Component | State it keeps | Operations | What makes it hard | What makes it correct |
|---|---|---|---|---|
| **Jobs, subscriptions** `jobs/JobsFeature.cpp` | ready flag, recovery generation, counter and mask of completions, failure flag, five startup promises, two mutexes | `start`, `runJobs`, the five acks, `onConnectionResumed`, `completeRecoverySubscription`, delayed retry, `stop` | session loss during startup or recovery, stale and duplicated callbacks, retry threads that outlive their generation, `stop()` at any moment | never serves with a subscription missing; no completion lost or counted twice; a failed recovery is retried until it succeeds; every ignored job is asked for again; `stop()` returns and is final |
| **Jobs, execution and updates** `jobs/JobsFeature.cpp`, `util/Retry.cpp`, `jobs/EphemeralPromise.h` | `handlingJob`, latest job, `updateJobExecutionPromises` | the message handlers, `tryStartJob`, `initJob`, `executeJob`, `publishUpdateJobExecutionStatus`, `exponentialBackoff`, the response handlers | detached threads, time-outs that race late answers, duplicate deliveries, promises swept by age, two flags read in opposite orders by `stop()` and by the end of a job | the outcome gets through; promises neither leak nor vanish under a waiter; the stop is announced; a job does not start after it |
| **Job engine** `jobs/JobEngine.cpp`, `JobDocument.cpp` | output buffers, error count | `exec_steps`, `exec_action`, `exec_cmd`, document validation | child processes, two pipes drained one after the other, signals, ignored failures | steps run in order, the first failure that is not ignored ends the job, before the final step too; no deadlock on a pipe; bounded output |
| **Tunneling, subscription** `tunneling/SecureTunnelingFeature.cpp` | started flag, recovery generation, oldest valid generation, life-cycle generation, contexts | `start`, `stop`, `onConnectionResumed`, the notification and ack handlers, retry | as for Jobs; notifications of several valid generations at once; a context created while `stop()` runs | one context per notification, none after `stop()`, recovery completes |
| **Tunneling, context** `tunneling/SecureTunnelingContext.cpp` | wrapper, TCP forward, stop flags, self reference | connect, stream start and reset, `StopSecureTunnel`, `ScheduleStop`, `QueueStop`, `OnStopped` | it must live until the SDK's last callback; stop may fail and is rescheduled | closed exactly once, released after the last callback, never before |
| **Tunneling, TCP** `tunneling/TcpForward.cpp` | connected and stopped flags, send buffer | `Connect`, `SendData`, callbacks, `RequestStop` | data before the connection is up, the buffer's limit, stop from another thread | data in order and complete, termination reported once |
| **Feature registry, main** `FeatureRegistry.cpp`, `main.cpp` | name to feature map, `attemptingShutdown` | `add`, `startAll`, `stopAll`, `onConnectionResumed`, `shutdown`, `deviceClientAbort` | a lock held while features stop, notifications to a snapshot | every feature stopped once, no deadlock with the event loop |
| **MQTT connection** `SharedCrtResourceManager.cpp` | connection, completion promises | `establishConnection`, `handleConnectionResumed`, `disconnect` | retry loop, callbacks into a stack frame | connects or gives up for a reason, disconnects before exit |
| **Logging** `logging/` | queue with a poison message, running flags | `queueLog`, `run`, `stop`, `shutdown`, `flush`, `reconfigure` | detached writer, replaced loggers, two consumers at shutdown | order kept, nothing logged before shutdown is lost |
| **Sensor publish** `sensor-publish/` | connection state, read buffer, message boundaries | connect, read, publish, close, heartbeat | reconnect timers, batches at the buffer's limits | no message is skipped, reconnects for ever |
| **Fleet provisioning** `fleetprovisioning/` | promises, paths, ownership token | keys or CSR flow, register, export | a chain of requests with time-outs, files left after a failure or a crash | the runtime configuration names only stored files of a registered thing; provisioned once |
| **Config shadow**, **sample shadow**, **Pub/Sub** `shadow/`, `samples/pubsub/` | promises, file watches | fetch, merge, update; file monitor | duplicate callbacks, files replaced while watched | valid sections only are merged; every change of the file is published |
| **Device Defender** `devicedefender/` | the SDK's report task | start, stop | cancellation calls `stop()` again | stopped once |
| **Configuration** `config/` | the plain configuration | load from JSON, command line, environment, runtime file; validate | four sources, overriding each other | an enabled feature is complete; an identity comes from one source |
| **Lock file** `util/LockFile.cpp` | the file | check, remove, create | two processes, a crashed one | one client per directory |

### How they interact

`main` adds the features to the registry and `startAll` starts them. The connection
manager forwards `onConnectionResumed` to the registry, which calls every active feature
from the event loop, outside `featuresLock`. Features report started, stopped and errors
to the notifier in `main`, which only logs (a debug build aborts on an error). Jobs and
Tunneling repeat the same recovery pattern: a *generation* counter invalidates callbacks
of earlier attempts, a *recovery* mutex guards the state for short blocks, and a
*subscription life-cycle* mutex is held while a recovery queues its calls and while
`stop()` tears down (`docs/implementation-notes.md`).

## Modules

### JobsRecovery

The life cycle of the Jobs feature's five subscriptions, with `start()`, `runJobs()`,
`onConnectionResumed()`, recovery, retry and `stop()`. Every variable named like a field is
that field; `completedRecoverySubscriptions` is the bit mask as a set, `startupResult` the
five `StartupSubscriptionResult` promises.

| Actions | Code |
|---|---|
| `start`, `launchJobsThread` | `JobsFeature::start`, the atomic exchange and the launch |
| `WorkerCreateClient` .. `WorkerFinishStartup` | `runJobs()`: the two first looks at `needStop`, the five calls with a look in between, the waits with their common deadline, the last block under both locks |
| `LockedPoll`, `LockedSubscriptionQueued`, `LockedSubscriptionRefused`, `LockedRequestRetry` | what the holder of `subscriptionLifecycleLock` still does: `resubscribeAfterSessionLoss` call by call, or the poll. Holder is the worker, the loop or a retry thread |
| `StartupAck`, `RecoveryAck`, `LoopRequestRetry` | the acknowledgement callbacks; the retry is requested in a second step because `connectionRecoveryLock` is released in between |
| `retrySubscriptionRecovery` | a retry thread wakes up |
| `onConnectionResumed`, `JobMessage`, `handleJob` | the callbacks of the connection; the job is handled in a second step, no longer under the lock |
| `StopSetFlag`, `StopTeardown`, `joinJobsThread` | `stop()`: the flag, the block under both locks, the join |
| `ConnectionLost`, `ConnectionResumes`, `Acknowledge` | the network and the broker (external) |

A block under `connectionRecoveryLock` that calls nothing that blocks is one action.
`subscriptionLifecycleLock` is a variable since it is held over several client calls, during
which callbacks run. `sessionSubscriptions` is what the broker's session holds: it loses
everything when the connection resumes without its session, and gains a subscription when a
call is acknowledged. `polls` and `ignoredJob` record what properties speak of.

Abstracted: the request contents; the handlers' callbacks hold weak references to the
feature, which is kept alive here; a queued call is acknowledged, with or without success,
but need not be while the connection is down; callbacks of queued calls are asynchronous, as
`docs/implementation-notes.md` states for the production SDK.

### JobsAvailability

The abstract specification: the feature is starting, recovering, serving or stopped, and
polls once each time it comes to serve. No generations, counters, locks or threads.
`JobsRecovery` implements it under the mapping `phaseOfJobs`; a poll belongs to the step
that returns to service after a recovery, and is a step of its own after the start and after
a resumption with the session.

### JobsRecovery_proofs

The theorems about `JobsRecovery` (below).

### JobUpdates

What happens to a job once a handler accepts it: admission, execution, status updates with
retries, and the announcement of the stop.

| Actions | Code |
|---|---|
| `JobArrives`, `CheckReadiness`, `tryStartJob`, `initJob` | `nextJobChangedHandler` (and `startNextPendingJobReceivedHandler`, alike) and what it calls, split where another thread can change what it reads |
| `JobEnds` | the engine thread after `exec_steps` |
| `StartAttempt`, `EndAttempt` | `Retry::exponentialBackoff` |
| `PublishUpdate`, `GetFuture`, `AnswerReceived`, `PromiseBroken`, `WaitTimesOut` | `publishLambda`, split at its four uses of `updateJobExecutionPromisesLock` |
| `ClearHandlingJob`, `NotifyStopped` | `shutdownHandler` |
| `updateJobExecutionStatusAcceptedHandler`, `..RejectedHandler` | the response handlers |
| `StopSetFlag`, `StopTeardown`, `StopNotify` | `stop()` |
| `PromisesExpire` | the system clock, which decides the age of a promise |

`terminated` records an exception that leaves a thread's function or an MQTT callback, which
ends the process (`std::terminate`). Steps merged because nothing can tell them apart: the
look at `needStop` with the sweep that follows it (they touch disjoint state), the insertion of a promise
with the publication, the end of a wait with the removal of the promise (an answer in
between is not looked at), `executeJob` with `initJob` (it only detaches a thread). Whether
the subscriptions are ready is chosen freely until the tear-down: `JobsRecovery` says when.
A job's document is valid or not; backoff times are not modelled.

### JobUpdates_proofs

The theorems about `JobUpdates` (below).

### TunnelContext

One tunnel of Secure Tunneling from its creation to its release. Fields keep their names
(a pointer is set or not; `mTcpForward` is the number of the stream whose forward it is, or 0);
`listed` says whether the context is in the feature's `mContexts`, `tasks` holds the tasks the
event loop accepted, `tunnel` and `running` are the SDK's tunnel and the open sockets.

| Actions | Code |
|---|---|
| `AddContext`, `RunSecureTunneling` | the handler of a notification, or `start()` without notifications, reaches the context |
| `CreateSecureTunnel` .. `StopAfterConnect`, `EraseContext` | `ConnectToSecureTunnel`, block by block, and the feature's reaction to its failure |
| `TakeContexts`, `StopSecureTunnel`, `StopReturns`, `DropFeature` | the feature's `stop()` and `FeatureRegistry::stopAll` |
| `RequestStop`, `ScheduleStop`, `ScheduleStopFails`, `UndoScheduleStop` | `StopSecureTunnel`, `ScheduleStop`, by either thread |
| `QueueStop`, `Close`, `CloseFails` | the task that closes the tunnel |
| `OnStopped`, `OnTunnelStopped`, `OnTunnelStoppedRetains`, `ReleaseAfterStopped` | the end of the tunnel and the task that releases the context |
| `OnStreamStart` .. `ConnectForwardFails`, `ForwardTerminates`, `DisconnectFromTcpForward`, `SendStreamReset` .. | the streams and their local connections |

A block under `mLifecycleLock` is one action; what follows it, a call of the SDK or of the event
loop, is another. `ContextIsHeld` collects every shared pointer to the context, which is what
its raw pointer in the SDK's callbacks relies on. The data that passes through changes no
state of the context and is left out; of a `TcpForward` there remains whether its socket is
open.

### TunnelLifecycle

The abstract specification of a tunnel: opened once or not at all, closed once and only
after a stop was requested, ended by a requested stop, its context held as long as the SDK may
call it. `TunnelContext` implements it under the mapping `phaseOfTunnel`, `heldContext`. A
task that the event loop refuses is part of it (`refused`): the context is then kept for good,
which is what the code chooses.

### TunnelContext_proofs

The theorems about `TunnelContext` (below).

### TunnelSubscription

The notification subscription of Secure Tunneling and the contexts it leads to. Fields keep
their names; `clientReady` says that `iotSecureTunnelingClient` is set; a context is named by
its place in the order of creation, so that `mContexts` is a set.

| Actions | Code |
|---|---|
| `start`, `RunSecureTunneling`, `SubscriptionQueued`, `SubscriptionRefused`, `MainRequestsRetry` | `start()`: its block, the block of `RunSecureTunneling`, and the call of `SubscribeToTunnelNotifications`, under no lock |
| `StopTeardown`, `StopSecureTunnel`, `StopReturns` | `stop()` |
| `TakeSnapshot`, `onConnectionResumed` | `FeatureRegistry::onConnectionResumed` in two halves: the snapshot under `featuresLock`, and the call of the feature |
| `retrySubscriptionRecovery`, `LockedSubscriptionQueued`, `LockedSubscriptionRefused`, `LockedRequestsRetry` | the recovery by the event loop or by a retry thread, which holds `mSubscriptionLifecycleLock` |
| `Subscribed`, `SubscriptionFails`, `LoopRequestsRetry` | `OnSubscribeComplete` |
| `Notification`, `ExamineNotification`, `AddContext`, `ConnectToSecureTunnel(Fails)`, `EraseContext` | `OnSubscribeToTunnelsNotifyResponse`, split at its blocks under `mConnectionRecoveryLock` |
| `OnTunnelStopped` | the end of a tunnel |
| `SendSubscribe`, `ConnectionLost`, `ConnectionResumes` | the MQTT client and the network (external) |

The client sends requests in the order they were queued, and a later handler of the topic
replaces an earlier one (`handler` is the generation of the one in place): which
generation a notification reaches is what `RecoveriesAreHeard` and `NotificationsAreHeard` are about.
The history variable `overtaken` says that the request of `start()` was queued behind a newer one. Of a
context there remains its phase, as in `TunnelLifecycle`, which each of them goes through
(`ContextsFollowLifecycle`) as `TunnelContext`, which has the rest of it, does. Notifications are valid ones: the
checks of their contents return early without effect.

### TcpForward

The local TCP connection of a tunnel: `TcpForward.cpp` with the socket it owns. A payload is its
number and length; `written` is what the socket took over, in order.

| Actions | Code |
|---|---|
| `Connect`, `SendData`, `SendDataFails` | the calls of the context |
| `OnConnectionResult(Fails)`, `SubscribeToReadableEvents(Fails)`, `FlushSendBuffer(Fails)` | `OnConnectionResult`, block by block: between two blocks another thread may call `Stop()` |
| `OnReadable(Fails)`, `sOnWriteCompleted` | the socket's callbacks |
| `StopAtOnce`, `StopFromOtherThread`, `RunStopTask`, `OnStopTaskCanceled` | `RequestStop` in its two forms, and the task, which may be cancelled |
| `PeerSends`, `PeerCloses` | the local program (external) |

`TunnelContext` has of this the fact that a socket is open.

### LocalConnection

The abstract specification of a local connection: opened once or not at all; the payloads of
the tunnel are passed on from the first one, in order and without a gap, while the connection is
open and its owner holds it; once the owner has let go of it, it takes nothing more and only ends.
`TcpForward` implements it (`ImplementsConnection`: `phaseOfForward`, the owner's pointer, the
numbers of the payloads). `TunnelContext`, which leaves the data out, takes of each of its local
connections the same steps (`ForwardsFollowConnection`), so that what the one module assumes
of a connection is what the other one promises.

### TunnelSubscription_proofs, TcpForward_proofs, JobEngine_proofs, Features_proofs, DeviceClient_proofs

The theorems about the modules of these names; `Features_proofs` is about `Sensor` and
`FileMonitor`, and `DeviceClient_proofs` also about `LogPipeline`, the log of the same process
([Proofs](#proofs)).

### LogPipeline

The client's own log: the threads that log, `LogQueue`, the detached writer of the
logger, its replacement by `LoggerFactory::reconfigure`, and `shutdown()` with `flush()`. Each
access under `queueLock` is one action; the writer (`WriterBegins` .. `WriterWrites`) and main
(`Shutdown` .. `EndShutdown`) are the two consumers. Messages are numbered in the order in which they are queued; message 0 is the null message that
`LogQueue::shutdown` puts in front. `FileLogger` and `StdOutLogger` differ in the look at
`isRunning` and in `start`, which only the first can fail. `LogInit`, `LogNext` and `LogSpec` are the
specification, `MainThread` and `WriterThread` its fair parts.

### Sensor

One sensor of Sensor Publish. A byte is its position in the sensor's stream, so that the buffer is
a first position and a length, and "published" and "discarded" are sets of positions; `InOrder` lists
the ends of messages found in a read in ascending order, as the search for the delimiter does.
`Publish` is `needPublish` and the loop of `publish`; `Read`, `ReadWouldBlock` and
`ReadFindsClosed` are one round each of the loop in `onReadableCallback`; the connection is
`Start`, `onConnectTaskCallback`, `onConnectionResultCallback`, `ConnectionFails`; the heartbeat
`StartHeartbeat`, `publishHeartbeat`, `HeartbeatCompletes`; `stop()` is three steps of main
between the event loop's, because the two share the fields without a lock.

### JobEngine

The thread that executes one job document, and one child process at a time. `RawDocuments` are
the documents that may arrive, `LoadFromJobDocument` and `Valid` what `PlainJobDocument` makes of
them; `NextAction`, `BuildCommand`, `VerifySudoAndUser`, `Spawn`, `ReadLine`, `EndOfFile`, `Wait`
follow `exec_steps`, `exec_action` and `exec_cmd`; `addString` is the buffer of the kept output,
with `Totals` of the lines' sizes for the loop that removes the oldest ones.
The child writes, blocks on a full pipe, exits or is killed (external).

### FileMonitor

The inotify threads of the sample shadow and of the Pub/Sub sample, which are the same code but
for `IN_DELETE_SELF` and what is published at the start; `feature` says which. A file is an
inode behind a name, its content a version. `WatchDirectory` .. `Exit` follow `runFileMonitor`,
with `queue` and `batch` the events that wait and those `read()` returned; `StartFeature`
.. `Stop` are main, and `MonitorSpec` the specification; `FileCreated` .. `FileReplaced` what any program may do (external).

### ConfigLoading

`Config::init`. A section is a function of its fields, and each value is one of those that
`Validate()` tells apart (a path that is good, gone, or unsafe; a number inside or
outside of its range). Loading is `given @@ section`: per section `..FromJson` (some read their
fields only when the file enables them), `..FromCli`, `Valid..`. The steps `ParseCliArgs`,
`ParseConfigFile`, `LoadCliArgs`, `LoadFromEnvironment`, `ParseRuntimeConfig`,
`ParseProxyConfig`, `ValidateConfig` keep the order of `init`. `Focuses` bounds the inputs: each
start departs from a plain configuration in one section, in every way of the file
and the command line together, or in provisioning with the secure element.

### BlockingRequest, FleetProvisioning, ConfigShadow

How the start of the client talks to AWS IoT: main queues a request and waits with a deadline for
promises that callbacks fulfil (`BlockingRequest`; a promise set twice throws on the event loop
and ends the process). `FleetProvisioning` is `ProvisionDevice`: a certificate with its key or for
a signing request (`ProvisionDevice`, `CreateSubscribed`, `Created`), the thing
(`RegisterSubscribed`, `Registered`), the runtime configuration (`OpenRuntimeConfig`,
`WriteRuntimeConfig`: opening the file empties it), with the service and its handlers
(`ServiceAnswers`, `AcceptedDelivered`, `RejectedDelivered`, `AnswerDeliveredTwice`).
`ConfigShadow` is `reconfigureWithConfigShadow`: subscribe, fetch, `ResetConfig`, update.

### LockFile

Several processes on one lock file: `LockCheck`, `LockRemove`, `LockCreate`, `LockFill` are what
the constructor does in turn, `LockRelease` is the destructor, `LockCrash` a process that dies.

### DeviceClient

The composition: it extends `ConfigLoading`, `FleetProvisioning`, `ConfigShadow` and `LockFile` and
adds main, the connection (`SharedCrtResourceManager.cpp`), the registry and a process that is
killed and started again.

| Actions | Code |
|---|---|
| `LoadConfig`, `BeginInit`, `TakeLock`, `Initialize` | `main()` up to the client |
| `EstablishConnection`, `ConnectionCompleted`, `Connected` | `attemptConnection` and its retries, for the claim identity, for the configuration shadow and for the features (`goal`) |
| `Provision`, `StoreRuntime`, `Reconfigure`, `Reconfigured` | the two modules in place |
| `Disconnect`, `DisconnectCompleted`, `Disconnected` | `disconnect()` |
| `AddFeatures`, `StartFeature`, `SampleShadowAck`, `SampleShadowStarted`, `AllStarted` | `startAll`, which holds `featuresLock`; the sample shadow waits for its subscriptions inside |
| `SignalReceived`, `StopFeature`, `AllStopped`, `Exit` | `shutdown()` and `stopAll` |
| `Outage`, `HandleConnectionResumed`, `CopyActiveFeatures`, `NotifyFeatures`, `WorkerEnds` | the connection resumed: the snapshot under the lock, the calls after it, and the worker Jobs starts |
| `Ends`, `Killed`, `Dies`, `Restart` | the process |

Of a feature there remains its place in the registry; the modules above say what it does.

## Runs

| Run | Question | Bounds |
|---|---|---|
| `jobs_recovery` | Are completions, retries and locks accounted for in every interleaving? With the network's help, does every recovery end, is every ignored job asked for again, is the abstract life cycle implemented? | 2 subscriptions, 1 outage, 1 failure, 1 duplicate |
| `jobs_updates_safety` | Do the promises match the waiters, can a job slip past the stop? | 2 jobs (1 invalid), 2 admissions, 2 retries, 1 failure, 1 clock step: 4.6 million states |
| `jobs_updates_live` | Does the outcome of a job get through, and is every stop announced? | 1 admission, 2 retries, 2 failures, 1 duplicate |
| `tunnel_context` | Is a stop carried out once, whoever asks for it and whatever fails? Does the context outlive the callbacks? Is the abstract life cycle implemented with its fairness? | 3 streams, 3 failing calls, 2 refused tasks: 10 000 states |
| `tunnel_subscription` | Is the feature subscribed or recovering at any time, and subscribed in the end? Does it hear the current session's handler? Does `stop()` reach every tunnel? | 2 notifications, 2 deliveries, 2 outages, 1 failure: 459 000 states |
| `tcp_forward` | Is data kept in order, is a loss ever silent, do the callbacks find their object, does a stop end? | buffer of 4, 5 payloads of length 1 or 2, 2 pieces received |
| `job_engine` | Which failure ends a job, does the output stay bounded, does a step end with its child? | up to 2 steps, pipes of 1 line, 4 lines, buffer of 3: 222 000 states |
| `separate_parts` | Sensor: is every byte published or given up on purpose, does the sensor keep trying? File monitor: is a change of the watched file noticed in every order of events? Log: do two consumers and a change of logger keep the messages and their order, does the shutdown return? | sensor: buffer of 3, batches of 0 (all), 1 or 2 messages, 4 bytes, 1 failure; file: 3 inodes, 3 versions, 1 message; log: 4 messages; together 444 000 states |
| `device_client` | Through crashes and restarts: valid configuration, whole identity, one provisioning; do start, shutdown and the notice of a resumed connection end? | 2 starts, 2 certificates, 1 outage, one section configured freely: 360 000 states |
| `lock_file` | Two clients at once; see [Findings](#findings) | 2 processes |
| `tunnel_start` | A resumption in the middle of `start()`; see [Findings](#findings) | 1 outage |
| `job_engine_limit` | What `allowStdErr` promises; see [Findings](#findings) | 1 line of errors, limit 0 |

`SeparateParts` checks three modules in one run. They share no variable and call nothing of each
other, so that interleaving them would only multiply the states: each behaviour of the run is one of
`Sensor`, `FileMonitor` or `LogPipeline`, in any of its configurations and under its own fairness, while
the other two have not begun.

**Why the bounds are enough.** Two subscriptions are a first and a last one: the code treats
the five alike apart from the number expected, and one that is neither adds no case. One outage
with one failure and one duplicate gives every callback of an abandoned attempt; the proofs hold
for any number. Two jobs are needed for two that overlap, with four updaters sharing the map; two
retries for a last and a first attempt. Three streams are needed for a forward that outlives its
stream and one more after it; three failures for a stop that is tried again and again; two
deliveries for a duplicate and for two tunnels. A buffer of 4 with payloads of 2 fills exactly and
overflows by one. Four messages give one in each hand, one queued and one written. A sensor's buffer
of 3 is one that fills up with, and without, a delimiter, and that holds two batches; a fourth byte
makes it wrap. Pipes of one line block a child with its second. Three inodes make one that is
replaced while another is watched. Two starts are a crash and what the next start makes of what it
finds, and two certificates are one more than a device should ask for.
Counters are bounded in the guards by `MaxOutages`, `MaxFailures`, `MaxDuplicates`,
`MaxAdmissions`, `MaxClockSteps`, `MaxStreams`, `MaxScheduleFailures`, `MaxDeliveries`,
`MaxPayloads`, `MaxLength`, `MaxReceived`, `MaxMessages`, `MaxBytes`, `MaxLines`, `MaxInodes`,
`MaxVersions`, `MaxTriggers` and `MaxStarts`, and `MAX_SENSOR_SIZE` is 2 instead of 10. In
`device_client` a later start is configured in the same section as the first.

**Deadlock** is checked in `jobs_recovery`, where only a returned `stop()` may be
the end (`Stopped`), and in the runs of the tunnel's context and subscription, where `Finished`
describes the end: nothing left to do after `stop()`. In the others the system may stop:
a process that has ended, a job that is over, a thread that waits for an event
nobody has to cause. There the liveness properties say what must not hang.

**Fairness.** A runnable thread runs and a free mutex is acquired at last; weak fairness of each
thread says so.

* `JobsRecovery`: `ThreadFairness`. No thread holds the life-cycle mutex for ever and only finitely
  many acquisitions compete. `NetworkFairness` (the CRT client reconnects for ever and resends, the
  broker acknowledges what it receives) is the hypothesis of the properties that need it and not
  part of the specification. Failures are finite because they are bounded: a broker that
  refuses for ever keeps the feature recovering for ever, as it should. `TunnelSubscription`
  assumes the same, as part of its specification.
* `JobUpdates`: the response the broker owes is delivered under strong fairness, since the loop
  that delivers it may be occupied with other messages again and again but takes them in order.
* `TunnelContext`: the tasks of the event loop run under strong fairness for the same reason, and
  the SDK reports the end of a tunnel it was told to close.
* `TcpForward`: the event loop finishes its callbacks, runs or cancels its tasks and reports
  data that can be read.
* `LogPipeline`: main, and the writer, go on. `Sensor`: the event loop goes on with the read
  loop. `JobEngine`: the engine's thread runs, a child whose pipe has room goes on and some day
  ends. `FileMonitor`: the monitor's thread, while it has an event to read.
* `DeviceClient`: main, the event loop and the worker go on, and the deadline of a wait passes.

Nothing makes a job arrive, a wait time out early, the clock step, a stream start, `stop()` begin,
a signal arrive, the service answer, or an interrupted connection resume or close.

## Properties

`JobsRecovery`

* `ServingMeansSubscribed`: while a handler would accept a job, the broker's session holds
  every subscription, unless the loss of the session is still to be handled.
* `NoCompletionIsLost`: a recovery's counter agrees with its mask, and each completion still
  counted on is in flight or still to be queued.
* `RecoveryIsNeverAbandoned`: when subscriptions need recovery, an attempt is under way or a
  retry of the current generation is on its way, through every hand-over between threads.
* `RecoveryCompletes`, `IgnoredJobsArePolled` (liveness), `ImplementsAvailability` (refinement).
* Proved only: `QueueingIsNotOvertaken` (the life-cycle mutex does what
  `docs/implementation-notes.md` says of it), `PollsOnlyWhenServing`,
  `JobsHandledOnlyWhenServing`, `StopIsFinal`.

`JobUpdates`

* `PromisesMatchWaiters`: the map holds the promises of the waiting updaters and no other.
* `AtMostOneLateJob`: only the handler that was already running when `stop()` began may still
  start a job.
* `StopIsAnnounced`: `stop()` and the end of a job each set one flag and look at the other's; one
  of them announces the stop. `StopIsNotForgotten`, its invariant, is proved.
* `OutcomeIsReported`: the outcome of a job gets a conclusive answer.

`TunnelContext`

* `CallbacksFindContext`: whenever the SDK may call through its raw pointer, somebody holds the
  context, also after the feature is gone.
* `StopIsNotLost`: a requested stop is always in somebody's hands until the tunnel ends,
  through the window while `Connect()` is being called and through tasks and calls that fail.
* `ImplementsLifecycle`, `KeepsLifecycle` (refinement: its steps, and its fairness).
* Proved only: `LocalDataFindsTunnel`, `OneLocalConnection`, `ClosedOnce`, `TasksOwnContext`.

`TunnelSubscription`

* `SubscribedOrRecovering`: the feature is never deaf without knowing it.
* `RecoveriesAreHeard`: while the feature counts on its subscription, the installed handler is of a
  generation that is accepted; the exception is a request of `start()` that a recovery overtook.
  So no acknowledgement, failure or retry of an older generation makes the feature believe that it
  hears. `NotificationsAreHeard`, without the exception, fails (`tunnel_start`).
* `StopReachesEveryContext`: no tunnel survives a `stop()` that it raced with.
* `RecoveryCompletes`.

`TcpForward`

* `DataIsKeptInOrder`: what `SendData` took is what was written followed by what is buffered.
* `LossEndsTheConnection`: a payload that could not be taken ends the connection, and the owner
  learns of every end but the one it asked for, of the peer's close only after the peer's data.
* `CallbacksFindForward`: the raw pointer of the socket's callbacks is good.
* `StopCompletes`: a requested stop is carried out, and the peer's data does not stay unread.

`LogPipeline`: `OrderIsKept` (but for one message, the one in the writer's hand when `flush()` passes
it), `LogIsFlushed` (each message is in one place, and `shutdown()` writes what was logged before it),
`ShutdownReturns`.

`Sensor`: `NoMessageIsSkipped` (and the recorded ends are exactly those still to be published),
`NeverGivesUp` (one attempt to connect or one connection, never two), `ReadLoopEnds`.

`JobEngine`

* `FailureEndsTheJob`: the actions are executed in their order; a failure that is neither ignored nor of a
  command under `allowStdErr` is the last and fails the job; a job fails only by an action that failed; one
  that succeeds has executed its whole document. What is left open, a command under
  `allowStdErr`, is where `SuccessIsWithinLimit` fails (`job_engine_limit`).
* `OutputIsBounded`; `StepEnds` (but for a child that fills stderr while stdout is read, which hangs).

`FileMonitor`: `ChangesAreNoticed` (the content has been published, or an event that will have it
published still waits, whatever was created, written, deleted or replaced in between),
`StopEndsMonitor`.

`DeviceClient`

* `FeaturesRunValidConfig`: what provisioning stored and the shadow replaced is valid too.
* `RuntimeConfigIsComplete`: a runtime configuration on disk names stored files and a registered
  thing, at every point at which the process may die.
* `IdentityIsWhole`: a connection is made with the claim's whole identity or with the whole one of the
  runtime configuration on disk, and never mixes the certificate, key and thing of the two.
* `ProvisionsOnce`: a device with a runtime configuration never asks for another certificate.
* `StartupEnds`, `ShutdownEnds`, `NoticeEnds`: although `startAll` and `stopAll` hold
  `featuresLock` while features wait for the event loop, which itself waits for that lock.

`LockFile`: `OnlyOneInstance`, which fails (`lock_file`).

## Proofs

`JobsRecovery_proofs` proves, for every number of subscriptions and every bound:

* `InductiveInvariant`: `Spec => []IndInv`. None of the safety invariants is inductive as it
  stands. `IndInv` adds what the mutexes and program counters imply: `LockInv` (who holds the
  life-cycle lock is at the point where it was taken, the holder's generation is the current one,
  nobody holds it after the tear-down), `ThreadInv`, `PendingInv` (a recovery counts
  subscriptions that need recovery) and `SessionInv` (what was acknowledged since the session was
  last lost is in the session; this is what carries `ServingMeansSubscribed`
  over the last acknowledgement of a recovery and over the end of startup). The step proof has
  one lemma per part and in it one step per action; cardinalities are kept to two lemmas
  (`CompletionAccounting`, `CompletedIsFull`).
* from it `TypeCorrect`, `ServingIsSubscribed`, `CompletionsAreKept`,
  `RecoveryIsCarriedOn`, `QueueingIsSerialized`, and the action properties
  `PollsAreServed`, `StoppingIsFinal`, `JobsAreHandledWhileServing`;
* `ImplementsAvailabilitySafely`: `Spec => ImplementsAvailability`, each step maps to a step of
  `JobsAvailability` or to a stutter.

`JobUpdates_proofs` proves, for any set of jobs and every bound:

* `InductiveInvariant`. To `PromisesMatchWaiters`, `StopIsNotForgotten` and the types,
  `IndInv` adds `JobInv` (nothing of a job exists before it is initialized, and its outcome is not
  reported before its engine has ended, so that detaching an updater never takes one that waits
  out of the map), `ClockInv` (no promise has expired before the clock steps), `LateInv` (a
  job that starts late is the one whose handler was running) and `HandlingInv` (while
  `handlingJob` is set some job still has its `shutdownHandler` to run; this is what `stop()`
  relies on when it leaves the announcement to a job).
* from it `TypeCorrect`, `PromisesAreMatched`, `OneLateJob` and `StopIsRemembered`.

`TunnelContext_proofs` proves, for any number of streams and failures, whoever connects:

* `InductiveInvariant`. The parts of `IndInv` follow the code's phases: `ConnectInv` (which
  fields `ConnectToSecureTunnel` has set at each of its points), `TunnelInv` (the fields of a
  live and of an ended tunnel), `StopInv` (who may be scheduling, undoing or running the
  stop; at most one thread undoes), `LoopInv` (the event loop does one thing at a time) and
  `HeldInv` (`mLifetimeKeepAlive` is set exactly while a tunnel that was asked to stop, or has
  stopped, is not released). `HeldInv` is what makes `CallbacksFindContext` a consequence.
* from it `TypeCorrect`, `CallbacksAreSafe`, `LocalDataIsSafe`, `LocalConnectionIsUnique`,
  `StopIsCarriedOut`, `ClosingOnce`, `TasksHaveOwner`;
* `ImplementsLifecycleSafely`: `Spec => ImplementsLifecycle`;
* `ForwardsImplementConnection`: for each stream, every step is one of `LocalConnection` or changes nothing of
  it. One part of `LoopInv` is there for it: no forward is in place when one is adopted.

The tunneling modules each leave out most of what another one models. Four theorems tie them
together through two abstract specifications: the contexts of `TunnelSubscription` and
`TunnelContext` share `TunnelLifecycle`, the local connections of `TunnelContext` and `TcpForward` share
`LocalConnection`. What they share is safety; the fairness is that of each module.

`TunnelSubscription_proofs` proves, for any notifications, deliveries and bounds:

* `InductiveInvariant`. `SubscribedOrRecovering` speaks of the generation main works on; `SubscribedInv`
  strengthens it to the current one, with `LockInv` (who holds the life-cycle lock, and for which
  generation) and `MainInv` (what `start()` has set at each of its points). `StartInv` says that only a
  recovery of a newer generation can precede the request of `start()`, and that its handler is in place
  once it has completed. `OrderInv` says that requests are queued and sent in the order of their
  generations, all but that one (`Late`), which the history variable `overtaken` marks: every
  comparison of two requests leaves it out. `ContextInv` says that a tunnel that may be open is listed, and after
  `stop()` took the list, asked to stop or still to be asked.
* from it `TypeCorrect`, `SubscribedOrKnowing`, `StopReachesAll` and `HandlerIsAccepted`;
* `ContextsImplementLifecycle`: every context of the feature takes the steps of `TunnelLifecycle`.

`TcpForward_proofs` proves, for any buffer, payloads and failures:

* `InductiveInvariant`. To the order of the data `IndInv` adds `SocketInv` (a socket in use belongs to
  a forward that holds itself and is not stopped) and `EndInv` (who ended the connection, and
  why). The sequences are kept to a few lemmas: what `Numbers` makes of an appended payload and of an
  empty buffer (`NumbersOfAppend`, `NumbersOfNone`), and that a part of a concatenation is its prefix.
* from it `TypeCorrect`, `CallbacksAreSafe`, `DataIsOrdered`, `LossIsNotSilent`;
* `ImplementsLocalConnection`: `Spec => ImplementsConnection`. The step proof needs `ConnectionInv` too: what
  `SendData` took are the payloads from the first one (`PayloadsGrow` says what one more makes of
  them), and only a forward that has stopped has cleaned its socket up.

`JobEngine_proofs` proves, for any document, limits and children:

* `InductiveInvariant`. `ResultsInv` says what is recorded while the document is executed: there is a
  result of every action that was begun but the one in hand, in the order of the document; a failure
  among them is the last, and the status is 0 exactly while there is none. `EndInv` ties the end of the
  job to that status.
* from it `FailureIsFinal`;
* `OutputStaysBounded`: that the count of the kept output is the sum of what is kept is an invariant by
  itself (`BufferInv`). What `addString` leaves after it removed the oldest lines follows from what
  `Totals` does of a part of the lines (`TotalsOfPart`, `SumAfterDrop`), which is an induction over the lines
  (below).

`Features_proofs` proves, for any socket and any configuration of a sensor:

* `InductiveInvariant`. `NeverGivesUp` counts attempts and connections; `LinkInv` names the three places
  in which every callback, the error paths included, must leave the link (a scheduled task, an
  attempt under way, an open connection) with the `mState` of each, without which `connect()` would return
  at once. `StartInv` and `HeartbeatInv` say what `start()` finds and that the heartbeat is scheduled again
  only when its publication completes.
* from it `SensorPersists`;
* `SensorSkipsNoMessage`, inductive with the types of the buffer (`BufferInv`). The lemmas say that `InOrder`
  lists a set in order (`InOrderLists`), that the scan of a read records every delimiter in it
  (`ScanFindsAll`), and that the batches of a publication leave out no byte before the end of the last
  of them (`BatchesCover`).

and, for any number of changes of a watched file and any failures of the calls:

* `MonitorInvariant`: `NoticeInv` extends `ChangesAreNoticed` to the whole life of the thread, from the first
  publication, and `BatchInv` says when the batch is empty: an event that is not handled yet must not be
  lost when `read()` fills it.
* from it `FileChangesAreNoticed`.

`DeviceClient_proofs` proves, for any certificates, processes, crashes and lost or repeated answers:

* `InductiveInvariant`. `LoadInv` says that once the configuration is loaded, a runtime configuration that
  was on disk is in it, so that (`GoalInv`) main does not set out to provision. `ProvisionInv` follows
  `ProvisionDevice`: there is no runtime configuration until the last step writes it, the
  certificate and its key are stored once the answer to the first request was taken over
  (`HasCredentials`), and the thing is registered once the answer to the second was.
* from it `RuntimeConfigIsWhole` and `NeverProvisionedAgain`;
* `ConfigIsValidForFeatures`, with a second invariant, `ConfigInv`: every way of loading keeps the sections,
  the fields of the identity and the type of the sensors; `Validate` holds of what validation
  made of the configuration (it disables sensors itself, `KeptTwice`), a section of the shadow
  replaces a valid one only by a valid one (`ResetKeepsValid`), and the stored runtime
  configuration, complete by the first invariant, keeps the identity valid (`StoredIsValid`);
* `ConnectsWithWholeIdentity`, with a third, `IdentityInv`: until `Validate()` the identity is what the
  operator gave, which may be a part of the claim (`OperatorGave`), or the runtime
  configuration's; `Validate()` makes it the whole claim (`AcceptedIsWhole`: the key may be missing only with a
  secure element), and storing the runtime configuration replaces all three values or, when the file lacks one,
  none (`StoredIdentity`). A crash between the last write of provisioning and the reload is a case of it.

and, for any number of messages of the client's log:

* `LogInvariant`: `LogPhases` (which thread is where, and what it holds), `LogPlaces` (a message is
  written, in one hand, or queued, and what waits is later than what was taken), `LogOrder` (which message
  may be out of order, and that there is none before the shutdown) and `LogPromise`.
* from it `LogOrderIsKept` and `LogLosesNothing`.

Induction. The library's induction theorems take an operator as a parameter, which the installed
provers cannot instantiate. Two lemmas stand in for them where a sum or a list is
computed: a set of numbers that is not empty has a least element (`LeastNumber`, from the theorems about
finite sets), so that a set of numbers which contains 0, and with each number the next one, contains all
(`NumberInduction`). What is proved by induction is therefore stated as a set of numbers. The two are in
`JobEngine_proofs` and in `Features_proofs`, which need nothing else of each other.

Assumed: the assumptions on the constants of each module only (at least one subscription, natural
bounds, at least one retry, enough process identifiers; an identifier of a certificate is none of the
other values that a path or an answer may have). Every invariant and
every action property that a run checks and that holds is proved. Only model-checked: liveness, and with it
the fairness of the abstract specification of the life cycle (`KeepsLifecycle`), which the prover does not
handle; that `OnlyOneInstance`, `NotificationsAreHeard` and `SuccessIsWithinLimit` fail are counterexamples, and
need no proof.

## Findings

The run `lock_file` shows with a short counterexample that two processes which look for the lock
file before either creates it both start (`LockFile.cpp:59` only logs that the file is there by
then), although `main.cpp:335` says that `init()` makes sure of one instance.

The run `tunnel_start` shows a feature that stays deaf. `FeatureRegistry::onConnectionResumed`
notifies a snapshot of the features after it released `featuresLock`, so that a resumption with a lost
session may be handled between the block of `RunSecureTunneling` that takes generation 1
(`SecureTunnelingFeature.cpp:230`) and the subscription with it (234). Recovery then queues generation 2
first, the request of generation 1 replaces its handler in the client, and the acknowledgement of 2
makes `mOldestValidSubscriptionGeneration` 2: every notification reaches the handler of generation 1
and is ignored as stale, until the session is lost again. `SecureTunnelingFeature.h:265` calls that
field the "Oldest notification handler generation that can still belong to the current MQTT session".

The run `job_engine_limit` shows a job that succeeds although `jobs/README.md:327` says that with
`allowStdErr` it does so "if the return code of the process is 0 AND there are fewer than or equal to 2
(two) lines of standard error output". `exec_action` (`JobEngine.cpp:208-223`) looks at the number of
lines only when the return code is 0, and then assigns that 0: a return code other than 0 is dropped,
and no number of lines fails the job. Without `allowStdErr`, for which the same README
says (318) that any line on stderr fails the job, it is the return code alone that counts.

### Observations

Met while modelling, and kept in the models as the code has them:

* `handlingJob` (`JobsFeature.h:144`, `.cpp:863`) is cleared by the end of any job, also while
  another one executes. A rejection whose token is no longer known is logged and then looked up
  with `at()` (677), which throws. A response delivered twice sets its promise twice (639), which
  throws. Promises are aged on the system clock (`EphemeralPromise.h:54`): a clock step makes one
  updater sweep the promise another one waits on (747).
* A tunnel's context does not remember its notification (`SecureTunnelingContext.h:309` says it
  does), so that the first repetition opens a second tunnel (`SecureTunnelingFeature.cpp:378`).
* A child that fills the stderr pipe before it closes stdout blocks the job, which reads stdout
  to its end first (`JobEngine.cpp:327`).
* `WEXITSTATUS` of a child that was killed is 0: the step succeeds (`JobEngine.cpp:340`).
  `jobs/README.md` shows `"includeStdOut": true`, and `JobDocument` loads only a string.
* When a sensor's buffer holds several batches, the later ones are as long as the position of their
  end (`Sensor.cpp:320`): they repeat bytes, and end past the last complete message. `stop()` cancels no task of the sensor.
* What is written to a watched file between its publication and the watch on the new
  inode is not noticed (`PubSubFeature.cpp:200`). The sample shadow goes on after a failed
  subscription: it is announced as stopped and then as started.
* The lock file's destructor removes whoever's file has the name (76), a process identifier that was
  given again refuses the start, and the removal of a stale file may remove a new one (48).
* With a signing request and a secure element the runtime configuration has an empty key:
  the start aborts, and the next one skips provisioning and uses the claim identity
  (`main.cpp:369`). A secure element ends the start in every build (409-441). A signing
  request without `deviceKey` dereferences an unset value (`FleetProvisioning.cpp:519`).
* The logger's thread is started before main blocks the signals (`main.cpp:352`), so that a
  signal may end the process instead of waking `sigwait()`. The wait for a connection has no deadline
  (`SharedCrtResourceManager.cpp:495`), and its retry no end (`main.cpp:183`).
* A shadow document without `desired` ends the process (`ConfigShadow.cpp:52`); answers to other
  clients' requests count as own ones; the update is not persisted and may overwrite a newer
  desired state (391); a tunneling section replaced by the shadow loses what it does not carry.
* A sensor without a topic throws instead of being disabled (`Config.cpp:2379`).

## Not modelled

Left out for good: the SDK wrappers (pass-through); path, permission and string helpers (I/O
and formatting without state of their own); the wording of logs and messages; the integration
tests. In the modelled parts:

* the event handler of the sample shadow, which stores the document in a file that no other part
  reads, and its delta handler, which only publishes; the payload that Pub/Sub stores;
* Device Defender's task, which is the SDK's, with its cancellation callback;
* the export of default settings and the serialization of the configuration, which write
  what was loaded;
* the lifetime of the Jobs object after `FeatureRegistry::stopAll` has dropped it (detached threads
  hold a raw `this`);
* the order in which the broker sees IN_PROGRESS and the outcome; backoff durations;
* a connection of the MQTT client that never completes, and the late callback of a closed one.

## Plan

What remains, the most important first:

1. An abstract specification of `TunnelSubscription` in the manner of `JobsAvailability`.
2. The exchange of the sample shadow with the service, and the cancellation of Device Defender's
   task.
