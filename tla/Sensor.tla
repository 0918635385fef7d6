-------------------------------- MODULE Sensor --------------------------------
(***************************************************************************)
(* One sensor of Sensor Publish (src/source/sensor-publish): it connects   *)
(* to a local socket, reads until nothing is left, cuts what it read at    *)
(* the message delimiters, publishes complete messages in batches, and     *)
(* connects again after every failure.  HeartbeatTask publishes while the  *)
(* sensor is connected.                                                    *)
(*                                                                         *)
(* The connect task, the heartbeat task and the callbacks of the socket    *)
(* and of the MQTT client run on the event loop, one at a time; the read   *)
(* loop is one action for each read.  stop() runs on main, which shares    *)
(* the fields without a lock: it falls between two of these actions.       *)
(*                                                                         *)
(* A byte is its position in the sensor's stream; mReadBuf holds a         *)
(* contiguous part of the stream.                                          *)
(***************************************************************************)
EXTENDS Naturals, Sequences, FiniteSets

CONSTANTS
    Capacity,        \* bufferCapacity
    BufferSizes,     \* values of bufferSize, the messages of a batch; 0 for all
    MaxBytes,        \* bound: bytes the sensor sends
    MaxFailures      \* bound: failures of the connection

ASSUME ConstantsAssumption ==
    /\ Capacity \in Nat \ {0} /\ BufferSizes \subseteq Nat /\ MaxBytes \in Nat /\ MaxFailures \in Nat

VARIABLES
    bufferSize, expires, \* the settings: messages of a batch; bufferTimeMs may pass
    ends,                \* the bytes of the stream that end a message
    mState,              \* "NotConnected", "Connecting", "Connected"
    first, length,       \* mReadBuf: the stream position of its first byte, and its length
    mEomBounds,          \* one past each end of a message, relative to the buffer
    socket,              \* "none", "connecting", "open", "closed"
    connectTask,         \* times mConnectTask is scheduled
    loopPc,              \* "idle", or "reading" in onReadableCallback
    available,           \* bytes that wait in the socket
    published, discarded,  \* bytes passed to the MQTT client, bytes given up
    mStarted, heartbeatTask, heartbeatInFlight,
    sensorPc,              \* "starting", "running", "closing", "resetting", "stopping", "stopped"
    failures

configVars == <<bufferSize, expires, ends>>
bufferVars == <<first, length, mEomBounds, published, discarded>>
heartbeatVars == <<mStarted, heartbeatTask, heartbeatInFlight>>
linkVars == <<mState, socket, connectTask>>
vars == <<configVars, bufferVars, heartbeatVars, linkVars, loopPc, available, sensorPc, failures>>

Init ==
    /\ bufferSize \in BufferSizes /\ expires \in BOOLEAN /\ ends \in SUBSET (1 .. MaxBytes)
    /\ mState = "NotConnected" /\ socket = "none" /\ connectTask = 0
    /\ first = 1 /\ length = 0 /\ mEomBounds = <<>> /\ published = {} /\ discarded = {}
    /\ loopPc = "idle" /\ available = 0
    /\ mStarted = FALSE /\ heartbeatTask = 0 /\ heartbeatInFlight = FALSE
    /\ sensorPc = "starting" /\ failures = 0

Minimum(a, b) == IF a < b THEN a ELSE b

\* connect(), with or without the delay.
Connecting(state, scheduled) ==
    IF state # "NotConnected"
    THEN mState' = state /\ connectTask' = scheduled
    ELSE mState' = "Connecting" /\ connectTask' = scheduled + 1

\* close(): only an open socket is closed; one whose connection failed still is open.
IsOpen == socket \in {"connecting", "open"}
StateAfterClose_Kept == mState
StateAfterClose == IF IsOpen THEN "NotConnected" ELSE mState
SocketAfterClose == IF IsOpen THEN "closed" ELSE socket
-------------------------------------------------------------------------------
Full(len) == len = Capacity

\* needPublish: how many batches of how many messages.  timedOut: mNextPublishTimeout has passed.
BatchSize(bounds) == IF bufferSize = 0 THEN Len(bounds) ELSE bufferSize

LessThanBatchIsDue_OnTimeout(len, timedOut) == timedOut
LessThanBatchIsDue(len, timedOut) == timedOut \/ Full(len)

NumBatches(len, bounds, timedOut) ==
    IF bounds = <<>> THEN 0
    ELSE IF Len(bounds) >= BatchSize(bounds) THEN Len(bounds) \div BatchSize(bounds)
    ELSE IF LessThanBatchIsDue(len, timedOut) THEN 1 ELSE 0

\* Position after the k-th batch.
LastEom(bounds, k) ==
    IF k = 0 THEN 0 ELSE bounds[Minimum(Len(bounds), k * BatchSize(bounds))]

\* The bytes of batch k: as many as the position of its end, from the end of the batch before.
BatchBytes_FromStart(bounds, k) == 1 .. (LastEom(bounds, k) - LastEom(bounds, k - 1))
BatchBytes(bounds, k) == (LastEom(bounds, k - 1) + 1) .. (LastEom(bounds, k - 1) + LastEom(bounds, k))

\* publish() on a buffer that begins at byte `first`, with what stays behind in it.
Publish(len, bounds, timedOut) ==
    LET batches == NumBatches(len, bounds, timedOut)
        sent == UNION {BatchBytes(bounds, k) : k \in 1 .. batches}
        left == SubSeq(bounds, Minimum(Len(bounds), batches * BatchSize(bounds)) + 1, Len(bounds))
        gone == IF left = <<>> THEN LastEom(bounds, batches) ELSE 0
        discards == bounds = <<>> /\ Full(len)
    IN  /\ published' = published \cup {first + p - 1 : p \in sent \cap 1 .. len}
        /\ IF discards
           THEN /\ discarded' = discarded \cup {first + p - 1 : p \in 1 .. len}
                /\ first' = first + len /\ length' = 0 /\ mEomBounds' = <<>>
           ELSE /\ UNCHANGED discarded
                /\ mEomBounds' = left
                /\ first' = first + gone /\ length' = len - gone
-------------------------------------------------------------------------------
\* start(), by main.
Start ==
    /\ sensorPc = "starting"
    /\ Connecting(mState, connectTask)
    /\ sensorPc' = "startingHeartbeat"
    /\ UNCHANGED <<configVars, bufferVars, heartbeatVars, socket, loopPc, available, failures>>

\* HeartbeatTask::start(); without a heartbeat topic nothing is scheduled.
StartHeartbeat ==
    /\ sensorPc = "startingHeartbeat"
    /\ \/ mStarted' = TRUE /\ heartbeatTask' = heartbeatTask + 1
       \/ UNCHANGED <<mStarted, heartbeatTask>>
    /\ sensorPc' = "running"
    /\ UNCHANGED <<configVars, bufferVars, linkVars, heartbeatInFlight, loopPc, available, failures>>

\* stop(), by main: close(), reset(), HeartbeatTask::stop().  No task is cancelled from main.
StopCloses ==
    /\ sensorPc = "running"
    /\ mState' = StateAfterClose /\ socket' = SocketAfterClose
    /\ sensorPc' = "resetting"
    /\ UNCHANGED <<configVars, bufferVars, heartbeatVars, connectTask, loopPc, available, failures>>

StopResets ==
    /\ sensorPc = "resetting"
    /\ discarded' = discarded \cup {first + p - 1 : p \in 1 .. length}
    /\ first' = first + length /\ length' = 0 /\ mEomBounds' = <<>>
    /\ sensorPc' = "stopping"
    /\ UNCHANGED <<configVars, published, heartbeatVars, linkVars, loopPc, available, failures>>

StopHeartbeat ==
    /\ sensorPc = "stopping"
    /\ mStarted' = FALSE
    /\ sensorPc' = "stopped"
    /\ UNCHANGED <<configVars, bufferVars, heartbeatTask, heartbeatInFlight, linkVars, loopPc, available,
                   failures>>
-------------------------------------------------------------------------------
LoopIsFree == loopPc = "idle"

\* onConnectTaskCallback: aws_socket_connect accepts, or refuses at once.
onConnectTaskCallback ==
    /\ LoopIsFree /\ connectTask > 0
    /\ \/ /\ socket' = "connecting" /\ connectTask' = connectTask - 1
          /\ UNCHANGED <<mState, failures>>
       \/ /\ failures < MaxFailures /\ failures' = failures + 1
          /\ socket' = "closed"
          /\ Connecting("NotConnected", connectTask - 1)
    /\ UNCHANGED <<configVars, bufferVars, heartbeatVars, loopPc, available, sensorPc>>

\* onConnectionResultCallback, onReadableCallback with an error, and a read from a socket that is
\* no longer connected: close() and connect(true).
CloseAndReconnect ==
    /\ socket' = SocketAfterClose
    /\ Connecting(StateAfterClose, connectTask)
    /\ available' = 0

ConnectionFails ==
    /\ LoopIsFree /\ socket \in {"connecting", "open"} /\ failures < MaxFailures
    /\ failures' = failures + 1
    /\ CloseAndReconnect
    /\ UNCHANGED <<configVars, bufferVars, heartbeatVars, loopPc, sensorPc>>

\* The connection is up; what was buffered before is published.
onConnectionResultCallback ==
    /\ LoopIsFree /\ socket = "connecting"
    /\ socket' = "open" /\ mState' = "Connected"
    /\ \E timedOut \in {FALSE, expires} : Publish(length, mEomBounds, timedOut)
    /\ UNCHANGED <<configVars, heartbeatVars, connectTask, loopPc, available, sensorPc, failures>>

\* The sensor sends (external).
SensorSends ==
    /\ socket = "open" /\ first + length + available <= MaxBytes
    /\ available' = available + 1
    /\ UNCHANGED <<configVars, bufferVars, heartbeatVars, linkVars, loopPc, sensorPc, failures>>

onReadableCallback ==
    /\ LoopIsFree /\ socket = "open" /\ available > 0
    /\ loopPc' = "reading"
    /\ UNCHANGED <<configVars, bufferVars, heartbeatVars, linkVars, available, sensorPc, failures>>

\* The positions of a set, in ascending order.
Ascending(s) == \A i, j \in DOMAIN s : i < j => s[i] < s[j]
Lists(s, positions) == positions = {s[i] : i \in DOMAIN s} /\ Ascending(s)
InOrder(positions) == CHOOSE s \in [1 .. Cardinality(positions) -> positions] : Lists(s, positions)

\* The delimiters in the bytes that were read, scanned from the last one known.
Bounds(len) ==
    LET begin == IF mEomBounds = <<>> THEN length ELSE mEomBounds[Len(mEomBounds)]
    IN  mEomBounds \o InOrder({p \in begin + 1 .. len : first + p - 1 \in ends})

\* One successful read of the loop; nothing fits a full buffer.
Read ==
    /\ loopPc = "reading" /\ socket = "open" /\ available > 0
    /\ \E count \in IF Full(length) THEN {0} ELSE 1 .. Minimum(available, Capacity - length) :
          /\ available' = available - count
          /\ \E timedOut \in {FALSE, expires} : Publish(length + count, Bounds(length + count), timedOut)
    /\ UNCHANGED <<configVars, heartbeatVars, linkVars, loopPc, sensorPc, failures>>

\* AWS_IO_READ_WOULD_BLOCK, or another error after which the loop waits for the next event.
ReadWouldBlock ==
    /\ loopPc = "reading" /\ socket = "open" /\ available = 0
    /\ loopPc' = "idle"
    /\ UNCHANGED <<configVars, bufferVars, heartbeatVars, linkVars, available, sensorPc, failures>>

\* The peer has closed, or main has.
ReadFindsClosed ==
    /\ loopPc = "reading"
    /\ \/ socket # "open" /\ UNCHANGED failures
       \/ socket = "open" /\ failures < MaxFailures /\ failures' = failures + 1
    /\ CloseAndReconnect
    /\ loopPc' = "idle"
    /\ UNCHANGED <<configVars, bufferVars, heartbeatVars, sensorPc>>
-------------------------------------------------------------------------------
\* publishHeartbeat: nothing once stopped, another look later when not connected, else publish.
publishHeartbeat ==
    /\ LoopIsFree /\ heartbeatTask > 0
    /\ IF ~mStarted
       THEN heartbeatTask' = heartbeatTask - 1 /\ UNCHANGED heartbeatInFlight
       ELSE IF mState # "Connected"
            THEN UNCHANGED <<heartbeatTask, heartbeatInFlight>>
            ELSE heartbeatTask' = heartbeatTask - 1 /\ heartbeatInFlight' = TRUE
    /\ UNCHANGED <<configVars, bufferVars, linkVars, mStarted, loopPc, available, sensorPc, failures>>

\* The MQTT client has published it, or failed to: the next one is scheduled either way.
HeartbeatCompletes ==
    /\ LoopIsFree /\ heartbeatInFlight
    /\ heartbeatInFlight' = FALSE
    /\ heartbeatTask' = IF mStarted THEN heartbeatTask + 1 ELSE heartbeatTask
    /\ UNCHANGED <<configVars, bufferVars, linkVars, mStarted, loopPc, available, sensorPc, failures>>
-------------------------------------------------------------------------------
ReadLoop == Read \/ ReadWouldBlock \/ ReadFindsClosed

Next ==
    \/ Start \/ StartHeartbeat \/ StopCloses \/ StopResets \/ StopHeartbeat
    \/ onConnectTaskCallback \/ onConnectionResultCallback \/ ConnectionFails
    \/ SensorSends
    \/ onReadableCallback \/ ReadLoop
    \/ publishHeartbeat \/ HeartbeatCompletes

Spec == Init /\ [][Next]_vars

\* The event loop goes on with a callback.
FairSpec == Spec /\ WF_vars(ReadLoop)
-------------------------------------------------------------------------------
\* No message is skipped: a byte leaves the buffer only once it was passed to the MQTT client, or
\* when the whole buffer was given up because it was full without a delimiter or by stop(); and the
\* recorded boundaries are the ends of the messages in the buffer, in order (publish, needPublish,
\* the scan of onReadableCallback).
NoMessageIsSkipped ==
    /\ 1 .. first - 1 \subseteq published \cup discarded
    /\ Ascending(mEomBounds)
    /\ \A i \in DOMAIN mEomBounds :
          mEomBounds[i] \in 1 .. length /\ first + mEomBounds[i] - 1 \in ends
    /\ \A p \in 1 .. length :
          first + p - 1 \in ends =>
             first + p - 1 \in published \/ \E i \in DOMAIN mEomBounds : mEomBounds[i] = p

\* Until stop() the sensor never gives up: there is always one attempt to connect, waiting or
\* running, or one open connection, and never two (connect, close, the error paths); and the
\* heartbeat, once started, has one task or one publication under way.
NeverGivesUp ==
    sensorPc = "running" =>
       /\ connectTask + Cardinality({socket} \cap {"connecting", "open"}) = 1
       /\ mState = (IF socket = "open" THEN "Connected" ELSE "Connecting")
       /\ mStarted => heartbeatTask + (IF heartbeatInFlight THEN 1 ELSE 0) = 1

\* The loop that reads until the socket is empty ends, also when the buffer fills up: the event
\* loop is the client's only one.
ReadLoopEnds == (loopPc = "reading") ~> (loopPc = "idle")
-------------------------------------------------------------------------------
(* The inductive invariant of the proofs. *)
LinkTypes ==
    /\ connectTask \in Nat /\ socket \in {"none", "connecting", "open", "closed"}
    /\ mState \in {"NotConnected", "Connecting", "Connected"}

HeartbeatTypes == heartbeatTask \in Nat /\ mStarted \in BOOLEAN /\ heartbeatInFlight \in BOOLEAN

\* From start() to stop() the sensor is in one of three places, and each event moves it to another.
LinkInv ==
    sensorPc \in {"startingHeartbeat", "running"} =>
        \/ connectTask = 1 /\ ~IsOpen /\ mState = "Connecting"
        \/ connectTask = 0 /\ socket = "connecting" /\ mState = "Connecting"
        \/ connectTask = 0 /\ socket = "open" /\ mState = "Connected"

StartInv ==
    /\ sensorPc = "starting" => connectTask = 0 /\ socket = "none" /\ mState = "NotConnected" /\ LoopIsFree
    /\ sensorPc \in {"starting", "startingHeartbeat"} =>
          ~mStarted /\ heartbeatTask = 0 /\ ~heartbeatInFlight

HeartbeatInv ==
    (sensorPc = "running" /\ mStarted) => heartbeatTask = IF heartbeatInFlight THEN 0 ELSE 1

\* Of the buffer by itself.
BufferTypes ==
    /\ bufferSize \in Nat /\ ends \subseteq Nat /\ available \in Nat
    /\ first \in Nat \ {0} /\ length \in Nat /\ mEomBounds \in Seq(Nat)
BufferInv == BufferTypes /\ NoMessageIsSkipped

IndInv == LinkTypes /\ HeartbeatTypes /\ LinkInv /\ StartInv /\ HeartbeatInv
===============================================================================
