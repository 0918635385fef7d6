------------------------------ MODULE TcpForward ------------------------------
(***************************************************************************)
(* The local TCP connection of a secure tunnel                             *)
(* (src/source/tunneling/TcpForward.cpp).                                  *)
(*                                                                         *)
(* The callbacks of the socket and the data from the tunnel run on the     *)
(* event loop, one at a time; Stop() may come from any thread.  A block    *)
(* under mLifecycleLock is one action.  OnConnectionResult consists of     *)
(* several blocks, between which another thread may call Stop().           *)
(*                                                                         *)
(* A payload is its number and its length; `written` is what the socket    *)
(* took over, in order.                                                    *)
(***************************************************************************)
EXTENDS Naturals, Sequences, SequencesExt

CONSTANTS
    MAX_SEND_BUFFER_SIZE,
    MaxPayloads,          \* bound: payloads from the tunnel
    MaxLength,            \* bound: length of a payload
    MaxReceived           \* bound: pieces of data the local peer sends

ASSUME ConstantsAssumption ==
    /\ MAX_SEND_BUFFER_SIZE \in Nat /\ MaxPayloads \in Nat
    /\ MaxLength \in Nat /\ MaxReceived \in Nat

VARIABLES
    mSocketInitialized, mSendBufferInitialized, mConnectStarted, mConnected,
    mStopRequested, mStopped,
    mEventLoop,           \* is an event loop assigned
    mLifetimeKeepAlive,   \* does the forward hold itself
    mSendBuffer,          \* payloads saved before the connection is up
    owner,                \* "holds" the forward, has "stopped" it, or was "notified" of its end
    reason,               \* why it was: "error" or "closed" by the peer
    loopPc,               \* where OnConnectionResult is
    stopTask,             \* "none", "queued", "canceled"
    socket,               \* "none", "connecting", "failed", "connected", "open", "clean"
    writing,              \* writes the socket has not completed
    offered,              \* payloads passed to SendData
    accepted, written,    \* those it took, those passed on to the socket
    unread, peerClosed,   \* data of the local peer waiting in the socket; has the peer closed
    received              \* pieces of data the peer sent

flagVars  == <<mSocketInitialized, mSendBufferInitialized, mConnectStarted, mEventLoop>>
stopVars  == <<mStopRequested, mStopped, mLifetimeKeepAlive, owner, reason>>
dataVars  == <<mSendBuffer, accepted, written, writing>>
peerVars  == <<unread, peerClosed, received>>
vars == <<flagVars, mConnected, stopVars, loopPc, stopTask, socket, dataVars, offered, peerVars>>

\* The constructor: either initialization may fail.
Init ==
    /\ mSocketInitialized \in BOOLEAN /\ mSendBufferInitialized \in BOOLEAN
    /\ mSendBufferInitialized => mSocketInitialized
    /\ mConnectStarted = FALSE /\ mConnected = FALSE
    /\ mStopRequested = FALSE /\ mStopped = FALSE
    /\ mEventLoop = FALSE /\ mLifetimeKeepAlive = FALSE
    /\ owner = "holds" /\ reason = "none"
    /\ loopPc = "idle" /\ stopTask = "none" /\ socket = "none"
    /\ offered = 0 /\ mSendBuffer = <<>> /\ accepted = <<>> /\ written = <<>> /\ writing = 0
    /\ unread = 0 /\ peerClosed = FALSE /\ received = 0

Stopping == mStopRequested \/ mStopped

\* Something still points to the forward: its owner, itself, or the task.
Exists == owner = "holds" \/ mLifetimeKeepAlive \/ stopTask = "queued"

BufferedLength == FoldSeq(LAMBDA payload, sum : sum + payload.len, 0, mSendBuffer)
Numbers(payloads) == [i \in DOMAIN payloads |-> payloads[i].id]
-------------------------------------------------------------------------------
\* What forbids StopOnEventLoop.
AlreadyStopped_Requested == Stopping
AlreadyStopped == mStopped

\* StopOnEventLoop.  Cleaning the socket completes its writes, whose callbacks find the stop requested.
StopOnEventLoop ==
    /\ mSocketInitialized' = FALSE /\ mSendBufferInitialized' = FALSE
    /\ mConnected' = FALSE
    /\ mStopped' = TRUE
    /\ mLifetimeKeepAlive' = FALSE
    /\ socket' = IF mSocketInitialized THEN "clean" ELSE socket
    /\ writing' = 0 /\ mSendBuffer' = <<>>
    /\ UNCHANGED <<mConnectStarted, mEventLoop, accepted, written>>

\* StopAfterError, on the event loop: unless a stop was requested, RequestStop goes on to
\* StopOnEventLoop at once, and the owner is notified and drops its pointer.
StopAfterError(why) ==
    /\ ~Stopping
    /\ mStopRequested' = TRUE
    /\ StopOnEventLoop
    /\ owner' = IF owner = "holds" THEN "notified" ELSE owner
    /\ reason' = why
    /\ UNCHANGED stopTask

IgnoreError ==
    Stopping /\ UNCHANGED <<flagVars, mConnected, stopVars, stopTask, socket, dataVars>>

Connect ==
    /\ loopPc = "idle" /\ owner = "holds"
    /\ mSocketInitialized /\ mSendBufferInitialized /\ ~mConnectStarted /\ ~Stopping
    /\ mConnectStarted' = TRUE
    /\ \/ mEventLoop' = TRUE /\ mLifetimeKeepAlive' = TRUE /\ socket' = "connecting"
       \* aws_socket_connect fails
       \/ UNCHANGED <<mEventLoop, mLifetimeKeepAlive, socket>>
    /\ UNCHANGED <<mSocketInitialized, mSendBufferInitialized, mConnected, mStopRequested, mStopped,
                   owner, reason, loopPc, stopTask, dataVars, offered, peerVars>>

\* Stop() where the socket can be cleaned up at once: on the event loop, or before there is one.
StopAtOnce ==
    /\ owner = "holds" /\ ~Stopping
    /\ mEventLoop => loopPc = "idle"
    /\ mStopRequested' = TRUE
    /\ StopOnEventLoop
    /\ owner' = "stopped"
    /\ UNCHANGED <<reason, loopPc, stopTask, offered, peerVars>>

\* Stop() from another thread queues a task that keeps the forward.
StopFromOtherThread ==
    /\ owner = "holds" /\ ~Stopping /\ mEventLoop
    /\ mStopRequested' = TRUE
    /\ mLifetimeKeepAlive' = TRUE
    /\ stopTask' = "queued"
    /\ owner' = "stopped"
    /\ UNCHANGED <<flagVars, mConnected, mStopped, reason, loopPc, socket, dataVars,
                   offered, peerVars>>

RunStopTask ==
    /\ stopTask = "queued" /\ loopPc = "idle"
    /\ IF AlreadyStopped
       THEN UNCHANGED <<flagVars, mConnected, mStopped, mLifetimeKeepAlive, socket, dataVars>>
       ELSE StopOnEventLoop
    /\ stopTask' = "none"
    /\ UNCHANGED <<mStopRequested, owner, reason, loopPc, offered, peerVars>>

KeptAfterCancel_Released == FALSE
KeptAfterCancel == mLifetimeKeepAlive

\* The event loop shuts down: the forward keeps itself for callbacks that may still come.
OnStopTaskCanceled ==
    /\ stopTask = "queued" /\ loopPc = "idle"
    /\ stopTask' = "canceled"
    /\ mLifetimeKeepAlive' = KeptAfterCancel
    /\ UNCHANGED <<flagVars, mConnected, mStopRequested, mStopped, owner, reason, loopPc, socket, dataVars,
                   offered, peerVars>>
-------------------------------------------------------------------------------
\* The socket takes the payloads: QueueWrite, which gives each write storage of its own.
QueueWrite(payloads) ==
    /\ written' = written \o Numbers(payloads)
    /\ writing' = writing + 1

FitsBuffer(payload) ==
    /\ BufferedLength <= MAX_SEND_BUFFER_SIZE
    /\ payload.len <= MAX_SEND_BUFFER_SIZE - BufferedLength

\* SendData that takes the payload: into the buffer, or on to the socket (an empty one is dropped there).
SendData(payload) ==
    /\ ~Stopping
    /\ accepted' = Append(accepted, payload.id)
    /\ \/ /\ ~mConnected /\ FitsBuffer(payload)
          /\ mSendBuffer' = Append(mSendBuffer, payload)
          /\ UNCHANGED <<written, writing>>
       \/ /\ mConnected
          /\ QueueWrite(<<payload>>)
          /\ UNCHANGED mSendBuffer
    /\ UNCHANGED <<flagVars, mConnected, stopVars, stopTask, socket>>

\* ... that cannot: the buffer is full, or the socket refuses the write.
SendDataFails(payload) ==
    /\ mConnected \/ ~FitsBuffer(payload)
    /\ StopAfterError("error")

\* Data arrives through the tunnel while the owner holds the forward.
DataFromTunnel ==
    /\ loopPc = "idle" /\ owner = "holds" /\ offered < MaxPayloads
    /\ offered' = offered + 1
    /\ \E len \in 1 .. MaxLength :
          LET payload == [id |-> offered + 1, len |-> len]
          IN  SendData(payload) \/ SendDataFails(payload) \/ IgnoreError
    /\ UNCHANGED <<loopPc, peerVars>>

sOnWriteCompleted ==
    /\ loopPc = "idle" /\ writing > 0 /\ socket \in {"connected", "open"}
    /\ \/ /\ writing' = writing - 1
          /\ UNCHANGED <<flagVars, mConnected, stopVars, stopTask, socket, mSendBuffer, accepted, written>>
       \/ StopAfterError("error")
    /\ UNCHANGED <<loopPc, offered, peerVars>>
-------------------------------------------------------------------------------
\* OnConnectionResult, up to its first look at the stop.
OnConnectionResultFails ==
    /\ loopPc = "idle" /\ socket = "connecting"
    /\ \/ StopAfterError("error")
       \/ /\ Stopping
          /\ socket' = "failed"
          /\ UNCHANGED <<flagVars, mConnected, stopVars, stopTask, dataVars>>
    /\ UNCHANGED <<loopPc, offered, peerVars>>

OnConnectionResult ==
    /\ loopPc = "idle" /\ socket = "connecting"
    /\ socket' = "connected"
    /\ loopPc' = IF Stopping THEN "idle" ELSE "subscribe"
    /\ UNCHANGED <<flagVars, mConnected, stopVars, stopTask, dataVars, offered, peerVars>>

AfterConnected_NoFlush == "idle"
AfterConnected == "flush"

SubscribeToReadableEvents ==
    /\ loopPc = "subscribe"
    /\ socket' = "open"
    /\ mConnected' = ~Stopping
    /\ loopPc' = IF Stopping THEN "idle" ELSE AfterConnected
    /\ UNCHANGED <<flagVars, stopVars, stopTask, dataVars, offered, peerVars>>

SubscribeToReadableEventsFails ==
    /\ loopPc = "subscribe"
    /\ StopAfterError("error") \/ IgnoreError
    /\ loopPc' = "idle"
    /\ UNCHANGED <<offered, peerVars>>

FlushSendBuffer ==
    /\ loopPc = "flush"
    /\ IF Stopping \/ mSendBuffer = <<>>
       THEN UNCHANGED dataVars
       ELSE QueueWrite(mSendBuffer) /\ mSendBuffer' = <<>> /\ UNCHANGED accepted
    /\ loopPc' = "idle"
    /\ UNCHANGED <<flagVars, mConnected, stopVars, stopTask, socket, offered, peerVars>>

FlushSendBufferFails ==
    /\ loopPc = "flush" /\ mSendBuffer # <<>>
    /\ StopAfterError("error")
    /\ loopPc' = "idle"
    /\ UNCHANGED <<offered, peerVars>>
-------------------------------------------------------------------------------
\* OnReadable with an error other than the peer's close.
OnReadableFails ==
    /\ loopPc = "idle" /\ socket = "open"
    /\ StopAfterError("error") \/ IgnoreError
    /\ UNCHANGED <<loopPc, offered, peerVars>>

\* The loop of OnReadable reads until nothing is left, also after the close.
LeftUnread_AfterClose == IF peerClosed THEN unread ELSE 0
LeftUnread == 0

\* OnReadable otherwise: everything there is to read goes to the tunnel; then the close of the
\* peer or a hard error of the last read ends the connection.
OnReadable ==
    /\ loopPc = "idle" /\ socket = "open" /\ (unread > 0 \/ peerClosed)
    /\ unread' = LeftUnread
    /\ \/ /\ ~peerClosed
          /\ UNCHANGED <<flagVars, mConnected, stopVars, stopTask, socket, dataVars>>
       \/ StopAfterError(IF peerClosed THEN "closed" ELSE "error")
       \/ IgnoreError
    /\ UNCHANGED <<loopPc, offered, peerClosed, received>>

\* The local peer (external).
PeerSends ==
    /\ socket \in {"connected", "open"} /\ ~peerClosed /\ received < MaxReceived
    /\ unread' = unread + 1 /\ received' = received + 1
    /\ UNCHANGED <<flagVars, mConnected, stopVars, loopPc, stopTask, socket, dataVars, offered, peerClosed>>

PeerCloses ==
    /\ socket \in {"connected", "open"} /\ ~peerClosed
    /\ peerClosed' = TRUE
    /\ UNCHANGED <<flagVars, mConnected, stopVars, loopPc, stopTask, socket, dataVars, offered, unread,
                   received>>
-------------------------------------------------------------------------------
LoopStep ==
    \/ DataFromTunnel
    \/ sOnWriteCompleted
    \/ OnConnectionResult \/ OnConnectionResultFails
    \/ SubscribeToReadableEvents \/ SubscribeToReadableEventsFails
    \/ FlushSendBuffer \/ FlushSendBufferFails
    \/ OnReadable \/ OnReadableFails
    \/ RunStopTask \/ OnStopTaskCanceled

Next ==
    \/ Connect \/ StopAtOnce \/ StopFromOtherThread
    \/ LoopStep
    \/ PeerSends \/ PeerCloses

Spec == Init /\ [][Next]_vars

\* The event loop finishes its callbacks, runs its tasks and reports readable data.
FairSpec ==
    /\ Spec
    /\ WF_vars(SubscribeToReadableEvents \/ SubscribeToReadableEventsFails)
    /\ WF_vars(FlushSendBuffer \/ FlushSendBufferFails)
    /\ WF_vars(OnReadable \/ OnReadableFails)
    /\ WF_vars(RunStopTask \/ OnStopTaskCanceled)
-------------------------------------------------------------------------------
\* Type correctness.
TypeOK ==
    /\ {mSocketInitialized, mSendBufferInitialized, mConnectStarted, mConnected, mStopRequested,
        mStopped, mEventLoop, mLifetimeKeepAlive, peerClosed} \subseteq BOOLEAN
    /\ mSendBuffer \in Seq([id : 1 .. MaxPayloads, len : 1 .. MaxLength])
    /\ owner \in {"holds", "stopped", "notified"} /\ reason \in {"none", "error", "closed"}
    /\ loopPc \in {"idle", "subscribe", "flush"} /\ stopTask \in {"none", "queued", "canceled"}
    /\ socket \in {"none", "connecting", "failed", "connected", "open", "clean"}
    /\ accepted \in Seq(1 .. MaxPayloads) /\ written \in Seq(1 .. MaxPayloads)
    /\ {writing, offered, unread, received} \subseteq Nat

\* Data keeps its order and none disappears while the connection lives: what SendData took is
\* what was written followed by what is buffered, and once the connection is up nothing is left
\* in the buffer to be overtaken (SendData, FlushSendBuffer).
DataIsKeptInOrder ==
    /\ IsPrefix(written, accepted)
    /\ ~Stopping => /\ written \o Numbers(mSendBuffer) = accepted
                    /\ Len(accepted) = offered
                    /\ (mConnected /\ loopPc = "idle") => mSendBuffer = <<>>

\* No loss is silent.  A payload that did not fit the buffer or was refused by the socket ends the
\* connection; the owner asked for every end or is notified of it, and of the peer's close only
\* after it got everything the peer had sent.
LossEndsTheConnection ==
    /\ (Len(written) + Len(mSendBuffer) < offered) => Stopping
    /\ Stopping => owner # "holds"
    /\ mStopped /\ owner # "stopped" => reason # "none"
    /\ reason = "closed" => unread = 0

\* The socket's callbacks get a raw pointer: they find the forward, from Connect() to the cleanup,
\* also when its owner has let go of it and when the task of the stop was cancelled.
CallbacksFindForward == (socket \in {"connecting", "open"} \/ loopPc # "idle") => Exists

\* A requested stop is carried out, unless the event loop itself shuts down; and what the
\* peer sends does not stay in the socket.
StopCompletes ==
    /\ mStopRequested ~> (mStopped \/ stopTask = "canceled")
    /\ (unread > 0) ~> (unread = 0 \/ Stopping)

phaseOfForward == IF mStopped THEN "ended" ELSE IF socket = "none" THEN "new" ELSE "open"

Connection == INSTANCE LocalConnection WITH
    phase <- phaseOfForward,
    held <- owner = "holds",
    taken <- Len(accepted),
    passed <- written

\* The forward implements the abstract connection: what the socket was given are the payloads of the
\* tunnel from the first on, and nothing once a stop was requested by any thread (SendData,
\* FlushSendBuffer, RequestStop).
ImplementsConnection == Connection!Spec
-------------------------------------------------------------------------------
(* The inductive invariant of the proofs. *)
FlagTypes ==
    /\ mSocketInitialized \in BOOLEAN /\ mSendBufferInitialized \in BOOLEAN
    /\ mConnectStarted \in BOOLEAN /\ mConnected \in BOOLEAN
    /\ mStopRequested \in BOOLEAN /\ mStopped \in BOOLEAN
    /\ mEventLoop \in BOOLEAN /\ mLifetimeKeepAlive \in BOOLEAN /\ peerClosed \in BOOLEAN

DataTypes ==
    /\ mSendBuffer \in Seq([id : 1 .. MaxPayloads, len : 1 .. MaxLength])
    /\ accepted \in Seq(1 .. MaxPayloads) /\ written \in Seq(1 .. MaxPayloads)
    /\ writing \in Nat /\ offered \in Nat /\ unread \in Nat /\ received \in Nat

PlaceTypes ==
    /\ owner \in {"holds", "stopped", "notified"} /\ reason \in {"none", "error", "closed"}
    /\ loopPc \in {"idle", "subscribe", "flush"} /\ stopTask \in {"none", "queued", "canceled"}
    /\ socket \in {"none", "connecting", "failed", "connected", "open", "clean"}

\* A socket in use belongs to a forward that holds itself and is not stopped, and OnConnectionResult
\* works on a connected one.
SocketInv ==
    /\ (mEventLoop /\ ~mStopped) => mLifetimeKeepAlive
    /\ mEventLoop => mConnectStarted
    /\ socket \in {"connecting", "failed", "connected", "open"} =>
          mSocketInitialized /\ mEventLoop /\ ~mStopped
    /\ loopPc # "idle" => socket \in {"connected", "open"}
    /\ mConnected => socket = "open"
    /\ loopPc = "subscribe" => ~mConnected

\* Who ended the connection, and why.
EndInv ==
    /\ mStopped => mStopRequested
    /\ Stopping <=> owner # "holds"
    /\ stopTask # "none" => owner = "stopped"
    /\ owner = "notified" <=> reason # "none"
    /\ reason = "closed" => peerClosed /\ unread = 0

IndInv ==
    /\ FlagTypes /\ DataTypes /\ PlaceTypes
    /\ SocketInv /\ EndInv /\ DataIsKeptInOrder

\* What the refinement needs beside it: SendData took the payloads from the first one on, and a
\* socket is cleaned up only with its forward.
ConnectionInv ==
    /\ accepted = Connection!Payloads(Len(accepted))
    /\ socket = "clean" => mStopped
===============================================================================
