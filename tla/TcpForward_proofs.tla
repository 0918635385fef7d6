-------------------------- MODULE TcpForward_proofs --------------------------
(***************************************************************************)
(* Proofs about TcpForward, for every size of the buffer and every number  *)
(* and length of payloads: the types, the order of the data, the end of a  *)
(* connection, the pointer of the socket's callbacks, and that the forward *)
(* implements LocalConnection.                                             *)
(***************************************************************************)
EXTENDS TcpForward, SequenceTheorems, TLAPS

USE DEF flagVars, stopVars, dataVars, peerVars
-----------------------------------------------------------------------------
(***************************************************************************)
(* Sequences of payloads and of their numbers.                             *)
(***************************************************************************)

Payload == [id : 1 .. MaxPayloads, len : 1 .. MaxLength]

\* A function on 1 .. n is a sequence.
LEMMA FunctionIsSequence ==
    ASSUME NEW S, NEW n \in Nat, NEW f \in [1 .. n -> S]
    PROVE  f \in Seq(S)
  OBVIOUS

\* The numbers of the payloads are as many as the payloads.
LEMMA NumbersType ==
    ASSUME NEW payloads \in Seq(Payload)
    PROVE  /\ Numbers(payloads) \in Seq(1 .. MaxPayloads)
           /\ Len(Numbers(payloads)) = Len(payloads)
<1>1. Len(payloads) \in Nat /\ DOMAIN payloads = 1 .. Len(payloads) BY LenProperties
<1>2. payloads \in [1 .. Len(payloads) -> Payload] BY LenProperties
<1>3. \A i \in 1 .. Len(payloads) : payloads[i].id \in 1 .. MaxPayloads BY <1>2 DEF Payload
<1>4. Numbers(payloads) \in [1 .. Len(payloads) -> 1 .. MaxPayloads] BY <1>1, <1>3 DEF Numbers
<1>5. Numbers(payloads) \in Seq(1 .. MaxPayloads) BY <1>1, <1>4, FunctionIsSequence
<1>6. DOMAIN Numbers(payloads) = 1 .. Len(payloads) BY <1>4
<1> QED BY <1>1, <1>5, <1>6, LenProperties

\* The number of an appended payload comes last.
LEMMA NumbersOfAppend ==
    ASSUME NEW payloads \in Seq(Payload), NEW payload \in Payload
    PROVE  Numbers(Append(payloads, payload)) = Append(Numbers(payloads), payload.id)
<1> DEFINE longer == Append(payloads, payload)
           numbers == Numbers(payloads)
<1>1. /\ longer \in Seq(Payload) /\ Len(longer) = Len(payloads) + 1
      /\ \A i \in 1 .. Len(payloads) : longer[i] = payloads[i]
      /\ longer[Len(payloads) + 1] = payload
  BY AppendProperties
<1>2. payload.id \in 1 .. MaxPayloads BY DEF Payload
<1>3. /\ Numbers(longer) \in Seq(1 .. MaxPayloads) /\ Len(Numbers(longer)) = Len(longer)
      /\ numbers \in Seq(1 .. MaxPayloads) /\ Len(numbers) = Len(payloads)
  BY <1>1, NumbersType
<1>4. /\ Append(numbers, payload.id) \in Seq(1 .. MaxPayloads)
      /\ Len(Append(numbers, payload.id)) = Len(payloads) + 1
      /\ \A i \in 1 .. Len(payloads) : Append(numbers, payload.id)[i] = numbers[i]
      /\ Append(numbers, payload.id)[Len(payloads) + 1] = payload.id
  BY <1>2, <1>3, AppendProperties
<1>5. /\ DOMAIN longer = 1 .. Len(payloads) + 1 /\ DOMAIN payloads = 1 .. Len(payloads)
      /\ Len(payloads) \in Nat
  BY <1>1, LenProperties
<1>6. ASSUME NEW i \in 1 .. Len(payloads) + 1
      PROVE  Numbers(longer)[i] = Append(numbers, payload.id)[i]
  <2>1. Numbers(longer)[i] = longer[i].id BY <1>5 DEF Numbers
  <2>2. CASE i = Len(payloads) + 1 BY <2>1, <2>2, <1>1, <1>4
  <2>3. CASE i # Len(payloads) + 1
    <3>1. i \in 1 .. Len(payloads) BY <2>3, <1>5
    <3>2. numbers[i] = payloads[i].id BY <3>1, <1>5 DEF Numbers
    <3> QED BY <3>1, <3>2, <2>1, <1>1, <1>4
  <2> QED BY <2>2, <2>3
<1> QED BY <1>1, <1>3, <1>4, <1>6, SeqEqual

\* An empty buffer has no numbers.
LEMMA NumbersOfNone == Numbers(<<>>) = <<>>
  BY DEF Numbers

\* A single payload has its own number.
LEMMA NumbersOfOne ==
    ASSUME NEW payload \in Payload
    PROVE  Numbers(<<payload>>) = <<payload.id>>
  BY DEF Numbers

\* A part that others are appended to is a prefix of the whole.
LEMMA PrefixOfConcatenation ==
    ASSUME NEW S, NEW s \in Seq(S), NEW t \in Seq(S)
    PROVE  IsPrefix(s, s \o t)
<1>1. /\ s \o t \in Seq(S) /\ Len(s \o t) = Len(s) + Len(t)
      /\ Len(s) \in Nat /\ Len(t) \in Nat
  BY ConcatProperties, LenProperties
<1>2. SubSeq(s \o t, 1, Len(s)) = s BY SubSeqOfConcat1, SubSeqFull, <1>1
<1>3. SubSeq(s, 1, Len(s)) = s BY SubSeqFull
<1> QED BY <1>1, <1>2, <1>3 DEF IsPrefix
-----------------------------------------------------------------------------
(***************************************************************************)
(* The inductive invariant.                                                *)
(***************************************************************************)

\* Before Connect() nothing is offered, buffered or written.
LEMMA InitEstablishes == Init => IndInv
<1> SUFFICES ASSUME Init PROVE IndInv OBVIOUS
<1> USE DEF Init
<1>1. FlagTypes BY DEF FlagTypes
<1>2. DataTypes BY DEF DataTypes
<1>3. PlaceTypes BY DEF PlaceTypes
<1>4. SocketInv BY DEF SocketInv
<1>5. EndInv BY DEF EndInv, Stopping
<1>6. DataIsKeptInOrder
  <2>1. IsPrefix(written, accepted) BY DEF IsPrefix
  <2>2. Numbers(mSendBuffer) = <<>> BY NumbersOfNone
  <2>3. written \o <<>> = accepted OBVIOUS
  <2> QED BY <2>1, <2>2, <2>3 DEF DataIsKeptInOrder
<1> QED BY <1>1, <1>2, <1>3, <1>4, <1>5, <1>6 DEF IndInv

\* An error on the event loop stops the forward and tells the owner why.
LEMMA ErrorPreserves ==
    ASSUME IndInv, NEW why \in {"error", "closed"}, StopAfterError(why),
           loopPc' = "idle", offered' \in Nat, received' = received, peerClosed' = peerClosed,
           unread' \in {unread, 0}, why = "closed" => peerClosed /\ unread' = 0
    PROVE  IndInv'
<1> USE DEF IndInv, StopAfterError, StopOnEventLoop
<1>1. FlagTypes' BY DEF FlagTypes
<1>2. DataTypes'
  <2>1. <<>> \in Seq([id : 1 .. MaxPayloads, len : 1 .. MaxLength]) OBVIOUS
  <2> QED BY <2>1 DEF DataTypes
<1>3. PlaceTypes' BY DEF PlaceTypes
<1>4. SocketInv' BY DEF SocketInv, FlagTypes, PlaceTypes
<1>5. EndInv' BY DEF EndInv, Stopping, FlagTypes, PlaceTypes
<1>6. DataIsKeptInOrder' BY DEF DataIsKeptInOrder, Stopping
<1> QED BY <1>1, <1>2, <1>3, <1>4, <1>5, <1>6

\* An error after the stop has no effect.
LEMMA IgnoredErrorPreserves ==
    ASSUME IndInv, IgnoreError, loopPc' \in {loopPc, "idle"}, offered' \in Nat,
           received' = received, peerClosed' = peerClosed, unread' \in {unread, 0}
    PROVE  IndInv'
<1> USE DEF IndInv, IgnoreError
<1>1. FlagTypes' BY DEF FlagTypes
<1>2. DataTypes' BY DEF DataTypes
<1>3. PlaceTypes' BY DEF PlaceTypes
<1>4. SocketInv' BY DEF SocketInv
<1>5. EndInv' BY DEF EndInv, Stopping, DataTypes
<1>6. DataIsKeptInOrder' BY DEF DataIsKeptInOrder, Stopping
<1> QED BY <1>1, <1>2, <1>3, <1>4, <1>5, <1>6

\* Connecting and stopping.
LEMMA OwnerPreserves ==
    ASSUME IndInv, Connect \/ StopAtOnce \/ StopFromOtherThread \/ RunStopTask \/ OnStopTaskCanceled
    PROVE  IndInv'
<1> USE DEF IndInv
<1>1. CASE Connect
  <2> USE <1>1 DEF Connect
  <2>1. FlagTypes' BY DEF FlagTypes
  <2>2. DataTypes' BY DEF DataTypes
  <2>3. PlaceTypes' BY DEF PlaceTypes
  <2>4. SocketInv' BY DEF SocketInv, Stopping, FlagTypes
  <2>5. EndInv' BY DEF EndInv, Stopping
  <2>6. DataIsKeptInOrder' BY DEF DataIsKeptInOrder, Stopping
  <2> QED BY <2>1, <2>2, <2>3, <2>4, <2>5, <2>6
<1>2. CASE StopAtOnce
  <2> USE <1>2 DEF StopAtOnce, StopOnEventLoop
  <2>1. FlagTypes' BY DEF FlagTypes
  <2>2. DataTypes'
    <3>1. <<>> \in Seq([id : 1 .. MaxPayloads, len : 1 .. MaxLength]) OBVIOUS
    <3> QED BY <3>1 DEF DataTypes
  <2>3. PlaceTypes' BY DEF PlaceTypes
  <2>4. SocketInv' BY DEF SocketInv, FlagTypes, PlaceTypes
  <2>5. EndInv' BY DEF EndInv, Stopping, FlagTypes, PlaceTypes
  <2>6. DataIsKeptInOrder' BY DEF DataIsKeptInOrder, Stopping
  <2> QED BY <2>1, <2>2, <2>3, <2>4, <2>5, <2>6
<1>3. CASE StopFromOtherThread
  <2> USE <1>3 DEF StopFromOtherThread
  <2>1. FlagTypes' BY DEF FlagTypes
  <2>2. DataTypes' BY DEF DataTypes
  <2>3. PlaceTypes' BY DEF PlaceTypes
  <2>4. SocketInv' BY DEF SocketInv
  <2>5. EndInv' BY DEF EndInv, Stopping
  <2>6. DataIsKeptInOrder' BY DEF DataIsKeptInOrder, Stopping
  <2> QED BY <2>1, <2>2, <2>3, <2>4, <2>5, <2>6
<1>4. CASE RunStopTask
  <2> USE <1>4 DEF RunStopTask, AlreadyStopped, StopOnEventLoop
  <2>1. FlagTypes' BY DEF FlagTypes
  <2>2. DataTypes'
    <3>1. <<>> \in Seq([id : 1 .. MaxPayloads, len : 1 .. MaxLength]) OBVIOUS
    <3>2. CASE mStopped BY <3>2 DEF DataTypes
    <3>3. CASE ~mStopped BY <3>1, <3>3 DEF DataTypes
    <3> QED BY <3>2, <3>3
  <2>3. PlaceTypes' BY DEF PlaceTypes
  <2>4. SocketInv' BY DEF SocketInv, FlagTypes, PlaceTypes
  <2>5. EndInv' BY DEF EndInv, Stopping, FlagTypes, PlaceTypes
  <2>6. Stopping BY DEF EndInv, Stopping
  <2>7. DataIsKeptInOrder' BY <2>6 DEF DataIsKeptInOrder, Stopping
  <2> QED BY <2>1, <2>2, <2>3, <2>4, <2>5, <2>7
<1>5. CASE OnStopTaskCanceled
  <2> USE <1>5 DEF OnStopTaskCanceled, KeptAfterCancel
  <2>1. FlagTypes' BY DEF FlagTypes
  <2>2. DataTypes' /\ PlaceTypes' BY DEF DataTypes, PlaceTypes
  <2>3. SocketInv' BY DEF SocketInv
  <2>4. EndInv' BY DEF EndInv, Stopping
  <2>5. DataIsKeptInOrder' BY DEF DataIsKeptInOrder, Stopping
  <2> QED BY <2>1, <2>2, <2>3, <2>4, <2>5
<1> QED BY <1>1, <1>2, <1>3, <1>4, <1>5
\* Data from the tunnel: into the buffer, to the socket, or lost with the connection.
LEMMA DataPreserves == ASSUME IndInv, DataFromTunnel PROVE IndInv'
<1> USE DEF IndInv
<1>1. PICK len \in 1 .. MaxLength :
        \/ SendData([id |-> offered + 1, len |-> len])
        \/ SendDataFails([id |-> offered + 1, len |-> len])
        \/ IgnoreError
  BY DEF DataFromTunnel
<1> DEFINE payload == [id |-> offered + 1, len |-> len]
<1>2. /\ offered \in Nat /\ offered < MaxPayloads /\ offered' = offered + 1
      /\ loopPc = "idle" /\ loopPc' = "idle" /\ UNCHANGED peerVars
  BY DEF DataFromTunnel, DataTypes
<1>3. offered + 1 \in 1 .. MaxPayloads BY <1>2, ConstantsAssumption DEF ConstantsAssumption
<1>4. payload \in Payload /\ payload.id = offered + 1 BY <1>3 DEF Payload
<1> HIDE DEF payload
<1>5. CASE SendDataFails(payload)
  BY <1>2, <1>5, ErrorPreserves DEF SendDataFails, DataTypes
<1>6. CASE IgnoreError BY <1>2, <1>6, IgnoredErrorPreserves DEF DataTypes
<1>7. CASE SendData(payload)
  <2> USE <1>7, <1>2 DEF SendData
  <2>1. accepted \in Seq(1 .. MaxPayloads) /\ written \in Seq(1 .. MaxPayloads)
        /\ mSendBuffer \in Seq(Payload)
    BY DEF DataTypes, Payload
  <2>2. accepted' = Append(accepted, offered + 1) BY <1>4
  <2>3. accepted' \in Seq(1 .. MaxPayloads) /\ Len(accepted') = Len(accepted) + 1
    BY <2>1, <2>2, <1>3, AppendProperties
  <2>4. /\ written \o Numbers(mSendBuffer) = accepted /\ Len(accepted) = offered
        /\ mConnected => mSendBuffer = <<>>
    BY DEF DataIsKeptInOrder
  <2>5. Numbers(mSendBuffer) \in Seq(1 .. MaxPayloads) BY <2>1, NumbersType
  <2>6. CASE ~mConnected /\ FitsBuffer(payload) /\ mSendBuffer' = Append(mSendBuffer, payload)
             /\ UNCHANGED <<written, writing>>
    <3>1. mSendBuffer' \in Seq(Payload) BY <2>1, <2>6, <1>4, AppendProperties
    <3>2. Numbers(mSendBuffer') = Append(Numbers(mSendBuffer), offered + 1)
      BY <2>1, <2>6, <1>4, NumbersOfAppend
    <3>3. Append(Numbers(mSendBuffer), offered + 1) = Numbers(mSendBuffer) \o <<offered + 1>>
      BY <2>5, <1>3, AppendIsConcat
    <3>4. accepted' = accepted \o <<offered + 1>> BY <2>1, <2>2, <1>3, AppendIsConcat
    <3>5. <<offered + 1>> \in Seq(1 .. MaxPayloads) BY <1>3
    <3>6. written' \o Numbers(mSendBuffer') = accepted'
      <4>1. (written \o Numbers(mSendBuffer)) \o <<offered + 1>>
              = written \o (Numbers(mSendBuffer) \o <<offered + 1>>)
        BY <2>1, <2>5, <3>5, ConcatAssociative
      <4> QED BY <2>4, <2>6, <3>2, <3>3, <3>4, <4>1
    <3>7. Numbers(mSendBuffer') \in Seq(1 .. MaxPayloads) BY <3>1, NumbersType
    <3>8. IsPrefix(written', accepted') BY <2>1, <2>6, <3>6, <3>7, PrefixOfConcatenation
    <3>9. DataTypes' BY <2>1, <2>3, <2>6, <3>1 DEF DataTypes, Payload
    <3>10. DataIsKeptInOrder'
      BY <2>3, <2>4, <2>6, <3>6, <3>8 DEF DataIsKeptInOrder
    <3>11. FlagTypes' /\ PlaceTypes' /\ SocketInv' /\ EndInv'
      BY DEF FlagTypes, PlaceTypes, SocketInv, EndInv, Stopping
    <3> QED BY <3>9, <3>10, <3>11
  <2>7. CASE mConnected /\ QueueWrite(<<payload>>) /\ UNCHANGED mSendBuffer
    <3>1. Numbers(<<payload>>) = <<offered + 1>> BY <1>4, NumbersOfOne
    <3>2. written' = written \o <<offered + 1>> /\ writing' = writing + 1
      BY <2>7, <3>1 DEF QueueWrite
    <3>3. accepted' = accepted \o <<offered + 1>> BY <2>1, <2>2, <1>3, AppendIsConcat
    <3>4. accepted = written BY <2>1, <2>4, <2>7, NumbersOfNone, ConcatEmptySeq
    <3>5. written' = accepted' /\ written' \in Seq(1 .. MaxPayloads) BY <2>3, <3>2, <3>3, <3>4
    <3>6. written' \o Numbers(mSendBuffer') = accepted'
      BY <2>4, <2>7, <3>5, NumbersOfNone, ConcatEmptySeq
    <3>7. IsPrefix(written', accepted')
      BY <2>5, <2>7, <3>5, <3>6, PrefixOfConcatenation
    <3>8. DataTypes' BY <2>1, <2>3, <2>7, <3>2, <3>5 DEF DataTypes, Payload
    <3>9. DataIsKeptInOrder'
      BY <2>3, <2>4, <2>7, <3>6, <3>7 DEF DataIsKeptInOrder
    <3>10. FlagTypes' /\ PlaceTypes' /\ SocketInv' /\ EndInv'
      BY DEF FlagTypes, PlaceTypes, SocketInv, EndInv, Stopping
    <3> QED BY <3>8, <3>9, <3>10
  <2> QED BY <2>6, <2>7
<1> QED BY <1>1, <1>5, <1>6, <1>7 DEF payload

\* The callbacks of the socket.
LEMMA CallbackPreserves ==
    ASSUME IndInv, sOnWriteCompleted \/ OnReadable \/ OnReadableFails
    PROVE  IndInv'
<1> USE DEF IndInv
<1>1. CASE sOnWriteCompleted
  <2> USE <1>1 DEF sOnWriteCompleted
  <2>1. CASE StopAfterError("error") BY <2>1, ErrorPreserves DEF DataTypes
  <2>2. CASE writing' = writing - 1 /\ UNCHANGED <<flagVars, mConnected, stopVars, stopTask,
               socket, mSendBuffer, accepted, written>>
    <3> USE <2>2
    <3>1. DataTypes' BY DEF DataTypes
    <3>2. FlagTypes' /\ PlaceTypes' /\ SocketInv'
      BY DEF FlagTypes, PlaceTypes, SocketInv
    <3>3. EndInv' /\ DataIsKeptInOrder' BY DEF EndInv, DataIsKeptInOrder, Stopping
    <3> QED BY <3>1, <3>2, <3>3
  <2> QED BY <2>1, <2>2
<1>2. CASE OnReadable
  <2> USE <1>2 DEF OnReadable, LeftUnread
  <2>1. CASE StopAfterError(IF peerClosed THEN "closed" ELSE "error")
    <3>1. CASE peerClosed
      <4>1. StopAfterError("closed") BY <2>1, <3>1
      <4> QED BY <3>1, <4>1, ErrorPreserves DEF DataTypes
    <3>2. CASE ~peerClosed
      <4>1. StopAfterError("error") BY <2>1, <3>2
      <4> QED BY <4>1, ErrorPreserves DEF DataTypes
    <3> QED BY <3>1, <3>2
  <2>2. CASE IgnoreError BY <2>2, IgnoredErrorPreserves DEF DataTypes
  <2>3. CASE UNCHANGED <<flagVars, mConnected, stopVars, stopTask, socket, dataVars>>
    <3> USE <2>3
    <3>1. DataTypes' BY DEF DataTypes
    <3>2. FlagTypes' /\ PlaceTypes' /\ SocketInv'
      BY DEF FlagTypes, PlaceTypes, SocketInv
    <3>3. EndInv' /\ DataIsKeptInOrder' BY DEF EndInv, DataIsKeptInOrder, Stopping
    <3> QED BY <3>1, <3>2, <3>3
  <2> QED BY <2>1, <2>2, <2>3
<1>3. CASE OnReadableFails
  <2> USE <1>3 DEF OnReadableFails
  <2>1. CASE StopAfterError("error") BY <2>1, ErrorPreserves DEF DataTypes
  <2>2. CASE IgnoreError BY <2>2, IgnoredErrorPreserves DEF DataTypes
  <2> QED BY <2>1, <2>2
<1> QED BY <1>1, <1>2, <1>3
\* The blocks of OnConnectionResult.
LEMMA ConnectionPreserves ==
    ASSUME IndInv,
           \/ OnConnectionResult \/ OnConnectionResultFails
           \/ SubscribeToReadableEvents \/ SubscribeToReadableEventsFails
    PROVE  IndInv'
<1> USE DEF IndInv
<1>1. CASE OnConnectionResult
  <2> USE <1>1 DEF OnConnectionResult
  <2>1. FlagTypes' /\ DataTypes' /\ PlaceTypes' BY DEF FlagTypes, DataTypes, PlaceTypes
  <2>2. SocketInv' BY DEF SocketInv
  <2>3. EndInv' BY DEF EndInv, Stopping
  <2>4. DataIsKeptInOrder' BY DEF DataIsKeptInOrder, Stopping, SocketInv
  <2> QED BY <2>1, <2>2, <2>3, <2>4
<1>2. CASE OnConnectionResultFails
  <2> USE <1>2 DEF OnConnectionResultFails
  <2>1. CASE StopAfterError("error") BY <2>1, ErrorPreserves DEF DataTypes
  <2>2. CASE /\ Stopping /\ socket' = "failed"
             /\ UNCHANGED <<flagVars, mConnected, stopVars, stopTask, dataVars>>
    <3> USE <2>2
    <3>1. FlagTypes' /\ DataTypes' /\ PlaceTypes' BY DEF FlagTypes, DataTypes, PlaceTypes
    <3>2. SocketInv' BY DEF SocketInv
    <3>3. EndInv' /\ DataIsKeptInOrder' BY DEF EndInv, DataIsKeptInOrder, Stopping
    <3> QED BY <3>1, <3>2, <3>3
  <2> QED BY <2>1, <2>2
<1>3. CASE SubscribeToReadableEvents
  <2> USE <1>3 DEF SubscribeToReadableEvents, AfterConnected
  <2>1. FlagTypes' BY DEF FlagTypes, Stopping
  <2>2. DataTypes' /\ PlaceTypes' BY DEF DataTypes, PlaceTypes
  <2>3. SocketInv' BY DEF SocketInv
  <2>4. EndInv' BY DEF EndInv, Stopping
  <2>5. DataIsKeptInOrder' BY DEF DataIsKeptInOrder, Stopping
  <2> QED BY <2>1, <2>2, <2>3, <2>4, <2>5
<1>4. CASE SubscribeToReadableEventsFails
  <2> USE <1>4 DEF SubscribeToReadableEventsFails
  <2>1. CASE StopAfterError("error") BY <2>1, ErrorPreserves DEF DataTypes
  <2>2. CASE IgnoreError BY <2>2, IgnoredErrorPreserves DEF DataTypes
  <2> QED BY <2>1, <2>2
<1> QED BY <1>1, <1>2, <1>3, <1>4

\* FlushSendBuffer writes what was buffered, in its order, or the connection ends.
LEMMA FlushPreserves == ASSUME IndInv, FlushSendBuffer \/ FlushSendBufferFails PROVE IndInv'
<1> USE DEF IndInv
<1>1. CASE FlushSendBufferFails
  BY <1>1, ErrorPreserves DEF FlushSendBufferFails, DataTypes
<1>2. CASE FlushSendBuffer
  <2> USE <1>2 DEF FlushSendBuffer
  <2>1. FlagTypes' /\ PlaceTypes' BY DEF FlagTypes, PlaceTypes
  <2>2. SocketInv' BY DEF SocketInv
  <2>3. EndInv' BY DEF EndInv, Stopping
  <2>4. CASE Stopping \/ mSendBuffer = <<>>
    <3>1. DataTypes' BY <2>4 DEF DataTypes
    <3>2. DataIsKeptInOrder' BY <2>4 DEF DataIsKeptInOrder, Stopping
    <3> QED BY <2>1, <2>2, <2>3, <3>1, <3>2
  <2>5. CASE ~(Stopping \/ mSendBuffer = <<>>)
    <3>1. /\ written' = written \o Numbers(mSendBuffer) /\ writing' = writing + 1
          /\ mSendBuffer' = <<>> /\ accepted' = accepted
      BY <2>5 DEF QueueWrite
    <3>2. /\ accepted \in Seq(1 .. MaxPayloads) /\ mSendBuffer \in Seq(Payload)
          /\ <<>> \in Seq([id : 1 .. MaxPayloads, len : 1 .. MaxLength])
      BY DEF DataTypes, Payload
    <3>3. written' = accepted' BY <2>5, <3>1 DEF DataIsKeptInOrder
    <3>4. written' \o Numbers(mSendBuffer') = accepted'
      BY <3>1, <3>2, <3>3, NumbersOfNone, ConcatEmptySeq
    <3>5. IsPrefix(written', accepted')
      <4>1. <<>> \in Seq(1 .. MaxPayloads) OBVIOUS
      <4> QED BY <3>1, <3>2, <3>3, <3>4, <4>1, NumbersOfNone, PrefixOfConcatenation
    <3>6. DataTypes' BY <3>1, <3>2, <3>3 DEF DataTypes
    <3>7. DataIsKeptInOrder'
      BY <2>5, <3>1, <3>4, <3>5 DEF DataIsKeptInOrder, Stopping
    <3> QED BY <2>1, <2>2, <2>3, <3>6, <3>7
  <2> QED BY <2>4, <2>5
<1> QED BY <1>1, <1>2

\* What the local program does leaves the data sent to it in order.
LEMMA PeerPreserves == ASSUME IndInv, PeerSends \/ PeerCloses PROVE IndInv'
<1> USE DEF IndInv, PeerSends, PeerCloses
<1>1. FlagTypes' BY DEF FlagTypes
<1>2. DataTypes' BY DEF DataTypes
<1>3. PlaceTypes' BY DEF PlaceTypes
<1>4. SocketInv' BY DEF SocketInv
<1>5. EndInv' BY DEF EndInv, Stopping
<1>6. DataIsKeptInOrder' BY DEF DataIsKeptInOrder, Stopping
<1> QED BY <1>1, <1>2, <1>3, <1>4, <1>5, <1>6

\* A step that changes nothing.
LEMMA StutterPreserves == ASSUME IndInv, UNCHANGED vars PROVE IndInv'
<1> USE DEF IndInv, vars
<1>1. FlagTypes' /\ DataTypes' /\ PlaceTypes' BY DEF FlagTypes, DataTypes, PlaceTypes
<1>2. SocketInv' /\ EndInv' BY DEF SocketInv, EndInv, Stopping
<1>3. DataIsKeptInOrder' BY DEF DataIsKeptInOrder, Stopping
<1> QED BY <1>1, <1>2, <1>3

\* Every step preserves the invariant; it holds for any number of payloads and any buffer.
THEOREM InductiveInvariant == Spec => []IndInv
<1>1. Init => IndInv BY InitEstablishes
<1>2. IndInv /\ [Next]_vars => IndInv'
  <2> SUFFICES ASSUME IndInv, [Next]_vars PROVE IndInv' OBVIOUS
  <2> QED BY OwnerPreserves, DataPreserves, CallbackPreserves, ConnectionPreserves,
             FlushPreserves, PeerPreserves, StutterPreserves DEF Next, LoopStep
<1> QED BY <1>1, <1>2, PTL DEF Spec
-----------------------------------------------------------------------------
(***************************************************************************)
(* What follows from it.                                                   *)
(***************************************************************************)

\* Every variable keeps its type (TcpForward.h).
THEOREM TypeCorrect == Spec => []TypeOK
<1>1. IndInv => TypeOK BY DEF IndInv, TypeOK, FlagTypes, DataTypes, PlaceTypes
<1> QED BY <1>1, InductiveInvariant, PTL

\* The socket's callbacks find the forward they got a raw pointer to (TcpForward::Connect,
\* StopOnEventLoop, OnStopTask).
THEOREM CallbacksAreSafe == Spec => []CallbacksFindForward
<1>1. IndInv => CallbacksFindForward
  BY DEF IndInv, SocketInv, PlaceTypes, CallbacksFindForward, Exists
<1> QED BY <1>1, InductiveInvariant, PTL

\* What SendData took reaches the socket in order and whole while the connection lives.
THEOREM DataIsOrdered == Spec => []DataIsKeptInOrder
<1>1. IndInv => DataIsKeptInOrder BY DEF IndInv
<1> QED BY <1>1, InductiveInvariant, PTL

\* A payload that is lost ends the connection, and the owner learns of an end it did not ask for.
THEOREM LossIsNotSilent == Spec => []LossEndsTheConnection
<1>1. ASSUME IndInv, ~Stopping PROVE Len(written) + Len(mSendBuffer) = offered
  <2>1. /\ written \in Seq(1 .. MaxPayloads) /\ mSendBuffer \in Seq(Payload)
        /\ written \o Numbers(mSendBuffer) = accepted /\ Len(accepted) = offered
    BY <1>1 DEF IndInv, DataTypes, Payload, DataIsKeptInOrder
  <2> QED BY <2>1, NumbersType, ConcatProperties
<1>2. IndInv => LossEndsTheConnection
  <2> SUFFICES ASSUME IndInv PROVE LossEndsTheConnection OBVIOUS
  <2>1. (Len(written) + Len(mSendBuffer) < offered) => Stopping BY <1>1 DEF IndInv, DataTypes
  <2>2. Stopping => owner # "holds" BY DEF IndInv, EndInv
  <2>3. mStopped /\ owner # "stopped" => reason # "none"
    BY DEF IndInv, EndInv, Stopping, PlaceTypes
  <2>4. reason = "closed" => unread = 0 BY DEF IndInv, EndInv
  <2> QED BY <2>1, <2>2, <2>3, <2>4 DEF LossEndsTheConnection
<1> QED BY <1>2, InductiveInvariant, PTL
-----------------------------------------------------------------------------
(***************************************************************************)
(* The forward implements the abstract connection.                         *)
(***************************************************************************)

\* One more payload than the first n are the first n + 1.
LEMMA PayloadsGrow ==
    ASSUME NEW n \in Nat
    PROVE  /\ Connection!Payloads(n) \in Seq(Nat) /\ Len(Connection!Payloads(n)) = n
           /\ Append(Connection!Payloads(n), n + 1) = Connection!Payloads(n + 1)
<1> DEFINE first(m) == Connection!Payloads(m)
<1>1. ASSUME NEW m \in Nat
      PROVE  /\ first(m) \in Seq(Nat) /\ Len(first(m)) = m
             /\ \A i \in 1 .. m : first(m)[i] = i
  <2>1. first(m) \in [1 .. m -> Nat] BY DEF Connection!Payloads
  <2>2. first(m) \in Seq(Nat) BY <2>1, FunctionIsSequence
  <2>3. DOMAIN first(m) = 1 .. m BY DEF Connection!Payloads
  <2>4. Len(first(m)) = m
    <3> HIDE DEF first
    <3> QED BY <2>2, <2>3, LenProperties
  <2>5. \A i \in 1 .. m : first(m)[i] = i BY DEF Connection!Payloads
  <2> QED BY <2>2, <2>4, <2>5
<1>2. n + 1 \in Nat OBVIOUS
<1> HIDE DEF first
<1>3. /\ Append(first(n), n + 1) \in Seq(Nat)
      /\ Len(Append(first(n), n + 1)) = n + 1
      /\ \A i \in 1 .. n : Append(first(n), n + 1)[i] = first(n)[i]
      /\ Append(first(n), n + 1)[n + 1] = n + 1
  <2>1. first(n) \in Seq(Nat) /\ Len(first(n)) = n BY <1>1
  <2> QED BY <2>1, <1>2, AppendProperties
<1>4. \A i \in 1 .. n + 1 : Append(first(n), n + 1)[i] = first(n + 1)[i]
  <2> SUFFICES ASSUME NEW i \in 1 .. n + 1
               PROVE  Append(first(n), n + 1)[i] = first(n + 1)[i]
    OBVIOUS
  <2>1. first(n + 1)[i] = i BY <1>1, <1>2
  <2>2. CASE i = n + 1 BY <2>1, <2>2, <1>3
  <2>3. CASE i # n + 1
    <3>1. i \in 1 .. n BY <2>3
    <3> QED BY <3>1, <2>1, <1>1, <1>3
  <2> QED BY <2>2, <2>3
<1>5. Append(first(n), n + 1) = first(n + 1)
  BY <1>1, <1>2, <1>3, <1>4, SeqEqual
<1> QED BY <1>1, <1>5 DEF first

\* The forward takes the payloads by their numbers, and cleans the socket up only in StopOnEventLoop.
LEMMA ConnectionInvIsInvariant == Spec => []ConnectionInv
<1>1. Init => ConnectionInv BY DEF Init, ConnectionInv, Connection!Payloads
<1>2. ASSUME IndInv, ConnectionInv, [Next]_vars PROVE ConnectionInv'
  <2>1. (socket = "clean" => mStopped)'
    <3>1. socket = "clean" => mStopped BY <1>2 DEF ConnectionInv
    <3>2. IndInv /\ PlaceTypes BY <1>2 DEF IndInv
    <3>3. \/ /\ mStopped' = mStopped
             /\ socket' \in {socket, "connecting", "failed", "connected", "open"}
          \/ StopOnEventLoop
      BY <1>2 DEF Next, LoopStep, vars, Connect, StopAtOnce, StopFromOtherThread, DataFromTunnel,
            SendData, SendDataFails, IgnoreError, StopAfterError, sOnWriteCompleted, OnConnectionResult,
            OnConnectionResultFails, SubscribeToReadableEvents, SubscribeToReadableEventsFails,
            FlushSendBuffer, FlushSendBufferFails, OnReadable, OnReadableFails, RunStopTask,
            OnStopTaskCanceled, PeerSends, PeerCloses
    <3> QED BY <3>1, <3>3 DEF StopOnEventLoop
  <2>2. (accepted = Connection!Payloads(Len(accepted)))'
    <3>1. accepted = Connection!Payloads(Len(accepted)) BY <1>2 DEF ConnectionInv
    <3>2. CASE accepted' = accepted BY <3>1, <3>2 DEF Connection!Payloads
    <3>3. CASE accepted' # accepted
      <4>1. /\ ~Stopping
            /\ accepted' = Append(accepted, offered + 1)
        BY <1>2, <3>3 DEF Next, LoopStep, vars, Connect, StopAtOnce, StopFromOtherThread,
              StopOnEventLoop, DataFromTunnel, SendData, SendDataFails, IgnoreError, StopAfterError,
              sOnWriteCompleted, OnConnectionResult, OnConnectionResultFails,
              SubscribeToReadableEvents, SubscribeToReadableEventsFails, FlushSendBuffer,
              FlushSendBufferFails, OnReadable, OnReadableFails, RunStopTask, OnStopTaskCanceled,
              PeerSends, PeerCloses, QueueWrite
      <4>2. accepted \in Seq(1 .. MaxPayloads) /\ Len(accepted) = offered /\ offered \in Nat
        BY <1>2, <4>1 DEF IndInv, DataTypes, DataIsKeptInOrder
      <4>3. accepted = Connection!Payloads(offered) BY <3>1, <4>2 DEF Connection!Payloads
      <4>4. accepted' = Connection!Payloads(offered + 1)
        BY <4>1, <4>2, <4>3, PayloadsGrow
      <4>5. offered + 1 \in Nat BY <4>2
      <4>6. Len(accepted') = offered + 1 BY <4>4, <4>5, PayloadsGrow
      <4> QED BY <4>4, <4>6 DEF Connection!Payloads
    <3> QED BY <3>2, <3>3
  <2> QED BY <2>1, <2>2 DEF ConnectionInv
<1> QED BY <1>1, <1>2, InductiveInvariant, PTL DEF Spec

\* An error on the event loop lets go of the forward and ends it.
LEMMA ErrorLetsGo ==
    ASSUME IndInv, NEW why, StopAfterError(why)
    PROVE  Connection!LetGo
<1>1. owner = "holds" BY DEF IndInv, EndInv, StopAfterError
<1>2. owner' = "notified" /\ mStopped' = TRUE /\ accepted' = accepted /\ written' = written
  BY <1>1 DEF StopAfterError, StopOnEventLoop
<1>3. phaseOfForward' = "ended" BY <1>2 DEF phaseOfForward
<1>4. (owner = "holds") = TRUE /\ (owner' = "holds") = FALSE BY <1>1, <1>2
<1> QED BY <1>2, <1>3, <1>4 DEF Connection!LetGo

\* An error after the stop, and everything else that leaves owner, data and phase alone, is a stutter.
LEMMA NothingSeen ==
    ASSUME UNCHANGED <<mStopped, owner, accepted, written>>,
           socket' = socket \/ (socket # "none" /\ socket' # "none")
    PROVE  UNCHANGED Connection!vars
<1>1. phaseOfForward' = phaseOfForward BY DEF phaseOfForward
<1> QED BY <1>1 DEF Connection!vars

\* Data from the tunnel is taken, or ends the connection.
LEMMA DataIsTaken ==
    ASSUME IndInv, ConnectionInv, ConnectionInv', DataFromTunnel
    PROVE  [Connection!Next]_(Connection!vars)
<1>1. PICK len \in 1 .. MaxLength :
        \/ SendData([id |-> offered + 1, len |-> len])
        \/ SendDataFails([id |-> offered + 1, len |-> len])
        \/ IgnoreError
  BY DEF DataFromTunnel
<1> DEFINE payload == [id |-> offered + 1, len |-> len]
<1>2. owner = "holds" /\ offered \in Nat /\ offered < MaxPayloads
  BY DEF DataFromTunnel, IndInv, DataTypes
<1>3. offered + 1 \in 1 .. MaxPayloads BY <1>2, ConstantsAssumption DEF ConstantsAssumption
<1>4. payload \in Payload /\ payload.id = offered + 1 BY <1>3 DEF Payload
<1> HIDE DEF payload
<1>5. CASE SendDataFails(payload)
  BY <1>5, ErrorLetsGo DEF SendDataFails, Connection!Next
<1>6. CASE IgnoreError
  BY <1>6, NothingSeen DEF IgnoreError
<1>7. CASE SendData(payload)
  <2>1. /\ accepted \in Seq(1 .. MaxPayloads) /\ written \in Seq(1 .. MaxPayloads)
        /\ ~Stopping /\ ~mStopped
        /\ written \o Numbers(mSendBuffer) = accepted /\ Len(accepted) = offered
        /\ mConnected => mSendBuffer = <<>> /\ socket = "open"
    BY <1>7 DEF SendData, IndInv, DataTypes, DataIsKeptInOrder, SocketInv, Stopping, DataFromTunnel
  <2>2. accepted' = Append(accepted, offered + 1) /\ Len(accepted') = Len(accepted) + 1
    <3>1. accepted' = Append(accepted, offered + 1) BY <1>4, <1>7 DEF SendData
    <3> QED BY <3>1, <2>1, <1>3, AppendProperties
  <2>3. phaseOfForward' = phaseOfForward /\ (owner' = "holds") = (owner = "holds")
    BY <1>7 DEF SendData, phaseOfForward
  <2>4. (owner = "holds") = TRUE BY <1>2
  <2>5. CASE ~mConnected /\ UNCHANGED <<written, writing>>
    BY <2>2, <2>3, <2>4, <2>5 DEF Connection!Next, Connection!Take
  <2>6. CASE mConnected /\ QueueWrite(<<payload>>)
    <3>1. phaseOfForward = "open" BY <2>1, <2>6 DEF phaseOfForward
    <3>2. written' = written \o <<offered + 1>>
      BY <2>6, <1>4, NumbersOfOne DEF QueueWrite
    <3>3. accepted = written BY <2>1, <2>6, NumbersOfNone, ConcatEmptySeq
    <3>4. accepted' = written' BY <2>1, <2>2, <3>2, <3>3, <1>3, AppendIsConcat
    <3>5. accepted' = Connection!Payloads(Len(accepted)')
      BY DEF ConnectionInv, Connection!Payloads
    <3> QED BY <2>2, <2>3, <2>4, <3>1, <3>4, <3>5 DEF Connection!Next, Connection!Take
  <2> QED BY <1>7, <2>5, <2>6 DEF SendData
<1> QED BY <1>1, <1>5, <1>6, <1>7 DEF payload

\* The flush passes everything on that was kept.
LEMMA FlushPassesOn ==
    ASSUME IndInv, ConnectionInv, FlushSendBuffer
    PROVE  [Connection!Next]_(Connection!vars)
<1>1. CASE Stopping \/ mSendBuffer = <<>>
  BY <1>1, NothingSeen DEF FlushSendBuffer
<1>2. CASE ~(Stopping \/ mSendBuffer = <<>>)
  <2>1. /\ written' = accepted /\ accepted' = accepted /\ owner' = owner /\ mStopped' = mStopped
        /\ socket' = socket
    BY <1>2 DEF FlushSendBuffer, QueueWrite, IndInv, DataIsKeptInOrder
  <2>2. owner = "holds" /\ ~mStopped /\ socket # "none"
    BY <1>2 DEF IndInv, EndInv, SocketInv, Stopping, FlushSendBuffer
  <2>3. phaseOfForward = "open" /\ phaseOfForward' = "open" BY <2>1, <2>2 DEF phaseOfForward
  <2>4. written' = Connection!Payloads(Len(accepted))
    BY <2>1 DEF ConnectionInv
  <2>5. (owner = "holds") = TRUE /\ (owner' = "holds") = TRUE BY <2>1, <2>2
  <2> QED BY <2>1, <2>3, <2>4, <2>5 DEF Connection!Next, Connection!Pass
<1> QED BY <1>1, <1>2

\* Connecting opens, stopping lets go, and the task of the stop ends.
LEMMA OwnerStepsMap ==
    ASSUME IndInv, ConnectionInv,
           Connect \/ StopAtOnce \/ StopFromOtherThread \/ RunStopTask \/ OnStopTaskCanceled
    PROVE  [Connection!Next]_(Connection!vars)
<1>1. CASE Connect
  <2>1. /\ owner = "holds" /\ owner' = owner /\ accepted' = accepted /\ written' = written
        /\ mStopped' = mStopped /\ ~mStopped /\ socket' \in {socket, "connecting"}
    BY <1>1 DEF Connect, Stopping
  <2>2. socket = "none"
    BY <1>1 DEF Connect, Stopping, IndInv, SocketInv, PlaceTypes, ConnectionInv
  <2>3. CASE socket' = socket BY <2>1, <2>3, NothingSeen
  <2>4. CASE socket' = "connecting"
    <3>1. phaseOfForward = "new" /\ phaseOfForward' = "open" BY <2>1, <2>2, <2>4 DEF phaseOfForward
    <3>2. (owner = "holds") = TRUE /\ (owner' = "holds") = TRUE BY <2>1
    <3> QED BY <2>1, <3>1, <3>2 DEF Connection!Next, Connection!Open
  <2> QED BY <2>1, <2>3, <2>4
<1>2. CASE StopAtOnce
  <2>1. /\ owner = "holds" /\ owner' = "stopped" /\ accepted' = accepted /\ written' = written
        /\ mStopped' = TRUE
    BY <1>2 DEF StopAtOnce, StopOnEventLoop
  <2>2. phaseOfForward' = "ended" BY <2>1 DEF phaseOfForward
  <2>3. (owner = "holds") = TRUE /\ (owner' = "holds") = FALSE BY <2>1
  <2> QED BY <2>1, <2>2, <2>3 DEF Connection!Next, Connection!LetGo
<1>3. CASE StopFromOtherThread
  <2>1. /\ owner = "holds" /\ owner' = "stopped" /\ accepted' = accepted /\ written' = written
        /\ mStopped' = mStopped /\ socket' = socket
    BY <1>3 DEF StopFromOtherThread
  <2>2. phaseOfForward' = phaseOfForward BY <2>1 DEF phaseOfForward
  <2>3. (owner = "holds") = TRUE /\ (owner' = "holds") = FALSE BY <2>1
  <2> QED BY <2>1, <2>2, <2>3 DEF Connection!Next, Connection!LetGo
<1>4. CASE RunStopTask
  <2>1. CASE mStopped
    BY <1>4, <2>1, NothingSeen DEF RunStopTask, AlreadyStopped
  <2>2. CASE ~mStopped
    <3>1. /\ mStopped' = TRUE /\ accepted' = accepted /\ written' = written /\ owner' = owner
      BY <1>4, <2>2 DEF RunStopTask, AlreadyStopped, StopOnEventLoop
    <3>2. owner = "stopped" BY <1>4 DEF RunStopTask, IndInv, EndInv
    <3>3. phaseOfForward' = "ended" BY <3>1 DEF phaseOfForward
    <3>4. (owner = "holds") = FALSE /\ (owner' = "holds") = FALSE BY <3>1, <3>2
    <3> QED BY <3>1, <3>3, <3>4 DEF Connection!Next, Connection!End
  <2> QED BY <2>1, <2>2
<1>5. CASE OnStopTaskCanceled BY <1>5, NothingSeen DEF OnStopTaskCanceled
<1> QED BY <1>1, <1>2, <1>3, <1>4, <1>5

\* The other callbacks are stutters, or errors that end the connection.
LEMMA CallbackStepsMap ==
    ASSUME IndInv,
           \/ sOnWriteCompleted \/ OnConnectionResult \/ OnConnectionResultFails
           \/ SubscribeToReadableEvents \/ SubscribeToReadableEventsFails
           \/ FlushSendBufferFails \/ OnReadable \/ OnReadableFails \/ PeerSends \/ PeerCloses
    PROVE  [Connection!Next]_(Connection!vars)
<1>1. CASE \E why \in {"error", "closed"} : StopAfterError(why)
  BY <1>1, ErrorLetsGo DEF Connection!Next
<1>2. CASE ~ \E why \in {"error", "closed"} : StopAfterError(why)
  <2>1. ~StopAfterError("error") /\ ~StopAfterError("closed")
    BY <1>2
  <2>2. ~StopAfterError(IF peerClosed THEN "closed" ELSE "error")
    <3>1. CASE peerClosed BY <2>1, <3>1
    <3>2. CASE ~peerClosed BY <2>1, <3>2
    <3> QED BY <3>1, <3>2
  <2>3. UNCHANGED <<mStopped, owner, accepted, written>>
    BY <2>1, <2>2 DEF sOnWriteCompleted, OnConnectionResult, OnConnectionResultFails,
          SubscribeToReadableEvents, SubscribeToReadableEventsFails, FlushSendBufferFails,
          OnReadable, OnReadableFails, PeerSends, PeerCloses, IgnoreError
  <2>4. socket' = socket \/ (socket # "none" /\ socket' # "none")
    BY <2>1, <2>2 DEF sOnWriteCompleted, OnConnectionResult, OnConnectionResultFails,
          SubscribeToReadableEvents, SubscribeToReadableEventsFails, FlushSendBufferFails,
          OnReadable, OnReadableFails, PeerSends, PeerCloses, IgnoreError, IndInv, SocketInv
  <2> QED BY <2>3, <2>4, NothingSeen
<1> QED BY <1>1, <1>2

\* The local connection implements its abstract specification: it opens once, passes the tunnel's
\* payloads on in their order while its owner holds it, and only ends after that (TcpForward.cpp).
THEOREM ImplementsLocalConnection == Spec => ImplementsConnection
<1>1. Init => Connection!Init
  <2> SUFFICES ASSUME Init PROVE Connection!Init OBVIOUS
  <2>1. phaseOfForward = "new" BY DEF Init, phaseOfForward
  <2>2. (owner = "holds") = TRUE BY DEF Init
  <2>3. Len(accepted) = 0 /\ written = <<>> BY DEF Init
  <2> QED BY <2>1, <2>2, <2>3 DEF Connection!Init
<1>2. ASSUME IndInv, ConnectionInv, ConnectionInv', [Next]_vars
      PROVE  [Connection!Next]_(Connection!vars)
  <2> USE <1>2
  <2>1. CASE UNCHANGED vars BY <2>1, NothingSeen DEF vars
  <2>2. CASE Next
    BY <2>2, OwnerStepsMap, DataIsTaken, FlushPassesOn, CallbackStepsMap DEF Next, LoopStep
  <2> QED BY <2>1, <2>2
<1> QED
  BY <1>1, <1>2, InductiveInvariant, ConnectionInvIsInvariant, PTL
  DEF Spec, ImplementsConnection, Connection!Spec
=============================================================================
