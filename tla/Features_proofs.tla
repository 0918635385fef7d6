--------------------------- MODULE Features_proofs ---------------------------
(***************************************************************************)
(* Proofs about Sensor and FileMonitor, the two features that read a local *)
(* source and publish it.                                                  *)
(*                                                                         *)
(* Sensor, for every size of the buffer and of a batch and any number of   *)
(* bytes and failures: the sensor never gives up, has one connection or    *)
(* one attempt at a time, and skips no message.  FileMonitor, for any      *)
(* number of writes and failures: a change of the file is noticed.         *)
(***************************************************************************)
EXTENDS Sensor, FileMonitor, Integers, SequenceTheorems, FiniteSetTheorems, TLAPS

USE DEF configVars, bufferVars, heartbeatVars, linkVars, LoopIsFree
-----------------------------------------------------------------------------
\* Before start() the sensor has neither connection nor task.
LEMMA InitEstablishes == Init => IndInv
<1> SUFFICES ASSUME Init PROVE IndInv OBVIOUS
<1> USE DEF Init
<1>1. LinkTypes BY DEF LinkTypes
<1>2. HeartbeatTypes
  <2>1. heartbeatTask \in Nat OBVIOUS
  <2>2. mStarted \in BOOLEAN OBVIOUS
  <2>3. heartbeatInFlight \in BOOLEAN OBVIOUS
  <2> QED BY <2>1, <2>2, <2>3 DEF HeartbeatTypes
<1>3. LinkInv BY DEF LinkInv
<1>4. StartInv BY DEF StartInv
<1>5. HeartbeatInv BY DEF HeartbeatInv
<1> QED BY <1>1, <1>2, <1>3, <1>4, <1>5 DEF IndInv

LinkStays == UNCHANGED <<linkVars, sensorPc>>
HeartbeatStays == UNCHANGED <<heartbeatVars, sensorPc>>

\* A step that leaves the connection and its tasks alone.
LEMMA LinkKept ==
    ASSUME IndInv, LinkStays
    PROVE  LinkTypes' /\ LinkInv'
  BY DEF IndInv, LinkStays, LinkTypes, LinkInv, IsOpen

\* A step that leaves the heartbeat alone.
LEMMA HeartbeatKept ==
    ASSUME IndInv, HeartbeatStays
    PROVE  HeartbeatTypes' /\ HeartbeatInv'
  BY DEF IndInv, HeartbeatStays, HeartbeatTypes, HeartbeatInv

\* close() and connect(true) leave one attempt to connect, whatever the socket was.
LEMMA Reconnects ==
    ASSUME IndInv, CloseAndReconnect, UNCHANGED <<heartbeatVars, sensorPc>>, sensorPc # "starting"
    PROVE  IndInv'
<1> USE DEF IndInv, CloseAndReconnect, Connecting, SocketAfterClose, StateAfterClose, IsOpen
<1>1. LinkTypes' BY DEF LinkTypes
<1>2. LinkInv' BY DEF LinkInv, LinkTypes
<1>3. HeartbeatTypes' /\ HeartbeatInv' BY HeartbeatKept DEF HeartbeatStays
<1>4. StartInv' BY DEF StartInv
<1> QED BY <1>1, <1>2, <1>3, <1>4
-----------------------------------------------------------------------------
\* What main does to the sensor.
LEMMA MainPreserves ==
    ASSUME IndInv, Start \/ StartHeartbeat \/ StopCloses \/ StopResets \/ StopHeartbeat
    PROVE  IndInv'
<1> USE DEF IndInv
<1>1. CASE Start
  <2> USE <1>1 DEF Start, Connecting
  <2>1. LinkTypes' BY DEF LinkTypes
  <2>2. LinkInv' BY DEF LinkInv, StartInv, IsOpen
  <2>3. HeartbeatTypes' BY DEF HeartbeatTypes
  <2>4. StartInv' /\ HeartbeatInv' BY DEF StartInv, HeartbeatInv
  <2> QED BY <2>1, <2>2, <2>3, <2>4
<1>2. CASE StartHeartbeat
  <2> USE <1>2 DEF StartHeartbeat
  <2>1. LinkTypes' BY DEF LinkTypes
  <2>2. LinkInv' BY DEF LinkInv, IsOpen
  <2>3. ~mStarted /\ heartbeatTask = 0 /\ ~heartbeatInFlight BY DEF StartInv
  <2>4. HeartbeatTypes'
    <3>1. heartbeatTask' \in Nat BY <2>3
    <3>2. mStarted' \in BOOLEAN BY DEF HeartbeatTypes
    <3>3. heartbeatInFlight' \in BOOLEAN BY DEF HeartbeatTypes
    <3> QED BY <3>1, <3>2, <3>3 DEF HeartbeatTypes
  <2>5. StartInv' BY DEF StartInv
  <2>6. HeartbeatInv'
    <3>1. CASE mStarted' = TRUE /\ heartbeatTask' = heartbeatTask + 1 BY <3>1, <2>3 DEF HeartbeatInv
    <3>2. CASE UNCHANGED <<mStarted, heartbeatTask>> BY <3>2, <2>3 DEF HeartbeatInv
    <3> QED BY <3>1, <3>2
  <2> QED BY <2>1, <2>2, <2>4, <2>5, <2>6
<1>3. CASE StopCloses
  <2> USE <1>3 DEF StopCloses, StateAfterClose, SocketAfterClose
  <2>1. LinkTypes' BY DEF LinkTypes
  <2>2. HeartbeatTypes' BY DEF HeartbeatTypes
  <2>3. LinkInv' /\ StartInv' /\ HeartbeatInv' BY DEF LinkInv, StartInv, HeartbeatInv
  <2> QED BY <2>1, <2>2, <2>3
<1>4. CASE StopResets
  <2> USE <1>4 DEF StopResets
  <2>1. LinkTypes' BY DEF LinkTypes
  <2>2. HeartbeatTypes' BY DEF HeartbeatTypes
  <2>3. LinkInv' /\ StartInv' /\ HeartbeatInv' BY DEF LinkInv, StartInv, HeartbeatInv
  <2> QED BY <2>1, <2>2, <2>3
<1>5. CASE StopHeartbeat
  <2> USE <1>5 DEF StopHeartbeat
  <2>1. LinkTypes' BY DEF LinkTypes
  <2>2. HeartbeatTypes' BY DEF HeartbeatTypes
  <2>3. LinkInv' /\ StartInv' /\ HeartbeatInv' BY DEF LinkInv, StartInv, HeartbeatInv
  <2> QED BY <2>1, <2>2, <2>3
<1> QED BY <1>1, <1>2, <1>3, <1>4, <1>5

\* The connection and the read loop on it.
LEMMA ConnectionPreserves ==
    ASSUME IndInv,
           \/ onConnectTaskCallback \/ onConnectionResultCallback \/ ConnectionFails
           \/ SensorSends \/ onReadableCallback \/ ReadLoop
    PROVE  IndInv'
<1> USE DEF IndInv
<1>1. CASE onConnectTaskCallback
  <2> USE <1>1 DEF onConnectTaskCallback
  <2>1. HeartbeatTypes' /\ HeartbeatInv' BY HeartbeatKept DEF HeartbeatStays
  <2>2. sensorPc # "starting" BY DEF StartInv
  <2>3. StartInv' BY <2>2 DEF StartInv
  <2>4. LinkTypes' BY DEF LinkTypes, Connecting
  <2>5. LinkInv' BY DEF LinkInv, LinkTypes, IsOpen, Connecting
  <2> QED BY <2>1, <2>3, <2>4, <2>5
<1>2. CASE onConnectionResultCallback
  <2> USE <1>2 DEF onConnectionResultCallback
  <2>1. HeartbeatTypes' /\ HeartbeatInv' BY HeartbeatKept DEF HeartbeatStays
  <2>2. sensorPc # "starting" BY DEF StartInv
  <2>3. StartInv' BY <2>2 DEF StartInv
  <2>4. LinkTypes' BY DEF LinkTypes
  <2>5. LinkInv' BY DEF LinkInv, IsOpen
  <2> QED BY <2>1, <2>3, <2>4, <2>5
<1>3. CASE ConnectionFails
  <2>1. sensorPc # "starting" BY <1>3 DEF ConnectionFails, StartInv
  <2> QED BY <2>1, <1>3, Reconnects DEF ConnectionFails
<1>4. CASE SensorSends \/ onReadableCallback \/ Read \/ ReadWouldBlock
  <2>1. LinkStays /\ HeartbeatStays /\ UNCHANGED <<linkVars, heartbeatVars, sensorPc>>
    BY <1>4 DEF SensorSends, onReadableCallback, Read, ReadWouldBlock, LinkStays, HeartbeatStays
  <2>2. sensorPc # "starting"
    BY <1>4 DEF SensorSends, onReadableCallback, Read, ReadWouldBlock, StartInv
  <2>3. StartInv' BY <2>1, <2>2 DEF StartInv
  <2> QED BY <2>1, <2>3, LinkKept, HeartbeatKept
<1>5. CASE ReadFindsClosed
  <2>1. sensorPc # "starting" BY <1>5 DEF ReadFindsClosed, StartInv
  <2> QED BY <2>1, <1>5, Reconnects DEF ReadFindsClosed
<1> QED BY <1>1, <1>2, <1>3, <1>4, <1>5 DEF ReadLoop
\* The heartbeat's publication and its completion, which schedules the next one.
LEMMA HeartbeatPreserves == ASSUME IndInv, publishHeartbeat \/ HeartbeatCompletes PROVE IndInv'
<1> USE DEF IndInv
<1>1. LinkTypes' /\ LinkInv' BY LinkKept DEF LinkStays, publishHeartbeat, HeartbeatCompletes
<1>2. sensorPc \notin {"starting", "startingHeartbeat"}
  BY DEF publishHeartbeat, HeartbeatCompletes, StartInv, HeartbeatTypes
<1>3. StartInv' BY <1>2 DEF StartInv, publishHeartbeat, HeartbeatCompletes
<1>4. CASE publishHeartbeat
  <2> USE <1>4 DEF publishHeartbeat
  <2>1. heartbeatTask \in Nat /\ heartbeatTask > 0 BY DEF HeartbeatTypes
  <2>2. heartbeatTask' \in Nat BY <2>1
  <2>3. mStarted' \in BOOLEAN BY DEF HeartbeatTypes
  <2>4. heartbeatInFlight' \in BOOLEAN BY DEF HeartbeatTypes
  <2>5. HeartbeatInv' BY <2>1 DEF HeartbeatInv
  <2> QED BY <1>1, <1>3, <2>2, <2>3, <2>4, <2>5 DEF HeartbeatTypes
<1>5. CASE HeartbeatCompletes
  <2> USE <1>5 DEF HeartbeatCompletes
  <2>1. heartbeatTask \in Nat BY DEF HeartbeatTypes
  <2>2. heartbeatTask' \in Nat BY <2>1
  <2>3. mStarted' \in BOOLEAN BY DEF HeartbeatTypes
  <2>4. heartbeatInFlight' \in BOOLEAN OBVIOUS
  <2>5. HeartbeatInv' BY <2>1 DEF HeartbeatInv
  <2> QED BY <1>1, <1>3, <2>2, <2>3, <2>4, <2>5 DEF HeartbeatTypes
<1> QED BY <1>4, <1>5

\* A step that changes nothing.
LEMMA StutterPreserves == ASSUME IndInv, UNCHANGED vars PROVE IndInv'
<1>1. LinkTypes' /\ LinkInv' BY LinkKept DEF LinkStays, vars
<1>2. HeartbeatTypes' /\ HeartbeatInv' BY HeartbeatKept DEF HeartbeatStays, vars
<1>3. StartInv' BY DEF IndInv, StartInv, vars
<1> QED BY <1>1, <1>2, <1>3 DEF IndInv

\* Every step preserves the invariant, whatever the sensor sends and whenever its connection fails.
THEOREM InductiveInvariant == Spec => []IndInv
<1>1. Init => IndInv BY InitEstablishes
<1>2. IndInv /\ [Next]_vars => IndInv'
  <2> SUFFICES ASSUME IndInv, [Next]_vars PROVE IndInv' OBVIOUS
  <2>1. CASE UNCHANGED vars BY <2>1, StutterPreserves
  <2>2. CASE Start \/ StartHeartbeat \/ StopCloses \/ StopResets \/ StopHeartbeat
    BY <2>2, MainPreserves
  <2>3. CASE \/ onConnectTaskCallback \/ onConnectionResultCallback \/ ConnectionFails
             \/ SensorSends \/ onReadableCallback \/ ReadLoop
    BY <2>3, ConnectionPreserves
  <2>4. CASE publishHeartbeat \/ HeartbeatCompletes BY <2>4, HeartbeatPreserves
  <2> QED BY <2>1, <2>2, <2>3, <2>4 DEF Next
<1> QED BY <1>1, <1>2, PTL DEF Spec

\* Until stop() there is always one attempt to connect or one connection, and one heartbeat (connect,
\* close, HeartbeatTask).
THEOREM SensorPersists == Spec => []NeverGivesUp
<1>1. IndInv => NeverGivesUp
  <2> SUFFICES ASSUME IndInv, sensorPc = "running"
               PROVE  /\ connectTask + Cardinality({socket} \cap {"connecting", "open"}) = 1
                      /\ mState = (IF socket = "open" THEN "Connected" ELSE "Connecting")
                      /\ mStarted => heartbeatTask + (IF heartbeatInFlight THEN 1 ELSE 0) = 1
    BY DEF NeverGivesUp
  <2>1. mStarted => heartbeatTask + (IF heartbeatInFlight THEN 1 ELSE 0) = 1
    BY DEF IndInv, HeartbeatInv
  <2>2. CASE connectTask = 1 /\ ~IsOpen /\ mState = "Connecting"
    <3>1. {socket} \cap {"connecting", "open"} = {} /\ socket # "open" BY <2>2 DEF IsOpen
    <3>2. Cardinality({socket} \cap {"connecting", "open"}) = 0 BY <3>1, FS_EmptySet
    <3> QED BY <2>1, <2>2, <3>1, <3>2
  <2>3. CASE connectTask = 0 /\ socket = "connecting" /\ mState = "Connecting"
    <3>1. {socket} \cap {"connecting", "open"} = {socket} BY <2>3
    <3>2. Cardinality({socket} \cap {"connecting", "open"}) = 1 BY <3>1, FS_Singleton
    <3> QED BY <2>1, <2>3, <3>2
  <2>4. CASE connectTask = 0 /\ socket = "open" /\ mState = "Connected"
    <3>1. {socket} \cap {"connecting", "open"} = {socket} BY <2>4
    <3>2. Cardinality({socket} \cap {"connecting", "open"}) = 1 BY <3>1, FS_Singleton
    <3> QED BY <2>1, <2>4, <3>2
  <2> QED BY <2>2, <2>3, <2>4 DEF IndInv, LinkInv
<1> QED BY <1>1, InductiveInvariant, PTL
-----------------------------------------------------------------------------
(* Numbers and lists of them.                                              *)

\* A set of numbers that is not empty has a least one: the intervals below its members are
\* finite sets, and inclusion of finite sets is well-founded.
LEMMA LeastNumber ==
    ASSUME NEW T \in SUBSET Nat, T # {}
    PROVE  \E n \in T : \A m \in T : n <= m
<1> DEFINE below(n) == 0 .. (n - 1)
           belows == {below(n) : n \in T}
<1>1. \A n \in T : below(n) \in SUBSET Nat /\ IsFiniteSet(below(n))
  <2> TAKE n \in T
  <2>1. n \in Nat OBVIOUS
  <2> QED BY <2>1, FS_Interval
<1>2. belows \subseteq FiniteSubsetsOf(Nat) /\ belows # {} BY <1>1 DEF FiniteSubsetsOf
<1>3. PICK b \in belows : \A c \in belows : <<c, b>> \notin StrictSubsetOrdering(Nat)
  <2> HIDE DEF belows
  <2> QED BY <1>2, FS_StrictSubsetOrderingWellFounded, WFMin
<1>4. PICK n \in T : b = below(n) BY <1>3
<1>5. ASSUME NEW m \in T, m < n PROVE FALSE
  <2>1. below(m) \subseteq below(n) /\ m \in below(n) /\ m \notin below(m) BY <1>5
  <2>2. below(m) \in belows /\ below(m) \in SUBSET Nat /\ b \in SUBSET Nat BY <1>1, <1>4
  <2>3. <<below(m), b>> \in StrictSubsetOrdering(Nat)
    <3> HIDE DEF below
    <3> QED BY <1>4, <2>1, <2>2 DEF StrictSubsetOrdering
  <2> QED BY <1>3, <2>2, <2>3
<1> QED BY <1>5

\* Induction, for a set of numbers.
LEMMA NumberInduction ==
    ASSUME NEW S, 0 \in S, \A n \in Nat : n \in S => n + 1 \in S
    PROVE  Nat \subseteq S
<1> SUFFICES ASSUME Nat \ S # {} PROVE FALSE OBVIOUS
<1>1. PICK n \in Nat \ S : \A m \in Nat \ S : n <= m BY LeastNumber
<1>2. n # 0 /\ n - 1 \in Nat BY <1>1
<1>3. n - 1 \in S BY <1>1, <1>2
<1> QED BY <1>1, <1>2, <1>3

\* Every set of positions up to some number can be listed in ascending order.
LEMMA ListExists ==
    ASSUME NEW n \in Nat, NEW positions \in SUBSET (1 .. n)
    PROVE  \E s \in [1 .. Cardinality(positions) -> positions] : Lists(s, positions)
<1> DEFINE Listed(X) == \E s \in [1 .. Cardinality(X) -> X] : Lists(s, X)
           S == {m \in Nat : \A X \in SUBSET (1 .. m) : Listed(X)}
<1>1. 0 \in S
  <2>1. \A X \in SUBSET (1 .. 0) : X = {} OBVIOUS
  <2>2. Cardinality({}) = 0 BY FS_EmptySet
  <2>3. Lists(<<>>, {}) BY DEF Lists, Ascending
  <2>4. <<>> \in [1 .. 0 -> {}] OBVIOUS
  <2>5. Listed({}) BY <2>2, <2>3, <2>4
  <2> HIDE DEF Listed
  <2> QED BY <2>1, <2>5
<1>2. ASSUME NEW m \in Nat, m \in S PROVE m + 1 \in S
  <2> SUFFICES ASSUME NEW X \in SUBSET (1 .. m + 1) PROVE Listed(X)
    <3> HIDE DEF Listed
    <3> QED OBVIOUS
  <2>0. \A Y \in SUBSET (1 .. m) : Listed(Y)
    <3> HIDE DEF Listed
    <3> QED BY <1>2
  <2>1. CASE m + 1 \notin X
    <3>1. X \in SUBSET (1 .. m) BY <2>1
    <3> HIDE DEF Listed
    <3> QED BY <2>0, <3>1
  <2>2. CASE m + 1 \in X
    <3> DEFINE Y == X \ {m + 1}
    <3>1. Y \in SUBSET (1 .. m) OBVIOUS
    <3>2. Listed(Y)
      <4> HIDE DEF Listed, Y
      <4> QED BY <2>0, <3>1
    <3>3. PICK s \in [1 .. Cardinality(Y) -> Y] : Lists(s, Y) BY <3>2
    <3>4. IsFiniteSet(X)
      <4>1. IsFiniteSet(1 .. m + 1) BY FS_Interval
      <4> QED BY <4>1, FS_Subset
    <3>5. IsFiniteSet(Y) /\ Cardinality(Y) = Cardinality(X) - 1 BY <2>2, <3>4, FS_RemoveElement
    <3>6. Cardinality(X) \in Nat /\ Cardinality(Y) \in Nat BY <3>4, <3>5, FS_CardinalityType
    <3> DEFINE c == Cardinality(Y)
               r == [i \in 1 .. c + 1 |-> IF i = c + 1 THEN m + 1 ELSE s[i]]
    <3>7. c \in Nat /\ Cardinality(X) = c + 1 BY <3>5, <3>6
    <3>8. s \in [1 .. c -> Y] BY <3>3
    <3>9. /\ Y = {s[i] : i \in DOMAIN s} /\ DOMAIN s = 1 .. c
          /\ \A i, j \in 1 .. c : i < j => s[i] < s[j]
      BY <3>3 DEF Lists, Ascending
    <3> HIDE DEF c
    <3>10. r[c + 1] = m + 1 /\ \A i \in 1 .. c : r[i] = s[i] BY <3>7
    <3>11. DOMAIN r = 1 .. c + 1 /\ r \in [1 .. c + 1 -> X]
      <4>1. ASSUME NEW i \in 1 .. c + 1 PROVE r[i] \in X
        <5>1. CASE i = c + 1 BY <2>2, <3>10, <5>1
        <5>2. CASE i # c + 1
          <6>1. i \in 1 .. c BY <3>7, <5>2
          <6> QED BY <3>8, <3>10, <6>1
        <5> QED BY <5>1, <5>2
      <4> QED BY <4>1
    <3> HIDE DEF r
    <3>12. X = {r[i] : i \in DOMAIN r}
      <4>1. ASSUME NEW x \in X PROVE \E i \in DOMAIN r : x = r[i]
        <5>1. CASE x = m + 1
          <6>1. c + 1 \in DOMAIN r BY <3>7, <3>11
          <6> QED BY <3>10, <5>1, <6>1
        <5>2. CASE x # m + 1
          <6>1. PICK i \in 1 .. c : x = s[i] BY <3>9, <5>2
          <6>2. i \in DOMAIN r BY <3>7, <3>11
          <6> QED BY <3>10, <6>1, <6>2
        <5> QED BY <5>1, <5>2
      <4> QED BY <3>11, <4>1
    <3>13. Ascending(r)
      <4> SUFFICES ASSUME NEW i \in 1 .. c + 1, NEW j \in 1 .. c + 1, i < j PROVE r[i] < r[j]
        BY <3>11 DEF Ascending
      <4>1. i \in 1 .. c BY <3>7
      <4>2. s[i] \in 1 .. m BY <3>1, <3>8, <4>1
      <4>3. CASE j = c + 1
        <5>1. r[i] = s[i] /\ r[j] = m + 1 BY <3>10, <4>1, <4>3
        <5> QED BY <4>2, <5>1
      <4>4. CASE j # c + 1
        <5>1. j \in 1 .. c BY <3>7, <4>4
        <5> QED BY <3>9, <3>10, <4>1, <5>1
      <4> QED BY <4>3, <4>4
    <3>14. Lists(r, X) BY <3>12, <3>13 DEF Lists
    <3> QED BY <3>7, <3>11, <3>14
  <2> QED BY <2>1, <2>2
<1> HIDE DEF S
<1>3. n \in S BY <1>1, <1>2, NumberInduction
<1> USE DEF S
<1> QED
  <2>1. Listed(positions)
    <3> HIDE DEF Listed
    <3> QED BY <1>3
  <2> QED BY <2>1

\* What InOrder lists.
LEMMA InOrderLists ==
    ASSUME NEW n \in Nat, NEW positions \in SUBSET (1 .. n)
    PROVE  /\ InOrder(positions) \in Seq(positions)
           /\ Lists(InOrder(positions), positions)
<1>1. /\ InOrder(positions) \in [1 .. Cardinality(positions) -> positions]
      /\ Lists(InOrder(positions), positions)
  <2>1. \E s \in [1 .. Cardinality(positions) -> positions] : Lists(s, positions) BY ListExists
  <2> QED BY <2>1 DEF InOrder
<1>2. Cardinality(positions) \in Nat
  <2>1. IsFiniteSet(1 .. n) BY FS_Interval
  <2>2. IsFiniteSet(positions) BY <2>1, FS_Subset
  <2> QED BY <2>2, FS_CardinalityType
<1>3. InOrder(positions) \in Seq(positions) BY <1>1, <1>2, SeqDef
<1> QED BY <1>1, <1>3
-----------------------------------------------------------------------------
\* The buffer, its bounds and what is on record of them, as NoMessageIsSkipped says of mEomBounds.
BoundsOf(bounds, len) ==
    /\ bounds \in Seq(Nat) /\ Ascending(bounds)
    /\ \A i \in DOMAIN bounds : bounds[i] \in 1 .. len /\ first + bounds[i] - 1 \in ends
    /\ \A p \in 1 .. len :
          first + p - 1 \in ends =>
             first + p - 1 \in published \/ \E i \in DOMAIN bounds : bounds[i] = p

\* The scan of the bytes that were read records every delimiter among them.
LEMMA ScanFindsAll ==
    ASSUME BufferInv, NEW count \in Nat
    PROVE  BoundsOf(Bounds(length + count), length + count)
<1> DEFINE len == length + count
           N == Len(mEomBounds)
           begin == IF mEomBounds = <<>> THEN length ELSE mEomBounds[Len(mEomBounds)]
           found == {p \in begin + 1 .. len : first + p - 1 \in ends}
           more == InOrder(found)
           all == mEomBounds \o more
<1> USE DEF BufferInv, BufferTypes, NoMessageIsSkipped
<1>1. /\ length \in Nat /\ len \in Nat /\ length <= len /\ first \in Nat /\ N \in Nat
      /\ mEomBounds \in Seq(Nat) /\ DOMAIN mEomBounds = 1 .. N
  BY LenProperties
<1>2. /\ begin \in 0 .. length
      /\ \A i \in 1 .. N : mEomBounds[i] \in 1 .. begin
  <2>1. CASE mEomBounds = <<>>
    <3>1. N = 0 BY <2>1
    <3> QED BY <1>1, <2>1, <3>1
  <2>2. CASE mEomBounds # <<>>
    <3>1. N # 0 BY <2>2, EmptySeq
    <3>2. N \in 1 .. N /\ begin = mEomBounds[N] BY <1>1, <2>2, <3>1
    <3>3. begin \in 1 .. length BY <1>1, <3>2
    <3>4. ASSUME NEW i \in 1 .. N PROVE mEomBounds[i] \in 1 .. begin
      <4>1. mEomBounds[i] \in 1 .. length BY <1>1
      <4>2. i < N => mEomBounds[i] < mEomBounds[N] BY <1>1, <3>2 DEF Ascending
      <4> QED BY <1>1, <3>2, <3>3, <4>1, <4>2
    <3> HIDE DEF begin
    <3> QED BY <1>1, <3>3, <3>4
  <2> HIDE DEF begin
  <2> QED BY <2>1, <2>2
<1> HIDE DEF begin
<1>3. found \in SUBSET (1 .. len) BY <1>1, <1>2
<1> HIDE DEF found
<1>4. more \in Seq(found) /\ Lists(more, found) BY <1>1, <1>3, InOrderLists
<1> DEFINE M == Len(more)
<1>5. M \in Nat /\ DOMAIN more = 1 .. M BY <1>4, LenProperties
<1>6. /\ \A i \in 1 .. M : more[i] \in found
      /\ \A p \in found : \E i \in 1 .. M : more[i] = p
      /\ \A i, j \in 1 .. M : i < j => more[i] < more[j]
  BY <1>4, <1>5 DEF Lists, Ascending
<1>7. more \in Seq(Nat)
  <2> HIDE DEF more
  <2>1. found \subseteq Nat BY <1>3
  <2>2. more \in [1 .. M -> found] BY <1>4, LenProperties
  <2>3. more \in [1 .. M -> Nat] BY <2>1, <2>2
  <2> QED BY <1>5, <2>3, SeqDef
<1> HIDE DEF more
<1>8. /\ all \in Seq(Nat) /\ DOMAIN all = 1 .. N + M
      /\ \A i \in 1 .. N + M : all[i] = IF i <= N THEN mEomBounds[i] ELSE more[i - N]
  <2>1. all \in Seq(Nat) /\ Len(all) = N + M BY <1>1, <1>7, ConcatProperties
  <2>2. \A i \in 1 .. N + M : all[i] = IF i <= N THEN mEomBounds[i] ELSE more[i - N]
    BY <1>1, <1>7, ConcatProperties
  <2>3. DOMAIN all = 1 .. N + M BY <2>1, LenProperties
  <2> QED BY <2>1, <2>2, <2>3
<1>9. /\ \A i \in 1 .. N : i \in 1 .. N + M /\ all[i] = mEomBounds[i]
      /\ \A i \in 1 .. M : N + i \in 1 .. N + M /\ all[N + i] = more[i]
  <2> HIDE DEF all, N, M
  <2>1. ASSUME NEW i \in 1 .. N PROVE i \in 1 .. N + M /\ all[i] = mEomBounds[i]
    <3>1. i \in 1 .. N + M /\ i <= N BY <1>1, <1>5
    <3> QED BY <1>8, <3>1
  <2>2. ASSUME NEW i \in 1 .. M PROVE N + i \in 1 .. N + M /\ all[N + i] = more[i]
    <3>1. N + i \in 1 .. N + M /\ ~(N + i <= N) /\ (N + i) - N = i BY <1>1, <1>5
    <3> QED BY <1>8, <3>1
  <2> QED BY <2>1, <2>2
<1>10. ASSUME NEW i \in 1 .. N + M
       PROVE  \/ i \in 1 .. N /\ all[i] = mEomBounds[i]
              \/ i - N \in 1 .. M /\ all[i] = more[i - N]
  <2> HIDE DEF all, N, M
  <2>1. CASE i <= N
    <3>1. i \in 1 .. N BY <1>1, <1>5, <2>1
    <3> QED BY <1>9, <3>1
  <2>2. CASE ~(i <= N)
    <3>1. i - N \in 1 .. M BY <1>1, <1>5, <2>2
    <3> QED BY <1>8, <2>2, <3>1
  <2> QED BY <2>1, <2>2
<1> HIDE DEF all, N, M
<1>11. \A i \in 1 .. M : more[i] \in begin + 1 .. len /\ first + more[i] - 1 \in ends
  BY <1>6 DEF found
<1>12. Ascending(all)
  <2> SUFFICES ASSUME NEW i \in 1 .. N + M, NEW j \in 1 .. N + M, i < j PROVE all[i] < all[j]
    BY <1>8 DEF Ascending
  <2>0. i \in Nat /\ j \in Nat BY <1>1, <1>5
  <2>1. CASE j \in 1 .. N /\ all[j] = mEomBounds[j]
    <3>1. i \in 1 .. N BY <1>1, <2>0, <2>1
    <3>2. all[i] = mEomBounds[i] BY <1>9, <3>1
    <3> QED BY <1>1, <2>1, <3>1, <3>2 DEF Ascending
  <2>2. CASE j - N \in 1 .. M /\ all[j] = more[j - N]
    <3>1. CASE i \in 1 .. N /\ all[i] = mEomBounds[i]
      <4>1. all[i] \in 1 .. begin BY <1>2, <3>1
      <4>2. all[j] \in begin + 1 .. len BY <1>11, <2>2
      <4> QED BY <1>1, <1>2, <4>1, <4>2
    <3>2. CASE i - N \in 1 .. M /\ all[i] = more[i - N]
      <4>1. i - N < j - N BY <1>1, <2>0
      <4> QED BY <1>6, <2>2, <3>2, <4>1
    <3> QED BY <1>10, <3>1, <3>2
  <2> QED BY <1>10, <2>1, <2>2
<1>13. ASSUME NEW i \in 1 .. N + M PROVE all[i] \in 1 .. len /\ first + all[i] - 1 \in ends
  <2>1. CASE i \in 1 .. N /\ all[i] = mEomBounds[i]
    <3>1. all[i] \in 1 .. length /\ first + all[i] - 1 \in ends BY <1>1, <2>1
    <3> QED BY <1>1, <3>1
  <2>2. CASE i - N \in 1 .. M /\ all[i] = more[i - N]
    <3>1. all[i] \in begin + 1 .. len /\ first + all[i] - 1 \in ends BY <1>11, <2>2
    <3> QED BY <1>1, <1>2, <3>1
  <2> QED BY <1>10, <2>1, <2>2
<1>14. ASSUME NEW p \in 1 .. len, first + p - 1 \in ends, first + p - 1 \notin published
       PROVE  \E i \in 1 .. N + M : all[i] = p
  <2>1. CASE p \in 1 .. length
    <3>1. PICK i \in 1 .. N : mEomBounds[i] = p BY <1>1, <1>14, <2>1
    <3> QED BY <1>9, <3>1
  <2>2. CASE p \notin 1 .. length
    <3>1. p \in begin + 1 .. len BY <1>1, <1>2, <2>2
    <3>2. PICK i \in 1 .. M : more[i] = p BY <1>6, <1>14, <3>1 DEF found
    <3> QED BY <1>9, <3>2
  <2> QED BY <2>1, <2>2
<1>15. BoundsOf(all, len)
  <2> HIDE DEF len
  <2> QED BY <1>8, <1>12, <1>13, <1>14 DEF BoundsOf
<1>16. Bounds(length + count) = all BY DEF Bounds, all, more, found, begin
<1> QED BY <1>15, <1>16

\* A batch has at least one message, and the boundary after a batch is one of the recorded ones.
LEMMA LastEomType ==
    ASSUME BufferTypes, NEW len \in Nat, NEW bounds, BoundsOf(bounds, len), bounds # <<>>, NEW k \in Nat
    PROVE  /\ BatchSize(bounds) \in Nat /\ BatchSize(bounds) >= 1
           /\ k * BatchSize(bounds) \in Nat
           /\ k # 0 => /\ Minimum(Len(bounds), k * BatchSize(bounds)) \in 1 .. Len(bounds)
                       /\ LastEom(bounds, k) = bounds[Minimum(Len(bounds), k * BatchSize(bounds))]
           /\ LastEom(bounds, k) \in 0 .. len
<1> DEFINE N == Len(bounds)
           b == BatchSize(bounds)
<1>1. bounds \in Seq(Nat) /\ N \in Nat /\ DOMAIN bounds = 1 .. N /\ N # 0
  BY LenProperties, EmptySeq DEF BoundsOf
<1>2. b \in Nat /\ b >= 1 BY <1>1 DEF BatchSize, BufferTypes
<1> HIDE DEF b
<1>3. k * b \in Nat /\ (k # 0 => k * b >= 1)
  <2>1. \A x, y \in Nat : x * y \in Nat OBVIOUS
  <2>2. k # 0 => k * b = (k - 1) * b + b BY <1>2
  <2>3. k # 0 => (k - 1) * b \in Nat BY <1>2, <2>1
  <2>4. k * b \in Nat BY <1>2, <2>1
  <2>5. k # 0 => k * b >= 1
    <3> DEFINE x == k * b
               y == (k - 1) * b
    <3>1. k # 0 => x = y + b /\ y \in Nat BY <2>2, <2>3
    <3> HIDE DEF x, y
    <3>2. k # 0 => x >= 1 BY <1>2, <3>1
    <3> QED BY <3>2 DEF x
  <2> QED BY <2>4, <2>5
<1> DEFINE x == k * b
           m == Minimum(N, x)
<1>4. x \in Nat /\ (k # 0 => x >= 1) BY <1>3
<1> HIDE DEF x
<1>5. k # 0 => m \in 1 .. N BY <1>1, <1>4 DEF Minimum
<1>6. k # 0 => LastEom(bounds, k) = bounds[m] BY DEF LastEom, x, b
<1>7. LastEom(bounds, k) \in 0 .. len
  <2>1. CASE k = 0 BY <2>1 DEF LastEom
  <2>2. CASE k # 0
    <3>1. m \in DOMAIN bounds BY <1>1, <1>5, <2>2
    <3>2. bounds[m] \in 1 .. len
      <4> HIDE DEF m
      <4> QED BY <3>1 DEF BoundsOf
    <3> QED BY <1>6, <2>2, <3>2
  <2> QED BY <2>1, <2>2
<1> QED BY <1>2, <1>3, <1>5, <1>6, <1>7 DEF x, b

\* The batches leave out no byte before the end of the last of them: each begins where the one before
\* it ends, and is at least as long as the messages it holds.
LEMMA BatchesCover ==
    ASSUME BufferTypes, NEW len \in Nat, NEW bounds, BoundsOf(bounds, len), bounds # <<>>,
           NEW batches \in Nat, NEW p \in 1 .. LastEom(bounds, batches)
    PROVE  \E k \in 1 .. batches : p \in BatchBytes(bounds, k)
<1> DEFINE Later == {k \in Nat : k <= batches /\ p <= LastEom(bounds, k)}
<1>0. ASSUME NEW k \in Nat PROVE LastEom(bounds, k) \in Nat
  <2>1. LastEom(bounds, k) \in 0 .. len BY LastEomType
  <2> QED BY <2>1
<1>1. batches \in Later /\ Later \in SUBSET Nat BY <1>0
<1>2. PICK k \in Later : \A other \in Later : k <= other
  <2> HIDE DEF Later
  <2> QED BY <1>1, LeastNumber
<1>3. k \in Nat /\ k <= batches /\ p <= LastEom(bounds, k) BY <1>2
<1>4. p \in Nat /\ p >= 1 BY <1>0
<1>5. k # 0
  <2>1. LastEom(bounds, 0) = 0 BY DEF LastEom
  <2> QED BY <1>3, <1>4, <2>1
<1>6. k - 1 \in Nat /\ k - 1 <= batches /\ ~(k <= k - 1) BY <1>3, <1>5
<1>7. ~(p <= LastEom(bounds, k - 1)) BY <1>2, <1>6
<1>8. LastEom(bounds, k - 1) \in Nat /\ LastEom(bounds, k) \in Nat BY <1>0, <1>3, <1>6
<1>9. p \in (LastEom(bounds, k - 1) + 1) .. (LastEom(bounds, k - 1) + LastEom(bounds, k))
  BY <1>3, <1>4, <1>7, <1>8
<1>10. k \in 1 .. batches BY <1>3, <1>5
<1>11. p \in BatchBytes(bounds, k) BY <1>9 DEF BatchBytes
<1> QED BY <1>10, <1>11

\* How many batches are due is a number.
LEMMA NumBatchesType ==
    ASSUME BufferTypes, NEW len \in Nat, NEW bounds, BoundsOf(bounds, len), NEW timedOut
    PROVE  NumBatches(len, bounds, timedOut) \in Nat
<1>1. CASE bounds = <<>> BY <1>1 DEF NumBatches
<1>2. CASE bounds # <<>>
  <2>1. BatchSize(bounds) \in Nat /\ BatchSize(bounds) >= 1
    <3>1. 0 \in Nat OBVIOUS
    <3> QED BY <1>2, <3>1, LastEomType
  <2>2. Len(bounds) \in Nat BY LenProperties DEF BoundsOf
  <2>3. Len(bounds) \div BatchSize(bounds) \in Nat
    <3> DEFINE n == Len(bounds)
               b == BatchSize(bounds)
    <3>1. n \in Nat /\ b \in Nat /\ b >= 1 BY <2>1, <2>2
    <3> HIDE DEF n, b
    <3>2. n \div b \in Nat BY <3>1
    <3> QED BY <3>2 DEF n, b
  <2> QED BY <1>2, <2>3 DEF NumBatches
<1> QED BY <1>1, <1>2

\* publish() skips no message: what leaves the buffer was sent or is given up, and the ends of the
\* messages that stay behind stay on record.
LEMMA PublishSkipsNothing ==
    ASSUME BufferTypes, 1 .. first - 1 \subseteq published \cup discarded,
           UNCHANGED <<bufferSize, ends>>, available' \in Nat,
           NEW len \in Nat, NEW bounds, BoundsOf(bounds, len), NEW timedOut,
           Publish(len, bounds, timedOut)
    PROVE  BufferInv'
<1> DEFINE batches == NumBatches(len, bounds, timedOut)
           N == Len(bounds)
           m == Minimum(N, batches * BatchSize(bounds))
           sent == UNION {BatchBytes(bounds, k) : k \in 1 .. batches}
           left == SubSeq(bounds, m + 1, N)
           gone == IF left = <<>> THEN LastEom(bounds, batches) ELSE 0
           discards == bounds = <<>> /\ Full(len)
<1>1. /\ published' = published \cup {first + p - 1 : p \in sent \cap 1 .. len}
      /\ discards => /\ discarded' = discarded \cup {first + p - 1 : p \in 1 .. len}
                     /\ first' = first + len /\ length' = 0 /\ mEomBounds' = <<>>
      /\ ~discards => /\ discarded' = discarded /\ mEomBounds' = left
                      /\ first' = first + gone /\ length' = len - gone
  BY DEF Publish
<1>2. batches \in Nat BY NumBatchesType
<1>3. first \in Nat /\ first >= 1 /\ bufferSize' \in Nat /\ ends' \subseteq Nat BY DEF BufferTypes
<1>4. /\ bounds \in Seq(Nat) /\ N \in Nat /\ DOMAIN bounds = 1 .. N
      /\ \A i, j \in 1 .. N : i < j => bounds[i] < bounds[j]
      /\ \A i \in 1 .. N : bounds[i] \in 1 .. len /\ first + bounds[i] - 1 \in ends
      /\ \A p \in 1 .. len :
            first + p - 1 \in ends => first + p - 1 \in published \/ \E i \in 1 .. N : bounds[i] = p
  BY LenProperties DEF BoundsOf, Ascending
<1>5. published \subseteq published' BY <1>1
\* What m, the number of bounds that leave, has to do with the bytes that are sent.
<1>6. /\ m \in 0 .. N
      /\ LastEom(bounds, batches) \in 0 .. len
      /\ m = 0 => LastEom(bounds, batches) = 0
      /\ m # 0 => LastEom(bounds, batches) = bounds[m]
  <2>1. CASE bounds = <<>>
    <3>1. batches = 0 /\ N = 0 BY <2>1 DEF NumBatches
    <3>2. BatchSize(bounds) \in Nat BY <3>1, <1>4 DEF BatchSize, BufferTypes
    <3>3. m = 0 BY <3>1, <3>2 DEF Minimum
    <3>4. LastEom(bounds, batches) = 0 BY <3>1 DEF LastEom
    <3> QED BY <3>1, <3>3, <3>4
  <2>2. CASE bounds # <<>>
    <3> HIDE DEF batches
    <3>1. /\ LastEom(bounds, batches) \in 0 .. len /\ BatchSize(bounds) \in Nat
          /\ batches # 0 => m \in 1 .. N /\ LastEom(bounds, batches) = bounds[m]
      BY <1>2, <2>2, LastEomType
    <3>2. CASE batches = 0
      <4>1. batches * BatchSize(bounds) = 0 BY <3>1, <3>2
      <4>2. m = 0 BY <1>4, <4>1 DEF Minimum
      <4>3. LastEom(bounds, batches) = 0 BY <3>2 DEF LastEom
      <4> QED BY <1>4, <4>2, <4>3
    <3>3. CASE batches # 0
      <4> HIDE DEF m
      <4> QED BY <1>4, <3>1, <3>3
    <3> QED BY <3>2, <3>3
  <2> QED BY <2>1, <2>2
<1>7. ASSUME NEW p \in 1 .. len, p <= LastEom(bounds, batches) PROVE first + p - 1 \in published'
  <2>1. bounds # <<>>
    <3>1. bounds = <<>> => N = 0 /\ m = 0 BY <1>6, <1>4
    <3> QED BY <1>6, <1>7, <3>1
  <2>2. p \in 1 .. LastEom(bounds, batches) BY <1>6, <1>7
  <2>3. PICK k \in 1 .. batches : p \in BatchBytes(bounds, k)
    <3> HIDE DEF batches
    <3> QED BY <1>2, <2>1, <2>2, BatchesCover
  <2>4. p \in sent BY <2>3
  <2> HIDE DEF sent
  <2> QED BY <1>1, <2>4
<1>8. /\ left \in Seq(Nat) /\ Len(left) = N - m /\ DOMAIN left = 1 .. N - m
      /\ \A i \in 1 .. N - m : m + i \in 1 .. N /\ left[i] = bounds[m + i]
  <2> HIDE DEF m
  <2>1. m + 1 \in Int /\ N \in Int /\ \A i \in m + 1 .. N : bounds[i] \in Nat
    <3>1. \A i \in 1 .. N : bounds[i] \in Nat BY <1>4
    <3> QED BY <1>4, <1>6, <3>1
  <2>2. /\ left \in Seq(Nat) /\ Len(left) = IF m + 1 <= N THEN N - (m + 1) + 1 ELSE 0
        /\ \A i \in 1 .. N - (m + 1) + 1 : left[i] = bounds[m + 1 + i - 1]
    <3> HIDE DEF N
    <3> QED BY <2>1, SubSeqProperties
  <2> HIDE DEF left
  <2>3. Len(left) = N - m
    <3> HIDE DEF N
    <3>1. m <= N /\ m \in Nat /\ N \in Nat BY <1>4, <1>6
    <3>2. CASE m + 1 <= N
      <4>1. N - (m + 1) + 1 = N - m BY <3>1
      <4> QED BY <2>2, <3>2, <4>1
    <3>3. CASE ~(m + 1 <= N)
      <4>1. N - m = 0 BY <3>1, <3>3
      <4> QED BY <2>2, <3>3, <4>1
    <3> QED BY <3>2, <3>3
  <2>4. DOMAIN left = 1 .. N - m BY <2>2, <2>3, LenProperties
  <2>5. ASSUME NEW i \in 1 .. N - m PROVE m + i \in 1 .. N /\ left[i] = bounds[m + i]
    <3> HIDE DEF N
    <3>1. m \in Nat /\ N \in Nat BY <1>4, <1>6
    <3>2. i \in 1 .. N - (m + 1) + 1 /\ m + 1 + i - 1 = m + i /\ m + i \in 1 .. N BY <3>1
    <3>3. left[i] = bounds[m + 1 + i - 1] BY <2>2, <3>2
    <3> QED BY <3>2, <3>3
  <2> QED BY <2>2, <2>3, <2>4, <2>5
<1>9. left = <<>> <=> m = N
  <2> HIDE DEF left, m, N
  <2>1. left = <<>> => Len(left) = 0 OBVIOUS
  <2>2. Len(left) = 0 => left = <<>> BY <1>8, EmptySeq
  <2> QED BY <1>4, <1>6, <1>8, <2>1, <2>2
<1> HIDE DEF batches, N, m, sent, left
<1>10. gone \in 0 .. len /\ (left # <<>> => gone = 0) /\ (left = <<>> => gone = LastEom(bounds, batches))
  BY <1>6
<1>11. CASE discards
  <2>1. BufferTypes'
    <3>1. first' \in Nat \ {0} /\ length' \in Nat /\ mEomBounds' \in Seq(Nat) BY <1>1, <1>3, <1>11
    <3> QED BY <1>3, <3>1 DEF BufferTypes
  <2>2. ASSUME NEW b \in 1 .. first' - 1 PROVE b \in published' \cup discarded'
    <3>1. CASE b \in 1 .. first - 1 BY <1>1, <1>5, <1>11, <3>1
    <3>2. CASE b \notin 1 .. first - 1
      <4>1. b - first + 1 \in 1 .. len /\ b = first + (b - first + 1) - 1 BY <1>1, <1>3, <1>11, <3>2
      <4> QED BY <1>1, <1>11, <4>1
    <3> QED BY <3>1, <3>2
  <2>3. DOMAIN mEomBounds' = {} /\ 1 .. length' = {} BY <1>1, <1>11
  <2>4. Ascending(mEomBounds)' BY <2>3 DEF Ascending
  <2> QED BY <2>1, <2>2, <2>3, <2>4 DEF BufferInv, NoMessageIsSkipped
<1>12. CASE ~discards
  <2> HIDE DEF discards, gone
  <2>1. BufferTypes'
    <3>1. first' \in Nat \ {0} /\ length' \in Nat BY <1>1, <1>3, <1>10, <1>12
    <3>2. mEomBounds' \in Seq(Nat) BY <1>1, <1>8, <1>12
    <3> QED BY <1>3, <3>1, <3>2 DEF BufferTypes
  <2>2. ASSUME NEW b \in 1 .. first' - 1 PROVE b \in published' \cup discarded'
    <3>1. CASE b \in 1 .. first - 1 BY <1>1, <1>5, <1>12, <3>1
    <3>2. CASE b \notin 1 .. first - 1
      <4> DEFINE p == b - first + 1
      <4>1. p \in 1 .. gone /\ b = first + p - 1 BY <1>1, <1>3, <1>10, <1>12, <3>2
      <4>2. gone # 0 BY <4>1
      <4>3. p \in 1 .. len /\ p <= LastEom(bounds, batches) BY <1>10, <4>1, <4>2
      <4> HIDE DEF p
      <4> QED BY <1>7, <4>1, <4>3
    <3> QED BY <3>1, <3>2
  <2>3. ASSUME NEW i \in 1 .. N - m
        PROVE  /\ gone = 0 /\ first' = first /\ length' = len
               /\ mEomBounds'[i] \in 1 .. len /\ first + mEomBounds'[i] - 1 \in ends
               /\ mEomBounds'[i] = bounds[m + i] /\ m + i \in 1 .. N
    <3>1. m # N BY <1>4, <1>6
    <3>2. gone = 0 BY <1>9, <1>10, <3>1
    <3>3. first' = first /\ length' = len BY <1>1, <1>3, <1>12, <3>2
    <3>4. mEomBounds'[i] = bounds[m + i] /\ m + i \in 1 .. N BY <1>1, <1>8, <1>12
    <3> QED BY <1>4, <3>2, <3>3, <3>4
  <2>4. DOMAIN mEomBounds' = 1 .. N - m BY <1>1, <1>8, <1>12
  <2>5. Ascending(mEomBounds)'
    <3> SUFFICES ASSUME NEW i \in 1 .. N - m, NEW j \in 1 .. N - m, i < j
                 PROVE  mEomBounds'[i] < mEomBounds'[j]
      BY <2>4 DEF Ascending
    <3>1. m + i < m + j /\ m + i \in 1 .. N /\ m + j \in 1 .. N BY <1>4, <1>6, <2>3
    <3>2. bounds[m + i] < bounds[m + j] BY <1>4, <3>1
    <3> QED BY <2>3, <3>2
  <2>6. ASSUME NEW p \in 1 .. length', first' + p - 1 \in ends, first' + p - 1 \notin published'
        PROVE  \E i \in 1 .. N - m : mEomBounds'[i] = p
    <3> DEFINE q == gone + p
    <3>1. q \in 1 .. len /\ first + q - 1 = first' + p - 1 BY <1>1, <1>3, <1>10, <1>12
    <3>2. first + q - 1 \in ends /\ first + q - 1 \notin published' BY <2>6, <3>1
    <3>3. first + q - 1 \notin published BY <1>5, <3>2
    <3> HIDE DEF q
    <3>4. PICK i \in 1 .. N : bounds[i] = q BY <1>4, <3>1, <3>2, <3>3
    <3>5. ~(q <= LastEom(bounds, batches)) BY <1>7, <3>1, <3>2
    <3>6. ~(i <= m)
      <4> SUFFICES ASSUME i <= m PROVE FALSE OBVIOUS
      <4>1. m \in 1 .. N /\ LastEom(bounds, batches) = bounds[m] BY <1>4, <1>6
      <4>2. bounds[i] <= bounds[m]
        <5>1. CASE i = m BY <1>4, <4>1, <5>1
        <5>2. CASE i # m
          <6>1. i < m BY <4>1, <5>2
          <6>2. bounds[i] < bounds[m] BY <1>4, <4>1, <6>1
          <6>3. bounds[i] \in Nat /\ bounds[m] \in Nat BY <1>4, <4>1
          <6> QED BY <6>2, <6>3
        <5> QED BY <5>1, <5>2
      <4> QED BY <3>4, <3>5, <4>1, <4>2
    <3>7. i - m \in 1 .. N - m /\ m + (i - m) = i BY <1>4, <1>6, <3>6
    <3>8. gone = 0 /\ mEomBounds'[i - m] = bounds[m + (i - m)] BY <2>3, <3>7
    <3>9. q = p BY <3>8 DEF q
    <3>10. mEomBounds'[i - m] = p BY <3>4, <3>7, <3>8, <3>9
    <3> QED BY <3>7, <3>10
  <2>7. NoMessageIsSkipped' BY <2>2, <2>3, <2>4, <2>5, <2>6 DEF NoMessageIsSkipped
  <2> QED BY <2>1, <2>7 DEF BufferInv
<1> QED BY <1>11, <1>12

\* No message is skipped: a byte leaves the buffer only when it was published, or given up because the
\* full buffer held no delimiter or by stop(), and the recorded boundaries are those of the buffer
\* (publish, needPublish, onReadableCallback).
THEOREM SensorSkipsNoMessage == Spec => []NoMessageIsSkipped
<1>1. Init => BufferInv
  <2> SUFFICES ASSUME Init PROVE BufferInv OBVIOUS
  <2>1. BufferTypes
    <3>1. first \in Nat \ {0} /\ length \in Nat /\ available \in Nat /\ mEomBounds \in Seq(Nat) BY DEF Init
    <3>2. bufferSize \in Nat /\ ends \subseteq Nat BY ConstantsAssumption DEF Init
    <3> QED BY <3>1, <3>2 DEF BufferTypes
  <2>2. first = 1 /\ length = 0 /\ DOMAIN mEomBounds = {} BY DEF Init
  <2> QED BY <2>1, <2>2 DEF BufferInv, NoMessageIsSkipped, Ascending
<1>2. BufferInv /\ [Next]_vars => BufferInv'
  <2> SUFFICES ASSUME BufferInv, [Next]_vars PROVE BufferInv' OBVIOUS
  <2>0. BufferTypes /\ NoMessageIsSkipped /\ first \in Nat /\ length \in Nat /\ available \in Nat
    BY DEF BufferInv, BufferTypes
  <2>1. ASSUME UNCHANGED <<configVars, bufferVars>>, available' \in Nat PROVE BufferInv'
    <3>1. BufferTypes' BY <2>0, <2>1 DEF BufferTypes
    <3>2. NoMessageIsSkipped' BY <2>0, <2>1 DEF NoMessageIsSkipped, Ascending
    <3> QED BY <3>1, <3>2 DEF BufferInv
  <2>2. CASE StopResets
    <3> USE <2>2 DEF StopResets
    <3>1. BufferTypes'
      <4>1. first' \in Nat \ {0} /\ length' \in Nat /\ available' \in Nat /\ mEomBounds' \in Seq(Nat)
        BY <2>0 DEF BufferTypes
      <4> QED BY <2>0, <4>1 DEF BufferTypes
    <3>2. ASSUME NEW b \in 1 .. first' - 1 PROVE b \in published' \cup discarded'
      <4>1. CASE b \in 1 .. first - 1 BY <2>0, <4>1 DEF NoMessageIsSkipped
      <4>2. CASE b \notin 1 .. first - 1
        <5>1. b - first + 1 \in 1 .. length /\ b = first + (b - first + 1) - 1
          BY <2>0, <4>2
        <5> QED BY <5>1
      <4> QED BY <4>1, <4>2
    <3>3. DOMAIN mEomBounds' = {} /\ 1 .. length' = {} OBVIOUS
    <3>4. Ascending(mEomBounds)' BY <3>3 DEF Ascending
    <3> QED BY <3>1, <3>2, <3>3, <3>4 DEF BufferInv, NoMessageIsSkipped
  <2>3. CASE onConnectionResultCallback
    <3>1. PICK timedOut : Publish(length, mEomBounds, timedOut) BY <2>3 DEF onConnectionResultCallback
    <3>2. BoundsOf(mEomBounds, length) BY <2>0 DEF BoundsOf, BufferTypes, NoMessageIsSkipped
    <3>3. UNCHANGED <<bufferSize, ends>> /\ available' \in Nat BY <2>0, <2>3 DEF onConnectionResultCallback
    <3>4. 1 .. first - 1 \subseteq published \cup discarded BY <2>0 DEF NoMessageIsSkipped
    <3> QED BY <2>0, <3>1, <3>2, <3>3, <3>4, PublishSkipsNothing
  <2>4. CASE Read
    <3>1. PICK count \in (IF Full(length) THEN {0} ELSE 1 .. Minimum(available, Capacity - length)) :
             /\ available' = available - count
             /\ \E timedOut \in {FALSE, expires} :
                   Publish(length + count, Bounds(length + count), timedOut)
      BY <2>4 DEF Read
    <3>2. PICK timedOut : Publish(length + count, Bounds(length + count), timedOut) BY <3>1
    <3>3. count \in Nat /\ available' \in Nat
      BY <2>0, <2>4, <3>1, ConstantsAssumption DEF Full, Minimum
    <3>4. BoundsOf(Bounds(length + count), length + count) BY <3>3, ScanFindsAll
    <3>5. UNCHANGED <<bufferSize, ends>> BY <2>4 DEF Read
    <3>6. 1 .. first - 1 \subseteq published \cup discarded BY <2>0 DEF NoMessageIsSkipped
    <3>7. length + count \in Nat BY <2>0, <3>3
    <3> QED BY <2>0, <3>2, <3>3, <3>4, <3>5, <3>6, <3>7, PublishSkipsNothing
  <2>5. CASE UNCHANGED vars BY <2>0, <2>1, <2>5 DEF vars
  <2>6. CASE Start \/ StartHeartbeat \/ StopCloses \/ StopHeartbeat
    BY <2>0, <2>1, <2>6 DEF Start, StartHeartbeat, StopCloses, StopHeartbeat
  <2>7. CASE \/ onConnectTaskCallback \/ ConnectionFails \/ SensorSends \/ onReadableCallback
             \/ ReadWouldBlock \/ ReadFindsClosed
    <3>1. UNCHANGED <<configVars, bufferVars>>
      BY <2>7 DEF onConnectTaskCallback, ConnectionFails, SensorSends, onReadableCallback, ReadWouldBlock,
                  ReadFindsClosed
    <3>2. available' \in {available, available + 1, 0}
      BY <2>7 DEF onConnectTaskCallback, ConnectionFails, SensorSends, onReadableCallback, ReadWouldBlock,
                  ReadFindsClosed, CloseAndReconnect
    <3> QED BY <2>0, <2>1, <3>1, <3>2
  <2>8. CASE publishHeartbeat \/ HeartbeatCompletes
    BY <2>0, <2>1, <2>8 DEF publishHeartbeat, HeartbeatCompletes
  <2> QED BY <2>2, <2>3, <2>4, <2>5, <2>6, <2>7, <2>8 DEF Next, ReadLoop
<1>3. BufferInv => NoMessageIsSkipped BY DEF BufferInv
<1> QED BY <1>1, <1>2, <1>3, PTL DEF Spec
-----------------------------------------------------------------------------
USE DEF fileVars, watchVars, publishVars, mainVars, settingVars, monitorVars

(* The file monitor: events. *)

\* An event of a sequence made of two is one of either.
LEMMA OccursInConcat ==
  ASSUME NEW before \in Seq(Event), NEW after \in Seq(Event), NEW kinds
  PROVE  /\ before \o after \in Seq(Event)
         /\ Occurs(kinds, before \o after) <=> Occurs(kinds, before) \/ Occurs(kinds, after)
<1> DEFINE both == before \o after
<1>1. /\ Len(before) \in Nat /\ DOMAIN before = 1 .. Len(before)
      /\ Len(after) \in Nat /\ DOMAIN after = 1 .. Len(after)
      /\ both \in Seq(Event) /\ Len(both) = Len(before) + Len(after)
      /\ DOMAIN both = 1 .. Len(before) + Len(after)
      /\ \A i \in 1 .. Len(before) + Len(after) :
            both[i] = IF i <= Len(before) THEN before[i] ELSE after[i - Len(before)]
  BY ConcatProperties, LenProperties
<1> HIDE DEF both
<1>2. ASSUME Occurs(kinds, both) PROVE Occurs(kinds, before) \/ Occurs(kinds, after)
  <2>1. PICK i \in 1 .. Len(before) + Len(after) : both[i] \in kinds BY <1>1, <1>2 DEF Occurs
  <2>2. CASE i <= Len(before)
    <3>1. i \in DOMAIN before /\ before[i] \in kinds BY <1>1, <2>1, <2>2
    <3> QED BY <3>1 DEF Occurs
  <2>3. CASE ~(i <= Len(before))
    <3>1. i - Len(before) \in DOMAIN after BY <1>1, <2>3
    <3>2. after[i - Len(before)] \in kinds BY <1>1, <2>1, <2>3
    <3> QED BY <3>1, <3>2 DEF Occurs
  <2> QED BY <2>2, <2>3
<1>3. ASSUME Occurs(kinds, before) PROVE Occurs(kinds, both)
  <2>1. PICK i \in 1 .. Len(before) : before[i] \in kinds BY <1>1, <1>3 DEF Occurs
  <2>2. i \in DOMAIN both /\ both[i] = before[i] BY <1>1
  <2> QED BY <2>1, <2>2 DEF Occurs
<1>4. ASSUME Occurs(kinds, after) PROVE Occurs(kinds, both)
  <2>1. PICK i \in 1 .. Len(after) : after[i] \in kinds BY <1>1, <1>4 DEF Occurs
  <2>2. i + Len(before) \in DOMAIN both /\ ~(i + Len(before) <= Len(before))
        /\ (i + Len(before)) - Len(before) = i
    BY <1>1
  <2>3. both[i + Len(before)] = after[i] BY <1>1, <2>2
  <2> QED BY <2>1, <2>2, <2>3 DEF Occurs
<1> QED BY <1>1, <1>2, <1>3, <1>4 DEF both

\* What inotify adds is an event.
LEMMA EventsType ==
  ASSUME NEW occurs, NEW event \in Event
  PROVE  Events(occurs, event) \in Seq(Event)
  BY DEF Events

\* The rest of a batch, once its before event is none of these.
LEMMA TailOccurs ==
  ASSUME NEW events \in Seq(Event), events # <<>>, NEW kinds
  PROVE  /\ Tail(events) \in Seq(Event)
         /\ Head(events) \notin kinds /\ Occurs(kinds, events) => Occurs(kinds, Tail(events))
<1>1. /\ Len(events) \in Nat \ {0} /\ DOMAIN events = 1 .. Len(events)
      /\ Tail(events) \in Seq(Event) /\ Len(Tail(events)) = Len(events) - 1
      /\ \A i \in 1 .. Len(Tail(events)) : Tail(events)[i] = events[i + 1]
      /\ Head(events) = events[1]
      /\ DOMAIN Tail(events) = 1 .. Len(events) - 1
  BY EmptySeq, LenProperties, HeadTailProperties
<1>2. ASSUME Head(events) \notin kinds, Occurs(kinds, events) PROVE Occurs(kinds, Tail(events))
  <2>1. PICK i \in 1 .. Len(events) : events[i] \in kinds BY <1>1, <1>2 DEF Occurs
  <2>2. i # 1 BY <1>1, <1>2, <2>1
  <2>3. i - 1 \in DOMAIN Tail(events) /\ (i - 1) + 1 = i BY <1>1, <2>2
  <2>4. Tail(events)[i - 1] = events[i] BY <1>1, <2>3
  <2> QED BY <2>1, <2>3, <2>4 DEF Occurs
<1> QED BY <1>1, <1>2

\* The event of a close waits, added or merged with the last one that waits.
LEMMA CloseWaits ==
  ASSUME queue \in Seq(Event), NEW event \in Event
  PROVE  Occurs({event}, queue \o Events(TRUE, event))
<1>1. CASE queue # <<>> /\ queue[Len(queue)] = event
  <2>1. Events(TRUE, event) = <<>> BY <1>1 DEF Events
  <2>2. Len(queue) \in DOMAIN queue BY <1>1, EmptySeq, LenProperties
  <2>3. Occurs({event}, queue) BY <1>1, <2>2 DEF Occurs
  <2> QED BY <2>1, <2>3, OccursInConcat, EmptySeq
<1>2. CASE ~(queue # <<>> /\ queue[Len(queue)] = event)
  <2>1. Events(TRUE, event) = <<event>> BY <1>2 DEF Events
  <2>2. Occurs({event}, <<event>>) BY DEF Occurs
  <2>3. <<event>> \in Seq(Event) OBVIOUS
  <2> QED BY <2>1, <2>2, <2>3, OccursInConcat
<1> QED BY <1>1, <1>2
-----------------------------------------------------------------------------
(* The file monitor: the invariant. *)

\* At before nothing waits.
LEMMA MonitorInitEstablishes == MonitorInit => MonitorInv
  BY DEF MonitorInit, MonitorInv, EventTypes, BatchInv, NoticeInv, Event

\* The rest of the batch.
LEMMA RestType ==
  ASSUME MonitorInv
  PROVE  /\ queue \in Seq(Event) /\ batch \in Seq(Event)
         /\ (IF monitorPc = "rewatch" THEN Tail(batch) ELSE batch) \in Seq(Event)
         /\ Pending \in Seq(Event)
<1>1. queue \in Seq(Event) /\ batch \in Seq(Event) BY DEF MonitorInv, EventTypes
<1>2. (IF monitorPc = "rewatch" THEN Tail(batch) ELSE batch) \in Seq(Event)
  BY <1>1, TailOccurs DEF MonitorInv, BatchInv
<1> QED BY <1>1, <1>2, OccursInConcat DEF Pending

\* Events that are added leave those that wait where they are.
LEMMA PendingGrows ==
  ASSUME MonitorInv, NEW more \in Seq(Event), queue' = queue \o more,
         UNCHANGED <<batch, monitorPc>>,
         featurePc' = featurePc \/ monitorPc = "none" \/ featurePc' \in {"started", "stopped"}
  PROVE  /\ EventTypes' /\ BatchInv'
         /\ Occurs(PublishedOn, Pending) \/ Occurs(PublishedOn, queue \o more) => Occurs(PublishedOn, Pending)'
<1> DEFINE rest == IF monitorPc = "rewatch" THEN Tail(batch) ELSE batch
<1>1. queue \in Seq(Event) /\ batch \in Seq(Event) /\ rest \in Seq(Event) BY RestType
<1>2. Pending = queue \o rest /\ Pending' = queue' \o rest BY DEF Pending
<1> HIDE DEF rest
<1>3. queue' \in Seq(Event) BY <1>1, OccursInConcat
<1>4. EventTypes' BY <1>1, <1>3 DEF EventTypes
<1>5. BatchInv' BY DEF MonitorInv, BatchInv
<1>6. ASSUME Occurs(PublishedOn, Pending) PROVE Occurs(PublishedOn, queue') \/ Occurs(PublishedOn, rest)
  <2>1. Occurs(PublishedOn, queue) \/ Occurs(PublishedOn, rest) BY <1>1, <1>2, <1>6, OccursInConcat
  <2> QED BY <1>1, <2>1, OccursInConcat
<1>7. ASSUME Occurs(PublishedOn, Pending) \/ Occurs(PublishedOn, queue \o more)
      PROVE  Occurs(PublishedOn, Pending')
  BY <1>1, <1>2, <1>3, <1>6, <1>7, OccursInConcat
<1> QED BY <1>4, <1>5, <1>7 DEF Occurs

\* Steps that add no event.
LEMMA PendingStays ==
  ASSUME MonitorInv, UNCHANGED <<queue, batch, monitorPc>>,
         featurePc' = featurePc \/ monitorPc = "none" \/ featurePc' \in {"started", "stopped"}
  PROVE  /\ EventTypes' /\ BatchInv'
         /\ Occurs(PublishedOn, Pending) => Occurs(PublishedOn, Pending)'
  BY DEF MonitorInv, EventTypes, BatchInv, Pending, Occurs

\* The before publication, and one that is asked for: the content is the one published.
LEMMA MonitorPublishPreserves ==
  ASSUME MonitorInv, FirstPublish \/ Trigger
  PROVE  MonitorInv'
<1>1. /\ PublishFile
      /\ UNCHANGED <<queue, batch, monitorPc, inode, content, writer>>
      /\ featurePc' = featurePc \/ featurePc = "publishing"
  BY DEF FirstPublish, Trigger
<1>2. featurePc = "publishing" => monitorPc = "none" BY DEF MonitorInv, BatchInv
<1>3. EventTypes' /\ BatchInv' BY <1>1, <1>2, PendingStays
<1>4. inode' # 0 /\ content' # 0 => newest' = content' BY <1>1 DEF PublishFile
<1> QED BY <1>3, <1>4 DEF MonitorInv, NoticeInv

\* The other steps of start() and stop().
LEMMA MonitorMainPreserves ==
  ASSUME MonitorInv, StartFeature \/ SubscribeAck \/ WaitEnds \/ StartMonitor \/ Stop
  PROVE  MonitorInv'
<1>1. /\ UNCHANGED <<queue, batch, inode, content, writer, newest, unwatched>>
      /\ \/ UNCHANGED <<monitorPc, featurePc>>
         \/ /\ UNCHANGED monitorPc
            /\ featurePc \in {"starting", "waiting"} /\ featurePc' \in {"waiting", "publishing"}
         \/ UNCHANGED monitorPc /\ featurePc = "started" /\ featurePc' = "stopped"
         \/ /\ featurePc = "monitoring" /\ featurePc' = "started"
            /\ monitorPc' \in {"dir", "none"}
  BY DEF StartFeature, SubscribeAck, WaitEnds, StartMonitor, Stop
<1>2. CASE UNCHANGED <<monitorPc, featurePc>>
  <2>1. /\ EventTypes' /\ BatchInv' /\ (Occurs(PublishedOn, Pending) => Occurs(PublishedOn, Pending)')
    BY <1>1, <1>2, PendingStays
  <2> QED BY <1>1, <1>2, <2>1 DEF MonitorInv, NoticeInv
<1>3. CASE UNCHANGED monitorPc /\ featurePc \in {"starting", "waiting"}
           /\ featurePc' \in {"waiting", "publishing"}
  <2>1. monitorPc = "none" BY <1>3 DEF MonitorInv, BatchInv
  <2>2. EventTypes' /\ BatchInv' BY <1>1, <1>3, <2>1, PendingStays
  <2> QED BY <1>3, <2>2 DEF MonitorInv, NoticeInv
<1>4. CASE UNCHANGED monitorPc /\ featurePc = "started" /\ featurePc' = "stopped"
  <2>1. /\ EventTypes' /\ BatchInv' /\ (Occurs(PublishedOn, Pending) => Occurs(PublishedOn, Pending)')
    BY <1>1, <1>4, PendingStays
  <2> QED BY <1>1, <1>4, <2>1 DEF MonitorInv, NoticeInv
<1>5. CASE featurePc = "monitoring" /\ featurePc' = "started" /\ monitorPc' \in {"dir", "none"}
  <2>1. monitorPc = "none" /\ batch = <<>> BY <1>5 DEF MonitorInv, BatchInv
  <2>2. EventTypes' /\ BatchInv' BY <1>1, <1>5, <2>1 DEF MonitorInv, EventTypes, BatchInv
  <2>3. Pending' = Pending BY <1>1, <1>5, <2>1 DEF Pending
  <2> QED BY <1>1, <1>5, <2>1, <2>2, <2>3 DEF MonitorInv, NoticeInv, Occurs
<1> QED BY <1>1, <1>2, <1>3, <1>4, <1>5
-----------------------------------------------------------------------------
(* The file monitor: its thread. *)

\* Steps between the events; the loop ends, or the thread goes on with nothing read.
LEMMA QuietMonitorPreserves ==
  ASSUME MonitorInv, WatchDirectory \/ WatchFile \/ LoopChecks \/ BatchEnds \/ Exit
  PROVE  MonitorInv'
<1>1. /\ UNCHANGED <<batch, inode, content, writer, newest, unwatched, featurePc>>
      /\ monitorPc # "none" /\ monitorPc # "rewatch" /\ monitorPc' # "none" /\ monitorPc' # "rewatch"
      /\ \/ batch = <<>> /\ UNCHANGED queue /\ monitorPc \notin {"exit", "ended"}
         \/ monitorPc' = "ended" /\ queue' = <<>>
  BY DEF WatchDirectory, WatchFile, LoopChecks, BatchEnds, Exit, MonitorInv, BatchInv
<1>2. EventTypes' BY <1>1, EmptySeq DEF MonitorInv, EventTypes
<1>3. BatchInv' BY <1>1 DEF MonitorInv, BatchInv
<1>4. CASE UNCHANGED queue /\ monitorPc \notin {"exit", "ended"}
  <2>1. Pending' = Pending BY <1>1, <1>4 DEF Pending
  <2> QED BY <1>1, <1>2, <1>3, <1>4, <2>1 DEF MonitorInv, NoticeInv, Occurs
<1>5. CASE monitorPc' = "ended" BY <1>2, <1>3, <1>5 DEF MonitorInv, NoticeInv
<1> QED BY <1>1, <1>4, <1>5

\* read() moves all the events.
LEMMA MonitorReadPreserves == ASSUME MonitorInv, ReadEvents PROVE MonitorInv'
<1>1. /\ monitorPc = "read" /\ monitorPc' = "handle" /\ batch' = queue /\ queue' = <<>>
      /\ UNCHANGED <<inode, content, writer, newest, unwatched, featurePc>>
  BY DEF ReadEvents
<1>2. batch = <<>> /\ queue \in Seq(Event) BY <1>1 DEF MonitorInv, BatchInv, EventTypes
<1>3. EventTypes' BY <1>1, <1>2 DEF EventTypes
<1>4. BatchInv' BY <1>1 DEF MonitorInv, BatchInv
<1>5. Pending' = Pending
  <2>1. Pending = queue \o <<>> /\ Pending' = <<>> \o queue BY <1>1, <1>2 DEF Pending
  <2> QED BY <1>2, <2>1, ConcatEmptySeq
<1> QED BY <1>1, <1>3, <1>4, <1>5 DEF MonitorInv, NoticeInv, Occurs

\* A creation or a close is handled: the file is published.
LEMMA HandlePreserves == ASSUME MonitorInv, HandleCreate \/ HandleCloseWrite PROVE MonitorInv'
<1>1. /\ PublishFile /\ monitorPc = "handle" /\ batch # <<>>
      /\ UNCHANGED <<queue, inode, content, writer, featurePc>>
      /\ \/ monitorPc' = "rewatch" /\ batch' = batch
         \/ monitorPc' = "handle" /\ batch' = Tail(batch)
  BY DEF HandleCreate, HandleCloseWrite, PublishCreated
<1>2. batch \in Seq(Event) /\ queue \in Seq(Event) BY DEF MonitorInv, EventTypes
<1>3. EventTypes' BY <1>1, <1>2, TailOccurs DEF EventTypes
<1>4. BatchInv' BY <1>1 DEF MonitorInv, BatchInv
<1>5. inode' # 0 /\ content' # 0 => newest' = content' BY <1>1 DEF PublishFile
<1> QED BY <1>3, <1>4, <1>5 DEF MonitorInv, NoticeInv

\* The creation was published before the file is watched again.
LEMMA RewatchPreserves == ASSUME MonitorInv, Rewatch PROVE MonitorInv'
<1>1. /\ monitorPc = "rewatch" /\ monitorPc' = "handle" /\ batch' = Tail(batch) /\ batch # <<>>
      /\ UNCHANGED <<queue, inode, content, writer, newest, unwatched, featurePc>>
  BY DEF Rewatch, MonitorInv, BatchInv
<1>2. EventTypes' BY <1>1, TailOccurs DEF MonitorInv, EventTypes
<1>3. BatchInv' BY <1>1 DEF MonitorInv, BatchInv
<1>4. Pending' = Pending BY <1>1 DEF Pending
<1> QED BY <1>1, <1>2, <1>3, <1>4 DEF MonitorInv, NoticeInv, Occurs

\* The event of a deletion has nothing published, and none that would is passed over.
LEMMA DeleteSelfPreserves == ASSUME MonitorInv, HandleDeleteSelf PROVE MonitorInv'
<1>1. /\ monitorPc = "handle" /\ monitorPc' = "handle" /\ batch' = Tail(batch) /\ batch # <<>>
      /\ Head(batch) = "IN_DELETE_SELF"
      /\ UNCHANGED <<queue, inode, content, writer, newest, unwatched, featurePc>>
  BY DEF HandleDeleteSelf
<1>2. batch \in Seq(Event) /\ queue \in Seq(Event) BY DEF MonitorInv, EventTypes
<1>3. EventTypes' BY <1>1, <1>2, TailOccurs DEF EventTypes
<1>4. BatchInv' BY <1>1 DEF MonitorInv, BatchInv
<1>5. Pending = queue \o batch /\ Pending' = queue \o Tail(batch) BY <1>1 DEF Pending
<1>6. Head(batch) \notin PublishedOn BY <1>1 DEF PublishedOn
<1>7. ASSUME Occurs(PublishedOn, Pending) PROVE Occurs(PublishedOn, Pending')
  <2>1. Occurs(PublishedOn, queue) \/ Occurs(PublishedOn, batch)
    BY <1>2, <1>5, <1>7, OccursInConcat
  <2>2. Tail(batch) \in Seq(Event) BY <1>1, <1>2, TailOccurs
  <2>3. Occurs(PublishedOn, queue) \/ Occurs(PublishedOn, Tail(batch))
    BY <1>1, <1>2, <1>6, <2>1, TailOccurs
  <2> QED BY <1>2, <1>5, <2>2, <2>3, OccursInConcat
<1> QED BY <1>1, <1>3, <1>4, <1>7 DEF MonitorInv, NoticeInv, Occurs
-----------------------------------------------------------------------------
(* The file monitor: what happens to the file. *)

\* A file that is created is empty, one that is opened or deleted has no content to publish, and one
\* that replaces another comes unnoticed.
LEMMA MonitorFilePreserves ==
  ASSUME MonitorInv, FileCreated \/ FileOpened \/ FileDeleted \/ FileReplaced
  PROVE  MonitorInv'
<1>1. UNCHANGED <<batch, monitorPc, featurePc>>
  BY DEF FileCreated, FileOpened, FileDeleted, FileReplaced
<1>2. queue \in Seq(Event) BY DEF MonitorInv, EventTypes
<1>3. \E more \in Seq(Event) : queue' = queue \o more
  <2>1. CASE FileCreated
    <3>1. Events(dirWatch, "IN_CREATE") \in Seq(Event) BY EventsType DEF Event
    <3> QED BY <2>1, <3>1 DEF FileCreated
  <2>2. CASE FileOpened
    <3>1. queue' = queue \o <<>> /\ <<>> \in Seq(Event) BY <1>2, <2>2, ConcatEmptySeq DEF FileOpened
    <3> QED BY <3>1
  <2>3. CASE Unlinked(inode)
    <3>1. Events(inode \in deleteWatches, "IN_DELETE_SELF") \in Seq(Event) BY EventsType DEF Event
    <3>2. queue \o <<>> = queue /\ <<>> \in Seq(Event) BY <1>2, ConcatEmptySeq
    <3> QED BY <2>3, <3>1, <3>2 DEF Unlinked
  <2> QED BY <2>1, <2>2, <2>3 DEF FileDeleted, FileReplaced
<1>4. EventTypes' /\ BatchInv' BY <1>1, <1>3, PendingGrows
<1>5. inode' = 0 \/ content' = 0 \/ unwatched' \/ writer' = inode'
  BY DEF FileCreated, FileOpened, FileDeleted, FileReplaced
<1> QED BY <1>4, <1>5 DEF MonitorInv, NoticeInv

\* Only the program that has the file open writes it.
LEMMA WrittenPreserves == ASSUME MonitorInv, FileWritten PROVE MonitorInv'
<1>1. UNCHANGED <<queue, batch, monitorPc, featurePc>> /\ writer' = inode' BY DEF FileWritten
<1>2. EventTypes' /\ BatchInv' BY <1>1, PendingStays
<1> QED BY <1>1, <1>2 DEF MonitorInv, NoticeInv

\* The close of a file that is watched is an event; otherwise the change is unnoticed, or the
\* creation of the file still waits to be handled.
LEMMA ClosedPreserves == ASSUME MonitorInv, FileClosed PROVE MonitorInv'
<1>1. /\ UNCHANGED <<batch, monitorPc, featurePc, inode, content, newest>>
      /\ writer # 0 /\ writer' = 0 /\ unwatched' = (unwatched \/ Unnoticed)
  BY DEF FileClosed
<1>2. queue \in Seq(Event) BY DEF MonitorInv, EventTypes
<1> DEFINE close == Events(writer \in watches, "IN_CLOSE_WRITE")
           deletion == Events(writer \in deleteWatches, "IN_DELETE_SELF")
<1>3. close \in Seq(Event) /\ deletion \in Seq(Event) BY EventsType DEF Event
<1>4. writer \in watches => close = Events(TRUE, "IN_CLOSE_WRITE") BY DEF Events
<1>5. queue' = queue \o close \/ queue' = queue \o close \o deletion BY DEF FileClosed
<1> HIDE DEF close, deletion
<1>6. PICK more \in Seq(Event) : queue' = queue \o more /\ (more = close \/ more = close \o deletion)
  <2>1. (queue \o close) \o deletion = queue \o (close \o deletion)
    BY <1>2, <1>3, ConcatAssociative
  <2>2. close \o deletion \in Seq(Event) BY <1>3, OccursInConcat
  <2> QED BY <1>3, <1>5, <2>1, <2>2
<1>7. /\ EventTypes' /\ BatchInv'
      /\ Occurs(PublishedOn, Pending) \/ Occurs(PublishedOn, queue \o more) => Occurs(PublishedOn, Pending)'
  BY <1>1, <1>6, PendingGrows
<1>8. NoticeInv'
  <2> SUFFICES ASSUME featurePc \in {"monitoring", "started", "stopped"},
                      monitorPc \notin {"exit", "ended"},
                      inode # 0, content # 0, newest # content, ~unwatched, ~Unnoticed
               PROVE  Occurs(PublishedOn, Pending) \/ Occurs(PublishedOn, queue \o more)
    BY <1>1, <1>7 DEF NoticeInv
  <2>1. CASE writer # inode BY <2>1 DEF MonitorInv, NoticeInv
  <2>2. CASE Occurs({"IN_CREATE"}, Pending) BY <2>2 DEF Occurs, PublishedOn
  <2>3. CASE writer \in watches
    <3>1. Occurs({"IN_CLOSE_WRITE"}, queue \o close) BY <1>2, <1>4, <2>3, CloseWaits DEF Event
    <3>2. Occurs(PublishedOn, queue \o close) BY <3>1 DEF Occurs, PublishedOn
    <3>3. Occurs(PublishedOn, queue) \/ Occurs(PublishedOn, close) BY <1>2, <1>3, <3>2, OccursInConcat
    <3>4. Occurs(PublishedOn, queue) \/ Occurs(PublishedOn, more)
      BY <1>3, <1>6, <3>3, OccursInConcat
    <3> QED BY <1>2, <1>6, <3>4, OccursInConcat
  <2> QED BY <2>1, <2>2, <2>3 DEF Unnoticed
<1> QED BY <1>7, <1>8 DEF MonitorInv

\* Every step keeps the invariant.
LEMMA MonitorStepPreserves == ASSUME MonitorInv, [MonitorNext]_fileMonitorVars PROVE MonitorInv'
<1>1. CASE FirstPublish \/ Trigger BY <1>1, MonitorPublishPreserves
<1>2. CASE StartFeature \/ SubscribeAck \/ WaitEnds \/ StartMonitor \/ Stop BY <1>2, MonitorMainPreserves
<1>3. CASE Monitor
  BY <1>3, QuietMonitorPreserves, MonitorReadPreserves, HandlePreserves, RewatchPreserves, DeleteSelfPreserves
  DEF Monitor
<1>4. CASE File BY <1>4, MonitorFilePreserves, WrittenPreserves, ClosedPreserves DEF File
<1>5. CASE UNCHANGED fileMonitorVars
  BY <1>5 DEF fileMonitorVars, MonitorInv, EventTypes, BatchInv, NoticeInv, Pending, Occurs
<1> QED BY <1>1, <1>2, <1>3, <1>4, <1>5 DEF MonitorNext

\* The invariant of the file monitor, for any number of files, contents and messages.
THEOREM MonitorInvariant == MonitorSpec => []MonitorInv
<1> QED BY MonitorInitEstablishes, MonitorStepPreserves, PTL DEF MonitorSpec

\* A change of the file is published or has an event that waits (runFileMonitor).
THEOREM FileChangesAreNoticed == MonitorSpec => []ChangesAreNoticed
<1>1. MonitorInv => ChangesAreNoticed
  BY DEF MonitorInv, BatchInv, NoticeInv, ChangesAreNoticed
<1> QED BY <1>1, MonitorInvariant, PTL
==============================================================================
