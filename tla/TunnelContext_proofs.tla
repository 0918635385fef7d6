------------------------ MODULE TunnelContext_proofs ------------------------
(***************************************************************************)
(* Proofs about TunnelContext, for every number of streams, failures and   *)
(* refused tasks.  IndInv is shown inductive, with one lemma for each      *)
(* thread or kind of callback; the safety properties, the refinement of    *)
(* TunnelLifecycle, and that the context uses its local connections as     *)
(* LocalConnection says, follow from it.                                   *)
(***************************************************************************)
EXTENDS TunnelContext, TLAPS

USE DEF modeVars, fieldVars, stopVars, localVars, Threads, Forwards, Connecting, LoopIsFree,
        TunnelIsLive, CallFails, StopNotSchedulable
-----------------------------------------------------------------------------
(***************************************************************************)
(* The inductive invariant.                                                *)
(***************************************************************************)

\* The inductive invariant holds before the context is connected.
LEMMA InitEstablishes == Init => IndInv
<1> SUFFICES ASSUME Init PROVE IndInv OBVIOUS
<1> USE DEF Init
<1>1. FlagTypes BY DEF FlagTypes
<1>2. ThreadTypes BY DEF ThreadTypes
<1>3. CountTypes BY ConstantsAssumption DEF CountTypes, ConstantsAssumption
<1>4. ConnectInv /\ TunnelInv BY DEF ConnectInv, TunnelInv
<1>5. StopInv /\ LoopInv /\ HeldInv BY DEF StopInv, LoopInv, HeldInv
<1>6. LocalDataFindsTunnel /\ OneLocalConnection /\ StopIsNotLost
  BY DEF LocalDataFindsTunnel, OneLocalConnection, StopIsNotLost
<1> QED BY <1>1, <1>2, <1>3, <1>4, <1>5, <1>6 DEF IndInv, TypeOK

\* The connecting thread.
LEMMA ConnectorPreserves ==
    ASSUME IndInv, AddContext \/ RunSecureTunneling \/ ConnectorStep
    PROVE  IndInv'
<1> USE DEF IndInv, TypeOK
<1>1. CASE AddContext
  <2> USE <1>1 DEF AddContext
  <2>1. FlagTypes' BY DEF FlagTypes
  <2>2. ThreadTypes' BY DEF ThreadTypes
  <2>3. ConnectInv' BY DEF ConnectInv
  <2>4. TunnelInv' BY DEF TunnelInv
  <2>5. StopInv' BY DEF StopInv
  <2>6. LoopInv' BY DEF LoopInv
  <2>7. HeldInv' BY DEF HeldInv
  <2>8. StopIsNotLost' BY DEF StopIsNotLost
  <2>9. CountTypes' /\ LocalDataFindsTunnel' /\ OneLocalConnection' BY DEF CountTypes,
    LocalDataFindsTunnel, OneLocalConnection
  <2> QED BY <2>1, <2>2, <2>3, <2>4, <2>5, <2>6, <2>7, <2>8, <2>9
<1>2. CASE RunSecureTunneling
  <2> USE <1>2 DEF RunSecureTunneling
  <2>1. ThreadTypes' BY DEF ThreadTypes
  <2>2. ConnectInv' BY DEF ConnectInv
  <2>3. TunnelInv' BY DEF TunnelInv
  <2>4. StopInv' BY DEF StopInv
  <2>5. LoopInv' BY DEF LoopInv
  <2>6. HeldInv' BY DEF HeldInv
  <2>7. StopIsNotLost' BY DEF StopIsNotLost
  <2>8. FlagTypes' /\ CountTypes' /\ LocalDataFindsTunnel' /\ OneLocalConnection' BY DEF
    FlagTypes, CountTypes, LocalDataFindsTunnel, OneLocalConnection
  <2> QED BY <2>1, <2>2, <2>3, <2>4, <2>5, <2>6, <2>7, <2>8
<1>3. CASE CreateSecureTunnel
  <2> USE <1>3 DEF CreateSecureTunnel
  <2>1. FlagTypes' BY DEF FlagTypes
  <2>2. ThreadTypes' BY DEF ThreadTypes
  <2>3. ConnectInv' BY DEF ConnectInv
  <2>4. TunnelInv' BY DEF TunnelInv
  <2>5. StopInv' BY DEF StopInv
  <2>6. LoopInv' BY DEF LoopInv
  <2>7. HeldInv' BY DEF ConnectInv, TunnelInv, HeldInv
  <2>8. LocalDataFindsTunnel' BY DEF LocalDataFindsTunnel
  <2>9. StopIsNotLost' BY DEF StopIsNotLost
  <2>10. CountTypes' /\ OneLocalConnection' BY DEF CountTypes, OneLocalConnection
  <2> QED BY <2>1, <2>2, <2>3, <2>4, <2>5, <2>6, <2>7, <2>8, <2>9, <2>10
<1>4. CASE CreateSecureTunnelFails
  <2> USE <1>4 DEF CreateSecureTunnelFails
  <2>1. ThreadTypes' BY DEF ThreadTypes
  <2>2. CountTypes' BY ConstantsAssumption DEF CountTypes, ConstantsAssumption
  <2>3. ConnectInv' BY DEF ConnectInv
  <2>4. TunnelInv' BY DEF TunnelInv
  <2>5. StopInv' BY DEF StopInv
  <2>6. LoopInv' BY DEF LoopInv
  <2>7. HeldInv' BY DEF HeldInv
  <2>8. StopIsNotLost' BY DEF StopIsNotLost
  <2>9. FlagTypes' /\ LocalDataFindsTunnel' /\ OneLocalConnection' BY DEF FlagTypes,
    LocalDataFindsTunnel, OneLocalConnection
  <2> QED BY <2>1, <2>2, <2>3, <2>4, <2>5, <2>6, <2>7, <2>8, <2>9
<1>5. CASE Connect
  <2> USE <1>5 DEF Connect
  <2>1. ThreadTypes' BY DEF ThreadTypes
  <2>2. ConnectInv' BY DEF ConnectInv
  <2>3. TunnelInv' BY DEF ConnectInv, TunnelInv
  <2>4. StopInv' BY DEF ConnectInv, StopInv
  <2>5. LoopInv' BY DEF ConnectInv, LoopInv
  <2>6. HeldInv' BY DEF HeldInv
  <2>7. StopIsNotLost' BY DEF StopIsNotLost
  <2>8. FlagTypes' /\ CountTypes' /\ LocalDataFindsTunnel' /\ OneLocalConnection' BY DEF
    FlagTypes, CountTypes, LocalDataFindsTunnel, OneLocalConnection
  <2> QED BY <2>1, <2>2, <2>3, <2>4, <2>5, <2>6, <2>7, <2>8
<1>6. CASE ConnectFails
  <2> USE <1>6 DEF ConnectFails
  <2>1. ThreadTypes' BY DEF ThreadTypes
  <2>2. CountTypes' BY ConstantsAssumption DEF CountTypes, ConstantsAssumption
  <2>3. ConnectInv' BY DEF ConnectInv
  <2>4. TunnelInv' BY DEF TunnelInv
  <2>5. StopInv' BY DEF StopInv
  <2>6. LoopInv' BY DEF LoopInv
  <2>7. HeldInv' BY DEF HeldInv
  <2>8. StopIsNotLost' BY DEF StopIsNotLost
  <2>9. FlagTypes' /\ LocalDataFindsTunnel' /\ OneLocalConnection' BY DEF FlagTypes,
    LocalDataFindsTunnel, OneLocalConnection
  <2> QED BY <2>1, <2>2, <2>3, <2>4, <2>5, <2>6, <2>7, <2>8, <2>9
<1>7. CASE FinishConnect
  <2> USE <1>7 DEF FinishConnect, StopCameDuringConnect
  <2>1. FlagTypes' BY DEF FlagTypes
  <2>2. ThreadTypes' BY DEF ThreadTypes
  <2>3. ConnectInv' BY DEF ConnectInv
  <2>4. TunnelInv' BY DEF TunnelInv
  <2>5. StopInv' BY DEF StopInv
  <2>6. LoopInv' BY DEF LoopInv
  <2>7. HeldInv' BY DEF HeldInv
  <2>8. StopIsNotLost' BY DEF StopIsNotLost
  <2>9. CountTypes' /\ LocalDataFindsTunnel' /\ OneLocalConnection' BY DEF CountTypes,
    LocalDataFindsTunnel, OneLocalConnection
  <2> QED BY <2>1, <2>2, <2>3, <2>4, <2>5, <2>6, <2>7, <2>8, <2>9
<1>8. CASE FinishFailedConnect
  <2> USE <1>8 DEF FinishFailedConnect
  <2>1. FlagTypes' BY DEF FlagTypes
  <2>2. ThreadTypes' BY DEF ThreadTypes
  <2>3. ConnectInv' BY DEF ConnectInv
  <2>4. TunnelInv' BY DEF ConnectInv, TunnelInv
  <2>5. StopInv' BY DEF StopInv
  <2>6. LoopInv' BY DEF ConnectInv, TunnelInv, LoopInv
  <2>7. HeldInv' BY DEF ConnectInv, TunnelInv, HeldInv
  <2>8. LocalDataFindsTunnel' BY DEF ConnectInv, TunnelInv, LocalDataFindsTunnel
  <2>9. StopIsNotLost' BY DEF StopIsNotLost
  <2>10. CountTypes' /\ OneLocalConnection' BY DEF CountTypes, OneLocalConnection
  <2> QED BY <2>1, <2>2, <2>3, <2>4, <2>5, <2>6, <2>7, <2>8, <2>9, <2>10
<1>9. CASE StopAfterConnect
  <2> USE <1>9 DEF StopAfterConnect, RequestStop, RetainForStop
  <2>1. FlagTypes' BY DEF FlagTypes
  <2>2. ThreadTypes' BY DEF ThreadTypes
  <2>3. ConnectInv' BY DEF ConnectInv
  <2>4. TunnelInv' BY DEF TunnelInv
  <2>5. StopInv' BY DEF StopInv
  <2>6. LoopInv' BY DEF FlagTypes, LoopInv
  <2>7. HeldInv' BY DEF FlagTypes, HeldInv
  <2>8. StopIsNotLost' BY DEF ConnectInv, TunnelInv, ThreadTypes, LoopInv, StopInv, StopIsNotLost
  <2>9. CountTypes' /\ LocalDataFindsTunnel' /\ OneLocalConnection' BY DEF CountTypes,
    LocalDataFindsTunnel, OneLocalConnection
  <2> QED BY <2>1, <2>2, <2>3, <2>4, <2>5, <2>6, <2>7, <2>8, <2>9
<1>10. CASE EraseContext
  <2> USE <1>10 DEF EraseContext
  <2>1. FlagTypes' BY DEF FlagTypes
  <2>2. ThreadTypes' BY DEF ThreadTypes
  <2>3. ConnectInv' BY DEF ConnectInv
  <2>4. TunnelInv' BY DEF TunnelInv
  <2>5. StopInv' BY DEF StopInv
  <2>6. LoopInv' BY DEF LoopInv
  <2>7. HeldInv' BY DEF ConnectInv, HeldInv
  <2>8. StopIsNotLost' BY DEF StopIsNotLost
  <2>9. CountTypes' /\ LocalDataFindsTunnel' /\ OneLocalConnection' BY DEF CountTypes,
    LocalDataFindsTunnel, OneLocalConnection
  <2> QED BY <2>1, <2>2, <2>3, <2>4, <2>5, <2>6, <2>7, <2>8, <2>9
<1> QED BY <1>1, <1>2, <1>3, <1>4, <1>5, <1>6, <1>7, <1>8, <1>9, <1>10 DEF ConnectorStep

\* stop() of the feature.
LEMMA MainPreserves ==
    ASSUME IndInv, TakeContexts \/ StopSecureTunnel \/ StopReturns \/ DropFeature
    PROVE  IndInv'
<1> USE DEF IndInv, TypeOK
<1>1. CASE TakeContexts
  <2> USE <1>1 DEF TakeContexts
  <2>1. ThreadTypes' BY DEF ThreadTypes
  <2>2. HeldInv' BY DEF HeldInv
  <2>3. FlagTypes' /\ CountTypes' /\ ConnectInv' /\ TunnelInv' /\ StopInv' /\ LoopInv' /\
    LocalDataFindsTunnel' /\ OneLocalConnection' /\ StopIsNotLost' BY DEF FlagTypes, CountTypes,
    ConnectInv, TunnelInv, StopInv, LoopInv, LocalDataFindsTunnel, OneLocalConnection,
    StopIsNotLost
  <2> QED BY <2>1, <2>2, <2>3
<1>2. CASE StopSecureTunnel
  <2> USE <1>2 DEF StopSecureTunnel, RequestStop, RetainForStop
  <2>1. FlagTypes' BY DEF FlagTypes
  <2>2. ThreadTypes' BY DEF ThreadTypes
  <2>3. ConnectInv' BY DEF ConnectInv
  <2>4. TunnelInv' BY DEF TunnelInv
  <2>5. StopInv' BY DEF StopInv
  <2>6. LoopInv' BY DEF FlagTypes, LoopInv
  <2>7. HeldInv' BY DEF FlagTypes, HeldInv
  <2>8. StopIsNotLost' BY DEF ThreadTypes, ConnectInv, TunnelInv, StopInv, StopIsNotLost
  <2>9. CountTypes' /\ LocalDataFindsTunnel' /\ OneLocalConnection' BY DEF CountTypes,
    LocalDataFindsTunnel, OneLocalConnection
  <2> QED BY <2>1, <2>2, <2>3, <2>4, <2>5, <2>6, <2>7, <2>8, <2>9
<1>3. CASE StopReturns
  <2> USE <1>3 DEF StopReturns
  <2>1. ThreadTypes' BY DEF ThreadTypes
  <2>2. HeldInv' BY DEF HeldInv
  <2>3. FlagTypes' /\ CountTypes' /\ ConnectInv' /\ TunnelInv' /\ StopInv' /\ LoopInv' /\
    LocalDataFindsTunnel' /\ OneLocalConnection' /\ StopIsNotLost' BY DEF FlagTypes, CountTypes,
    ConnectInv, TunnelInv, StopInv, LoopInv, LocalDataFindsTunnel, OneLocalConnection,
    StopIsNotLost
  <2> QED BY <2>1, <2>2, <2>3
<1>4. CASE DropFeature
  <2> USE <1>4 DEF DropFeature
  <2>1. FlagTypes' BY DEF FlagTypes
  <2>2. ThreadTypes' BY DEF ThreadTypes
  <2>3. HeldInv' BY DEF HeldInv
  <2>4. CountTypes' /\ ConnectInv' /\ TunnelInv' /\ StopInv' /\ LoopInv' /\ LocalDataFindsTunnel'
    /\ OneLocalConnection' /\ StopIsNotLost' BY DEF CountTypes, ConnectInv, TunnelInv, StopInv,
    LoopInv, LocalDataFindsTunnel, OneLocalConnection, StopIsNotLost
  <2> QED BY <2>1, <2>2, <2>3, <2>4
<1> QED BY <1>1, <1>2, <1>3, <1>4

\* StopSecureTunnel, in any thread.
LEMMA StopStepPreserves == ASSUME IndInv, NEW t \in Threads, StopStep(t) PROVE IndInv'
<1> USE DEF IndInv, TypeOK
<1>1. CASE ScheduleStop(t)
  <2> USE <1>1 DEF ScheduleStop
  <2>1. FlagTypes' BY DEF FlagTypes
  <2>2. ThreadTypes' BY DEF ThreadTypes
  <2>3. TunnelInv' BY DEF TunnelInv
  <2>4. StopInv' BY DEF ThreadTypes, ConnectInv, StopInv
  <2>5. LoopInv' BY DEF LoopInv
  <2>6. StopIsNotLost' BY DEF ConnectInv, TunnelInv, StopInv, StopIsNotLost
  <2>7. CountTypes' /\ ConnectInv' /\ HeldInv' /\ LocalDataFindsTunnel' /\ OneLocalConnection' BY
    DEF CountTypes, ConnectInv, HeldInv, LocalDataFindsTunnel, OneLocalConnection
  <2> QED BY <2>1, <2>2, <2>3, <2>4, <2>5, <2>6, <2>7
<1>2. CASE ScheduleStopFails(t)
  <2> USE <1>2 DEF ScheduleStopFails
  <2>1. FlagTypes' BY DEF FlagTypes
  <2>2. ThreadTypes' BY DEF ThreadTypes
  <2>3. CountTypes' BY ConstantsAssumption DEF CountTypes, ConstantsAssumption
  <2>4. StopInv' BY DEF ThreadTypes, CountTypes, ConnectInv, StopInv
  <2>5. LoopInv' BY DEF LoopInv
  <2>6. StopIsNotLost' BY DEF CountTypes, StopIsNotLost
  <2>7. ConnectInv' /\ TunnelInv' /\ HeldInv' /\ LocalDataFindsTunnel' /\ OneLocalConnection' BY
    DEF ConnectInv, TunnelInv, HeldInv, LocalDataFindsTunnel, OneLocalConnection
  <2> QED BY <2>1, <2>2, <2>3, <2>4, <2>5, <2>6, <2>7
<1>3. CASE UndoScheduleStop(t)
  <2> USE <1>3 DEF UndoScheduleStop
  <2>1. FlagTypes' BY DEF FlagTypes
  <2>2. ThreadTypes' BY DEF ThreadTypes
  <2>3. StopInv' BY DEF ThreadTypes, StopInv
  <2>4. LoopInv' BY DEF LoopInv
  <2>5. StopIsNotLost' BY DEF StopInv, StopIsNotLost
  <2>6. CountTypes' /\ ConnectInv' /\ TunnelInv' /\ HeldInv' /\ LocalDataFindsTunnel' /\
    OneLocalConnection' BY DEF CountTypes, ConnectInv, TunnelInv, HeldInv, LocalDataFindsTunnel,
    OneLocalConnection
  <2> QED BY <2>1, <2>2, <2>3, <2>4, <2>5, <2>6
<1> QED BY <1>1, <1>2, <1>3 DEF StopStep

\* Lifecycle tasks and the end of the tunnel.
LEMMA LifecyclePreserves == ASSUME IndInv, LifecycleStep \/ OnStopped PROVE IndInv'
<1> USE DEF IndInv, TypeOK
<1>1. CASE QueueStop
  <2> USE <1>1 DEF QueueStop, CloseIsDue
  <2>1. FlagTypes' BY DEF FlagTypes
  <2>2. ThreadTypes' BY DEF ThreadTypes
  <2>3. TunnelInv' BY DEF FlagTypes, ConnectInv, StopInv, TunnelInv
  <2>4. StopInv' BY DEF FlagTypes, ThreadTypes, ConnectInv, TunnelInv, StopInv
  <2>5. LoopInv' BY DEF LoopInv
  <2>6. LocalDataFindsTunnel' BY DEF LocalDataFindsTunnel
  <2>7. StopIsNotLost' BY DEF TunnelInv, StopIsNotLost
  <2>8. CountTypes' /\ ConnectInv' /\ HeldInv' /\ OneLocalConnection' BY DEF CountTypes,
    ConnectInv, HeldInv, OneLocalConnection
  <2> QED BY <2>1, <2>2, <2>3, <2>4, <2>5, <2>6, <2>7, <2>8
<1>2. CASE Close
  <2> USE <1>2 DEF Close
  <2>1. ThreadTypes' BY DEF ThreadTypes
  <2>2. ConnectInv' BY DEF TunnelInv, ConnectInv
  <2>3. TunnelInv' BY DEF StopInv, TunnelInv
  <2>4. StopInv' BY DEF StopInv
  <2>5. LoopInv' BY DEF LoopInv
  <2>6. LocalDataFindsTunnel' BY DEF LocalDataFindsTunnel
  <2>7. StopIsNotLost' BY DEF StopIsNotLost
  <2>8. FlagTypes' /\ CountTypes' /\ HeldInv' /\ OneLocalConnection' BY DEF FlagTypes, CountTypes,
    HeldInv, OneLocalConnection
  <2> QED BY <2>1, <2>2, <2>3, <2>4, <2>5, <2>6, <2>7, <2>8
<1>3. CASE CloseFails
  <2> USE <1>3 DEF CloseFails, AfterFailedClose
  <2>1. FlagTypes' BY DEF FlagTypes
  <2>2. ThreadTypes' BY DEF ThreadTypes
  <2>3. CountTypes' BY ConstantsAssumption DEF CountTypes, ConstantsAssumption
  <2>4. TunnelInv' BY DEF StopInv, TunnelInv
  <2>5. StopInv' BY DEF StopInv
  <2>6. LoopInv' BY DEF LoopInv
  <2>7. LocalDataFindsTunnel' BY DEF LocalDataFindsTunnel
  <2>8. StopIsNotLost' BY DEF ThreadTypes, StopIsNotLost
  <2>9. ConnectInv' /\ HeldInv' /\ OneLocalConnection' BY DEF ConnectInv, HeldInv,
    OneLocalConnection
  <2> QED BY <2>1, <2>2, <2>3, <2>4, <2>5, <2>6, <2>7, <2>8, <2>9
<1>4. CASE OnStopped
  <2> USE <1>4 DEF OnStopped
  <2>1. FlagTypes' BY DEF FlagTypes
  <2>2. ThreadTypes' BY DEF ThreadTypes
  <2>3. ConnectInv' BY DEF ConnectInv
  <2>4. TunnelInv' BY DEF TunnelInv
  <2>5. StopInv' BY DEF StopInv
  <2>6. LoopInv' BY DEF LoopInv
  <2>7. HeldInv' BY DEF TunnelInv, HeldInv
  <2>8. LocalDataFindsTunnel' BY DEF LocalDataFindsTunnel
  <2>9. StopIsNotLost' BY DEF StopIsNotLost
  <2>10. CountTypes' /\ OneLocalConnection' BY DEF CountTypes, OneLocalConnection
  <2> QED BY <2>1, <2>2, <2>3, <2>4, <2>5, <2>6, <2>7, <2>8, <2>9, <2>10
<1>5. CASE OnTunnelStopped
  <2> USE <1>5 DEF OnTunnelStopped
  <2>1. FlagTypes' BY DEF FlagTypes
  <2>2. ThreadTypes' BY DEF ThreadTypes
  <2>3. TunnelInv' BY DEF LoopInv, TunnelInv
  <2>4. StopInv' BY DEF StopInv
  <2>5. LoopInv' BY DEF LoopInv
  <2>6. HeldInv' BY DEF ConnectInv, LoopInv, HeldInv
  <2>7. LocalDataFindsTunnel' BY DEF LocalDataFindsTunnel
  <2>8. StopIsNotLost' BY DEF StopIsNotLost
  <2>9. CountTypes' /\ ConnectInv' /\ OneLocalConnection' BY DEF CountTypes, ConnectInv,
    OneLocalConnection
  <2> QED BY <2>1, <2>2, <2>3, <2>4, <2>5, <2>6, <2>7, <2>8, <2>9
<1>6. CASE OnTunnelStoppedRetains
  <2> USE <1>6 DEF OnTunnelStoppedRetains
  <2>1. FlagTypes' BY DEF FlagTypes
  <2>2. ThreadTypes' BY DEF ThreadTypes
  <2>3. CountTypes' BY ConstantsAssumption DEF CountTypes, ConstantsAssumption
  <2>4. TunnelInv' BY DEF TunnelInv
  <2>5. StopInv' BY DEF CountTypes, StopInv
  <2>6. LoopInv' BY DEF LoopInv
  <2>7. HeldInv' BY DEF ConnectInv, LoopInv, HeldInv
  <2>8. LocalDataFindsTunnel' BY DEF LocalDataFindsTunnel
  <2>9. StopIsNotLost' BY DEF LoopInv, StopIsNotLost
  <2>10. ConnectInv' /\ OneLocalConnection' BY DEF ConnectInv, OneLocalConnection
  <2> QED BY <2>1, <2>2, <2>3, <2>4, <2>5, <2>6, <2>7, <2>8, <2>9, <2>10
<1>7. CASE ReleaseAfterStopped
  <2> USE <1>7 DEF ReleaseAfterStopped, StopTcpForward
  <2>1. FlagTypes' BY DEF FlagTypes
  <2>2. ThreadTypes' BY DEF ThreadTypes
  <2>3. CountTypes' BY ConstantsAssumption DEF CountTypes, ConstantsAssumption
  <2>4. ConnectInv' BY DEF TunnelInv, ConnectInv
  <2>5. TunnelInv' BY DEF TunnelInv
  <2>6. StopInv' BY DEF StopInv
  <2>7. LoopInv' BY DEF LoopInv
  <2>8. HeldInv' BY DEF HeldInv
  <2>9. LocalDataFindsTunnel'
    <3>1. running' = {} BY DEF OneLocalConnection
    <3> QED BY <3>1 DEF LocalDataFindsTunnel
  <2>10. OneLocalConnection' BY DEF OneLocalConnection
  <2>11. StopIsNotLost' BY DEF StopIsNotLost
  <2> QED BY <2>1, <2>2, <2>3, <2>4, <2>5, <2>6, <2>7, <2>8, <2>9, <2>10, <2>11
<1> QED BY <1>1, <1>2, <1>3, <1>4, <1>5, <1>6, <1>7 DEF LifecycleStep

\* Streams and local connections.
LEMMA StreamPreserves == ASSUME IndInv, StreamStep PROVE IndInv'
<1> USE DEF IndInv, TypeOK
<1>1. CASE OnStreamStart
  <2> USE <1>1 DEF OnStreamStart, StopTcpForward
  <2>1. ThreadTypes' BY DEF ThreadTypes
  <2>2. CountTypes' BY ConstantsAssumption DEF CountTypes, ConstantsAssumption
  <2>3. TunnelInv' BY DEF TunnelInv
  <2>4. StopInv' BY DEF StopInv
  <2>5. LoopInv'
    <3>1. running' = {} BY DEF OneLocalConnection
    <3>2. streams' \in Forwards BY ConstantsAssumption DEF CountTypes, ConstantsAssumption
    <3> QED BY <3>1, <3>2 DEF LoopInv, TunnelInv
  <2>6. HeldInv' BY DEF HeldInv
  <2>7. LocalDataFindsTunnel' BY DEF LocalDataFindsTunnel
  <2>8. OneLocalConnection' BY DEF OneLocalConnection
  <2>9. FlagTypes' /\ ConnectInv' /\ StopIsNotLost' BY DEF FlagTypes, ConnectInv, StopIsNotLost
  <2> QED BY <2>1, <2>2, <2>3, <2>4, <2>5, <2>6, <2>7, <2>8, <2>9
<1>2. CASE OnStreamStartInvalidPort
  <2> USE <1>2 DEF OnStreamStartInvalidPort
  <2>1. ThreadTypes' BY DEF ThreadTypes
  <2>2. TunnelInv' BY DEF TunnelInv
  <2>3. StopInv' BY DEF StopInv
  <2>4. LoopInv' BY DEF TunnelInv, LoopInv
  <2>5. LocalDataFindsTunnel' BY DEF LocalDataFindsTunnel
  <2>6. FlagTypes' /\ CountTypes' /\ ConnectInv' /\ HeldInv' /\ OneLocalConnection' /\
    StopIsNotLost' BY DEF FlagTypes, CountTypes, ConnectInv, HeldInv, OneLocalConnection,
    StopIsNotLost
  <2> QED BY <2>1, <2>2, <2>3, <2>4, <2>5, <2>6
<1>3. CASE DisconnectFromTcpForward
  <2> USE <1>3 DEF DisconnectFromTcpForward, StopTcpForward
  <2>1. ThreadTypes' BY DEF ThreadTypes
  <2>2. CountTypes' BY ConstantsAssumption DEF CountTypes, ConstantsAssumption
  <2>3. TunnelInv' BY DEF TunnelInv
  <2>4. LoopInv' BY DEF LoopInv
  <2>5. HeldInv' BY DEF HeldInv
  <2>6. LocalDataFindsTunnel' BY DEF LocalDataFindsTunnel
  <2>7. OneLocalConnection' BY DEF OneLocalConnection
  <2>8. FlagTypes' /\ ConnectInv' /\ StopInv' /\ StopIsNotLost' BY DEF FlagTypes, ConnectInv,
    StopInv, StopIsNotLost
  <2> QED BY <2>1, <2>2, <2>3, <2>4, <2>5, <2>6, <2>7, <2>8
<1>4. CASE \E f \in Forwards : ForwardTerminates(f)
  <2>0. PICK f \in Forwards : ForwardTerminates(f) BY <1>4
  <2> USE <2>0 DEF ForwardTerminates, OnTcpForwardTerminated
  <2>1. ThreadTypes' BY DEF ThreadTypes
  <2>2. CountTypes' BY ConstantsAssumption DEF CountTypes, ConstantsAssumption
  <2>3. TunnelInv' BY DEF TunnelInv
  <2>4. StopInv' BY DEF StopInv
  <2>5. LoopInv' BY DEF LocalDataFindsTunnel, LoopInv
  <2>6. HeldInv' BY DEF HeldInv
  <2>7. LocalDataFindsTunnel' BY DEF LocalDataFindsTunnel
  <2>8. OneLocalConnection' BY DEF OneLocalConnection
  <2>9. FlagTypes' /\ ConnectInv' /\ StopIsNotLost' BY DEF FlagTypes, ConnectInv, StopIsNotLost
  <2> QED BY <2>1, <2>2, <2>3, <2>4, <2>5, <2>6, <2>7, <2>8, <2>9
<1> QED BY <1>1, <1>2, <1>3, <1>4 DEF StreamStep

\* What a callback of a stream does next.
LEMMA StreamContinuesPreserves == ASSUME IndInv, StreamContinues PROVE IndInv'
<1> USE DEF IndInv, TypeOK
<1>1. CASE AdoptForward
  <2> USE <1>1 DEF AdoptForward, Adopt
  <2>1. ThreadTypes' BY DEF ThreadTypes
  <2>2. CountTypes' BY ConstantsAssumption DEF CountTypes, ConstantsAssumption
  <2>3. TunnelInv' BY DEF TunnelInv
  <2>4. StopInv' BY DEF StopInv
  <2>5. LoopInv' BY DEF LoopInv
  <2>6. LocalDataFindsTunnel' BY DEF ThreadTypes, TunnelInv, LocalDataFindsTunnel
  <2>7. OneLocalConnection' BY DEF LoopInv, OneLocalConnection
  <2>8. FlagTypes' /\ ConnectInv' /\ HeldInv' /\ StopIsNotLost' BY DEF FlagTypes, ConnectInv,
    HeldInv, StopIsNotLost
  <2> QED BY <2>1, <2>2, <2>3, <2>4, <2>5, <2>6, <2>7, <2>8
<1>2. CASE ConnectForward
  <2> USE <1>2 DEF ConnectForward
  <2>1. ThreadTypes' BY DEF ThreadTypes
  <2>2. CountTypes' BY ConstantsAssumption DEF LoopInv, CountTypes, ConstantsAssumption
  <2>3. TunnelInv' BY DEF TunnelInv
  <2>4. StopInv' BY DEF StopInv
  <2>5. LoopInv' BY DEF LoopInv
  <2>6. HeldInv' BY DEF HeldInv
  <2>7. LocalDataFindsTunnel' BY DEF LocalDataFindsTunnel
  <2>8. OneLocalConnection' BY DEF LoopInv, OneLocalConnection
  <2>9. FlagTypes' /\ ConnectInv' /\ StopIsNotLost' BY DEF FlagTypes, ConnectInv, StopIsNotLost
  <2> QED BY <2>1, <2>2, <2>3, <2>4, <2>5, <2>6, <2>7, <2>8, <2>9
<1>3. CASE ConnectForwardFails
  <2> USE <1>3 DEF ConnectForwardFails, OnTcpForwardTerminated
  <2>1. ThreadTypes' BY DEF ThreadTypes
  <2>2. CountTypes' BY ConstantsAssumption DEF CountTypes, ConstantsAssumption
  <2>3. TunnelInv' BY DEF TunnelInv
  <2>4. StopInv' BY DEF StopInv
  <2>5. LoopInv' BY DEF TunnelInv, LoopInv
  <2>6. LocalDataFindsTunnel' BY DEF LocalDataFindsTunnel
  <2>7. OneLocalConnection' BY DEF LoopInv, OneLocalConnection
  <2>8. FlagTypes' /\ ConnectInv' /\ HeldInv' /\ StopIsNotLost' BY DEF FlagTypes, ConnectInv,
    HeldInv, StopIsNotLost
  <2> QED BY <2>1, <2>2, <2>3, <2>4, <2>5, <2>6, <2>7, <2>8
<1>4. CASE ResetSecureTunnelStream
  <2> USE <1>4 DEF ResetSecureTunnelStream
  <2>1. ThreadTypes' BY DEF ThreadTypes
  <2>2. TunnelInv' BY DEF TunnelInv
  <2>3. StopInv' BY DEF StopInv
  <2>4. LoopInv' BY DEF LoopInv
  <2>5. LocalDataFindsTunnel' BY DEF LocalDataFindsTunnel
  <2>6. FlagTypes' /\ CountTypes' /\ ConnectInv' /\ HeldInv' /\ OneLocalConnection' /\
    StopIsNotLost' BY DEF FlagTypes, CountTypes, ConnectInv, HeldInv, OneLocalConnection,
    StopIsNotLost
  <2> QED BY <2>1, <2>2, <2>3, <2>4, <2>5, <2>6
<1>5. CASE SendStreamReset
  <2> USE <1>5 DEF SendStreamReset
  <2>1. ThreadTypes' BY DEF ThreadTypes
  <2>2. TunnelInv' BY DEF TunnelInv
  <2>3. StopInv' BY DEF StopInv
  <2>4. LoopInv' BY DEF LoopInv
  <2>5. LocalDataFindsTunnel' BY DEF LocalDataFindsTunnel
  <2>6. FlagTypes' /\ CountTypes' /\ ConnectInv' /\ HeldInv' /\ OneLocalConnection' /\
    StopIsNotLost' BY DEF FlagTypes, CountTypes, ConnectInv, HeldInv, OneLocalConnection,
    StopIsNotLost
  <2> QED BY <2>1, <2>2, <2>3, <2>4, <2>5, <2>6
<1>6. CASE SendStreamResetFails
  <2> USE <1>6 DEF SendStreamResetFails, RequestStop, RetainForStop
  <2>1. FlagTypes' BY DEF FlagTypes
  <2>2. ThreadTypes' BY DEF ThreadTypes
  <2>3. CountTypes' BY ConstantsAssumption DEF CountTypes, ConstantsAssumption
  <2>4. ConnectInv' BY DEF ConnectInv
  <2>5. TunnelInv' BY DEF TunnelInv
  <2>6. StopInv' BY DEF StopInv
  <2>7. LoopInv' BY DEF LoopInv
  <2>8. HeldInv' BY DEF FlagTypes, HeldInv
  <2>9. LocalDataFindsTunnel' BY DEF LocalDataFindsTunnel
  <2>10. StopIsNotLost' BY DEF ThreadTypes, ConnectInv, TunnelInv, StopInv, StopIsNotLost
  <2>11. OneLocalConnection' BY DEF OneLocalConnection
  <2> QED BY <2>1, <2>2, <2>3, <2>4, <2>5, <2>6, <2>7, <2>8, <2>9, <2>10, <2>11
<1> QED BY <1>1, <1>2, <1>3, <1>4, <1>5, <1>6 DEF StreamContinues
\* Nothing changes.
LEMMA StutterPreserves == ASSUME IndInv, UNCHANGED vars PROVE IndInv'
<1> USE DEF vars
<1>1. FlagTypes' /\ ThreadTypes' /\ CountTypes'
  BY DEF IndInv, TypeOK, FlagTypes, ThreadTypes, CountTypes
<1>2. ConnectInv' /\ TunnelInv' /\ StopInv' /\ LoopInv' /\ HeldInv'
  BY DEF IndInv, ConnectInv, TunnelInv, StopInv, LoopInv, HeldInv
<1>3. LocalDataFindsTunnel' /\ OneLocalConnection' /\ StopIsNotLost'
  BY DEF IndInv, LocalDataFindsTunnel, OneLocalConnection, StopIsNotLost
<1> QED BY <1>1, <1>2, <1>3 DEF IndInv, TypeOK

\* Every step keeps the inductive invariant, one action after another.
LEMMA NextPreserves == IndInv /\ [Next]_vars => IndInv'
<1> SUFFICES ASSUME IndInv, [Next]_vars PROVE IndInv' OBVIOUS
<1>1. CASE AddContext \/ RunSecureTunneling \/ ConnectorStep BY <1>1, ConnectorPreserves
<1>2. CASE TakeContexts \/ StopSecureTunnel \/ StopReturns \/ DropFeature BY <1>2, MainPreserves
<1>3. CASE \E t \in Threads : StopStep(t) BY <1>3, StopStepPreserves
<1>4. CASE LifecycleStep \/ OnStopped BY <1>4, LifecyclePreserves
<1>5. CASE StreamStep BY <1>5, StreamPreserves
<1>6. CASE StreamContinues BY <1>6, StreamContinuesPreserves
<1>7. CASE Finished \/ UNCHANGED vars BY <1>7, StutterPreserves DEF Finished
<1> QED BY <1>1, <1>2, <1>3, <1>4, <1>5, <1>6, <1>7 DEF Next

\* The inductive invariant holds in every behaviour.
THEOREM InductiveInvariant == Spec => []IndInv
BY InitEstablishes, NextPreserves, PTL DEF Spec
-----------------------------------------------------------------------------
(***************************************************************************)
(* The properties.                                                         *)
(***************************************************************************)

\* Every variable has its type.
THEOREM TypeCorrect == Spec => []TypeOK
<1>1. IndInv => TypeOK BY DEF IndInv
<1> QED BY <1>1, InductiveInvariant, PTL

\* As long as the context has a tunnel somebody holds the context.
LEMMA TunnelIsHeld == ASSUME IndInv, mSecureTunnel PROVE ContextIsHeld
BY DEF IndInv, HeldInv, ContextIsHeld

\* Every callback of the tunnel and of its local connections finds the context
\* (SecureTunnelingContext binds them to a raw pointer).
THEOREM CallbacksAreSafe == Spec => []CallbacksFindContext
<1>1. IndInv => CallbacksFindContext
  <2> SUFFICES ASSUME IndInv, TunnelIsLive \/ running # {} \/ loopPc # "idle"
               PROVE  ContextIsHeld
    BY DEF CallbacksFindContext
  <2>1. CASE mSecureTunnel BY <2>1, TunnelIsHeld
  <2>2. CASE loopPc \in {"close", "stopped"} BY <2>2 DEF ContextIsHeld
  <2>3. (TunnelIsLive \/ running # {} \/ loopPc # "idle") =>
           mSecureTunnel \/ loopPc \in {"close", "stopped"}
    BY DEF IndInv, TypeOK, ThreadTypes, TunnelInv, LoopInv, LocalDataFindsTunnel
  <2> QED BY <2>1, <2>2, <2>3
<1> QED BY <1>1, InductiveInvariant, PTL

\* Local data always finds the tunnel it is sent through (OnTcpForwardDataReceive looks at nothing).
THEOREM LocalDataIsSafe == Spec => []LocalDataFindsTunnel
<1>1. IndInv => LocalDataFindsTunnel BY DEF IndInv
<1> QED BY <1>1, InductiveInvariant, PTL

\* A context never has two local connections, nor one it does not know (ConnectToTcpForward,
\* OnTcpForwardTerminated, ReleaseAfterStopped).
THEOREM LocalConnectionIsUnique == Spec => []OneLocalConnection
<1>1. IndInv => OneLocalConnection BY DEF IndInv
<1> QED BY <1>1, InductiveInvariant, PTL

\* A requested stop is under way until the tunnel ends (StopSecureTunnel, ScheduleStop, QueueStop).
THEOREM StopIsCarriedOut == Spec => []StopIsNotLost
<1>1. IndInv => StopIsNotLost BY DEF IndInv
<1> QED BY <1>1, InductiveInvariant, PTL

\* Close() is called on an open tunnel, after Connect() has returned, and never again once it
\* succeeded (QueueStop).
THEOREM ClosingOnce == Spec => ClosedOnce
<1> DEFINE P == tunnel' = "closing" /\ loopPc = "close" =>
                   tunnel = "open" /\ connectPc \in {"done", "stopAfter"}
<1>1. IndInv => P BY DEF IndInv, StopInv
<1>2. IndInv /\ [Next]_vars => [P]_vars BY <1>1
<1> QED BY <1>2, InductiveInvariant, PTL DEF Spec, ClosedOnce

\* Whoever schedules a task hands it a context that is there (ScheduleStop, OnStopped).
THEOREM TasksHaveOwner == Spec => TasksOwnContext
<1> DEFINE P == tasks' \subseteq tasks \/ mLifetimeKeepAlive
<1>1. ASSUME IndInv, [Next]_vars PROVE P
  <2>1. ASSUME NEW t \in Threads, ScheduleStop(t) PROVE P
    BY <1>1, <2>1 DEF ScheduleStop, IndInv, StopInv, HeldInv
  <2>2. CASE OnTunnelStopped BY <1>1, <2>2 DEF OnTunnelStopped, IndInv, LoopInv
  <2>3. CASE \/ AddContext \/ RunSecureTunneling \/ ConnectorStep
             \/ TakeContexts \/ StopSecureTunnel \/ StopReturns \/ DropFeature
    BY <2>3 DEF AddContext, RunSecureTunneling, ConnectorStep, CreateSecureTunnel,
                CreateSecureTunnelFails, Connect, ConnectFails, FinishConnect,
                FinishFailedConnect, StopAfterConnect, EraseContext, TakeContexts,
                StopSecureTunnel, StopReturns, DropFeature
  <2>4. CASE \/ QueueStop \/ Close \/ CloseFails \/ OnTunnelStoppedRetains
             \/ ReleaseAfterStopped \/ OnStopped
    BY <2>4 DEF QueueStop, Close, CloseFails, OnTunnelStoppedRetains, ReleaseAfterStopped,
                OnStopped
  <2>5. CASE StreamStep \/ StreamContinues
    BY <2>5 DEF StreamStep, OnStreamStart, OnStreamStartInvalidPort, DisconnectFromTcpForward,
                ForwardTerminates, StreamContinues, AdoptForward, ConnectForward,
                ConnectForwardFails, ResetSecureTunnelStream, SendStreamReset,
                SendStreamResetFails
  <2>6. ASSUME NEW t \in Threads, ScheduleStopFails(t) \/ UndoScheduleStop(t) PROVE P
    BY <2>6 DEF ScheduleStopFails, UndoScheduleStop
  <2>7. CASE Finished \/ UNCHANGED vars BY <2>7 DEF Finished, vars
  <2> QED BY <1>1, <2>1, <2>2, <2>3, <2>4, <2>5, <2>6, <2>7 DEF Next, StopStep, LifecycleStep
<1>2. IndInv /\ [Next]_vars => [P]_vars BY <1>1
<1> QED BY <1>2, InductiveInvariant, PTL DEF Spec, TasksOwnContext
-----------------------------------------------------------------------------
(***************************************************************************)
(* The refinement of TunnelLifecycle.                                      *)
(***************************************************************************)

Needed == phaseOfTunnel \in {"new", "open", "closing"} => heldContext

\* Until the tunnel has failed to open or has ended, somebody holds its context.
LEMMA NeededIsHeld == IndInv => Needed
<1> SUFFICES ASSUME IndInv, phaseOfTunnel \in {"new", "open", "closing"} PROVE heldContext
  BY DEF Needed
<1>1. CASE TunnelIsLive
  <2>1. mSecureTunnel BY <1>1 DEF IndInv, TunnelInv
  <2> QED BY <2>1, TunnelIsHeld DEF heldContext
<1>2. CASE ~TunnelIsLive
  <2>1. connectPc \in {"idle", "create", "calling"}
    BY <1>2 DEF phaseOfTunnel, IndInv, TypeOK, ThreadTypes
  <2>2. CASE connector = "loop" BY <2>1, <2>2 DEF heldContext, ContextIsHeld
  <2>3. CASE connector = "main"
    BY <2>1, <2>3 DEF heldContext, ContextIsHeld, IndInv, HeldInv
  <2> QED BY <2>2, <2>3 DEF IndInv, TypeOK, ThreadTypes
<1> QED BY <1>1, <1>2

\* A context that nobody holds is never held again.
LEMMA ReleasedForGood == ASSUME IndInv, [Next]_vars, heldContext' PROVE heldContext
<1> SUFFICES ASSUME ~heldContext PROVE FALSE OBVIOUS
<1> USE DEF heldContext, ContextIsHeld
<1>1. ~mSecureTunnel BY TunnelIsHeld
<1>2. ~TunnelIsLive BY <1>1 DEF IndInv, TunnelInv
<1>3. CASE \/ AddContext \/ RunSecureTunneling \/ ConnectorStep
  BY <1>1, <1>3 DEF IndInv, TypeOK, ThreadTypes, FlagTypes, AddContext, RunSecureTunneling,
     ConnectorStep, CreateSecureTunnel, CreateSecureTunnelFails, Connect, ConnectFails,
     FinishConnect, FinishFailedConnect, StopAfterConnect, RequestStop, RetainForStop,
     EraseContext
<1>4. CASE TakeContexts \/ StopSecureTunnel \/ StopReturns \/ DropFeature
  BY <1>4 DEF TakeContexts, StopSecureTunnel, StopReturns, DropFeature
<1>5. ASSUME NEW t \in Threads, StopStep(t) PROVE FALSE
  BY <1>1, <1>5 DEF StopStep, ScheduleStop, ScheduleStopFails, UndoScheduleStop
<1>6. CASE LifecycleStep \/ OnStopped
  BY <1>2, <1>6 DEF LifecycleStep, QueueStop, Close, CloseFails, OnTunnelStopped,
     OnTunnelStoppedRetains, ReleaseAfterStopped, OnStopped
<1>7. CASE StreamStep
  BY <1>7 DEF StreamStep, OnStreamStart, OnStreamStartInvalidPort, DisconnectFromTcpForward,
     ForwardTerminates, OnTcpForwardTerminated
<1>8. CASE StreamContinues
  BY <1>1, <1>8 DEF StreamContinues, AdoptForward, ConnectForward, ConnectForwardFails,
     OnTcpForwardTerminated, ResetSecureTunnelStream, SendStreamReset, SendStreamResetFails,
     RequestStop, RetainForStop
<1>9. CASE Finished \/ UNCHANGED vars BY <1>9 DEF Finished, vars
<1> QED BY <1>3, <1>4, <1>5, <1>6, <1>7, <1>8, <1>9 DEF Next

\* A context that is not connected yet is a new one of the life cycle.
LEMMA InitImplements == Init => Lifecycle!Init
BY DEF Init, Lifecycle!Init, phaseOfTunnel, heldContext, ConstantsAssumption

Step == [Lifecycle!Next]_(Lifecycle!vars)

refusedTask == scheduleFailures > 0

\* A step that neither changes the phase nor requests a stop at most lets the context go.
LEMMA SilentStep ==
    ASSUME heldContext' => heldContext, Needed', UNCHANGED <<phaseOfTunnel, mStopRequested, refusedTask>>,
           phaseOfTunnel' \in {"new", "failed", "open", "closing", "ended"}
    PROVE  Step
<1>1. heldContext \in BOOLEAN /\ heldContext' \in BOOLEAN BY DEF heldContext, ContextIsHeld
<1>2. CASE heldContext' = heldContext BY <1>2 DEF Step, Lifecycle!vars, refusedTask
<1>3. CASE heldContext /\ ~heldContext'
  <2>1. heldContext = TRUE /\ heldContext' = FALSE BY <1>1, <1>3
  <2>2. phaseOfTunnel \in {"failed", "ended"} BY <1>3 DEF Needed
  <2> QED BY <2>1, <2>2 DEF Step, Lifecycle!Next, Lifecycle!Release, refusedTask
<1> QED BY <1>1, <1>2, <1>3

\* Every step of the context is a step of the abstract life cycle, or changes nothing of it.
LEMMA StepImplements == ASSUME IndInv, IndInv', [Next]_vars, Needed' PROVE Step
<1> USE DEF Step, Lifecycle!Next, Lifecycle!vars, refusedTask
<1>1. Needed BY NeededIsHeld
<1>2. heldContext' => heldContext BY ReleasedForGood
<1>3. phaseOfTunnel' \in {"new", "failed", "open", "closing", "ended"}
  BY DEF IndInv, TypeOK, ThreadTypes, phaseOfTunnel
<1>4. CASE UNCHANGED <<phaseOfTunnel, mStopRequested, refusedTask>> BY <1>2, <1>3, <1>4, SilentStep
<1>5. heldContext \in BOOLEAN /\ heldContext' \in BOOLEAN BY DEF heldContext, ContextIsHeld
<1>6. CASE AddContext \/ RunSecureTunneling
  BY <1>4, <1>6 DEF AddContext, RunSecureTunneling, phaseOfTunnel, IndInv, ConnectInv
<1>7. CASE CreateSecureTunnel \/ CreateSecureTunnelFails
  <2> USE DEF CreateSecureTunnel, CreateSecureTunnelFails, phaseOfTunnel
  <2>1. CASE connectPc' = "calling" BY <1>4, <1>7, <2>1
  <2>2. CASE connectPc' = "refused"
    <3>1. phaseOfTunnel = "new" /\ phaseOfTunnel' = "failed"
      BY <1>7, <2>2 DEF IndInv, ConnectInv
    <3>2. heldContext BY <1>1, <3>1 DEF Needed
    <3>3. heldContext'
      BY <1>7, <2>2 DEF heldContext, ContextIsHeld, IndInv, TypeOK, ThreadTypes, HeldInv
    <3> QED BY <1>5, <1>7, <3>1, <3>2, <3>3 DEF Lifecycle!Fail
  <2> QED BY <1>7, <2>1, <2>2
<1>8. CASE Connect
  <2>1. phaseOfTunnel = "new" /\ phaseOfTunnel' = "open"
    BY <1>8 DEF Connect, phaseOfTunnel, IndInv, ConnectInv
  <2>2. heldContext /\ heldContext' BY <1>1, <2>1 DEF Needed
  <2> QED BY <1>5, <1>8, <2>1, <2>2 DEF Connect, Lifecycle!Open
<1>9. CASE ConnectFails
  <2>1. phaseOfTunnel = "new" /\ phaseOfTunnel' = "failed"
    BY <1>9 DEF ConnectFails, phaseOfTunnel, IndInv, ConnectInv
  <2>2. heldContext BY <1>1, <2>1 DEF Needed
  <2>3. heldContext'
    BY <1>9 DEF ConnectFails, heldContext, ContextIsHeld, IndInv, TypeOK, ThreadTypes, HeldInv
  <2> QED BY <1>5, <1>9, <2>1, <2>2, <2>3 DEF ConnectFails, Lifecycle!Fail
<1>10. CASE FinishConnect \/ FinishFailedConnect \/ EraseContext
  BY <1>4, <1>10 DEF FinishConnect, FinishFailedConnect, EraseContext, phaseOfTunnel, IndInv,
     ConnectInv
<1>11. CASE StopAfterConnect
  BY <1>4, <1>11 DEF StopAfterConnect, RequestStop, phaseOfTunnel, IndInv, ConnectInv, TypeOK,
     FlagTypes
<1>12. CASE StopSecureTunnel \/ SendStreamResetFails
  <2> USE DEF StopSecureTunnel, SendStreamResetFails, RequestStop, CallFails
  <2>1. phaseOfTunnel' = phaseOfTunnel BY <1>12 DEF phaseOfTunnel
  <2>2. heldContext
    <3>1. CASE StopSecureTunnel BY <3>1 DEF heldContext, ContextIsHeld
    <3>2. CASE SendStreamResetFails
      <4>1. mSecureTunnel BY <3>2 DEF IndInv, LoopInv
      <4> QED BY <4>1, TunnelIsHeld DEF heldContext
    <3> QED BY <1>12, <3>1, <3>2
  <2>3. heldContext'
    <3>1. CASE StopSecureTunnel BY <3>1 DEF heldContext, ContextIsHeld
    <3>2. CASE SendStreamResetFails
      BY <3>2 DEF heldContext, ContextIsHeld, RetainForStop, IndInv, LoopInv
    <3> QED BY <1>12, <3>1, <3>2
  <2>4. CASE mStopRequested BY <1>4, <1>12, <2>1, <2>4 DEF IndInv, TypeOK, FlagTypes
  <2>5. CASE ~mStopRequested
    BY <1>5, <1>12, <2>1, <2>2, <2>3, <2>5 DEF Lifecycle!RequestStop
  <2> QED BY <2>4, <2>5
<1>13. CASE Close
  <2>1. phaseOfTunnel = "open" /\ phaseOfTunnel' = "closing" /\ mStopRequested
    BY <1>13 DEF Close, phaseOfTunnel, IndInv, StopInv
  <2>2. heldContext /\ heldContext' BY <1>1, <2>1 DEF Needed
  <2> QED BY <1>5, <1>13, <2>1, <2>2 DEF Close, Lifecycle!Close
<1>14. CASE OnStopped
  <2>1. phaseOfTunnel \in {"open", "closing"} /\ phaseOfTunnel' = "ended"
    BY <1>14 DEF OnStopped, phaseOfTunnel
  <2>2. heldContext BY <1>1, <2>1 DEF Needed
  <2>3. heldContext' BY <1>14 DEF OnStopped, heldContext, ContextIsHeld
  <2> QED BY <1>5, <1>14, <2>1, <2>2, <2>3 DEF OnStopped, Lifecycle!End
<1>15. CASE TakeContexts \/ StopReturns \/ DropFeature
  BY <1>4, <1>15 DEF TakeContexts, StopReturns, DropFeature, phaseOfTunnel
<1>16. ASSUME NEW t \in Threads, ScheduleStop(t) \/ UndoScheduleStop(t) PROVE Step
  BY <1>4, <1>16 DEF ScheduleStop, UndoScheduleStop, phaseOfTunnel
<1>17. CASE QueueStop \/ CloseFails \/ OnTunnelStopped \/ ReleaseAfterStopped
  BY <1>4, <1>17 DEF QueueStop, CloseFails, OnTunnelStopped, ReleaseAfterStopped, phaseOfTunnel
<1>18. CASE StreamStep
  BY <1>4, <1>18 DEF StreamStep, OnStreamStart, OnStreamStartInvalidPort,
     DisconnectFromTcpForward, ForwardTerminates, phaseOfTunnel
<1>19. CASE AdoptForward \/ ConnectForward \/ ConnectForwardFails \/ ResetSecureTunnelStream
            \/ SendStreamReset
  BY <1>4, <1>19 DEF AdoptForward, ConnectForward, ConnectForwardFails,
     ResetSecureTunnelStream, SendStreamReset, phaseOfTunnel
<1>20. ASSUME scheduleFailures' = scheduleFailures + 1, heldContext, heldContext',
              UNCHANGED <<phaseOfTunnel, mStopRequested>>
       PROVE  Step
  <2>1. scheduleFailures \in Nat
    BY ConstantsAssumption DEF IndInv, TypeOK, CountTypes, ConstantsAssumption
  <2>2. refusedTask' = TRUE BY <1>20, <2>1
  <2>3. heldContext' = heldContext BY <1>5, <1>20
  <2>4. CASE refusedTask BY <1>4, <1>20, <2>2, <2>4
  <2>5. CASE ~refusedTask BY <1>20, <2>2, <2>3, <2>5 DEF Lifecycle!Refuse
  <2> QED BY <2>4, <2>5
<1>21. ASSUME NEW t \in Threads, ScheduleStopFails(t) PROVE Step
  <2>1. mLifetimeKeepAlive BY <1>21 DEF ScheduleStopFails, IndInv, StopInv, HeldInv, TypeOK, ThreadTypes
  <2>2. heldContext /\ heldContext'
    BY <1>21, <2>1 DEF ScheduleStopFails, heldContext, ContextIsHeld
  <2> QED BY <1>20, <1>21, <2>2 DEF ScheduleStopFails, phaseOfTunnel
<1>22. CASE OnTunnelStoppedRetains
  <2>1. heldContext /\ heldContext'
    BY <1>22 DEF OnTunnelStoppedRetains, heldContext, ContextIsHeld, IndInv, LoopInv
  <2> QED BY <1>20, <1>22, <2>1 DEF OnTunnelStoppedRetains, phaseOfTunnel
<1>23. CASE Finished \/ UNCHANGED vars BY <1>4, <1>23 DEF Finished, vars, phaseOfTunnel
<1> QED BY <1>6, <1>7, <1>8, <1>9, <1>10, <1>11, <1>12, <1>13, <1>14, <1>15, <1>16, <1>17,
           <1>18, <1>19, <1>21, <1>22, <1>23
    DEF Next, ConnectorStep, StopStep, LifecycleStep, StreamContinues

\* The context implements the safety part of the abstract life cycle: it is closed only on request and
\* once, and let go only when the SDK will not call it any more.
THEOREM ImplementsLifecycleSafely == Spec => ImplementsLifecycle
<1>1. IndInv => Needed BY NeededIsHeld
<1>2. (IndInv => Needed)' BY <1>1, PTL
<1>3. IndInv /\ IndInv' /\ [Next]_vars => [Lifecycle!Next]_(Lifecycle!vars)
  BY <1>2, StepImplements DEF Step
<1> QED BY <1>3, InitImplements, InductiveInvariant, PTL
    DEF Spec, ImplementsLifecycle, Lifecycle!Spec

-----------------------------------------------------------------------------
(***************************************************************************)
(* The local connections and their abstract specification.                 *)
(***************************************************************************)

starting == loopPc \in {"adopt", "connect"}

\* At the beginning every connection is new.
LEMMA ConnectionBegins == ASSUME Init, NEW f \in Forwards PROVE Connection(f)!Init
<1>1. forwardIsNew(f) BY DEF Init, forwardIsNew
<1> QED BY <1>1 DEF Connection!Init, phaseOfForward, holdsForward

\* A step that neither starts nor ends a connection changes nothing of it.
LEMMA ForwardUntouched ==
    ASSUME NEW f \in Forwards, UNCHANGED <<mTcpForward, running, streams>>, starting' <=> starting
    PROVE  UNCHANGED Connection(f)!vars
<1>1. forwardIsNew(f)' <=> forwardIsNew(f) BY DEF forwardIsNew, starting
<1>2. phaseOfForward(f)' = phaseOfForward(f) BY <1>1 DEF phaseOfForward
<1>3. holdsForward(f)' = holdsForward(f)
  <2>1. holdsForward(f)' <=> holdsForward(f) BY <1>1 DEF holdsForward
  <2> QED BY <2>1 DEF holdsForward
<1> QED BY <1>2, <1>3 DEF Connection!vars

\* StopTcpForward lets go of the connection of the current stream, and of no other.
LEMMA ForwardStopped ==
    ASSUME NEW f \in Forwards, streams \in 0 .. MaxStreams, StopTcpForward, ~starting,
           f > streams => forwardIsNew(f)', f <= streams => ~forwardIsNew(f)'
    PROVE  [Connection(f)!Next]_(Connection(f)!vars)
<1> USE DEF Connection!Next, Connection!vars
<1>1. CASE f > streams
  <2>1. forwardIsNew(f) BY <1>1 DEF forwardIsNew
  <2> QED BY <1>1, <2>1 DEF phaseOfForward, holdsForward
<1>2. CASE f <= streams
  <2>1. ~forwardIsNew(f) /\ ~forwardIsNew(f)'
    BY <1>2, ConstantsAssumption DEF forwardIsNew, starting, ConstantsAssumption
  <2>2. holdsForward(f)' = FALSE
    BY <2>1 DEF holdsForward, StopTcpForward
  <2>3. phaseOfForward(f)' = IF f \in running /\ f # mTcpForward THEN "open" ELSE "ended"
    BY <2>1 DEF phaseOfForward, StopTcpForward
  <2>4. phaseOfForward(f) = IF f \in running THEN "open" ELSE "ended"
    BY <2>1 DEF phaseOfForward
  <2>5. CASE f = mTcpForward
    <3>1. holdsForward(f) BY <2>5 DEF holdsForward
    <3> QED BY <2>2, <2>3, <2>5, <3>1 DEF Connection!LetGo
  <2>6. CASE f # mTcpForward
    <3>1. holdsForward(f) = FALSE BY <2>1, <2>6 DEF holdsForward
    <3>2. phaseOfForward(f)' = phaseOfForward(f) BY <2>3, <2>4, <2>6
    <3> QED BY <2>2, <3>1, <3>2
  <2> QED BY <2>5, <2>6
<1> QED BY <1>1, <1>2, ConstantsAssumption DEF ConstantsAssumption

\* Every step is a step of the abstract connection of each stream, or changes nothing of it.
LEMMA ConnectionGoesOn ==
    ASSUME IndInv, [Next]_vars, NEW f \in Forwards
    PROVE  [Connection(f)!Next]_(Connection(f)!vars)
<1> USE DEF Connection!Next, Connection!vars
<1>1. /\ streams \in 0 .. MaxStreams /\ MaxStreams \in Nat /\ mTcpForward \in 0 .. MaxStreams
      /\ OneLocalConnection
  BY ConstantsAssumption DEF IndInv, TypeOK, CountTypes, ConstantsAssumption
<1>2. CASE UNCHANGED <<mTcpForward, running, streams>> /\ (starting' <=> starting)
  BY <1>2, ForwardUntouched
<1>3. CASE OnStreamStart
  <2>1. /\ StopTcpForward /\ streams' = streams + 1 /\ loopPc' = "adopt" /\ ~starting
    BY <1>3 DEF OnStreamStart, starting
  <2>2. /\ f > streams => forwardIsNew(f)'
        /\ f <= streams => ~forwardIsNew(f)'
    BY <1>1, <2>1 DEF forwardIsNew
  <2> QED BY <1>1, <2>1, <2>2, ForwardStopped
<1>4. CASE DisconnectFromTcpForward \/ ReleaseAfterStopped
  <2>1. /\ StopTcpForward /\ UNCHANGED <<streams, loopPc>> /\ ~starting
    BY <1>4 DEF DisconnectFromTcpForward, ReleaseAfterStopped, starting
  <2>2. /\ f > streams => forwardIsNew(f)'
        /\ f <= streams => ~forwardIsNew(f)'
    BY <1>1, <2>1 DEF forwardIsNew, starting
  <2> QED BY <1>1, <2>1, <2>2, ForwardStopped
<1>5. CASE AdoptForward \/ ConnectForward \/ ConnectForwardFails
  <2>1. /\ starting /\ UNCHANGED streams /\ running = {} /\ streams \in Forwards
        /\ loopPc = "adopt" => mTcpForward = 0
        /\ loopPc = "connect" => mTcpForward = streams
    BY <1>5 DEF AdoptForward, ConnectForward, ConnectForwardFails, starting, IndInv, LoopInv
  <2>2. CASE f # streams
    <3>1. forwardIsNew(f)' <=> forwardIsNew(f) BY <2>1, <2>2 DEF forwardIsNew
    <3>2. f \in running' <=> f \in running
      BY <1>5, <2>1, <2>2 DEF AdoptForward, ConnectForward, ConnectForwardFails
    <3>3. mTcpForward' = f <=> mTcpForward = f
      BY <1>5, <2>1, <2>2
      DEF AdoptForward, Adopt, ConnectForward, ConnectForwardFails, OnTcpForwardTerminated
    <3>4. holdsForward(f)' = holdsForward(f)
      <4>1. holdsForward(f)' <=> holdsForward(f) BY <3>1, <3>3 DEF holdsForward
      <4> QED BY <4>1 DEF holdsForward
    <3> QED BY <3>1, <3>2, <3>4 DEF phaseOfForward
  <2>3. CASE f = streams
    <3>1. forwardIsNew(f) /\ (forwardIsNew(f)' <=> starting')
      BY <1>1, <2>1, <2>3 DEF forwardIsNew, starting
    <3>2. phaseOfForward(f) = "new" /\ holdsForward(f) BY <3>1 DEF phaseOfForward, holdsForward
    <3>3. CASE starting'
      BY <3>1, <3>2, <3>3 DEF phaseOfForward, holdsForward
    <3>4. CASE loopPc = "connect" /\ running' = {streams} /\ loopPc' = "idle" /\ mTcpForward' = streams
      <4>1. phaseOfForward(f)' = "open" /\ holdsForward(f)'
        BY <2>3, <3>1, <3>4 DEF phaseOfForward, holdsForward, starting
      <4> QED BY <3>2, <4>1 DEF Connection!Open, holdsForward
    <3>5. CASE ~starting' /\ running' = {} /\ mTcpForward' = 0
      <4>1. phaseOfForward(f)' = "ended" /\ ~holdsForward(f)'
        BY <2>1, <2>3, <3>1, <3>5 DEF phaseOfForward, holdsForward
      <4> QED BY <3>2, <4>1 DEF Connection!LetGo, holdsForward
    <3> QED
      BY <1>5, <2>1, <3>3, <3>4, <3>5
      DEF AdoptForward, ConnectForward, ConnectForwardFails, OnTcpForwardTerminated, starting
  <2> QED BY <2>2, <2>3
<1>6. ASSUME NEW g \in Forwards, ForwardTerminates(g)
      PROVE  [Connection(f)!Next]_(Connection(f)!vars)
  <2>1. /\ g = mTcpForward /\ UNCHANGED streams /\ ~starting /\ ~starting'
        /\ mTcpForward' = 0 /\ running' = running \ {g}
    BY <1>1, <1>6 DEF ForwardTerminates, OnTcpForwardTerminated, OneLocalConnection, starting
  <2>2. StopTcpForward BY <2>1 DEF StopTcpForward
  <2>3. /\ f > streams => forwardIsNew(f)'
        /\ f <= streams => ~forwardIsNew(f)'
    BY <1>1, <2>1 DEF forwardIsNew, starting
  <2> QED BY <1>1, <2>1, <2>2, <2>3, ForwardStopped
<1>7. CASE \/ AddContext \/ RunSecureTunneling \/ ConnectorStep
           \/ TakeContexts \/ StopSecureTunnel \/ StopReturns \/ DropFeature
  BY <1>2, <1>7 DEF AddContext, RunSecureTunneling, ConnectorStep, CreateSecureTunnel,
     CreateSecureTunnelFails, Connect, ConnectFails, FinishConnect, FinishFailedConnect, StopAfterConnect,
     EraseContext, TakeContexts, StopSecureTunnel, StopReturns, DropFeature, starting
<1>8. CASE \E t \in Threads : StopStep(t)
  BY <1>2, <1>8 DEF StopStep, ScheduleStop, ScheduleStopFails, UndoScheduleStop, starting
<1>9. CASE QueueStop \/ Close \/ CloseFails \/ OnTunnelStopped \/ OnTunnelStoppedRetains \/ OnStopped
  BY <1>2, <1>9 DEF QueueStop, Close, CloseFails, OnTunnelStopped, OnTunnelStoppedRetains, OnStopped, starting
<1>10. CASE \/ OnStreamStartInvalidPort
            \/ ResetSecureTunnelStream \/ SendStreamReset \/ SendStreamResetFails
  BY <1>2, <1>10 DEF OnStreamStartInvalidPort, ResetSecureTunnelStream, SendStreamReset,
     SendStreamResetFails, starting
<1>11. CASE Finished \/ UNCHANGED vars BY <1>2, <1>11 DEF Finished, vars, starting
<1> QED
  BY <1>3, <1>4, <1>5, <1>6, <1>7, <1>8, <1>9, <1>10, <1>11
  DEF Next, LifecycleStep, StreamStep, StreamContinues

\* The context opens each local connection once, while it holds it, and never uses one it has let go of:
\* what it assumes of a connection is what TcpForward implements.
THEOREM ForwardsImplementConnection == Spec => ForwardsFollowConnection
<1>1. Init => \A f \in Forwards : Connection(f)!Init BY ConnectionBegins
<1>2. IndInv /\ [Next]_vars => \A f \in Forwards : [Connection(f)!Next]_(Connection(f)!vars)
  BY ConnectionGoesOn
<1> QED BY <1>1, <1>2, InductiveInvariant, PTL DEF Spec, ForwardsFollowConnection
=============================================================================
