----------------------------- MODULE AgentProofs -----------------------------
(***************************************************************************)
(* Proofs about the robot agent, for any number of sessions and of peer    *)
(* connections, any timeout, threshold and window.                         *)
(***************************************************************************)
EXTENDS RobotAgent, MonitorProofs

VARIABLE
    emergency    (* history: the monitor was told of an e-stop, of the end or *)
                 (* revocation of the session or of the shutdown since the    *)
                 (* last activation                                           *)

(* Every step of the agent is an operation of the monitor, and Reset comes  *)
(* only from an activation.                                                 *)
LEMMA StepsAreOperations ==
    [Next]_vars => OperationButReset \/ (Reset /\ activating # {})
<1> SUFFICES ASSUME [Next]_vars PROVE OperationButReset \/ (Reset /\ activating # {})
  OBVIOUS
<1> USE DEF OperationButReset, OnRevoked, OnEStop
<1>1. CASE Signaling
  BY <1>1 DEF Signaling, OfferValidate, OfferCreate, OfferAnswer, OfferFail, OnBye,
              RevokedClose, RevokedTerminate, RevokedStop
<1>2. CASE \E p \in Peers : PeerConnect(p) \/ PeerFail(p) \/ Callback(p)
  BY <1>2 DEF PeerConnect, PeerFail, NetworkFrame, Callback, ConnectedActivate,
              ConnectedRefused, ConnectedReset, DownTerminate
<1>3. CASE \E p \in Peers : Receive(p) \/ Handle(p)
  BY <1>3 DEF Receive, Handle, Garbled, Drop, Admit, AdmitControl, Reject, Drive,
              DriveFail, Acknowledge, EStopLatch, EStopHalt
<1>4. CASE Ticker \/ ShutdownStop \/ ShutdownClose \/ Pass
  BY <1>4 DEF Ticker, TickerRead, TickerStop, TickerFindsNothing, ShutdownStop,
              ShutdownClose, Pass
<1>5. CASE UNCHANGED vars
  BY <1>5 DEF vars
<1> QED
  BY <1>1, <1>2, <1>3, <1>4, <1>5 DEF Next

-----------------------------------------------------------------------------
(* Action properties that need no invariant                                *)

(* A session that ended stays ended, whatever offers, callbacks and         *)
(* messages follow.                                                         *)
THEOREM EndIsFinalHolds == Spec => EndIsFinal
<1>1. [Next]_vars => [state = "terminated" => state' = "terminated"]_vars
  <2> SUFFICES ASSUME [Next]_vars, state = "terminated"
               PROVE  state' = "terminated"
    OBVIOUS
  <2> USE DEF sessionVars
  <2>1. CASE Signaling
    BY <2>1 DEF Signaling, OfferValidate, OfferCreate, OfferAnswer, OfferFail, OnBye,
                RevokedClose, RevokedTerminate, RevokedStop, Terminate
  <2>2. CASE \E p \in Peers : PeerConnect(p) \/ PeerFail(p) \/ Callback(p)
    BY <2>2 DEF PeerConnect, PeerFail, NetworkFrame, Callback, ConnectedActivate,
                ConnectedRefused, ConnectedReset, DownTerminate, Activate,
                Activatable, Terminate
  <2>3. CASE \E p \in Peers : Receive(p) \/ Handle(p)
    BY <2>3 DEF Receive, Handle, Garbled, Drop, Admit, AdmitControl, Reject, Drive,
                DriveFail, Acknowledge, EStopLatch, EStopHalt, HandlerFrame
  <2>4. CASE Ticker \/ ShutdownStop \/ ShutdownClose \/ Pass
    BY <2>4 DEF Ticker, TickerRead, TickerStop, TickerFindsNothing, TickerFrame,
                ShutdownStop, ShutdownClose, Pass
  <2>5. CASE UNCHANGED vars
    BY <2>5 DEF vars
  <2> QED
    BY <2>1, <2>2, <2>3, <2>4, <2>5 DEF Next
<1> QED
  BY <1>1, PTL DEF Spec, EndIsFinal

(* Once the session has ended and no activation is half done, a stop that   *)
(* cannot recover is for good.                                              *)
THEOREM EndedStopIsPermanentHolds == Spec => EndedStopIsPermanent
<1>1. [Next]_vars =>
        [(state = "terminated" /\ activating = {} /\ stopped /\ ~inControlLoss)
           => stopped']_vars
  <2> SUFFICES ASSUME [Next]_vars, activating = {}, stopped, ~inControlLoss
               PROVE  stopped'
    OBVIOUS
  <2> QED
    BY StepsAreOperations, LatchedStaysStopped
<1> QED
  BY <1>1, PTL DEF Spec, EndedStopIsPermanent

-----------------------------------------------------------------------------
(* The inductive invariant                                                 *)

LEMMA InitInv == Init => IInv
<1> SUFFICES ASSUME Init PROVE IInv
  OBVIOUS
<1> USE DEF Init, ManagerInit, Idle
<1>1. TypeOK
  <2>1. MonitorTypeOK
    BY MonitorInitType
  <2>2. ManagerTypeOK
    BY DEF ManagerTypeOK
  <2> QED
    BY <2>1, <2>2 DEF TypeOK, ConnState, HandlerStep, SigStep
<1>2. AnsweredPeerIsNew /\ PeersAreOffered
  BY DEF AnsweredPeerIsNew, PeersAreOffered
<1>3. EventsMatchPeers /\ ActiveIsServed
  BY DEF EventsMatchPeers, ActiveIsServed, IsActive
<1> QED
  BY <1>1, <1>2, <1>3 DEF IInv

(* The handlers of the data channels leave the peers and the sessions alone, *)
(* and so do the ticker and time.                                            *)
LEMMA HandlersKeepSessions ==
    ASSUME \/ \E p \in Peers : Receive(p) \/ Handle(p)
           \/ Ticker \/ ShutdownStop \/ Pass \/ OnBye
    PROVE  UNCHANGED <<sessionVars, transportVars, activating, sig>>
<1>1. CASE \E p \in Peers : Receive(p) \/ Handle(p)
  BY <1>1 DEF Receive, Handle, Garbled, Drop, Admit, AdmitControl, Reject, Drive,
              DriveFail, Acknowledge, EStopLatch, EStopHalt, HandlerFrame
<1>2. CASE Ticker \/ ShutdownStop \/ Pass \/ OnBye
  BY <1>2 DEF Ticker, TickerRead, TickerStop, TickerFindsNothing, TickerFrame,
              ShutdownStop, Pass, OnBye, SignalFrame
<1> QED
  BY <1>1, <1>2

(* The types of the variables of the transport, the session and the signaling *)
(* loop.                                                                       *)
LinkTypeOK ==
    /\ ManagerTypeOK
    /\ pc \in Peers \cup {NoPeer}
    /\ conn \in [Peers -> ConnState]
    /\ offered \in Sessions \cup {NoSession}
    /\ events \subseteq Peers \X {"connected", "down"}
    /\ activating \subseteq Peers
    /\ sig \in [at : SigStep, session : Sessions \cup {NoSession}]

LEMMA CloseKeepsLink ==
    ASSUME LinkTypeOK, CloseTransport
    PROVE  /\ pc' = NoPeer
           /\ offered' = offered
           /\ conn' \in [Peers -> ConnState]
           /\ events' \subseteq Peers \X {"connected", "down"}
           /\ events \subseteq events'
           /\ \A p \in Peers : p # pc => conn'[p] = conn[p]
           /\ \A p \in Peers : p = pc => conn'[p] = "down" /\ <<p, "down">> \in events'
           /\ \A p \in Peers : <<p, "connected">> \in events' => <<p, "connected">> \in events
<1> USE AgentAssumption DEF AgentAssumption, LinkTypeOK, CloseTransport, ConnState
<1>1. CASE pc = NoPeer
  BY <1>1
<1>2. CASE pc \in Peers
  BY <1>2
<1> QED
  BY <1>1, <1>2

LEMMA LinkStepType == TypeOK /\ [Next]_vars => LinkTypeOK'
<1> SUFFICES ASSUME TypeOK, [Next]_vars PROVE LinkTypeOK'
  OBVIOUS
<1>0. LinkTypeOK
  BY DEF TypeOK, LinkTypeOK
<1> USE <1>0 DEF LinkTypeOK, ManagerTypeOK, SigStep, ConnState
<1>1. CASE \E s \in Sessions : OfferValidate(s)
  BY <1>1 DEF OfferValidate, sessionVars, transportVars, SignalFrame
<1>2. CASE \E p \in Peers : OfferCreate(p)
  BY <1>2 DEF OfferCreate, sessionVars, SignalFrame, Idle
<1>3. CASE OfferAnswer
  BY <1>3 DEF OfferAnswer, sessionVars, SignalFrame, Idle
<1>4. CASE OfferFail
  BY <1>4 DEF OfferFail, sessionVars, transportVars, SignalFrame, Idle
<1>5. CASE RevokedClose \/ ShutdownClose
  BY <1>5, CloseKeepsLink
     DEF RevokedClose, ShutdownClose, sessionVars, SignalFrame
<1>6. CASE RevokedTerminate
  BY <1>6 DEF RevokedTerminate, Terminate, transportVars, SignalFrame
<1>7. CASE RevokedStop
  BY <1>7 DEF RevokedStop, sessionVars, transportVars, SignalFrame, Idle
<1>8. CASE \E p \in Peers : PeerConnect(p) \/ PeerFail(p)
  BY <1>8 DEF PeerConnect, PeerFail, NetworkFrame, sessionVars
<1>9. CASE \E p \in Peers : Callback(p)
  BY <1>9 DEF Callback, ConnectedActivate, ConnectedRefused, ConnectedReset,
              DownTerminate, Activate, Terminate, CallbackFrame, sessionVars,
              transportVars
<1>10. CASE \/ \E p \in Peers : Receive(p) \/ Handle(p)
            \/ Ticker \/ ShutdownStop \/ Pass \/ OnBye
  BY <1>10, HandlersKeepSessions DEF sessionVars, transportVars
<1>11. CASE UNCHANGED vars
  BY <1>11 DEF vars, sessionVars, transportVars
<1> QED
  BY <1>1, <1>2, <1>3, <1>4, <1>5, <1>6, <1>7, <1>8, <1>9, <1>10, <1>11
     DEF Next, Signaling

(* The read loops, the ticker, main and the robot keep their types. *)
LEMMA LoopStepType ==
    TypeOK /\ [Next]_vars => /\ handler' \in [Peers -> HandlerStep]
                             /\ ticking' \in BOOLEAN
                             /\ main' \in {"running", "stopping", "exited"}
                             /\ motion' \in BOOLEAN
<1> SUFFICES ASSUME TypeOK, [Next]_vars
             PROVE  /\ handler' \in [Peers -> HandlerStep]
                    /\ ticking' \in BOOLEAN
                    /\ main' \in {"running", "stopping", "exited"}
                    /\ motion' \in BOOLEAN
  OBVIOUS
<1>0. /\ handler \in [Peers -> HandlerStep]
      /\ ticking \in BOOLEAN
      /\ main \in {"running", "stopping", "exited"}
      /\ motion \in BOOLEAN
  BY DEF TypeOK
<1>s. onSafeStop => motion' \in BOOLEAN
  BY DEF onSafeStop
<1> USE <1>0, <1>s DEF HandlerStep
<1>1. CASE Signaling
  BY <1>1 DEF Signaling, OfferValidate, OfferCreate, OfferAnswer, OfferFail, OnBye,
              RevokedClose, RevokedTerminate, RevokedStop, SignalFrame
<1>2. CASE \E p \in Peers : PeerConnect(p) \/ PeerFail(p) \/ Callback(p)
  BY <1>2 DEF PeerConnect, PeerFail, NetworkFrame, Callback, ConnectedActivate,
              ConnectedRefused, ConnectedReset, DownTerminate, CallbackFrame
<1>3. CASE \E p \in Peers : Receive(p) \/ Handle(p)
  <2>1. ticking' = ticking /\ main' = main
    BY <1>3 DEF Receive, Handle, Garbled, Drop, Admit, AdmitControl, Reject, Drive,
                DriveFail, Acknowledge, EStopLatch, EStopHalt, HandlerFrame
  <2>2. motion' \in BOOLEAN
    BY <1>3 DEF Receive, Handle, Garbled, Drop, Admit, AdmitControl, Reject, Drive,
                DriveFail, Acknowledge, EStopLatch, EStopHalt
  <2>3. \E p \in Peers, step \in HandlerStep : Goto(p, step)
    BY <1>3 DEF Receive, Handle, Garbled, Drop, Admit, AdmitControl, Reject, Drive,
                DriveFail, Acknowledge, EStopLatch, EStopHalt
  <2>4. handler' \in [Peers -> HandlerStep]
    BY <2>3 DEF Goto
  <2> QED
    BY <2>1, <2>2, <2>4
<1>4. CASE Ticker \/ ShutdownStop \/ ShutdownClose \/ Pass
  BY <1>4 DEF Ticker, TickerRead, TickerStop, TickerFindsNothing, TickerFrame,
              ShutdownStop, ShutdownClose, Pass
<1>5. CASE UNCHANGED vars
  BY <1>5 DEF vars
<1> QED
  BY <1>1, <1>2, <1>3, <1>4, <1>5 DEF Next

LEMMA TypeStep == TypeOK /\ [Next]_vars => TypeOK'
<1> SUFFICES ASSUME TypeOK, [Next]_vars PROVE TypeOK'
  OBVIOUS
<1>1. MonitorTypeOK'
  BY StepsAreOperations, MonitorStepType DEF TypeOK, MonitorOperation
<1> QED
  BY <1>1, LinkStepType, LoopStepType DEF TypeOK, LinkTypeOK

(* The steps that concern neither a peer connection nor the session. *)
LEMMA StructureIsFramed ==
    ASSUME IInv,
           UNCHANGED <<sessionVars, transportVars>>,
           sig' = sig \/ sig' = Idle \/ sig'.at \in {"terminate", "stop"}
    PROVE  /\ AnsweredPeerIsNew' /\ PeersAreOffered'
           /\ EventsMatchPeers' /\ ActiveIsServed'
BY DEF IInv, AnsweredPeerIsNew, PeersAreOffered, EventsMatchPeers, ActiveIsServed,
       IsActive, sessionVars, transportVars, Idle

LEMMA StructureStep ==
    IInv /\ [Next]_vars => /\ AnsweredPeerIsNew' /\ PeersAreOffered'
                           /\ EventsMatchPeers' /\ ActiveIsServed'
<1> SUFFICES ASSUME IInv, [Next]_vars
             PROVE  /\ AnsweredPeerIsNew' /\ PeersAreOffered'
                    /\ EventsMatchPeers' /\ ActiveIsServed'
  OBVIOUS
<1>0. TypeOK /\ LinkTypeOK
  BY DEF IInv, TypeOK, LinkTypeOK
<1> USE <1>0, AgentAssumption, SessionAssumption
    DEF AgentAssumption, SessionAssumption, LinkTypeOK, ManagerTypeOK, ConnState,
        SigStep, AnsweredPeerIsNew, PeersAreOffered, EventsMatchPeers,
        ActiveIsServed, IsActive, IInv
<1>1. CASE \E s \in Sessions : OfferValidate(s)
  BY <1>1 DEF OfferValidate, Signal, sessionVars, transportVars
<1>2. CASE \E p \in Peers : OfferCreate(p)
  BY <1>2 DEF OfferCreate, Signal, sessionVars, Idle
<1>3. CASE OfferAnswer
  BY <1>3 DEF OfferAnswer, Signal, sessionVars, Idle
<1>4. CASE OfferFail
  BY <1>4, StructureIsFramed DEF OfferFail
<1>5. CASE RevokedClose
  <2>1. sig'.at = "terminate" /\ CloseTransport /\ UNCHANGED sessionVars
    BY <1>5 DEF RevokedClose
  <2> QED
    BY <2>1, CloseKeepsLink DEF sessionVars
<1>6. CASE ShutdownClose
  <2>1. sig' = sig /\ CloseTransport /\ UNCHANGED sessionVars
    BY <1>6 DEF ShutdownClose
  <2> QED
    BY <2>1, CloseKeepsLink DEF sessionVars
<1>7. CASE RevokedTerminate
  BY <1>7 DEF RevokedTerminate, Terminate, transportVars
<1>8. CASE RevokedStop
  BY <1>8, StructureIsFramed DEF RevokedStop
<1>9. CASE \E p \in Peers : PeerConnect(p) \/ PeerFail(p)
  BY <1>9 DEF PeerConnect, PeerFail, NetworkFrame, sessionVars
<1>10. CASE \E p \in Peers : ConnectedActivate(p)
  BY <1>10 DEF ConnectedActivate, Activate, Activatable, CallbackFrame
<1>11. CASE \E p \in Peers : ConnectedRefused(p) \/ ConnectedReset(p)
  BY <1>11 DEF ConnectedRefused, ConnectedReset, CallbackFrame, sessionVars,
               transportVars
<1>12. CASE \E p \in Peers : DownTerminate(p)
  BY <1>12 DEF DownTerminate, Terminate, CallbackFrame
<1>13. CASE \/ \E p \in Peers : Receive(p) \/ Handle(p)
            \/ Ticker \/ ShutdownStop \/ Pass \/ OnBye
  BY <1>13, HandlersKeepSessions, StructureIsFramed
<1>14. CASE UNCHANGED vars
  BY <1>14, StructureIsFramed DEF vars
<1> QED
  BY <1>1, <1>2, <1>3, <1>4, <1>5, <1>6, <1>7, <1>8, <1>9, <1>10, <1>11, <1>12,
     <1>13, <1>14 DEF Next, Signaling, Callback

LEMMA StepInv == IInv /\ [Next]_vars => IInv'
BY TypeStep, StructureStep DEF IInv

(* Every variable of the agent keeps its type. *)
THEOREM TypeCorrect == Spec => []TypeOK
<1>1. IInv => TypeOK
  BY DEF IInv
<1> QED
  BY InitInv, StepInv, <1>1, PTL DEF Spec

(* An active session always has a peer that is connected, or whose end is   *)
(* still to be handled, however its callbacks overtake each other.          *)
THEOREM NoSessionIsOrphan == Spec => []NoOrphanSession
<1>1. IInv => NoOrphanSession
  BY SessionAssumption
     DEF SessionAssumption, IInv, ActiveIsServed, EventsMatchPeers, IsActive,
         NoOrphanSession
<1> QED
  BY InitInv, StepInv, <1>1, PTL DEF Spec

-----------------------------------------------------------------------------
(* Motion                                                                  *)

MotionInv == TypeOK /\ (inControlLoss => stopped) /\ SuspendedMotionResumes

(* The read loops about to acknowledge stay so. *)
AcksKept == \A p \in Peers : handler[p] = "ack" => handler'[p] = "ack"

(* A stop by the monitor leaves nothing suspended and moving. *)
LEMMA StopKeepsMotionInv ==
    ASSUME MotionInv, AcksKept, onSafeStop,
           OnInvalidCommand \/ OnEmergency \/ CheckControlLoss
    PROVE  (inControlLoss' => stopped') /\ SuspendedMotionResumes'
<1> USE DEF MotionInv, SuspendedMotionResumes, AcksKept, onSafeStop, triggerSafeStop
<1>1. CASE OnInvalidCommand
  BY <1>1 DEF OnInvalidCommand
<1>2. CASE OnEmergency
  BY <1>2 DEF OnEmergency
<1>3. CASE CheckControlLoss
  BY <1>3 DEF CheckControlLoss
<1> QED
  BY <1>1, <1>2, <1>3

LEMMA FrameKeepsMotionInv ==
    ASSUME MotionInv, AcksKept, motion' => motion,
           UNCHANGED <<stopped, inControlLoss, haltFailed>>
    PROVE  (inControlLoss' => stopped') /\ SuspendedMotionResumes'
BY DEF MotionInv, SuspendedMotionResumes, AcksKept

LEMMA MotionStep == MotionInv /\ [Next]_vars => MotionInv'
<1> SUFFICES ASSUME MotionInv, [Next]_vars
             PROVE  (inControlLoss' => stopped') /\ SuspendedMotionResumes'
  BY TypeStep DEF MotionInv
<1>0. handler \in [Peers -> HandlerStep]
  BY DEF MotionInv, TypeOK
<1> DEFINE Framed == motion' = motion /\ UNCHANGED monitorVars
<1>1. Framed /\ AcksKept =>
        (inControlLoss' => stopped') /\ SuspendedMotionResumes'
  BY FrameKeepsMotionInv DEF monitorVars
<1>2. CASE Signaling
  <2>1. AcksKept
    BY <1>2 DEF Signaling, OfferValidate, OfferCreate, OfferAnswer, OfferFail, OnBye,
                RevokedClose, RevokedTerminate, RevokedStop, SignalFrame, AcksKept
  <2>2. Framed \/ (OnEmergency /\ onSafeStop)
    BY <1>2 DEF Signaling, OfferValidate, OfferCreate, OfferAnswer, OfferFail, OnBye,
                RevokedClose, RevokedTerminate, RevokedStop, OnRevoked
  <2> QED
    BY <1>1, <2>1, <2>2, StopKeepsMotionInv
<1>3. CASE \E p \in Peers : PeerConnect(p) \/ PeerFail(p) \/ Callback(p)
  <2>1. AcksKept
    BY <1>3 DEF PeerConnect, PeerFail, NetworkFrame, Callback, ConnectedActivate,
                ConnectedRefused, ConnectedReset, DownTerminate, CallbackFrame, AcksKept
  <2>2. Framed \/ Reset
    BY <1>3 DEF PeerConnect, PeerFail, NetworkFrame, Callback, ConnectedActivate,
                ConnectedRefused, ConnectedReset, DownTerminate, CallbackFrame
  <2>3. Reset => (inControlLoss' => stopped') /\ SuspendedMotionResumes'
    BY DEF Reset, SuspendedMotionResumes
  <2> QED
    BY <1>1, <2>1, <2>2, <2>3
<1>4. ASSUME NEW p \in Peers, Receive(p) \/ Handle(p)
      PROVE  (inControlLoss' => stopped') /\ SuspendedMotionResumes'
  <2>1. CASE Receive(p) \/ Drop(p) \/ Admit(p) \/ AdmitControl(p) \/ DriveFail(p)
    <3>1. AcksKept
      BY <1>0, <2>1 DEF Receive, Drop, Admit, AdmitControl, DriveFail, At, Goto, AcksKept
    <3>2. Framed
      BY <2>1 DEF Receive, Drop, Admit, AdmitControl, DriveFail
    <3> QED
      BY <1>1, <3>1, <3>2
  <2>2. CASE Garbled(p) \/ Reject(p) \/ EStopLatch(p)
    <3>1. AcksKept
      BY <1>0, <2>2 DEF Garbled, Reject, EStopLatch, At, Goto, AcksKept
    <3>2. (OnInvalidCommand \/ OnEmergency) /\ onSafeStop
      BY <2>2 DEF Garbled, Reject, EStopLatch, OnEStop
    <3> QED
      BY <3>1, <3>2, StopKeepsMotionInv
  <2>3. CASE Drive(p)
    <3>1. handler'[p] = "ack" /\ UNCHANGED monitorVars
      BY <1>0, <2>3 DEF Drive, Goto
    <3> QED
      BY <3>1 DEF MotionInv, SuspendedMotionResumes, monitorVars
  <2>4. CASE Acknowledge(p)
    BY <2>4 DEF Acknowledge, OnValidControl, SuspendedMotionResumes
  <2>5. CASE EStopHalt(p)
    <3>1. AcksKept
      BY <1>0, <2>5 DEF EStopHalt, At, Goto, AcksKept
    <3>2. motion' \in {FALSE, motion} /\ UNCHANGED monitorVars
      BY <2>5 DEF EStopHalt
    <3>3. motion' => motion
      BY <3>2
    <3> QED
      BY <3>1, <3>2, <3>3, FrameKeepsMotionInv DEF monitorVars
  <2> QED
    BY <1>4, <2>1, <2>2, <2>3, <2>4, <2>5 DEF Handle
<1>5. CASE Ticker \/ ShutdownStop \/ ShutdownClose \/ UNCHANGED vars
  <2>1. AcksKept
    BY <1>5 DEF Ticker, TickerRead, TickerStop, TickerFindsNothing, TickerFrame,
                ShutdownStop, ShutdownClose, AcksKept, vars
  <2>2. Framed \/ ((CheckControlLoss \/ OnEmergency) /\ onSafeStop)
    BY <1>5 DEF Ticker, TickerRead, TickerStop, TickerFindsNothing, ShutdownStop,
                ShutdownClose, OnRevoked, vars
  <2> QED
    BY <1>1, <2>1, <2>2, StopKeepsMotionInv
<1>6. CASE Pass
  <2>1. AcksKept /\ motion' = motion
    BY <1>6 DEF Pass, AcksKept
  <2>2. UNCHANGED <<stopped, inControlLoss, haltFailed>>
    BY <1>6 DEF Pass, Tick
  <2> QED
    BY <2>1, <2>2, FrameKeepsMotionInv
<1> QED
  BY <1>2, <1>3, <1>4, <1>5, <1>6 DEF Next

(* A robot suspended for control loss moves only under a command whose      *)
(* acknowledgement ends the suspension, or because its hardware failed.     *)
THEOREM SuspendedMotion == Spec => []SuspendedMotionResumes
<1>1. Init => MotionInv
  <2>1. Init => TypeOK
    BY InitInv DEF IInv
  <2> QED
    BY <2>1 DEF Init, MonitorInit, MotionInv, SuspendedMotionResumes
<1>2. MotionInv => SuspendedMotionResumes
  BY DEF MotionInv
<1> QED
  BY <1>1, <1>2, MotionStep, PTL DEF Spec

-----------------------------------------------------------------------------
(* The monitor within the agent implements SafeStop                        *)

Reported == OnBye \/ RevokedStop \/ ShutdownStop \/ \E p \in Peers : EStopLatch(p)

Restarted == \E p \in Peers : ConnectedReset(p)

(* The agent with the history recorded; no step reads it.                   *)
HistoryNext ==
    /\ Next
    /\ emergency' = IF Reported THEN TRUE ELSE IF Restarted THEN FALSE ELSE emergency

HistorySpec == Init /\ emergency = FALSE /\ [][HistoryNext]_<<vars, emergency>>

Abstract == INSTANCE SafeStop WITH
    mode <- IF ~stopped THEN "running"
            ELSE IF inControlLoss THEN "suspended" ELSE "latched",
    overdue <- silent

(* What a step asks of the monitor.                                         *)
LEMMA StepKinds ==
    ASSUME [Next]_vars
    PROVE  \/ Reported /\ OnEmergency
           \/ ~Reported /\ Restarted /\ Reset
           \/ /\ ~Reported /\ ~Restarted
              /\ OnValidControl \/ OnInvalidCommand \/ CheckControlLoss \/ Tick
                   \/ UNCHANGED monitorVars
<1>1. Reported => OnEmergency
  BY DEF Reported, OnBye, RevokedStop, ShutdownStop, EStopLatch, OnRevoked, OnEStop
<1>2. Restarted => Reset
  BY DEF Restarted, ConnectedReset
<1> DEFINE Other == OnValidControl \/ OnInvalidCommand \/ CheckControlLoss \/ Tick
                      \/ UNCHANGED monitorVars
<1>3. CASE Signaling
  <2>1. CASE OnBye \/ RevokedStop
    BY <1>1, <2>1 DEF Reported
  <2>2. CASE ~(OnBye \/ RevokedStop)
    <3>1. Other
      BY <1>3, <2>2 DEF Signaling, OfferValidate, OfferCreate, OfferAnswer, OfferFail,
                        RevokedClose, RevokedTerminate
    <3> QED
      BY <1>1, <1>2, <3>1
  <2> QED
    BY <2>1, <2>2
<1>4. ASSUME NEW p \in Peers, PeerConnect(p) \/ PeerFail(p) \/ Callback(p)
      PROVE  Restarted \/ Other
  BY <1>4 DEF PeerConnect, PeerFail, NetworkFrame, Callback, ConnectedActivate,
              ConnectedRefused, DownTerminate, Restarted
<1>5. ASSUME NEW p \in Peers, Receive(p) \/ Handle(p) PROVE Reported \/ Other
  BY <1>5 DEF Receive, Handle, Garbled, Drop, Admit, AdmitControl, Reject, Drive,
              DriveFail, Acknowledge, EStopHalt, Reported
<1>6. CASE Ticker \/ ShutdownStop \/ ShutdownClose \/ Pass \/ UNCHANGED vars
  <2>1. Reported \/ Other
    BY <1>6 DEF Ticker, TickerRead, TickerStop, TickerFindsNothing, ShutdownClose, Pass,
                vars, Reported
  <2> QED
    BY <1>1, <1>2, <2>1
<1> HIDE DEF Other
<1>7. Reported \/ Restarted \/ Other
  BY <1>3, <1>4, <1>5, <1>6 DEF Next, Other
<1> QED
  BY <1>1, <1>2, <1>7 DEF Other

(* What is known of the history: an emergency has latched the stop.         *)
HistoryInv ==
    /\ MonitorTypeOK
    /\ inControlLoss => stopped
    /\ emergency \in BOOLEAN
    /\ emergency => stopped /\ ~inControlLoss

(* Every step is one of the abstract safe stop, or none.                    *)
LEMMA MonitorRefines ==
    ASSUME HistoryInv, [HistoryNext]_<<vars, emergency>>
    PROVE  HistoryInv' /\ [Abstract!Next]_(Abstract!safeStopVars)
<1> DEFINE mode == IF ~stopped THEN "running"
                   ELSE IF inControlLoss THEN "suspended" ELSE "latched"
<1>1. MonitorTypeOK'
  BY StepsAreOperations, MonitorStepType, Zenon DEF HistoryInv, HistoryNext, MonitorOperation
<1>2. /\ stopped \in BOOLEAN /\ inControlLoss \in BOOLEAN
      /\ stopped' \in BOOLEAN /\ inControlLoss' \in BOOLEAN
      /\ controlAge \in 0 .. ControlLossTimeout + 1 /\ ControlLossTimeout \in Nat
  BY <1>1, MonitorAssumption
     DEF HistoryInv, MonitorTypeOK, CountersInRange, FlagsOK, MonitorAssumption
<1> USE DEF HistoryInv
<1>3. CASE HistoryNext /\ Reported /\ OnEmergency
  <2>1. emergency' = TRUE
    BY <1>3 DEF HistoryNext
  <2>2. silent' = silent /\ mode' = "latched" /\ stopped' /\ ~inControlLoss'
    BY <1>3 DEF OnEmergency, triggerSafeStop, silent
  <2>3. Abstract!Latch
    BY <2>1, <2>2 DEF Abstract!Latch
  <2> QED
    BY <1>1, <2>1, <2>2, <2>3 DEF Abstract!Next
<1>4. CASE HistoryNext /\ ~Reported /\ Restarted /\ Reset
  <2>1. emergency' = FALSE
    BY <1>4 DEF HistoryNext
  <2>2. silent' = FALSE /\ mode' = "running" /\ ~stopped' /\ ~inControlLoss'
    BY <1>2, <1>4 DEF Reset, silent
  <2>3. Abstract!Restart
    BY <2>1, <2>2 DEF Abstract!Restart
  <2> QED
    BY <1>1, <2>1, <2>2, <2>3 DEF Abstract!Next
<1>5. CASE emergency' = emergency /\ OnValidControl
  <2>1. silent' = FALSE
    BY <1>2, <1>5 DEF OnValidControl, silent
  <2>2. mode' = IF mode = "latched" THEN "latched" ELSE "running"
    BY <1>2, <1>5 DEF OnValidControl
  <2>3. Abstract!Hear
    BY <1>5, <2>1, <2>2 DEF Abstract!Hear
  <2>4. (inControlLoss' => stopped') /\ (emergency' => stopped' /\ ~inControlLoss')
    BY <1>5 DEF OnValidControl
  <2> QED
    BY <1>1, <1>5, <2>3, <2>4 DEF Abstract!Next
<1>6. CASE emergency' = emergency /\ OnInvalidCommand
  <2>1. silent' = silent /\ inControlLoss' = inControlLoss /\ (stopped => stopped')
    BY <1>2, <1>6 DEF OnInvalidCommand, triggerSafeStop, silent
  <2>2. mode' = mode \/ (mode = "running" /\ mode' = "latched")
    BY <1>2, <2>1
  <2>3. Abstract!Trip \/ UNCHANGED Abstract!safeStopVars
    BY <1>6, <2>1, <2>2 DEF Abstract!Trip, Abstract!safeStopVars
  <2> QED
    BY <1>1, <1>6, <2>1, <2>3 DEF Abstract!Next
<1>7. CASE emergency' = emergency /\ CheckControlLoss
  <2>1. silent /\ silent' = silent /\ ~stopped /\ stopped' /\ inControlLoss'
    BY <1>7 DEF CheckControlLoss, triggerSafeStop, silent
  <2>2. mode = "running" /\ mode' = "suspended"
    BY <2>1
  <2>3. Abstract!Suspend
    BY <1>7, <2>1, <2>2 DEF Abstract!Suspend
  <2> QED
    BY <1>1, <1>7, <2>1, <2>3 DEF Abstract!Next
<1>8. CASE emergency' = emergency /\ Tick
  <2>1. silent' \in BOOLEAN /\ (silent => silent')
    BY <1>2, <1>8 DEF Tick, Capped, silent
  <2>2. mode' = mode /\ stopped' = stopped /\ inControlLoss' = inControlLoss
    BY <1>8 DEF Tick
  <2>3. Abstract!FallSilent \/ UNCHANGED Abstract!safeStopVars
    BY <1>8, <2>1, <2>2 DEF Abstract!FallSilent, Abstract!safeStopVars, silent
  <2> QED
    BY <1>1, <1>8, <2>2, <2>3 DEF Abstract!Next
<1>9. CASE emergency' = emergency /\ UNCHANGED monitorVars
  <2>1. UNCHANGED Abstract!safeStopVars
    BY <1>9 DEF monitorVars, Abstract!safeStopVars, silent
  <2> QED
    BY <1>1, <1>9, <2>1 DEF monitorVars
<1>10. CASE UNCHANGED <<vars, emergency>>
  BY <1>9, <1>10 DEF vars
<1>11. CASE HistoryNext
  <2>1. ~Reported /\ ~Restarted => emergency' = emergency
    BY <1>11, Zenon DEF HistoryNext
  <2> QED
    BY <1>3, <1>4, <1>5, <1>6, <1>7, <1>8, <1>9, <1>11, <2>1, StepKinds, Zenon DEF HistoryNext
<1> QED
  BY <1>10, <1>11

(* Whatever its goroutines do to each other, the agent's monitor implements *)
(* the safe stop: an e-stop, a bye, a revocation or the shutdown latches    *)
(* the stop whatever it finds, only an activation lets the robot leave it,  *)
(* and a suspension ends only by a valid command, one of these or it.       *)
THEOREM AgentImplementsSafeStop == HistorySpec => Abstract!SafetySpec
<1>1. ASSUME Init, emergency = FALSE PROVE HistoryInv /\ Abstract!Init
  <2>1. MonitorTypeOK
    BY <1>1, MonitorInitType DEF Init
  <2>2. ~stopped /\ inControlLoss = FALSE /\ silent = FALSE
    BY <1>1, MonitorAssumption DEF Init, MonitorInit, MonitorAssumption, silent
  <2> QED
    BY <1>1, <2>1, <2>2 DEF HistoryInv, Abstract!Init
<1> QED
  BY <1>1, MonitorRefines, PTL DEF HistorySpec, Abstract!SafetySpec
=============================================================================
