------------------------------ MODULE RobotAgent ------------------------------
(***************************************************************************)
(* The robot agent: the safety monitor, the session manager, the WebRTC    *)
(* transport and the control handler, driven by the goroutines that        *)
(* robot-agent/cmd/agent runs side by side:                                *)
(*   - the signaling read loop, which runs OnOffer, OnBye and OnRevoked;   *)
(*   - one goroutine per connection state change of a peer connection: the *)
(*     WebRTC library starts them without waiting, so they may overtake    *)
(*     each other;                                                         *)
(*   - one read loop per data channel, which runs onDataMessage;           *)
(*   - the 100 ms ticker of runSafetyMonitor;                              *)
(*   - main, which runs shutdown and then ends the process.                *)
(* A call that takes a mutex is one step, a handler is as many steps as it *)
(* makes such calls, and between two of them any other goroutine may run.  *)
(***************************************************************************)
EXTENDS SafetyMonitor, SessionManager, FiniteSets

CONSTANTS
    Peers,     (* the peer connections the process may create: bounds offers *)
    NoPeer     (* transport.pc = nil                                         *)

ASSUME AgentAssumption == NoPeer \notin Peers

VARIABLES
    pc,          (* transport.pc: the peer connection Close would close      *)
    conn,        (* connection state of every peer connection                *)
    offered,     (* the session info captured by the state callback in force *)
    events,      (* <<peer, change>>: state-change goroutines not yet run    *)
    activating,  (* the peers whose callback is between Activate and Reset   *)
    sig,         (* the signaling read loop: where it is and for whom        *)
    handler,     (* the data channel read loops                              *)
    ticking,     (* the ticker saw an active session and will check          *)
    main,        (* "running", "stopping" or "exited"                        *)
    motion       (* the robot is executing a command                         *)

transportVars == <<pc, conn, offered, events>>
vars == <<monitorVars, sessionVars, transportVars, activating, sig, handler,
          ticking, main, motion>>

(* "down" is failed or closed: the callbacks do not tell them apart. *)
ConnState == {"none", "new", "connecting", "connected", "down"}

(* Where a read loop is: waiting, with a message whose session has not been *)
(* looked at, or past that check.                                           *)
HandlerStep == {"idle", "message", "reject", "drive", "ack", "estop", "halt"}

SigStep == {"idle", "create", "answer", "terminate", "stop"}

Idle == [at |-> "idle", session |-> NoSession]

Init ==
    /\ MonitorInit
    /\ ManagerInit
    /\ pc = NoPeer
    /\ conn = [p \in Peers |-> "none"]
    /\ offered = NoSession
    /\ events = {}
    /\ activating = {}
    /\ sig = Idle
    /\ handler = [p \in Peers |-> "idle"]
    /\ ticking = FALSE
    /\ main = "running"
    /\ motion = FALSE

Alive == main # "exited"

(* What a step of one goroutine leaves alone. *)
SignalFrame == UNCHANGED <<activating, handler, ticking, main>>
CallbackFrame == UNCHANGED <<sig, handler, ticking, main, motion>>
HandlerFrame == UNCHANGED <<sessionVars, transportVars, activating, sig, ticking,
                            main>>
TickerFrame == UNCHANGED <<sessionVars, transportVars, activating, sig, handler,
                           main>>
NetworkFrame == UNCHANGED <<monitorVars, sessionVars, pc, offered, activating, sig,
                            handler, ticking, main, motion>>

-----------------------------------------------------------------------------
(* The safe-stop callback and the transport                                *)

(* Faulty variant: the callback only notifies, the hardware is not stopped. *)
onSafeStopOnlyNotifies == UNCHANGED motion

(* onSafeStop, called by triggerSafeStop with the monitor's mutex held, asks *)
(* the hardware to stop; the error it reports is the hardware's.             *)
onSafeStop ==
    motion' = (motion /\ (stopped \/ ~stopped' \/ haltFailed'))

(* transport.Close closes the current peer connection and forgets it. *)
CloseTransport ==
    /\ pc' = NoPeer
    /\ IF pc = NoPeer
         THEN UNCHANGED <<conn, events>>
         ELSE /\ conn' = [conn EXCEPT ![pc] = "down"]
              /\ events' = events \cup {<<pc, "down">>}
    /\ UNCHANGED offered

-----------------------------------------------------------------------------
(* The signaling read loop                                                 *)

Signal(steps) == Alive /\ sig.at \in steps

(* OnOffer, 1: the token is validated. A refused offer changes nothing. *)
OfferValidate(s) ==
    /\ Signal({"idle"})
    /\ MayValidate
    /\ sig' = [at |-> "create", session |-> s]
    /\ UNCHANGED <<monitorVars, sessionVars, transportVars, motion>>
    /\ SignalFrame

(* OnOffer, 2: CreatePeerConnection replaces transport.pc, without closing a *)
(* peer connection that was there, and SetStateCallback the one callback that *)
(* all of them share.  They are one step: the new peer connection cannot      *)
(* connect before it is answered.                                             *)
OfferCreate(p) ==
    /\ Signal({"create"})
    /\ conn[p] = "none"
    /\ conn' = [conn EXCEPT ![p] = "new"]
    /\ pc' = p
    /\ offered' = sig.session
    /\ sig' = [Idle EXCEPT !.at = "answer"]
    /\ UNCHANGED <<monitorVars, sessionVars, events, motion>>
    /\ SignalFrame

(* OnOffer, 3: HandleOffer starts connecting, unless the transport was closed *)
(* meanwhile; either way the handler is done.                                 *)
OfferAnswer ==
    /\ Signal({"answer"})
    /\ conn' = IF pc = NoPeer THEN conn ELSE [conn EXCEPT ![pc] = "connecting"]
    /\ sig' = Idle
    /\ UNCHANGED <<monitorVars, sessionVars, pc, offered, events, motion>>
    /\ SignalFrame

(* OnOffer gives up after an error of CreatePeerConnection or HandleOffer. *)
OfferFail ==
    /\ Signal({"create", "answer"})
    /\ sig' = Idle
    /\ UNCHANGED <<monitorVars, sessionVars, transportVars, motion>>
    /\ SignalFrame

(* OnBye stops the robot and leaves the session and the transport alone. *)
OnBye ==
    /\ Signal({"idle"})
    /\ OnRevoked /\ onSafeStop
    /\ UNCHANGED <<sessionVars, transportVars, sig>>
    /\ SignalFrame

(* OnRevoked, whatever session it names: close the transport, ...           *)
RevokedClose ==
    /\ Signal({"idle"})
    /\ CloseTransport
    /\ sig' = [sig EXCEPT !.at = "terminate"]
    /\ UNCHANGED <<monitorVars, sessionVars, motion>>
    /\ SignalFrame

(* ... terminate the session, ...                                           *)
RevokedTerminate ==
    /\ Signal({"terminate"})
    /\ Terminate
    /\ sig' = [sig EXCEPT !.at = "stop"]
    /\ UNCHANGED <<monitorVars, transportVars, motion>>
    /\ SignalFrame

(* ... and stop the robot.                                                  *)
RevokedStop ==
    /\ Signal({"stop"})
    /\ OnRevoked /\ onSafeStop
    /\ sig' = Idle
    /\ UNCHANGED <<sessionVars, transportVars>>
    /\ SignalFrame

Signaling ==
    \/ \E s \in Sessions : OfferValidate(s)
    \/ \E p \in Peers : OfferCreate(p)
    \/ OfferAnswer \/ OfferFail
    \/ OnBye
    \/ RevokedClose \/ RevokedTerminate \/ RevokedStop

-----------------------------------------------------------------------------
(* Peer connections and their state callbacks                              *)

(* The network: a peer connects, perhaps anew after a disconnection (whose  *)
(* callback does nothing), or fails.                                        *)
PeerConnect(p) ==
    /\ Alive
    /\ conn[p] \in {"connecting", "connected"}
    /\ conn' = [conn EXCEPT ![p] = "connected"]
    /\ events' = events \cup {<<p, "connected">>}
    /\ NetworkFrame

PeerFail(p) ==
    /\ Alive
    /\ conn[p] \in {"connecting", "connected"}
    /\ conn' = [conn EXCEPT ![p] = "down"]
    /\ events' = events \cup {<<p, "down">>}
    /\ NetworkFrame

(* The callback for "connected" activates the session of the latest offer.  *)
(* That the callback in force is read, under the transport's mutex, before  *)
(* it is run is not told apart.                                             *)
ConnectedActivate(p) ==
    /\ Alive
    /\ <<p, "connected">> \in events
    /\ events' = events \ {<<p, "connected">>}
    /\ Activate(offered)
    /\ activating' = activating \cup {p}
    /\ UNCHANGED <<monitorVars, pc, conn, offered>>
    /\ CallbackFrame

(* When Activate refuses, it returns. *)
ConnectedRefused(p) ==
    /\ Alive
    /\ <<p, "connected">> \in events
    /\ ~Activatable
    /\ events' = events \ {<<p, "connected">>}
    /\ UNCHANGED <<monitorVars, sessionVars, pc, conn, offered, activating>>
    /\ CallbackFrame

(* After Activate it resets the monitor. *)
ConnectedReset(p) ==
    /\ Alive
    /\ p \in activating
    /\ Reset
    /\ activating' = activating \ {p}
    /\ UNCHANGED <<sessionVars, transportVars>>
    /\ CallbackFrame

(* The callback for "failed" and "closed" terminates the session. *)
DownTerminate(p) ==
    /\ Alive
    /\ <<p, "down">> \in events
    /\ events' = events \ {<<p, "down">>}
    /\ Terminate
    /\ UNCHANGED <<monitorVars, pc, conn, offered, activating>>
    /\ CallbackFrame

Callback(p) ==
    \/ ConnectedActivate(p) \/ ConnectedRefused(p) \/ ConnectedReset(p)
    \/ DownTerminate(p)

-----------------------------------------------------------------------------
(* The data channel read loops: HandleMessage                              *)

At(p, step) == Alive /\ handler[p] = step
Goto(p, step) == handler' = [handler EXCEPT ![p] = step]

(* A message is read from an open channel. *)
Receive(p) ==
    /\ At(p, "idle")
    /\ conn[p] = "connected"
    /\ Goto(p, "message")
    /\ UNCHANGED <<monitorVars, motion>>
    /\ HandlerFrame

(* A message that is not JSON counts as invalid before the session is read. *)
Garbled(p) ==
    /\ At(p, "message")
    /\ OnInvalidCommand /\ onSafeStop
    /\ Goto(p, "idle")
    /\ HandlerFrame

(* A pong, a session that is not active or a command out of scope: nothing  *)
(* is notified.                                                             *)
Drop(p) ==
    /\ At(p, "message")
    /\ Goto(p, "idle")
    /\ UNCHANGED <<monitorVars, motion>>
    /\ HandlerFrame

(* The session is found active: an e-stop or a ping goes on, and a message   *)
(* of an unknown type, with an undecodable body, stale or out of range will  *)
(* be counted as invalid.                                                    *)
Admit(p) ==
    /\ At(p, "message")
    /\ IsActive
    /\ \E step \in {"reject", "estop", "ack"} : Goto(p, step)
    /\ UNCHANGED <<monitorVars, motion>>
    /\ HandlerFrame

(* HandleDrive, HandleKVMKey, HandleKVMMouse: a command goes on to the robot *)
(* if it is in scope.  IsActive and HasScope are one step: a session that    *)
(* ends between them has no scope, and then the command is dropped too.      *)
AdmitControl(p) ==
    /\ At(p, "message")
    /\ IsActive
    /\ HasControlScope
    /\ Goto(p, "drive")
    /\ UNCHANGED <<monitorVars, motion>>
    /\ HandlerFrame

(* The command is invalid. *)
Reject(p) ==
    /\ At(p, "reject")
    /\ OnInvalidCommand /\ onSafeStop
    /\ Goto(p, "idle")
    /\ HandlerFrame

(* The robot executes the command, which may set it in motion or halt it. *)
Drive(p) ==
    /\ At(p, "drive")
    /\ motion' \in BOOLEAN
    /\ Goto(p, "ack")
    /\ UNCHANGED monitorVars
    /\ HandlerFrame

(* The robot returns an error. *)
DriveFail(p) ==
    /\ At(p, "drive")
    /\ Goto(p, "idle")
    /\ UNCHANGED <<monitorVars, motion>>
    /\ HandlerFrame

Acknowledge(p) ==
    /\ At(p, "ack")
    /\ OnValidControl
    /\ Goto(p, "idle")
    /\ UNCHANGED motion
    /\ HandlerFrame

(* HandleEStop: the monitor first, then the hardware once more. *)
EStopLatch(p) ==
    /\ At(p, "estop")
    /\ OnEStop /\ onSafeStop
    /\ Goto(p, "halt")
    /\ HandlerFrame

EStopHalt(p) ==
    /\ At(p, "halt")
    /\ motion' \in {FALSE, motion}
    /\ Goto(p, "idle")
    /\ UNCHANGED monitorVars
    /\ HandlerFrame

(* HandleMessage, once it has been called. *)
Handle(p) ==
    \/ Garbled(p) \/ Drop(p) \/ Admit(p) \/ AdmitControl(p)
    \/ Reject(p) \/ Drive(p) \/ DriveFail(p) \/ Acknowledge(p)
    \/ EStopLatch(p) \/ EStopHalt(p)

-----------------------------------------------------------------------------
(* The safety ticker, main and time                                        *)

TickerRead ==
    /\ Alive /\ ~ticking
    /\ IsActive
    /\ ticking' = TRUE
    /\ UNCHANGED <<monitorVars, motion>>
    /\ TickerFrame

(* Faulty variant: the check is skipped while invalid commands come in. *)
TickerStopsIfQuiet ==
    /\ Alive /\ ticking
    /\ invalidCmdCount = 0
    /\ CheckControlLoss /\ onSafeStop
    /\ ticking' = FALSE
    /\ TickerFrame

TickerStop ==
    /\ Alive /\ ticking
    /\ CheckControlLoss /\ onSafeStop
    /\ ticking' = FALSE
    /\ TickerFrame

(* CheckControlLoss returns without a change. *)
TickerFindsNothing ==
    /\ Alive /\ ticking
    /\ stopped \/ ~silent
    /\ ticking' = FALSE
    /\ UNCHANGED <<monitorVars, motion>>
    /\ TickerFrame

Ticker == TickerRead \/ TickerStop \/ TickerFindsNothing

(* shutdown stops the robot, then closes the transport; the process ends. *)
ShutdownStop ==
    /\ main = "running"
    /\ OnRevoked /\ onSafeStop
    /\ main' = "stopping"
    /\ UNCHANGED <<sessionVars, transportVars, activating, sig, handler, ticking>>

ShutdownClose ==
    /\ main = "stopping"
    /\ CloseTransport
    /\ main' = "exited"
    /\ UNCHANGED <<monitorVars, sessionVars, activating, sig, handler, ticking, motion>>

Pass ==
    /\ Alive
    /\ Tick
    /\ UNCHANGED <<sessionVars, transportVars, activating, sig, handler, ticking, main,
                   motion>>

Next ==
    \/ Signaling
    \/ \E p \in Peers : PeerConnect(p) \/ PeerFail(p)
    \/ \E p \in Peers : Callback(p)
    \/ \E p \in Peers : Receive(p) \/ Handle(p)
    \/ Ticker
    \/ ShutdownStop \/ ShutdownClose
    \/ Pass

Spec == Init /\ [][Next]_vars

(* Goroutines that have started a call finish it, and the ticker ticks.    *)
(* Nothing obliges the operator, the network or the gateway to act.        *)
Fairness ==
    /\ WF_vars(Ticker)
    /\ WF_vars(OfferAnswer \/ RevokedTerminate \/ RevokedStop)
    /\ \A p \in Peers : WF_vars(Callback(p)) /\ WF_vars(Handle(p))

FairSpec == Spec /\ Fairness

-----------------------------------------------------------------------------
(* Properties                                                              *)

(* Every variable of the agent has its type. *)
TypeOK ==
    /\ MonitorTypeOK
    /\ ManagerTypeOK
    /\ pc \in Peers \cup {NoPeer}
    /\ conn \in [Peers -> ConnState]
    /\ offered \in Sessions \cup {NoSession}
    /\ events \subseteq Peers \X {"connected", "down"}
    /\ activating \subseteq Peers
    /\ sig \in [at : SigStep, session : Sessions \cup {NoSession}]
    /\ handler \in [Peers -> HandlerStep]
    /\ ticking \in BOOLEAN
    /\ main \in {"running", "stopping", "exited"}
    /\ motion \in BOOLEAN

(* A session that ended stays ended, and its process never serves another:  *)
(* callbacks that were already on their way when it ended, and offers that  *)
(* come later, cannot revive it.                                            *)
EndIsFinal == [][state = "terminated" => state' = "terminated"]_vars

(* An active session is served by a peer that is connected, or whose end is *)
(* about to be handled: a peer that goes down before its activation runs    *)
(* cannot leave an active session behind, in whichever order the two        *)
(* callbacks run.                                                           *)
NoOrphanSession ==
    IsActive =>
        /\ info # NoSession
        /\ \E p \in Peers : conn[p] = "connected" \/ <<p, "down">> \in events

(* What makes NoOrphanSession inductive: a peer that is answered is new, a  *)
(* peer connection exists only under an offer, "connected" is handled after *)
(* the connection was up, and a peer that is down has its end handled or    *)
(* still to be handled.                                                     *)
AnsweredPeerIsNew ==
    /\ pc # NoPeer => conn[pc] # "none"
    /\ (sig.at = "answer" /\ pc # NoPeer) => conn[pc] = "new"

PeersAreOffered ==
    /\ sig.at = "create" => sig.session \in Sessions
    /\ \A p \in Peers : conn[p] # "none" => offered \in Sessions

EventsMatchPeers ==
    \A p \in Peers :
        /\ <<p, "connected">> \in events => conn[p] \in {"connected", "down"}
        /\ conn[p] = "down" => <<p, "down">> \in events \/ state = "terminated"

ActiveIsServed ==
    IsActive => /\ info \in Sessions
                /\ \E p \in Peers : conn[p] \in {"connected", "down"}

IInv == TypeOK /\ AnsweredPeerIsNew /\ PeersAreOffered /\ EventsMatchPeers
          /\ ActiveIsServed

(* After the session has ended and no activation is half done, a stop that  *)
(* cannot recover is never taken back: late pings and commands, the ticker  *)
(* and late state changes leave it.  (An activation that is half done does  *)
(* take it back: RevokedRobotStaysStopped.)                                 *)
EndedStopIsPermanent ==
    [][(state = "terminated" /\ activating = {} /\ stopped /\ ~inControlLoss)
         => stopped']_vars

(* A robot suspended for control loss moves only under a command that is    *)
(* about to be acknowledged, which ends the suspension; or its hardware     *)
(* failed to stop.                                                          *)
SuspendedMotionResumes ==
    (inControlLoss /\ motion) =>
        haltFailed \/ \E p \in Peers : handler[p] = "ack"

(* While the session is active, silence past the timeout stops the robot. *)
SilenceStops ==
    (IsActive /\ silent /\ Alive) ~> (stopped \/ ~silent \/ ~IsActive \/ ~Alive)

(* A revocation that has begun ends the session and stops the robot, in     *)
(* whichever phase of an offer or an activation it arrives; whether the     *)
(* stop lasts is RevokedRobotStaysStopped.                                  *)
RevocationTakesHold ==
    (sig.at = "terminate") ~> ((state = "terminated" /\ stopped) \/ ~Alive)

-----------------------------------------------------------------------------
(* What the documents say and the code does not do                         *)

(* docs/architecture/RELIABILITY.md: the robot safe-stops when control      *)
(* authorization ends, whatever ended it.                                   *)
EndedSessionStops == (state = "terminated") ~> (stopped \/ main # "running")

(* The session is over, its transport closed, and the read loop has done    *)
(* all that a revocation asks of it: only OnRevoked and the shutdown close  *)
(* the transport.                                                           *)
RevocationHandled == state = "terminated" /\ pc = NoPeer /\ sig.at = "idle"

(* internal/safety/types.go: only control loss recovers without a new       *)
(* session; docs/architecture/REVOCATION.md: once a session is revoked its  *)
(* control messages are rejected, even those in flight.  So a robot that    *)
(* stands still when a revocation has been handled stays stopped and stands *)
(* still, even if the revocation met a half-done activation or a command    *)
(* that had passed the check of the session.                                *)
RevokedRobotStaysStopped ==
    [][RevocationHandled /\ stopped /\ ~motion => stopped' /\ ~motion']_vars
=============================================================================
