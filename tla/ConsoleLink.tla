----------------------------- MODULE ConsoleLink -----------------------------
(***************************************************************************)
(* The console's two connections and what a revocation does to them:       *)
(* useSignaling and useWebRTC, with App.tsx between them as it says they   *)
(* are to be wired (onRevoked sets isRevoked).  The effect of useWebRTC    *)
(* does not depend on isRevoked: the handlers of its peer connection keep  *)
(* the value they were created with.  A peer connection that was closed    *)
(* fires no event, so only the last one has a state.  Offers, candidates,  *)
(* data channels and tracks are left out.                                  *)
(***************************************************************************)
EXTENDS ConsoleSignaling, Reconnect

VARIABLES
    revocation,      (* App's isRevoked: "yes"; "dismissed" once cleared     *)
    pc,              (* connectionState of the peer connection               *)
    pcRevoked,       (* isRevoked as the handlers of pc captured it          *)
    connectionState  (* what the hook returns                                *)

peerVars == <<pc, pcRevoked, connectionState>>
linkVars == <<signalVars, reconnectVars, revocation, peerVars>>

LinkInit ==
    /\ SignalInit
    /\ ReconnectInit
    /\ revocation = "never"
    /\ pc = "closed"
    /\ pcRevoked = FALSE
    /\ connectionState = "new"

isRevoked == revocation = "yes"

-----------------------------------------------------------------------------
(* Signaling and the application                                           *)

SignalingSteps ==
    /\ \/ Connect \/ Disable \/ disconnect
       \/ \E c \in WebSockets : onopen(c) \/ onclose(c)
    /\ UNCHANGED <<reconnectVars, revocation, peerVars>>

(* handleRevoked, and the effect of useWebRTC on isRevoked. *)
Revoke ==
    /\ \E c \in WebSockets : handleMessage(c)
    /\ revocation' = "yes"
    /\ IF isRevoked THEN UNCHANGED reconnectVars ELSE cleanup
    /\ UNCHANGED peerVars

(* handleDismiss: the button or the Escape key of the notification. *)
Dismiss ==
    /\ isRevoked
    /\ revocation' = "dismissed"
    /\ UNCHANGED <<signalVars, reconnectVars, peerVars>>

-----------------------------------------------------------------------------
(* The peer connection                                                     *)

(* The effect of useWebRTC runs with enabled set, after its cleanup. *)
Create ==
    /\ pc' = "new"
    /\ pcRevoked' = isRevoked
    /\ cleanup
    /\ UNCHANGED <<signalVars, revocation, connectionState>>

(* Its cleanup alone, or disconnect(): no event follows, the state the hook *)
(* returns stays what it was.                                               *)
Close ==
    /\ pc # "closed"
    /\ pc' = "closed"
    /\ cleanup
    /\ UNCHANGED <<signalVars, revocation, pcRevoked, connectionState>>

(* The transitions the browser may make. *)
Transitions ==
    {<<"new", "connecting">>, <<"connecting", "connected">>, <<"connecting", "failed">>,
     <<"connecting", "disconnected">>, <<"connected", "disconnected">>,
     <<"disconnected", "connecting">>, <<"disconnected", "connected">>,
     <<"disconnected", "failed">>, <<"failed", "connecting">>}

onconnectionstatechange(s) ==
    /\ <<pc, s>> \in Transitions
    /\ pc' = s
    /\ connectionState' = s
    /\ CASE s = "connected" -> handleConnected
         [] s = "disconnected" /\ ~pcRevoked -> handleDisconnected
         [] OTHER -> UNCHANGED reconnectVars
    /\ UNCHANGED <<signalVars, revocation, pcRevoked>>

TimerFires(t) ==
    /\ Timeout(t, pc = "disconnected")
    /\ UNCHANGED <<signalVars, revocation, peerVars>>

States == {"new", "connecting", "connected", "disconnected", "failed", "closed"}

LinkNext ==
    \/ SignalingSteps
    \/ Revoke
    \/ Dismiss
    \/ Create
    \/ Close
    \/ \E s \in States : onconnectionstatechange(s)
    \/ \E t \in Timers : TimerFires(t)

(* A socket that is closing gets its close event, a timeout fires. *)
LinkFairness ==
    /\ \A c \in WebSockets : WF_linkVars(ws[c] = "closing" /\ onclose(c) /\
                                         UNCHANGED <<reconnectVars, revocation, peerVars>>)
    /\ \A t \in Timers : WF_linkVars(TimerFires(t))

LinkSpec == LinkInit /\ [][LinkNext]_linkVars /\ LinkFairness

LinkTypeOK ==
    /\ SignalTypeOK
    /\ ReconnectTypeOK
    /\ revocation \in {"never", "yes", "dismissed"}
    /\ {pc, connectionState} \subseteq States
    /\ pcRevoked \in BOOLEAN

-----------------------------------------------------------------------------
(* Properties                                                              *)

Lost == pc = "disconnected" /\ wasConnected /\ ~pcRevoked /\ revocation = "never"

(* A link that was lost and stays so is given up in the end: the attempts   *)
(* follow each other until the application is told.                         *)
LostLinkIsGivenUp == Lost ~> (gaveUp \/ ~Lost)

=============================================================================
