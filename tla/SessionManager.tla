---------------------------- MODULE SessionManager ----------------------------
(***************************************************************************)
(* The robot agent's session manager (robot-agent/internal/session).       *)
(* Manager holds the lifecycle of the one session the process serves; its  *)
(* methods run under its mutex, so each is one action.  The token cache    *)
(* and the token's contents are abstracted to "the token is accepted".     *)
(* Reset, which would make a terminated manager pending again, is never    *)
(* called by the agent, so no action stands for it.                        *)
(***************************************************************************)
CONSTANTS
    Sessions,         (* the session ids offers arrive for                  *)
    NoSession,        (* info = nil                                         *)
    ControlSessions   (* the sessions whose token grants teleop:control     *)

ASSUME SessionAssumption ==
    /\ NoSession \notin Sessions
    /\ ControlSessions \subseteq Sessions

VARIABLES
    state,   (* "pending", "active" or "terminated"                         *)
    info     (* the session in force, or NoSession                          *)

sessionVars == <<state, info>>

ManagerInit == state = "pending" /\ info = NoSession

(* ValidateToken refuses every token once the session has ended; otherwise *)
(* the token itself decides.                                               *)
MayValidate == state # "terminated"

(* Faulty variant: a terminated manager can be activated. *)
ActivatableOnceEnded == state # "active"

Activatable == state = "pending"

(* Activate returns an error in any other state and changes nothing. *)
Activate(s) ==
    /\ Activatable
    /\ state' = "active"
    /\ info' = s

(* Faulty variant: only an active session is terminated. *)
TerminateActive ==
    /\ state' = IF state = "active" THEN "terminated" ELSE state
    /\ info' = NoSession

(* Terminate ends a session in any state, a pending one as well. *)
Terminate == state' = "terminated" /\ info' = NoSession

IsActive == state = "active"

HasControlScope == info \in ControlSessions

ManagerTypeOK ==
    /\ state \in {"pending", "active", "terminated"}
    /\ info \in Sessions \cup {NoSession}
=============================================================================
