-------------------------- MODULE ConsoleSignaling --------------------------
(***************************************************************************)
(* The console's signaling hook (useSignaling.ts).  Its effect opens a     *)
(* WebSocket whenever url, enabled or the message handler changes, and its *)
(* cleanup closes the socket of the run before; the handlers of a socket   *)
(* that is closing stay attached, so its close event still comes, later.   *)
(* A render and the effects it runs are one step.                          *)
(***************************************************************************)
CONSTANTS
    WebSockets,   (* bounds the sockets whose close event is still due; one  *)
                  (* that has closed stands for any number of new ones       *)
    NoSocket

ASSUME SocketAssumption == NoSocket \notin WebSockets

VARIABLES
    ws,           (* readyState of each socket, CLOSED where there is none   *)
    wsRef,        (* wsRef.current                                           *)
    effectWs,     (* the socket the next cleanup closes                      *)
    status,
    reason        (* whether revocationReason is set                         *)

signalVars == <<ws, wsRef, effectWs, status, reason>>

SignalInit ==
    /\ ws = [c \in WebSockets |-> "closed"]
    /\ wsRef = NoSocket
    /\ effectWs = NoSocket
    /\ status = "disconnected"
    /\ reason = FALSE

Live(c) == ws[c] \in {"connecting", "open"}

(* What ws.close() makes of the sockets in C. *)
Closing(C) == [c \in WebSockets |-> IF c \in C /\ Live(c) THEN "closing" ELSE ws[c]]

(* Faulty variant: the socket of the run before is not closed. *)
ConnectBeside ==
    \E c \in WebSockets :
        /\ ws[c] = "closed"
        /\ ws' = [ws EXCEPT ![c] = "connecting"]
        /\ wsRef' = c /\ effectWs' = c
        /\ status' = "connecting"
        /\ reason' = FALSE

(* The effect runs with enabled set, after its cleanup. *)
Connect ==
    \E c \in WebSockets :
        /\ ws[c] = "closed"
        /\ ws' = [Closing({effectWs}) EXCEPT ![c] = "connecting"]
        /\ wsRef' = c /\ effectWs' = c
        /\ status' = "connecting"
        /\ reason' = FALSE

(* ... or with enabled cleared, or the component goes: only the cleanup. *)
Disable ==
    /\ effectWs # NoSocket
    /\ ws' = Closing({effectWs})
    /\ wsRef' = NoSocket /\ effectWs' = NoSocket
    /\ UNCHANGED <<status, reason>>

onopen(c) ==
    /\ ws[c] = "connecting"
    /\ ws' = [ws EXCEPT ![c] = "open"]
    /\ status' = "connected"
    /\ UNCHANGED <<wsRef, effectWs, reason>>

(* A "revoked" message; every other kind only calls its callback. *)
handleMessage(c) ==
    /\ ws[c] = "open"
    /\ reason' = TRUE
    /\ UNCHANGED <<ws, wsRef, effectWs, status>>

(* Faulty variant: the close event of a socket left behind is ignored. *)
oncloseOfCurrent(c) ==
    /\ ws[c] # "closed"
    /\ ws' = [ws EXCEPT ![c] = "closed"]
    /\ status' = IF c = wsRef THEN "disconnected" ELSE status
    /\ UNCHANGED <<wsRef, effectWs, reason>>

(* Whoever closed it, and of whichever socket it is.  After a failure an    *)
(* error event comes first in the same task: its "error" is overwritten.    *)
onclose(c) ==
    /\ ws[c] # "closed"
    /\ ws' = [ws EXCEPT ![c] = "closed"]
    /\ status' = "disconnected"
    /\ UNCHANGED <<wsRef, effectWs, reason>>

disconnect ==
    /\ ws' = Closing({wsRef})
    /\ wsRef' = NoSocket
    /\ status' = "disconnected"
    /\ UNCHANGED <<effectWs, reason>>

SignalTypeOK ==
    /\ ws \in [WebSockets -> {"connecting", "open", "closing", "closed"}]
    /\ wsRef \in {NoSocket, effectWs}
    /\ effectWs \in WebSockets \cup {NoSocket}
    /\ status \in {"disconnected", "connecting", "connected"}
    /\ reason \in BOOLEAN

-----------------------------------------------------------------------------
(* Properties                                                              *)

(* However often the effect runs again, at most one socket is connecting or *)
(* open, it is the one the next cleanup closes, and messages go to no other. *)
OneLiveSocket ==
    /\ \A c \in WebSockets : Live(c) => c = effectWs
    /\ wsRef # NoSocket => wsRef = effectWs

(* A hook that is disabled does not report a connection for ever: nothing   *)
(* but the close event of the socket it left resets the status.             *)
DisabledSettles == effectWs = NoSocket ~> (status = "disconnected" \/ effectWs # NoSocket)
=============================================================================
