------------------------------ MODULE Signaling ------------------------------
(***************************************************************************)
(* The gateway's signaling endpoint (routes/signaling.ts): the rooms and   *)
(* the state each WebSocket's handlers close over.  A handler never awaits, *)
(* so each is one step.  Roles, SDP and ICE are relayed without a change   *)
(* of state and are left out.  A room that is empty is deleted at once:    *)
(* the model does not tell it from one that is missing.                    *)
(***************************************************************************)
EXTENDS TokenRegistry

CONSTANTS
    Sockets,            (* the connections the endpoint may accept           *)
    JoinChecksRegistry  (* the endpoint was given the registry: its tests do *)
                        (* that, index.ts does not                           *)

ASSUME SignalingAssumption == JoinChecksRegistry \in BOOLEAN

VARIABLES
    socket,   (* "none", "open", "closing" or "closed" (readyState)         *)
    peer,     (* state.sessionId of the socket's handlers                   *)
    rooms     (* the sockets in the room of each session                    *)

signalingVars == <<socket, peer, rooms>>

SignalingInit ==
    /\ socket = [w \in Sockets |-> "none"]
    /\ peer = [w \in Sockets |-> NoSession]
    /\ rooms = [s \in Sessions |-> {}]

Connect(w) ==
    /\ socket[w] = "none"
    /\ socket' = [socket EXCEPT ![w] = "open"]
    /\ UNCHANGED <<peer, rooms>>

(* Messages still arrive while the closing handshake runs. *)
Receiving(w) == socket[w] \in {"open", "closing"}

(* validateJoinToken: the token's claims are decoded, its signature is not  *)
(* looked at.  Its sid must be the session asked for, its jti must be valid *)
(* in the registry, if there is one; nothing compares the session the jti   *)
(* was issued for.                                                          *)
MayJoin(t) == JoinChecksRegistry => IsValid(t)

(* Faulty variant: the room joined before is not left. *)
handleJoinStaysBehind(w, s, t) ==
    /\ Receiving(w)
    /\ MayJoin(t)
    /\ peer' = [peer EXCEPT ![w] = s]
    /\ rooms' = [rooms EXCEPT ![s] = @ \cup {w}]
    /\ UNCHANGED socket

(* A join for s with a token that claims s and the jti t: if accepted, it   *)
(* leaves the room joined before and enters the one of s.                   *)
handleJoin(w, s, t) ==
    /\ Receiving(w)
    /\ MayJoin(t)
    /\ peer' = [peer EXCEPT ![w] = s]
    /\ rooms' = [x \in Sessions |->
                    IF x = s THEN rooms[x] \cup {w}
                    ELSE IF x = peer[w] THEN rooms[x] \ {w} ELSE rooms[x]]
    /\ UNCHANGED socket

handleLeave(w) ==
    /\ Receiving(w)
    /\ peer[w] # NoSession
    /\ rooms' = [rooms EXCEPT ![peer[w]] = @ \ {w}]
    /\ peer' = [peer EXCEPT ![w] = NoSession]
    /\ UNCHANGED socket

(* The close event: the state is left as it is, no handler runs after it. *)
handleDisconnect(w) ==
    /\ Receiving(w)
    /\ socket' = [socket EXCEPT ![w] = "closed"]
    /\ rooms' = [s \in Sessions |-> IF s = peer[w] THEN rooms[s] \ {w} ELSE rooms[s]]
    /\ UNCHANGED peer

(* The sockets in the rooms of S are told and begin to close, and the rooms *)
(* are deleted.  Their handlers' states keep the session.                   *)
notifyRevocation(S) ==
    /\ socket' = [w \in Sockets |->
                    IF socket[w] = "open" /\ \E s \in S : w \in rooms[s]
                    THEN "closing" ELSE socket[w]]
    /\ rooms' = [s \in Sessions |-> IF s \in S THEN {} ELSE rooms[s]]
    /\ UNCHANGED peer

SignalingTypeOK ==
    /\ socket \in [Sockets -> {"none", "open", "closing", "closed"}]
    /\ peer \in [Sockets -> Sessions \cup {NoSession}]
    /\ rooms \in [Sessions -> SUBSET Sockets]
=============================================================================
