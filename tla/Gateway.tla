------------------------------- MODULE Gateway -------------------------------
(***************************************************************************)
(* The gateway: the session and revocation routes over the token registry  *)
(* and the signaling endpoint.  Node runs one handler at a time and        *)
(* switches only at an await; the handlers of POST /v1/sessions and of     *)
(* .../refresh await the token generator, so each is two steps, and any    *)
(* other handler may run between them.                                     *)
(***************************************************************************)
EXTENDS Signaling

CONSTANTS
    Operators, NoOperator,
    owner,              (* the operator each session is requested by         *)
    Requests            (* the requests that may await the generator at once *)

ASSUME GatewayAssumption ==
    /\ NoOperator \notin Operators
    /\ owner \in [Sessions -> Operators]

VARIABLES
    session,   (* the state of each session, "none" while it is not stored;  *)
               (* nothing ever makes a session "active"                      *)
    request    (* what each request in flight awaits the generator for       *)

vars == <<registryVars, signalingVars, session, request>>

Idle == [kind |-> "idle", session |-> NoSession]

Init ==
    /\ RegistryInit
    /\ SignalingInit
    /\ session = [s \in Sessions |-> "none"]
    /\ request = [r \in Requests |-> Idle]

-----------------------------------------------------------------------------
(* Sessions                                                                *)

Await(r, kind, s) == request' = [request EXCEPT ![r] = [kind |-> kind, session |-> s]]

(* Faulty variant: the answered request still holds its session. *)
AnswerKeepsSession(r) == request' = [request EXCEPT ![r].kind = "idle"]

Answer(r) == request' = [request EXCEPT ![r] = Idle]

(* POST /v1/sessions, to the await: the policy allows it, an id is drawn. *)
PostSession(r, s) ==
    /\ request[r] = Idle
    /\ session[s] = "none"
    /\ \A q \in Requests : request[q].session # s
    /\ Await(r, "create", s)
    /\ UNCHANGED <<registryVars, signalingVars, session>>

(* ... from the await: the token is registered and the session stored. *)
PostSessionIssue(r, t) ==
    /\ request[r].kind = "create"
    /\ ~Issued(t)
    /\ register(t, request[r].session)
    /\ session' = [session EXCEPT ![request[r].session] = "pending"]
    /\ Answer(r)
    /\ UNCHANGED signalingVars

(* Faulty variant: the old token is kept. *)
RefreshKeepsToken(r, t) ==
    /\ request[r] = Idle
    /\ IsValid(t)
    /\ session[holder[t]] = "pending"
    /\ Await(r, "refresh", holder[t])
    /\ UNCHANGED <<registryVars, signalingVars, session>>

(* Faulty variant: the state of the session is not checked. *)
RefreshAnyState(r, t) ==
    /\ request[r] = Idle
    /\ IsValid(t)
    /\ RevokeTokens(getBySession(holder[t]))
    /\ Await(r, "refresh", holder[t])
    /\ UNCHANGED <<signalingVars, session>>

(* POST /v1/sessions/:id/refresh, to the await: the bearer token must be    *)
(* valid for a session that has not ended; the session's tokens are revoked. *)
Refresh(r, t) ==
    /\ request[r] = Idle
    /\ IsValid(t)
    /\ session[holder[t]] = "pending"
    /\ RevokeTokens(getBySession(holder[t]))
    /\ Await(r, "refresh", holder[t])
    /\ UNCHANGED <<signalingVars, session>>

(* ... from the await: the new token is registered, whatever happened to the *)
(* session meanwhile.                                                        *)
RefreshIssue(r, t) ==
    /\ request[r].kind = "refresh"
    /\ ~Issued(t)
    /\ register(t, request[r].session)
    /\ Answer(r)
    /\ UNCHANGED <<signalingVars, session>>

(* The generator throws: the request is answered with an error. *)
GenerateFail(r) ==
    /\ request[r] # Idle
    /\ Answer(r)
    /\ UNCHANGED <<registryVars, signalingVars, session>>

(* DELETE /v1/sessions/:id does not tell the peers, and overwrites "revoked". *)
DeleteSession(s) ==
    /\ session[s] # "none"
    /\ session' = [session EXCEPT ![s] = "terminated"]
    /\ RevokeTokens(getBySession(s))
    /\ UNCHANGED <<signalingVars, request>>

-----------------------------------------------------------------------------
(* Revocations                                                             *)

(* revokeByOperator finds the sessions of an operator by their tokens. *)
SessionsOfTokens(o) == {s \in Sessions : owner[s] = o /\ getBySession(s) # {}}

(* Faulty variant: the tokens of the operator's sessions are revoked, but   *)
(* only the session named is marked.                                        *)
PostRevocationMarksNamed(s, o) ==
    LET named == {x \in {s} : x # NoSession /\ session[x] # "none"}
        affected == named \cup SessionsOfTokens(o)
    IN  /\ session' = [x \in Sessions |-> IF x \in named THEN "revoked" ELSE session[x]]
        /\ RevokeTokens(UNION {getBySession(x) : x \in affected})
        /\ notifyRevocation(affected)
        /\ UNCHANGED request

(* POST /v1/revocations, with a session, an operator or both. *)
PostRevocation(s, o) ==
    LET named == {x \in {s} : x # NoSession /\ session[x] # "none"}
        affected == named \cup SessionsOfTokens(o)
    IN  /\ session' = [x \in Sessions |->
                         IF x \in affected THEN "revoked" ELSE session[x]]
        /\ RevokeTokens(UNION {getBySession(x) : x \in affected})
        /\ notifyRevocation(affected)
        /\ UNCHANGED request

-----------------------------------------------------------------------------
(* Time and signaling                                                      *)

TokenExpires(t) == Expire(t) /\ UNCHANGED <<signalingVars, session, request>>

Cleanup == cleanup /\ UNCHANGED <<signalingVars, session, request>>

SignalingFrame == UNCHANGED <<registryVars, session, request>>

SocketConnects(w) == Connect(w) /\ SignalingFrame

SocketJoins(w, s, t) == handleJoin(w, s, t) /\ SignalingFrame

SocketLeaves(w) == handleLeave(w) /\ SignalingFrame

SocketCloses(w) == handleDisconnect(w) /\ SignalingFrame

Next ==
    \/ \E r \in Requests, s \in Sessions : PostSession(r, s)
    \/ \E r \in Requests, t \in Tokens :
          PostSessionIssue(r, t) \/ Refresh(r, t) \/ RefreshIssue(r, t)
    \/ \E r \in Requests : GenerateFail(r)
    \/ \E s \in Sessions : DeleteSession(s)
    \/ \E s \in Sessions \cup {NoSession}, o \in Operators \cup {NoOperator} :
          PostRevocation(s, o)
    \/ \E t \in Tokens : TokenExpires(t)
    \/ Cleanup
    \/ \E w \in Sockets : SocketConnects(w) \/ SocketLeaves(w) \/ SocketCloses(w)
    \/ \E w \in Sockets, s \in Sessions, t \in Tokens : SocketJoins(w, s, t)

Spec == Init /\ [][Next]_vars

-----------------------------------------------------------------------------
(* Properties                                                              *)

(* Every variable of the gateway has its type. *)
TypeOK ==
    /\ RegistryTypeOK
    /\ SignalingTypeOK
    /\ session \in [Sessions -> {"none", "pending", "terminated", "revoked"}]
    /\ request \in [Requests -> {Idle} \cup [kind : {"create", "refresh"},
                                             session : Sessions]]

ValidTokens(s) == {t \in Tokens : holder[t] = s /\ IsValid(t)}

Refreshing(s) == {r \in Requests : request[r] = [kind |-> "refresh", session |-> s]}

(* A session has one credential at a time: a valid token, or a refresh in   *)
(* flight that will bring one.  Two refreshes that race, or a refresh that  *)
(* races a revocation, never leave a session with two.                      *)
OneCredential ==
    \A s \in Sessions :
        /\ \A t, u \in ValidTokens(s) : t = u
        /\ \A r, q \in Refreshing(s) : r = q
        /\ ValidTokens(s) = {} \/ Refreshing(s) = {}

HasEnded(s) == session[s] \in {"terminated", "revoked"}

(* A session that ended never goes on: it is never refreshed again, and a   *)
(* new token comes only from a refresh that was in flight when it ended, at *)
(* most one after what OneCredential says.                                  *)
EndIsFinal ==
    [][\A s \in Sessions :
         HasEnded(s) =>
           /\ HasEnded(s)'
           /\ Refreshing(s)' \subseteq Refreshing(s)
           /\ Refreshing(s) = {} => ValidTokens(s)' \subseteq ValidTokens(s)]_vars

HasCredential(s) == ValidTokens(s) # {} \/ Refreshing(s) # {}

(* The credential of a stored session passes from token to refresh to token *)
(* and is not lost on the way: while the session stays pending only the     *)
(* expiry of its token or a generator that fails takes it away, no request  *)
(* for another session and no revocation; and what is lost is lost for good. *)
CredentialPassesOn ==
    [][\A s \in Sessions :
         /\ (session[s] # "none" /\ ~HasCredential(s)) => ~HasCredential(s)'
         /\ (session[s] = "pending" /\ session'[s] = "pending"
               /\ HasCredential(s) /\ ~HasCredential(s)')
              => \/ \E t \in ValidTokens(s) : t \in expired'
                 \/ \E r \in Refreshing(s) : request'[r] = Idle]_vars

(* A room holds the sockets whose handlers believe to be in it, none that   *)
(* has closed; and an open socket that believes to be in a room is in it,   *)
(* through joins, leaves, revocations and joins that cross a revocation.    *)
RoomsMatchPeers ==
    \A w \in Sockets, s \in Sessions :
        /\ w \in rooms[s] => peer[w] = s /\ socket[w] \in {"open", "closing"}
        /\ (socket[w] = "open" /\ peer[w] = s) => w \in rooms[s]

-----------------------------------------------------------------------------
(* What the documents say and the code does not do                         *)

(* PRD.md: the gateway invalidates tokens.  A revoked session has no valid  *)
(* token.                                                                   *)
RevokedSessionHasNoToken ==
    \A s \in Sessions : session[s] = "revoked" => ValidTokens(s) = {}
=============================================================================
