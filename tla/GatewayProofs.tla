---------------------------- MODULE GatewayProofs ----------------------------
(***************************************************************************)
(* Proofs about the gateway, for any number of sessions, operators, tokens, *)
(* requests in flight and sockets, and with either wiring of the join.     *)
(***************************************************************************)
EXTENDS Gateway, TLAPS

USE RegistryAssumption, GatewayAssumption, SignalingAssumption
    DEF RegistryAssumption, GatewayAssumption, SignalingAssumption

-----------------------------------------------------------------------------
(* What the operations of the registry do to the valid tokens              *)

(* Taking tokens away, expiring them or forgetting the expired ones makes no *)
(* token valid.                                                              *)
LEMMA FewerValid ==
    ASSUME NEW s, 
           \/ \E T \in SUBSET registered : RevokeTokens(T)
           \/ \E t \in Tokens : Expire(t)
           \/ cleanup
           \/ UNCHANGED registryVars
    PROVE  ValidTokens(s)' \subseteq ValidTokens(s)
<1> USE DEF ValidTokens, IsValid
<1>1. CASE \E T \in SUBSET registered : RevokeTokens(T)
  BY <1>1 DEF RevokeTokens
<1>2. CASE \E t \in Tokens : Expire(t)
  BY <1>2 DEF Expire
<1>3. CASE cleanup
  BY <1>3 DEF cleanup
<1>4. CASE UNCHANGED registryVars
  BY <1>4 DEF registryVars
<1> QED
  BY <1>1, <1>2, <1>3, <1>4

(* A registration makes at most its token valid, and for its session only. *)
LEMMA OneMoreValid ==
    ASSUME TypeOK, NEW t \in Tokens, NEW s \in Sessions, ~Issued(t), register(t, s)
    PROVE  /\ ValidTokens(s)' \subseteq ValidTokens(s) \cup {t}
           /\ \A x \in Sessions : x # s => ValidTokens(x)' \subseteq ValidTokens(x)
BY DEF TypeOK, RegistryTypeOK, ValidTokens, IsValid, register, Issued

(* Revoking the tokens of a session leaves it none. *)
LEMMA NoneValid ==
    ASSUME NEW s, RevokeTokens(getBySession(s)) PROVE ValidTokens(s)' = {}
BY DEF RevokeTokens, getBySession, ValidTokens, IsValid

-----------------------------------------------------------------------------
(* The inductive invariant                                                 *)

(* A session that is not stored has neither a token nor a refresh, and is   *)
(* created by one request at most.                                          *)
FreshSessions ==
    /\ \A r \in Requests :
         request[r].kind = "create" =>
           /\ session[request[r].session] = "none"
           /\ \A q \in Requests : request[q] = request[r] => q = r
    /\ \A s \in Sessions :
         session[s] = "none" =>
           /\ Refreshing(s) = {}
           /\ \A t \in Tokens : holder[t] # s

IInv == TypeOK /\ FreshSessions /\ OneCredential

LEMMA InitInv == Init => IInv
<1> SUFFICES ASSUME Init PROVE IInv
  OBVIOUS
<1> USE DEF Init, RegistryInit, SignalingInit, Idle
<1>1. TypeOK
  BY DEF TypeOK, RegistryTypeOK, SignalingTypeOK
<1>2. FreshSessions
  BY DEF FreshSessions, Refreshing
<1>3. OneCredential
  BY DEF OneCredential, ValidTokens, Refreshing
<1> QED
  BY <1>1, <1>2, <1>3 DEF IInv

(* The part of a step that belongs to the registry. *)
LEMMA RegistryStep ==
    ASSUME TypeOK, [Next]_vars
    PROVE  \/ \E T \in SUBSET registered : RevokeTokens(T)
           \/ \E t \in Tokens : Expire(t)
           \/ cleanup
           \/ UNCHANGED registryVars
           \/ \E t \in Tokens, s \in Sessions :
                /\ ~Issued(t) /\ register(t, s)
                /\ \E r \in Requests : request[r] \in [kind : {"create", "refresh"}, session : {s}]
<1>1. CASE \E r \in Requests, t \in Tokens : PostSessionIssue(r, t) \/ RefreshIssue(r, t)
  BY <1>1 DEF PostSessionIssue, RefreshIssue, TypeOK, Idle
<1>2. CASE \E r \in Requests, t \in Tokens : Refresh(r, t)
  BY <1>2 DEF Refresh, getBySession, TypeOK, RegistryTypeOK
<1>3. CASE \E s \in Sessions : DeleteSession(s)
  BY <1>3 DEF DeleteSession, getBySession, TypeOK, RegistryTypeOK
<1>4. CASE \E s \in Sessions \cup {NoSession}, o \in Operators \cup {NoOperator} :
             PostRevocation(s, o)
  BY <1>4 DEF PostRevocation, getBySession, TypeOK, RegistryTypeOK
<1>5. CASE \/ \E r \in Requests, s \in Sessions : PostSession(r, s)
           \/ \E r \in Requests : GenerateFail(r)
           \/ \E t \in Tokens : TokenExpires(t)
           \/ Cleanup
  BY <1>5 DEF PostSession, GenerateFail, TokenExpires, Cleanup
<1>6. CASE \/ \E w \in Sockets : SocketConnects(w) \/ SocketLeaves(w) \/ SocketCloses(w)
           \/ \E w \in Sockets, s \in Sessions, t \in Tokens : SocketJoins(w, s, t)
           \/ UNCHANGED vars
  BY <1>6 DEF SocketConnects, SocketLeaves, SocketCloses, SocketJoins, SignalingFrame, vars
<1> QED
  BY <1>1, <1>2, <1>3, <1>4, <1>5, <1>6 DEF Next

-----------------------------------------------------------------------------
(* Types                                                                   *)

(* A request in flight is for a session.                                    *)
LEMMA RequestInFlight ==
    ASSUME TypeOK, NEW r \in Requests, request[r] # Idle
    PROVE  /\ request[r].kind \in {"create", "refresh"}
           /\ request[r].session \in Sessions
           /\ request[r] = [kind |-> request[r].kind, session |-> request[r].session]
BY DEF TypeOK

(* The steps of the registry keep its types. *)
LEMMA RegistryTypeStep == TypeOK /\ [Next]_vars => RegistryTypeOK'
<1> SUFFICES ASSUME TypeOK, [Next]_vars PROVE RegistryTypeOK'
  OBVIOUS
<1> USE DEF TypeOK, RegistryTypeOK, Issued
<1>1. CASE \E T \in SUBSET registered : RevokeTokens(T)
  BY <1>1 DEF RevokeTokens
<1>2. CASE \E t \in Tokens : Expire(t)
  BY <1>2 DEF Expire
<1>3. CASE cleanup
  BY <1>3 DEF cleanup
<1>4. CASE UNCHANGED registryVars
  BY <1>4 DEF registryVars
<1>5. CASE \E t \in Tokens, s \in Sessions : register(t, s)
  BY <1>5 DEF register
<1> QED
  BY <1>1, <1>2, <1>3, <1>4, <1>5, RegistryStep

(* The part of a step that belongs to the signaling endpoint. *)
LEMMA SignalingStep ==
    ASSUME [Next]_vars
    PROVE  \/ UNCHANGED signalingVars
           \/ \E w \in Sockets : Connect(w) \/ handleLeave(w) \/ handleDisconnect(w)
           \/ \E w \in Sockets, s \in Sessions, t \in Tokens : handleJoin(w, s, t)
           \/ \E S \in SUBSET Sessions : notifyRevocation(S)
<1>1. CASE \E s \in Sessions \cup {NoSession}, o \in Operators \cup {NoOperator} :
             PostRevocation(s, o)
  <2> PICK s \in Sessions \cup {NoSession}, o \in Operators \cup {NoOperator} :
           PostRevocation(s, o)
    BY <1>1
  <2> DEFINE affected == {x \in {s} : x # NoSession /\ session[x] # "none"}
                           \cup SessionsOfTokens(o)
  <2>1. affected \in SUBSET Sessions
    BY DEF SessionsOfTokens
  <2>2. notifyRevocation(affected)
    BY DEF PostRevocation
  <2> QED
    BY <2>1, <2>2
<1>2. CASE \/ \E w \in Sockets : SocketConnects(w) \/ SocketLeaves(w) \/ SocketCloses(w)
           \/ \E w \in Sockets, s \in Sessions, t \in Tokens : SocketJoins(w, s, t)
  BY <1>2 DEF SocketConnects, SocketLeaves, SocketCloses, SocketJoins
<1>3. CASE UNCHANGED vars
  BY <1>3 DEF vars
<1>4. CASE \/ \E r \in Requests, s \in Sessions : PostSession(r, s)
           \/ \E r \in Requests, t \in Tokens :
                PostSessionIssue(r, t) \/ Refresh(r, t) \/ RefreshIssue(r, t)
           \/ \E r \in Requests : GenerateFail(r)
           \/ \E s \in Sessions : DeleteSession(s)
           \/ \E t \in Tokens : TokenExpires(t)
           \/ Cleanup
  BY <1>4 DEF PostSession, PostSessionIssue, Refresh, RefreshIssue, GenerateFail,
              DeleteSession, TokenExpires, Cleanup
<1> QED
  BY <1>1, <1>2, <1>3, <1>4 DEF Next

(* The steps of the signaling endpoint keep its types. *)
LEMMA SignalingTypeStep == TypeOK /\ [Next]_vars => SignalingTypeOK'
<1> SUFFICES ASSUME TypeOK, [Next]_vars PROVE SignalingTypeOK'
  OBVIOUS
<1> USE DEF TypeOK, RegistryTypeOK, SignalingTypeOK
<1>1. CASE UNCHANGED signalingVars
  BY <1>1 DEF signalingVars
<1>2. CASE \E w \in Sockets : Connect(w)
  BY <1>2 DEF Connect
<1>3. CASE \E w \in Sockets : handleLeave(w)
  BY <1>3 DEF handleLeave
<1>4. CASE \E w \in Sockets : handleDisconnect(w)
  BY <1>4 DEF handleDisconnect
<1>5. CASE \E w \in Sockets, s \in Sessions, t \in Tokens : handleJoin(w, s, t)
  BY <1>5 DEF handleJoin
<1>6. CASE \E S \in SUBSET Sessions : notifyRevocation(S)
  BY <1>6 DEF notifyRevocation
<1> QED
  BY <1>1, <1>2, <1>3, <1>4, <1>5, <1>6, SignalingStep

(* What a step does to the sessions and to the requests. *)
LEMMA SessionStep ==
    ASSUME TypeOK, [Next]_vars
    PROVE  \/ UNCHANGED <<session, request>>
           \/ \E r \in Requests, s \in Sessions : PostSession(r, s)
           \/ \E r \in Requests, t \in Tokens : PostSessionIssue(r, t)
           \/ \E r \in Requests, t \in Tokens : Refresh(r, t)
           \/ \E r \in Requests, t \in Tokens : RefreshIssue(r, t)
           \/ \E r \in Requests : GenerateFail(r)
           \/ \E s \in Sessions : DeleteSession(s)
           \/ \E s \in Sessions \cup {NoSession}, o \in Operators \cup {NoOperator} :
                PostRevocation(s, o)
BY DEF Next, vars, TokenExpires, Cleanup, SocketConnects, SocketLeaves, SocketCloses,
       SocketJoins, SignalingFrame

(* The types are inductive by themselves. *)
LEMMA TypeStep == TypeOK /\ [Next]_vars => TypeOK'
<1> SUFFICES ASSUME TypeOK, [Next]_vars PROVE TypeOK'
  OBVIOUS
<1> DEFINE
      SessionOK == session \in [Sessions -> {"none", "pending", "terminated", "revoked"}]
      RequestOK == request \in [Requests -> {Idle} \cup [kind : {"create", "refresh"},
                                                         session : Sessions]]
<1>1. SessionOK' /\ RequestOK'
  <2> USE DEF TypeOK, RegistryTypeOK
  <2>1. CASE UNCHANGED <<session, request>>
    BY <2>1
  <2>2. CASE \E r \in Requests, s \in Sessions : PostSession(r, s)
    BY <2>2 DEF PostSession, Await
  <2>3. CASE \E r \in Requests, t \in Tokens : PostSessionIssue(r, t)
    BY <2>3 DEF PostSessionIssue, Answer, Idle
  <2>4. CASE \E r \in Requests, t \in Tokens : Refresh(r, t)
    <3> PICK r \in Requests, t \in Tokens : Refresh(r, t)
      BY <2>4
    <3>1. holder[t] \in Sessions
      BY DEF Refresh, IsValid, Issued
    <3> QED
      BY <3>1 DEF Refresh, Await
  <2>5. CASE \E r \in Requests, t \in Tokens : RefreshIssue(r, t)
    BY <2>5 DEF RefreshIssue, Answer
  <2>6. CASE \E r \in Requests : GenerateFail(r)
    BY <2>6 DEF GenerateFail, Answer
  <2>7. CASE \E s \in Sessions : DeleteSession(s)
    BY <2>7 DEF DeleteSession
  <2>8. CASE \E s \in Sessions \cup {NoSession}, o \in Operators \cup {NoOperator} :
               PostRevocation(s, o)
    BY <2>8 DEF PostRevocation
  <2> QED
    BY <2>1, <2>2, <2>3, <2>4, <2>5, <2>6, <2>7, <2>8, SessionStep
<1> QED
  BY <1>1, RegistryTypeStep, SignalingTypeStep DEF TypeOK

-----------------------------------------------------------------------------
(* The credentials of a session                                            *)

(* What a step does to the credentials of a session: it takes some away, it *)
(* gives the session its first one as it is stored, it exchanges its token  *)
(* for a refresh in flight, or that refresh for a token.                    *)
LEMMA CredentialStep ==
    ASSUME TypeOK, FreshSessions, [Next]_vars, NEW s \in Sessions
    PROVE  \/ /\ ValidTokens(s)' \subseteq ValidTokens(s)
              /\ Refreshing(s)' \subseteq Refreshing(s)
           \/ /\ session[s] = "none"
              /\ Refreshing(s)' = {}
              /\ \E t \in Tokens : ValidTokens(s)' \subseteq {t}
           \/ /\ session[s] = "pending"
              /\ ValidTokens(s) # {}
              /\ ValidTokens(s)' = {}
              /\ \E r \in Requests : Refreshing(s)' \subseteq Refreshing(s) \cup {r}
           \/ \E r \in Refreshing(s), t \in Tokens :
              /\ Refreshing(s)' \subseteq Refreshing(s) \ {r}
              /\ ValidTokens(s)' \subseteq ValidTokens(s) \cup {t}
<1> USE DEF Refreshing
<1>1. ASSUME UNCHANGED request PROVE Refreshing(s)' \subseteq Refreshing(s)
  BY <1>1
<1>2. ASSUME NEW r \in Requests, Answer(r) PROVE Refreshing(s)' \subseteq Refreshing(s) \ {r}
  BY <1>2 DEF Answer, Idle, TypeOK
<1>3. CASE \E r \in Requests, x \in Sessions : PostSession(r, x)
  <2> PICK r \in Requests, x \in Sessions : PostSession(r, x)
    BY <1>3
  <2>1. ValidTokens(s)' \subseteq ValidTokens(s)
    BY FewerValid DEF PostSession
  <2>2. Refreshing(s)' \subseteq Refreshing(s)
    BY DEF PostSession, Await, TypeOK
  <2> QED
    BY <2>1, <2>2
<1>4. CASE \E r \in Requests, t \in Tokens : PostSessionIssue(r, t)
  <2> PICK r \in Requests, t \in Tokens : PostSessionIssue(r, t)
    BY <1>4
  <2>1. request[r].session \in Sessions /\ ~Issued(t) /\ register(t, request[r].session)
    <3>1. request[r] # Idle
      BY DEF PostSessionIssue, Idle
    <3> QED
      BY <3>1, RequestInFlight DEF PostSessionIssue
  <2>2. Refreshing(s)' \subseteq Refreshing(s)
    BY <1>2 DEF PostSessionIssue
  <2>3. CASE s = request[r].session
    <3>1. session[s] = "none" /\ Refreshing(s) = {} /\ ValidTokens(s) = {}
      BY <2>3, <2>1 DEF PostSessionIssue, FreshSessions, ValidTokens
    <3>2. ValidTokens(s)' \subseteq {t}
      BY <2>1, <2>3, <3>1, OneMoreValid
    <3> QED
      BY <2>2, <3>1, <3>2
  <2>4. CASE s # request[r].session
    BY <2>1, <2>2, <2>4, OneMoreValid
  <2> QED
    BY <2>3, <2>4
<1>5. CASE \E r \in Requests, t \in Tokens : Refresh(r, t)
  <2> PICK r \in Requests, t \in Tokens : Refresh(r, t)
    BY <1>5
  <2>1. holder[t] \in Sessions /\ getBySession(holder[t]) \in SUBSET registered
    BY DEF Refresh, IsValid, getBySession, TypeOK, RegistryTypeOK, Issued
  <2>2. CASE s = holder[t]
    <3>1. ValidTokens(s)' = {}
      BY <2>2, NoneValid DEF Refresh
    <3>2. t \in ValidTokens(s) /\ session[s] = "pending"
      BY <2>2 DEF Refresh, ValidTokens
    <3>3. Refreshing(s)' \subseteq Refreshing(s) \cup {r}
      BY DEF Refresh, Await, TypeOK
    <3> QED
      BY <3>1, <3>2, <3>3
  <2>3. CASE s # holder[t]
    <3>1. ValidTokens(s)' \subseteq ValidTokens(s)
      BY <2>1, FewerValid DEF Refresh
    <3>2. Refreshing(s)' \subseteq Refreshing(s)
      BY <2>3 DEF Refresh, Await, TypeOK
    <3> QED
      BY <3>1, <3>2
  <2> QED
    BY <2>2, <2>3
<1>6. CASE \E r \in Requests, t \in Tokens : RefreshIssue(r, t)
  <2> PICK r \in Requests, t \in Tokens : RefreshIssue(r, t)
    BY <1>6
  <2>1. request[r] = [kind |-> "refresh", session |-> request[r].session]
        /\ request[r].session \in Sessions /\ ~Issued(t) /\ register(t, request[r].session)
    BY RequestInFlight DEF RefreshIssue, Idle
  <2>2. Refreshing(s)' \subseteq Refreshing(s) \ {r}
    BY <1>2 DEF RefreshIssue
  <2>3. CASE s = request[r].session
    <3>1. r \in Refreshing(s)
      BY <2>1, <2>3
    <3> QED
      BY <2>1, <2>2, <2>3, <3>1, OneMoreValid
  <2>4. CASE s # request[r].session
    BY <2>1, <2>2, <2>4, OneMoreValid
  <2> QED
    BY <2>3, <2>4
<1>7. CASE \E r \in Requests : GenerateFail(r)
  <2>1. Refreshing(s)' \subseteq Refreshing(s)
    BY <1>7, <1>2 DEF GenerateFail
  <2>2. ValidTokens(s)' \subseteq ValidTokens(s)
    BY <1>7, FewerValid DEF GenerateFail
  <2> QED
    BY <2>1, <2>2
<1>8. CASE \E x \in Sessions : DeleteSession(x)
  <2> PICK x \in Sessions : DeleteSession(x)
    BY <1>8
  <2>1. getBySession(x) \in SUBSET registered
    BY DEF getBySession, TypeOK, RegistryTypeOK
  <2> QED
    BY <2>1, <1>1, FewerValid DEF DeleteSession
<1>9. CASE \E x \in Sessions \cup {NoSession}, o \in Operators \cup {NoOperator} :
             PostRevocation(x, o)
  <2> PICK x \in Sessions \cup {NoSession}, o \in Operators \cup {NoOperator} :
           PostRevocation(x, o)
    BY <1>9
  <2>1. \E T \in SUBSET registered : RevokeTokens(T)
    BY DEF PostRevocation, getBySession, TypeOK, RegistryTypeOK
  <2>2. UNCHANGED request
    BY DEF PostRevocation
  <2> QED
    BY <2>1, <2>2, <1>1, FewerValid
<1>10. CASE \/ \E t \in Tokens : TokenExpires(t)
            \/ Cleanup
            \/ \E w \in Sockets : SocketConnects(w) \/ SocketLeaves(w) \/ SocketCloses(w)
            \/ \E w \in Sockets, x \in Sessions, t \in Tokens : SocketJoins(w, x, t)
            \/ UNCHANGED vars
  <2>1. UNCHANGED request
    BY <1>10 DEF TokenExpires, Cleanup, SocketConnects, SocketLeaves, SocketCloses,
                 SocketJoins, SignalingFrame, vars
  <2>2. \/ \E t \in Tokens : Expire(t)
        \/ cleanup
        \/ UNCHANGED registryVars
    BY <1>10 DEF TokenExpires, Cleanup, SocketConnects, SocketLeaves, SocketCloses,
                 SocketJoins, SignalingFrame, vars
  <2> QED
    BY <2>1, <2>2, <1>1, FewerValid
<1> QED
  BY <1>3, <1>4, <1>5, <1>6, <1>7, <1>8, <1>9, <1>10 DEF Next

-----------------------------------------------------------------------------
(* The invariant is inductive                                              *)

LEMMA OneCredentialStep == IInv /\ [Next]_vars => OneCredential'
<1> SUFFICES ASSUME IInv, [Next]_vars, NEW s \in Sessions
             PROVE  /\ \A t, u \in ValidTokens(s)' : t = u
                    /\ \A r, q \in Refreshing(s)' : r = q
                    /\ ValidTokens(s)' = {} \/ Refreshing(s)' = {}
  BY DEF OneCredential
<1>1. /\ \A t, u \in ValidTokens(s) : t = u
      /\ \A r, q \in Refreshing(s) : r = q
      /\ ValidTokens(s) = {} \/ Refreshing(s) = {}
  BY DEF IInv, OneCredential
<1> QED
  BY <1>1, CredentialStep DEF IInv

(* A session that is stored stays stored. *)
LEMMA StoredStays ==
    ASSUME TypeOK, FreshSessions, [Next]_vars, NEW s \in Sessions, session[s] # "none"
    PROVE  session'[s] # "none"
<1>1. CASE \E r \in Requests, t \in Tokens : PostSessionIssue(r, t)
  BY <1>1, RequestInFlight DEF PostSessionIssue, TypeOK
<1>2. CASE \E x \in Sessions : DeleteSession(x)
  BY <1>2 DEF DeleteSession, TypeOK
<1>3. CASE \E x \in Sessions \cup {NoSession}, o \in Operators \cup {NoOperator} :
             PostRevocation(x, o)
  BY <1>3 DEF PostRevocation, TypeOK
<1>4. CASE UNCHANGED session
  BY <1>4
<1> QED
  BY <1>1, <1>2, <1>3, <1>4, SessionStep DEF PostSession, Refresh, RefreshIssue, GenerateFail

(* A session that has a token is stored by the end of the step. *)
LEMMA HolderStored ==
    ASSUME TypeOK, FreshSessions, [Next]_vars, NEW s \in Sessions,
           NEW t \in Tokens, holder'[t] = s
    PROVE  session'[s] # "none"
<1>1. CASE holder[t] = s
  BY <1>1, StoredStays DEF FreshSessions
<1>2. CASE holder[t] # s
  <2>1. \E r \in Requests, u \in Tokens : PostSessionIssue(r, u) \/ RefreshIssue(r, u)
    <3>1. holder' # holder
      BY <1>2
    <3> QED
      BY <3>1 DEF Next, vars, registryVars, PostSession, Refresh, RevokeTokens, GenerateFail,
             DeleteSession, PostRevocation, TokenExpires, Expire, Cleanup, cleanup,
             SocketConnects, SocketLeaves, SocketCloses, SocketJoins, SignalingFrame
  <2> PICK r \in Requests, u \in Tokens : PostSessionIssue(r, u) \/ RefreshIssue(r, u)
    BY <2>1
  <2>2. request[r] # Idle
    BY DEF PostSessionIssue, RefreshIssue, Idle
  <2>3. request[r].session = s
    BY <1>2, <2>2, RequestInFlight DEF PostSessionIssue, RefreshIssue, register,
                                       TypeOK, RegistryTypeOK
  <2>4. CASE PostSessionIssue(r, u)
    BY <2>3, <2>4 DEF PostSessionIssue, TypeOK
  <2>5. CASE RefreshIssue(r, u)
    <3>1. request[r] = [kind |-> "refresh", session |-> s]
      BY <2>2, <2>3, <2>5, RequestInFlight DEF RefreshIssue
    <3>2. session[s] # "none"
      BY <3>1 DEF FreshSessions, Refreshing
    <3> QED
      BY <3>2, StoredStays
  <2> QED
    BY <2>4, <2>5
<1> QED
  BY <1>1, <1>2

(* A request that creates a session by the end of the step does so for one  *)
(* that is not stored, and is alone in that.                                *)
LEMMA CreatorAlone ==
    ASSUME TypeOK, FreshSessions, [Next]_vars,
           NEW r \in Requests, request'[r].kind = "create"
    PROVE  /\ session'[request'[r].session] = "none"
           /\ \A q \in Requests : request'[q] = request'[r] => q = r
<1>1. CASE \E p \in Requests, s \in Sessions : PostSession(p, s)
  <2> PICK p \in Requests, s \in Sessions : PostSession(p, s)
    BY <1>1
  <2>1. /\ request' = [request EXCEPT ![p] = [kind |-> "create", session |-> s]]
        /\ session[s] = "none" /\ session' = session
        /\ \A q \in Requests : request[q].session # s
    BY DEF PostSession, Await
  <2>2. CASE r = p
    <3>1. request'[r] = [kind |-> "create", session |-> s]
      BY <2>1, <2>2 DEF TypeOK
    <3>2. \A q \in Requests : q # r => request'[q].session # s
      BY <2>1, <2>2 DEF TypeOK
    <3> QED
      BY <2>1, <3>1, <3>2
  <2>3. CASE r # p
    <3>1. request'[r] = request[r] /\ request[r].session # s
      BY <2>1, <2>3 DEF TypeOK
    <3>2. \A q \in Requests : request'[q] = request[r] => q = r
      <4> SUFFICES ASSUME NEW q \in Requests, request'[q] = request[r] PROVE q = r
        OBVIOUS
      <4>1. CASE q = p
        <5>1. request'[q].session = s
          BY <2>1, <4>1 DEF TypeOK
        <5> QED
          BY <5>1, <3>1
      <4>2. CASE q # p
        <5>1. request'[q] = request[q]
          BY <2>1, <4>2 DEF TypeOK
        <5> QED
          BY <5>1, <3>1 DEF FreshSessions
      <4> QED
        BY <4>1, <4>2
    <3> QED
      BY <2>1, <3>1, <3>2 DEF FreshSessions
  <2> QED
    BY <2>2, <2>3
<1>2. ASSUME /\ \A q \in Requests : request'[q] = request[q] \/ request'[q].kind # "create"
             /\ session[request[r].session] = "none"
                  => session'[request[r].session] = "none"
      PROVE  /\ session'[request'[r].session] = "none"
             /\ \A q \in Requests : request'[q] = request'[r] => q = r
  <2>1. request'[r] = request[r] /\ request[r].kind = "create"
    BY <1>2
  <2> QED
    BY <1>2, <2>1 DEF FreshSessions
<1>3. CASE UNCHANGED <<session, request>>
  BY <1>2, <1>3
<1>4. CASE \E p \in Requests, t \in Tokens : PostSessionIssue(p, t)
  <2> PICK p \in Requests, t \in Tokens : PostSessionIssue(p, t)
    BY <1>4
  <2>1. \A q \in Requests : request'[q] = IF q = p THEN Idle ELSE request[q]
    BY DEF PostSessionIssue, Answer, TypeOK
  <2>2. r # p /\ request'[r] = request[r]
    BY <2>1 DEF Idle
  <2>3. request[p] # Idle /\ request[r] # Idle
    BY <2>2 DEF PostSessionIssue, Idle
  <2>4. request[p].session # request[r].session
    <3>1. request[p].kind = "create" /\ request[r].kind = "create"
      BY <2>2 DEF PostSessionIssue
    <3>2. request[p].session = request[r].session => request[p] = request[r]
      BY <2>3, <3>1, RequestInFlight
    <3>3. request[p] # request[r]
      BY <2>2, <3>1 DEF FreshSessions
    <3> QED
      BY <3>2, <3>3
  <2>5. session'[request[r].session] = session[request[r].session]
    BY <2>3, <2>4, RequestInFlight DEF PostSessionIssue, TypeOK
  <2>6. \A q \in Requests : request'[q] = request[q] \/ request'[q].kind # "create"
    BY <2>1 DEF Idle
  <2> QED
    BY <1>2, <2>5, <2>6
<1>5. CASE \E p \in Requests, t \in Tokens : Refresh(p, t)
  <2>1. \A q \in Requests : request'[q] = request[q] \/ request'[q].kind # "create"
    BY <1>5 DEF Refresh, Await, TypeOK
  <2> QED
    BY <1>2, <1>5, <2>1 DEF Refresh
<1>6. CASE \/ \E p \in Requests, t \in Tokens : RefreshIssue(p, t)
           \/ \E p \in Requests : GenerateFail(p)
  <2>1. \A q \in Requests : request'[q] = request[q] \/ request'[q].kind # "create"
    BY <1>6 DEF RefreshIssue, GenerateFail, Answer, Idle, TypeOK
  <2> QED
    BY <1>2, <1>6, <2>1 DEF RefreshIssue, GenerateFail
<1>7. CASE \E x \in Sessions : DeleteSession(x)
  BY <1>2, <1>7 DEF DeleteSession, TypeOK
<1>8. CASE \E x \in Sessions \cup {NoSession}, o \in Operators \cup {NoOperator} :
             PostRevocation(x, o)
  <2> PICK x \in Sessions \cup {NoSession}, o \in Operators \cup {NoOperator} :
           PostRevocation(x, o)
    BY <1>8
  <2>1. request' = request /\ request[r] # Idle
    BY DEF PostRevocation, Idle
  <2> DEFINE s == request[r].session
  <2>2. s \in Sessions
    BY <2>1, RequestInFlight
  <2>3. session[s] = "none" => s \notin SessionsOfTokens(o)
    BY <2>2 DEF SessionsOfTokens, getBySession, FreshSessions, TypeOK, RegistryTypeOK
  <2>4. session[s] = "none" => session'[s] = "none"
    BY <2>2, <2>3 DEF PostRevocation
  <2> QED
    BY <1>2, <2>1, <2>4
<1> QED
  BY <1>1, <1>3, <1>4, <1>5, <1>6, <1>7, <1>8, SessionStep

LEMMA FreshStep == IInv /\ [Next]_vars => FreshSessions'
<1> SUFFICES ASSUME TypeOK, FreshSessions, [Next]_vars PROVE FreshSessions'
  BY DEF IInv
<1>1. \A r \in Requests :
        request'[r].kind = "create" =>
          /\ session'[request'[r].session] = "none"
          /\ \A q \in Requests : request'[q] = request'[r] => q = r
  BY CreatorAlone
<1>2. ASSUME NEW s \in Sessions, session'[s] = "none"
      PROVE  Refreshing(s)' = {} /\ \A t \in Tokens : holder'[t] # s
  <2>1. session[s] = "none"
    BY <1>2, StoredStays
  <2>2. Refreshing(s) = {}
    BY <2>1 DEF FreshSessions
  <2>3. Refreshing(s)' = {}
    BY <2>1, <2>2, CredentialStep
  <2> QED
    BY <1>2, <2>3, HolderStored
<1> QED
  BY <1>1, <1>2 DEF FreshSessions

LEMMA StepInv == IInv /\ [Next]_vars => IInv'
BY TypeStep, FreshStep, OneCredentialStep DEF IInv

-----------------------------------------------------------------------------
(* Theorems                                                                *)

(* Every variable of the gateway always has its type. *)
THEOREM TypeCorrect == Spec => []TypeOK
<1>1. Init => TypeOK
  BY InitInv DEF IInv
<1> QED
  BY <1>1, TypeStep, PTL DEF Spec

(* However refreshes, creations, deletions, revocations and expiries         *)
(* interleave with the awaits of the routes, no session ever has two        *)
(* credentials: two valid tokens, two refreshes in flight, or one of each.  *)
THEOREM OneCredentialHolds == Spec => []OneCredential
<1>1. IInv => OneCredential
  BY DEF IInv
<1> QED
  BY <1>1, InitInv, StepInv, PTL DEF Spec

(* A terminated or revoked session stays so; it is not refreshed again, and *)
(* gets a token only from a refresh that was in flight when it ended.       *)
THEOREM EndIsFinalHolds == Spec => EndIsFinal
<1>1. ASSUME IInv, [Next]_vars, NEW s \in Sessions, HasEnded(s)
      PROVE  /\ HasEnded(s)'
             /\ Refreshing(s)' \subseteq Refreshing(s)
             /\ Refreshing(s) = {} => ValidTokens(s)' \subseteq ValidTokens(s)
  <2>1. session[s] \notin {"none", "pending"}
    BY <1>1 DEF HasEnded
  <2>2. HasEnded(s)'
    <3>1. CASE \E r \in Requests, t \in Tokens : PostSessionIssue(r, t)
      <4> PICK r \in Requests, t \in Tokens : PostSessionIssue(r, t)
        BY <3>1
      <4>1. session[request[r].session] = "none"
        BY <1>1 DEF IInv, FreshSessions, PostSessionIssue
      <4>2. session'[s] = session[s]
        BY <1>1, <2>1, <4>1 DEF PostSessionIssue, IInv, TypeOK
      <4> QED
        BY <1>1, <4>2 DEF HasEnded
    <3>2. CASE \E x \in Sessions : DeleteSession(x)
      BY <1>1, <3>2 DEF DeleteSession, HasEnded, IInv, TypeOK
    <3>3. CASE \E x \in Sessions \cup {NoSession}, o \in Operators \cup {NoOperator} :
                 PostRevocation(x, o)
      BY <1>1, <3>3 DEF PostRevocation, HasEnded
    <3>4. CASE session' = session
      BY <1>1, <3>4 DEF HasEnded
    <3> QED
      BY <1>1, <3>1, <3>2, <3>3, <3>4, SessionStep
         DEF IInv, PostSession, Refresh, RefreshIssue, GenerateFail
  <2>3. /\ Refreshing(s)' \subseteq Refreshing(s)
        /\ Refreshing(s) = {} => ValidTokens(s)' \subseteq ValidTokens(s)
    BY <1>1, <2>1, CredentialStep DEF IInv
  <2> QED
    BY <2>2, <2>3
<1>2. IInv /\ [Next]_vars
        => [\A s \in Sessions :
              HasEnded(s) =>
                /\ HasEnded(s)'
                /\ Refreshing(s)' \subseteq Refreshing(s)
                /\ Refreshing(s) = {} => ValidTokens(s)' \subseteq ValidTokens(s)]_vars
  BY <1>1
<1> QED
  BY <1>2, InitInv, StepInv, PTL DEF Spec, EndIsFinal

(* What takes the last credential of a session that stays pending: the      *)
(* expiry of a token of it, or the failure of a refresh of it.              *)
LEMMA LastCredential ==
    ASSUME IInv, [Next]_vars, NEW s \in Sessions,
           session[s] = "pending", session'[s] = "pending",
           HasCredential(s), ~HasCredential(s)'
    PROVE  \/ \E t \in ValidTokens(s) : t \in expired'
           \/ \E r \in Refreshing(s) : request'[r] = Idle
<1> USE DEF IInv, TypeOK, RegistryTypeOK, ValidTokens, IsValid, Refreshing, Idle
<1>0. ASSUME ValidTokens(s) \subseteq ValidTokens(s)', Refreshing(s) \subseteq Refreshing(s)'
      PROVE  FALSE
  BY <1>0 DEF HasCredential
<1>1. CASE \E r \in Requests, x \in Sessions : PostSession(r, x)
  BY <1>0, <1>1 DEF PostSession, Await, registryVars
<1>2. CASE \E r \in Requests, t \in Tokens : PostSessionIssue(r, t)
  BY <1>0, <1>2 DEF PostSessionIssue, Answer, register, Issued
<1>3. CASE \E r \in Requests, t \in Tokens : Refresh(r, t)
  <2> PICK r \in Requests, t \in Tokens : Refresh(r, t)
    BY <1>3
  <2>1. CASE holder[t] = s
    <3>1. r \in Refreshing(s)'
      BY <2>1 DEF Refresh, Await
    <3> QED
      BY <3>1 DEF HasCredential
  <2>2. CASE holder[t] # s
    BY <1>0, <2>2 DEF Refresh, Await, RevokeTokens, getBySession
  <2> QED
    BY <2>1, <2>2
<1>4. CASE \E r \in Requests : (\E t \in Tokens : RefreshIssue(r, t)) \/ GenerateFail(r)
  <2> PICK r \in Requests : (\E t \in Tokens : RefreshIssue(r, t)) \/ GenerateFail(r)
    BY <1>4
  <2>1. request' = [request EXCEPT ![r] = Idle]
    BY DEF RefreshIssue, GenerateFail, Answer
  <2>2. ValidTokens(s) \subseteq ValidTokens(s)'
    BY DEF RefreshIssue, GenerateFail, register, registryVars, Issued
  <2>3. r \in Refreshing(s)
    BY <1>0, <2>1, <2>2
  <2> QED
    BY <2>1, <2>3
<1>5. CASE \E x \in Sessions : DeleteSession(x)
  BY <1>0, <1>5 DEF DeleteSession, RevokeTokens, getBySession
<1>6. CASE \E x \in Sessions \cup {NoSession}, o \in Operators \cup {NoOperator} :
             PostRevocation(x, o)
  BY <1>0, <1>6 DEF PostRevocation, RevokeTokens, getBySession
<1>7. CASE \E t \in Tokens : TokenExpires(t)
  <2> PICK t \in Tokens : TokenExpires(t)
    BY <1>7
  <2>1. t \in ValidTokens(s)
    BY <1>0 DEF TokenExpires, Expire
  <2> QED
    BY <2>1 DEF TokenExpires, Expire
<1>8. CASE Cleanup
  BY <1>0, <1>8 DEF Cleanup, cleanup
<1>9. CASE \/ \E w \in Sockets : SocketConnects(w) \/ SocketLeaves(w) \/ SocketCloses(w)
           \/ \E w \in Sockets, x \in Sessions, t \in Tokens : SocketJoins(w, x, t)
           \/ UNCHANGED vars
  <2>1. UNCHANGED <<registryVars, request>>
    BY <1>9 DEF SocketConnects, SocketLeaves, SocketCloses, SocketJoins, SignalingFrame, vars
  <2> QED
    BY <1>0, <2>1 DEF registryVars
<1> QED
  BY <1>1, <1>2, <1>3, <1>4, <1>5, <1>6, <1>7, <1>8, <1>9 DEF Next

(* The credential of a stored session passes from token to refresh to token: *)
(* only the expiry of its token or a generator that fails takes it from a   *)
(* session that stays pending, and no session gets one back.                *)
THEOREM CredentialPasses == Spec => CredentialPassesOn
<1>1. IInv /\ [Next]_vars
        => [\A s \in Sessions :
              /\ (session[s] # "none" /\ ~HasCredential(s)) => ~HasCredential(s)'
              /\ (session[s] = "pending" /\ session'[s] = "pending"
                    /\ HasCredential(s) /\ ~HasCredential(s)')
                   => \/ \E t \in ValidTokens(s) : t \in expired'
                      \/ \E r \in Refreshing(s) : request'[r] = Idle]_vars
  <2> SUFFICES ASSUME IInv, [Next]_vars, NEW s \in Sessions
               PROVE  /\ (session[s] # "none" /\ ~HasCredential(s)) => ~HasCredential(s)'
                      /\ (session[s] = "pending" /\ session'[s] = "pending"
                            /\ HasCredential(s) /\ ~HasCredential(s)')
                           => \/ \E t \in ValidTokens(s) : t \in expired'
                              \/ \E r \in Refreshing(s) : request'[r] = Idle
    OBVIOUS
  <2>1. (session[s] # "none" /\ ~HasCredential(s)) => ~HasCredential(s)'
    BY CredentialStep DEF IInv, HasCredential
  <2> QED
    BY <2>1, LastCredential
<1> QED
  BY <1>1, InitInv, StepInv, PTL DEF Spec, CredentialPassesOn

-----------------------------------------------------------------------------
(* The rooms                                                               *)

(* What keeps rooms and peers together: a socket that has not connected has *)
(* no session.                                                              *)
RoomsInv ==
    /\ RoomsMatchPeers
    /\ \A w \in Sockets : socket[w] = "none" => peer[w] = NoSession

(* Each handler of the signaling endpoint keeps rooms and peers together.   *)
LEMMA RoomsStep == TypeOK /\ RoomsInv /\ [Next]_vars => RoomsInv'
<1> SUFFICES ASSUME TypeOK, RoomsInv, [Next]_vars,
                    NEW v \in Sockets, NEW s
             PROVE  /\ s \in Sessions =>
                         /\ v \in rooms'[s] => peer'[v] = s /\ socket'[v] \in {"open", "closing"}
                         /\ (socket'[v] = "open" /\ peer'[v] = s) => v \in rooms'[s]
                    /\ socket'[v] = "none" => peer'[v] = NoSession
  BY DEF RoomsInv, RoomsMatchPeers
<1> USE DEF TypeOK, RegistryTypeOK, SignalingTypeOK, RoomsInv, RoomsMatchPeers
<1>1. CASE UNCHANGED signalingVars
  BY <1>1 DEF signalingVars
<1>2. CASE \E w \in Sockets : Connect(w)
  BY <1>2 DEF Connect
<1>3. CASE \E w \in Sockets : handleLeave(w)
  BY <1>3 DEF handleLeave, Receiving
<1>4. CASE \E w \in Sockets : handleDisconnect(w)
  BY <1>4 DEF handleDisconnect
<1>5. CASE \E w \in Sockets, x \in Sessions, t \in Tokens : handleJoin(w, x, t)
  BY <1>5 DEF handleJoin, Receiving
<1>6. CASE \E S \in SUBSET Sessions : notifyRevocation(S)
  BY <1>6 DEF notifyRevocation
<1> QED
  BY <1>1, <1>2, <1>3, <1>4, <1>5, <1>6, SignalingStep

LEMMA RoomsInit == Init => RoomsInv
BY DEF Init, SignalingInit, RoomsInv, RoomsMatchPeers

(* The rooms hold the sockets that are in them by their own account, through *)
(* joins, leaves, closes and revocations in any order.                       *)
THEOREM RoomsMatch == Spec => []RoomsMatchPeers
<1>1. Init => TypeOK
  BY InitInv DEF IInv
<1>2. RoomsInv => RoomsMatchPeers
  BY DEF RoomsInv
<1> QED
  BY <1>1, <1>2, RoomsInit, RoomsStep, TypeStep, PTL DEF Spec

-----------------------------------------------------------------------------
(* The registry as the routes use it                                       *)

(* The same promise, of a process that does not stop. *)
Live == INSTANCE LiveTokens WITH
    live <- {t \in Tokens : IsValid(t)},
    dead <- revoked \cup expired

(* Only tokens that were issued are revoked or expire. *)
DeadInv == \A t \in revoked \cup expired : Issued(t)

(* A step of the gateway keeps that, and is one of the promise's or nobody  *)
(* who asks isValid sees it.                                                *)
LEMMA LiveStep ==
    ASSUME TypeOK, DeadInv, [Next]_vars
    PROVE  DeadInv' /\ [Live!Work]_(Live!liveTokensVars)
<1> USE DEF TypeOK, RegistryTypeOK, DeadInv, Issued, IsValid
<1>1. CASE \E T \in SUBSET registered : RevokeTokens(T)
  <2> PICK T \in SUBSET registered : RevokeTokens(T)
    BY <1>1
  <2>1. Live!End(T) /\ T \in SUBSET Tokens
    BY DEF RevokeTokens, Live!End
  <2> QED
    BY <2>1 DEF RevokeTokens, Live!Work
<1>2. CASE \E t \in Tokens : Expire(t)
  <2> PICK t \in Tokens : Expire(t)
    BY <1>2
  <2>1. Live!End({t})
    BY DEF Expire, Live!End
  <2> QED
    BY <2>1 DEF Expire, Live!Work
<1>3. CASE cleanup
  BY <1>3 DEF cleanup, Live!liveTokensVars
<1>4. CASE UNCHANGED registryVars
  BY <1>4 DEF registryVars, Live!liveTokensVars
<1>5. CASE \E t \in Tokens, s \in Sessions : ~Issued(t) /\ register(t, s)
  <2> PICK t \in Tokens, s \in Sessions : ~Issued(t) /\ register(t, s)
    BY <1>5
  <2>1. Live!Issue(t)
    BY DEF register, Live!Issue
  <2> QED
    BY <2>1 DEF register, Live!Work
<1> QED
  BY <1>1, <1>2, <1>3, <1>4, <1>5, RegistryStep

(* The routes, with the tokens they issue, replace and revoke across their  *)
(* awaits, ask of the registry no more than what it promises: no token is   *)
(* put in force twice or after its end.                                     *)
THEOREM RegistryKeepsPromise == Spec => Live!WorkSpec
<1>1. Init => DeadInv /\ Live!Init
  BY DEF Init, RegistryInit, DeadInv, IsValid, Live!Init
<1> QED
  BY <1>1, TypeCorrect, LiveStep, PTL DEF Spec, Live!WorkSpec
=============================================================================
