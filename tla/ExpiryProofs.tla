----------------------------- MODULE ExpiryProofs -----------------------------
(***************************************************************************)
(* The warnings of ExpiryMonitor, for all intervals, thresholds and        *)
(* lifetimes.                                                              *)
(***************************************************************************)
EXTENDS ExpiryMonitor, TLAPS

(* The check to come is at most an interval away, and no check due is       *)
(* passed over.                                                             *)
CheckInv == time <= nextCheck /\ nextCheck <= time + checkInterval

(* What the state of a token says of its warnings.  The last but one is the *)
(* reason no token slips through: one not warned of outlives the next check. *)
TokenInv(t) ==
    /\ warnings[t] <= 1
    /\ token[t] = "none" => warnings[t] = 0 /\ t \notin warnedTokens
    /\ token[t] = "registered" => (t \in warnedTokens <=> warnings[t] = 1)
    /\ token[t] # "none" => expiresAt[t] = issuedAt[t] + ttl
    /\ (token[t] = "registered" /\ t \notin warnedTokens /\ checkInterval < ttl)
         => nextCheck < expiresAt[t]
    /\ (token[t] = "cleaned up" /\ checkInterval < ttl) => warnings[t] = 1

IInv == ExpiryTypeOK /\ CheckInv /\ \A t \in Jtis : TokenInv(t)

(* The constants and the clock are numbers. *)
LEMMA Numbers ==
    /\ ttl \in Nat /\ LastInstant \in Nat
    /\ warningThreshold \in Nat /\ checkInterval \in Nat /\ cleanupInterval \in Nat
    /\ 0 < checkInterval /\ checkInterval <= warningThreshold
  BY ExpiryAssumption DEF ExpiryAssumption

-----------------------------------------------------------------------------
(* The types hold of every state.                                          *)
LEMMA InitTypes == ExpiryInit => ExpiryTypeOK
  BY Numbers DEF ExpiryInit, ExpiryTypeOK

(* Every step keeps them. *)
LEMMA StepTypes == ExpiryTypeOK /\ [ExpiryNext]_monitorVars => ExpiryTypeOK'
<1> SUFFICES ASSUME ExpiryTypeOK, [ExpiryNext]_monitorVars PROVE ExpiryTypeOK'
  OBVIOUS
<1>1. time \in Nat /\ time + 1 \in Nat /\ time + ttl \in Nat
  <2>1. time \in Nat
    BY DEF ExpiryTypeOK
  <2> QED
    BY <2>1, Numbers
<1>2. time + checkInterval \in Nat /\ time + cleanupInterval \in Nat
  BY <1>1, Numbers
<1>3. ASSUME NEW t \in Jtis, IssueToken(t) PROVE ExpiryTypeOK'
  BY <1>1, <1>3 DEF IssueToken, ExpiryTypeOK
<1>4. ASSUME NEW t \in Jtis, RevokeToken(t) PROVE ExpiryTypeOK'
  BY <1>4 DEF RevokeToken, ExpiryTypeOK
<1>5. CASE Check
  <2> DEFINE warned(t) == IF t \in getExpiringSoon(warningThreshold) \ warnedTokens
                          THEN 1 ELSE 0
  <2>1. warnings' = [t \in Jtis |-> warnings[t] + warned(t)]
    BY <1>5 DEF Check
  <2>2. ASSUME NEW t \in Jtis PROVE warnings[t] + warned(t) \in Nat
    <3>1. warnings[t] \in Nat
      BY DEF ExpiryTypeOK
    <3> QED
      BY <3>1
  <2>3. warnings' \in [Jtis -> Nat]
    BY <2>1, <2>2
  <2>4. warnedTokens' \subseteq Jtis
    BY <1>5 DEF Check, Registered
  <2> QED
    BY <1>2, <1>5, <2>3, <2>4 DEF Check, ExpiryTypeOK
<1>6. CASE CleanupTokens
  BY <1>2, <1>6 DEF CleanupTokens, ExpiryTypeOK
<1>7. CASE TimePasses
  BY <1>1, <1>7 DEF TimePasses, ExpiryTypeOK
<1>8. CASE UNCHANGED monitorVars
  BY <1>8 DEF monitorVars, ExpiryTypeOK
<1> QED
  BY <1>3, <1>4, <1>5, <1>6, <1>7, <1>8 DEF ExpiryNext

(* Every variable of the monitor and of its clock keeps its type, whatever  *)
(* the intervals.                                                           *)
THEOREM ExpiryTypeCorrect == ExpirySpec => []ExpiryTypeOK
  BY InitTypes, StepTypes, PTL DEF ExpirySpec

-----------------------------------------------------------------------------
(* The next check stays within an interval.                                *)
LEMMA StepCheck ==
    ASSUME ExpiryTypeOK, CheckInv, [ExpiryNext]_monitorVars PROVE CheckInv'
<1>1. time \in Nat /\ nextCheck \in Nat
  BY DEF ExpiryTypeOK
<1>2. time <= nextCheck /\ nextCheck <= time + checkInterval
  BY DEF CheckInv
<1>3. \/ time' = time /\ nextCheck' = nextCheck
      \/ time' = time /\ nextCheck' = time + checkInterval
      \/ time < nextCheck /\ time' = time + 1 /\ nextCheck' = nextCheck
  BY DEF ExpiryNext, IssueToken, RevokeToken, Check, CleanupTokens, TimePasses, monitorVars
<1>4. time' <= nextCheck' /\ nextCheck' <= time' + checkInterval
  BY <1>1, <1>2, <1>3, Numbers
<1> QED
  BY <1>4 DEF CheckInv

(* Every step keeps what the state of a token says of its warnings. *)
LEMMA StepToken ==
    ASSUME ExpiryTypeOK, CheckInv, [ExpiryNext]_monitorVars,
           NEW t \in Jtis, TokenInv(t)
    PROVE  TokenInv(t)'
<1>1. /\ time \in Nat /\ nextCheck \in Nat
      /\ issuedAt[t] \in Nat /\ expiresAt[t] \in Nat /\ warnings[t] \in Nat
  BY DEF ExpiryTypeOK
<1>2. time <= nextCheck /\ nextCheck <= time + checkInterval
  BY DEF CheckInv
<1>3. DOMAIN token = Jtis /\ DOMAIN issuedAt = Jtis /\ DOMAIN expiresAt = Jtis
  BY DEF ExpiryTypeOK
<1>4. CASE UNCHANGED <<token[t], issuedAt[t], expiresAt[t], warnings[t], nextCheck>> /\
           (t \in warnedTokens' <=> t \in warnedTokens)
  BY <1>4 DEF TokenInv
<1>5. ASSUME NEW u \in Jtis, IssueToken(u) PROVE TokenInv(t)'
  <2>1. CASE u = t
    <3>1. /\ token[t] = "none" /\ token'[t] = "registered"
          /\ issuedAt'[t] = time /\ expiresAt'[t] = time + ttl
          /\ warnings' = warnings /\ warnedTokens' = warnedTokens /\ nextCheck' = nextCheck
      BY <1>3, <1>5, <2>1 DEF IssueToken
    <3> QED
      BY <1>1, <1>2, <3>1, Numbers DEF TokenInv
  <2>2. CASE u # t
    BY <1>4, <1>5, <2>2, <1>3 DEF IssueToken
  <2> QED
    BY <2>1, <2>2
<1>6. ASSUME NEW u \in Jtis, RevokeToken(u) PROVE TokenInv(t)'
  <2>1. CASE u = t
    <3>1. /\ token[t] = "registered" /\ token'[t] = "revoked"
          /\ issuedAt' = issuedAt /\ expiresAt' = expiresAt /\ warnings' = warnings
      BY <1>3, <1>6, <2>1 DEF RevokeToken, Registered
    <3> QED
      BY <3>1 DEF TokenInv
  <2>2. CASE u # t
    BY <1>4, <1>6, <2>2, <1>3 DEF RevokeToken
  <2> QED
    BY <2>1, <2>2
<1>7. CASE Check
  <2> DEFINE soon == t \in getExpiringSoon(warningThreshold)
  <2>1. soon <=> /\ token[t] = "registered" /\ time < expiresAt[t]
                 /\ expiresAt[t] <= time + warningThreshold
    BY DEF getExpiringSoon, Registered
  <2>2. /\ time = nextCheck /\ nextCheck' = time + checkInterval
        /\ token' = token /\ issuedAt' = issuedAt /\ expiresAt' = expiresAt
    BY <1>7 DEF Check
  <2>3. warnings'[t] = IF soon /\ t \notin warnedTokens THEN warnings[t] + 1 ELSE warnings[t]
    BY <1>1, <1>7 DEF Check
  <2>4. t \in warnedTokens' <=> (t \in warnedTokens \/ soon) /\ token[t] = "registered"
    BY <1>7 DEF Check, Registered
  <2> HIDE DEF soon
  <2>5. CASE token[t] = "registered"
    BY <1>1, <1>2, <2>1, <2>2, <2>3, <2>4, <2>5, Numbers DEF TokenInv
  <2>6. CASE token[t] # "registered"
    BY <2>1, <2>2, <2>3, <2>4, <2>6 DEF TokenInv
  <2> QED
    BY <2>5, <2>6
<1>8. CASE CleanupTokens
  <2>1. /\ issuedAt' = issuedAt /\ expiresAt' = expiresAt /\ warnings' = warnings
        /\ warnedTokens' = warnedTokens /\ nextCheck' = nextCheck
    BY <1>8 DEF CleanupTokens
  <2>2. \/ token'[t] = token[t]
        \/ token[t] = "registered" /\ expiresAt[t] <= time /\ token'[t] = "cleaned up"
    BY <1>8 DEF CleanupTokens, Registered
  <2>3. CASE token'[t] = token[t]
    BY <2>1, <2>3 DEF TokenInv
  <2>4. CASE token[t] = "registered" /\ expiresAt[t] <= time /\ token'[t] = "cleaned up"
    <3>1. expiresAt[t] <= time
      BY <2>4
    <3>2. ~(nextCheck < expiresAt[t])
      BY <1>1, <1>2, <3>1
    <3> QED
      BY <2>1, <2>4, <3>2 DEF TokenInv
  <2> QED
    BY <2>2, <2>3, <2>4
<1>9. CASE TimePasses
  BY <1>4, <1>9 DEF TimePasses
<1>10. CASE UNCHANGED monitorVars
  BY <1>4, <1>10 DEF monitorVars
<1> QED
  BY <1>5, <1>6, <1>7, <1>8, <1>9, <1>10 DEF ExpiryNext

(* The invariant holds and is kept. *)
LEMMA IInvCorrect == ExpirySpec => []IInv
<1>1. ExpiryInit => IInv
  BY InitTypes, Numbers DEF ExpiryInit, IInv, CheckInv, TokenInv
<1>2. IInv /\ [ExpiryNext]_monitorVars => IInv'
  BY StepTypes, StepCheck, StepToken DEF IInv
<1> QED
  BY <1>1, <1>2, PTL DEF ExpirySpec

(* No token is warned of twice, and one that lived for more than an         *)
(* interval of the monitor, without being revoked, was warned of before it  *)
(* expired: for every lifetime and every interval within the threshold.     *)
THEOREM WarnedInTime == ExpirySpec => []WarnedBeforeExpiry
<1>1. ASSUME IInv, NEW t \in Jtis
      PROVE  /\ warnings[t] <= 1
             /\ (/\ token[t] \in {"registered", "cleaned up"}
                 /\ expiresAt[t] <= time
                 /\ issuedAt[t] + checkInterval < expiresAt[t]) => warnings[t] = 1
  <2>1. /\ time \in Nat /\ nextCheck \in Nat /\ time <= nextCheck
        /\ issuedAt[t] \in Nat /\ expiresAt[t] \in Nat
    BY <1>1 DEF IInv, ExpiryTypeOK, CheckInv
  <2>2. TokenInv(t)
    BY <1>1 DEF IInv
  <2>3. ASSUME token[t] \in {"registered", "cleaned up"}, expiresAt[t] <= time,
               issuedAt[t] + checkInterval < expiresAt[t]
        PROVE  warnings[t] = 1
    <3>1. expiresAt[t] = issuedAt[t] + ttl
      BY <2>2, <2>3 DEF TokenInv
    <3>2. expiresAt[t] <= time /\ issuedAt[t] + checkInterval < expiresAt[t]
      BY <2>3
    <3>3. checkInterval < ttl
      BY <2>1, <3>1, <3>2, Numbers
    <3>4. ~(nextCheck < expiresAt[t])
      BY <2>1, <3>2
    <3> QED
      BY <2>2, <2>3, <3>3, <3>4 DEF TokenInv
  <2> QED
    BY <2>2, <2>3 DEF TokenInv
<1>2. IInv => WarnedBeforeExpiry
  BY <1>1 DEF WarnedBeforeExpiry
<1> QED
  BY <1>2, IInvCorrect, PTL
=============================================================================
