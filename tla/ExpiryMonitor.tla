---------------------------- MODULE ExpiryMonitor ----------------------------
(***************************************************************************)
(* The gateway's warnings of tokens about to expire: expiry-monitor.ts     *)
(* over the clock of the token registry, both of whose timers index.ts     *)
(* starts.  A timer is never late by a unit of time, the callbacks due at  *)
(* one instant come in any order.                                          *)
(***************************************************************************)
EXTENDS Integers

CONSTANTS
    Jtis,               (* the tokens                                        *)
    ttl,                (* the lifetime tokens are issued with               *)
    warningThreshold, checkInterval, cleanupInterval,
    LastInstant         (* bounds the time explored                          *)

ASSUME ExpiryAssumption ==
    /\ ttl \in Nat /\ LastInstant \in Nat
    /\ warningThreshold \in Nat \ {0}
    /\ checkInterval \in Nat \ {0}
    /\ cleanupInterval \in Nat \ {0}
    /\ checkInterval <= warningThreshold

VARIABLES
    time,
    token,              (* "none", "registered", "revoked" or "cleaned up"   *)
    issuedAt, expiresAt,
    warnedTokens,
    warnings,           (* the warnings given of each token                  *)
    nextCheck, nextCleanup

monitorVars == <<time, token, issuedAt, expiresAt, warnedTokens, warnings,
                 nextCheck, nextCleanup>>

ExpiryInit ==
    /\ time = 0
    /\ token = [t \in Jtis |-> "none"]
    /\ issuedAt = [t \in Jtis |-> 0]
    /\ expiresAt = [t \in Jtis |-> 0]
    /\ warnedTokens = {}
    /\ warnings = [t \in Jtis |-> 0]
    /\ nextCheck = checkInterval
    /\ nextCleanup = cleanupInterval

Registered == {t \in Jtis : token[t] = "registered"}

IssueToken(t) ==
    /\ token[t] = "none"
    /\ token' = [token EXCEPT ![t] = "registered"]
    /\ issuedAt' = [issuedAt EXCEPT ![t] = time]
    /\ expiresAt' = [expiresAt EXCEPT ![t] = time + ttl]
    /\ UNCHANGED <<time, warnedTokens, warnings, nextCheck, nextCleanup>>

RevokeToken(t) ==
    /\ t \in Registered
    /\ token' = [token EXCEPT ![t] = "revoked"]
    /\ UNCHANGED <<time, issuedAt, expiresAt, warnedTokens, warnings, nextCheck, nextCleanup>>

(* Faulty variant: a token just at the threshold is left to the next check. *)
getExpiringLater(threshold) ==
    {t \in Registered : time < expiresAt[t] /\ expiresAt[t] < time + threshold}

getExpiringSoon(threshold) ==
    {t \in Registered : time < expiresAt[t] /\ expiresAt[t] <= time + threshold}

(* The callback of the monitor's interval: those not warned of are, and     *)
(* those that left the registry are forgotten.                              *)
Check ==
    LET expiring == getExpiringSoon(warningThreshold) IN
    /\ nextCheck = time
    /\ nextCheck' = time + checkInterval
    /\ warnings' = [t \in Jtis |->
                      warnings[t] + (IF t \in expiring \ warnedTokens THEN 1 ELSE 0)]
    /\ warnedTokens' = (warnedTokens \cup expiring) \cap Registered
    /\ UNCHANGED <<time, token, issuedAt, expiresAt, nextCleanup>>

(* startCleanup *)
CleanupTokens ==
    /\ nextCleanup = time
    /\ nextCleanup' = time + cleanupInterval
    /\ token' = [t \in Jtis |-> IF t \in Registered /\ expiresAt[t] <= time
                                THEN "cleaned up" ELSE token[t]]
    /\ UNCHANGED <<time, issuedAt, expiresAt, warnedTokens, warnings, nextCheck>>

TimePasses ==
    /\ time < LastInstant /\ time < nextCheck /\ time < nextCleanup
    /\ time' = time + 1
    /\ UNCHANGED <<token, issuedAt, expiresAt, warnedTokens, warnings, nextCheck, nextCleanup>>

ExpiryNext ==
    \/ \E t \in Jtis : IssueToken(t) \/ RevokeToken(t)
    \/ Check
    \/ CleanupTokens
    \/ TimePasses

ExpirySpec == ExpiryInit /\ [][ExpiryNext]_monitorVars

ExpiryTypeOK ==
    /\ time \in Nat
    /\ token \in [Jtis -> {"none", "registered", "revoked", "cleaned up"}]
    /\ issuedAt \in [Jtis -> Nat] /\ expiresAt \in [Jtis -> Nat]
    /\ warnedTokens \subseteq Jtis
    /\ warnings \in [Jtis -> Nat]
    /\ nextCheck \in Nat /\ nextCleanup \in Nat

-----------------------------------------------------------------------------
(* Properties                                                              *)

(* A token that lived for more than an interval of the monitor, and was not *)
(* revoked, was warned of before it expired; and no token is warned of      *)
(* twice, although the monitor forgets it once it has left the registry.    *)
WarnedBeforeExpiry ==
    \A t \in Jtis :
        /\ warnings[t] <= 1
        /\ (/\ token[t] \in {"registered", "cleaned up"}
            /\ expiresAt[t] <= time
            /\ issuedAt[t] + checkInterval < expiresAt[t]) => warnings[t] = 1
=============================================================================
