------------------------------ MODULE Reconnect ------------------------------
(***************************************************************************)
(* The console's reconnection counter (useWebRTCReconnect.ts), whose code  *)
(* useWebRTC.ts repeats inline.  scheduleReconnect overwrites the reference *)
(* to a timer that may still run: such a timer fires all the same and      *)
(* nothing can clear it.                                                   *)
(***************************************************************************)
EXTENDS Naturals

CONSTANTS
    MaxAttempts,  (* config.maxAttempts                                      *)
    Timers,       (* bounds the timeouts that run at once                    *)
    NoTimer

ASSUME ReconnectAssumption == MaxAttempts \in Nat \ {0} /\ NoTimer \notin Timers

VARIABLES
    timers,       (* the timeouts that have been set and neither fired nor   *)
                  (* been cleared                                            *)
    timerRef,     (* reconnectTimeoutRef.current                             *)
    attempts,     (* reconnectAttemptsRef.current                            *)
    wasConnected,
    gaveUp        (* onReconnectFailed was called since the last connection  *)

reconnectVars == <<timers, timerRef, attempts, wasConnected, gaveUp>>

ReconnectInit ==
    /\ timers = {}
    /\ timerRef = NoTimer
    /\ attempts = 0
    /\ wasConnected = FALSE
    /\ gaveUp = FALSE

(* With n attempts made and the timeouts of live running. *)
scheduleReconnect(n, live) ==
    \/ /\ n >= MaxAttempts
       /\ gaveUp' = TRUE
       /\ timers' = live
       /\ UNCHANGED timerRef
    \/ /\ n < MaxAttempts
       /\ \E t \in Timers \ live : timers' = live \cup {t} /\ timerRef' = t
       /\ UNCHANGED gaveUp

(* Faulty variant: an attempt that leaves the link down is the last. *)
TimeoutOnce(t, stillDisconnected) ==
    /\ t \in timers
    /\ attempts' = attempts + 1
    /\ timers' = timers \ {t}
    /\ gaveUp' = (gaveUp \/ attempts + 1 >= MaxAttempts)
    /\ UNCHANGED <<timerRef, wasConnected>>

(* The callback of setTimeout: an attempt is counted, nothing is sent. *)
Timeout(t, stillDisconnected) ==
    /\ t \in timers
    /\ attempts' = attempts + 1
    /\ \/ /\ attempts + 1 >= MaxAttempts
          /\ gaveUp' = TRUE
          /\ timers' = timers \ {t}
          /\ UNCHANGED timerRef
       \/ /\ attempts + 1 < MaxAttempts /\ stillDisconnected
          /\ scheduleReconnect(attempts + 1, timers \ {t})
       \/ /\ attempts + 1 < MaxAttempts /\ ~stillDisconnected
          /\ timers' = timers \ {t}
          /\ UNCHANGED <<timerRef, gaveUp>>
    /\ UNCHANGED wasConnected

handleConnected ==
    /\ wasConnected' = TRUE
    /\ attempts' = 0
    /\ timers' = timers \ {timerRef}
    /\ timerRef' = NoTimer
    /\ gaveUp' = FALSE

handleDisconnected ==
    /\ IF wasConnected THEN scheduleReconnect(attempts, timers)
                       ELSE UNCHANGED <<timers, timerRef, gaveUp>>
    /\ UNCHANGED <<attempts, wasConnected>>

cleanup ==
    /\ timers' = timers \ {timerRef}
    /\ timerRef' = NoTimer
    /\ UNCHANGED <<attempts, wasConnected, gaveUp>>

ReconnectTypeOK ==
    /\ timers \subseteq Timers
    /\ timerRef \in Timers \cup {NoTimer}
    /\ attempts \in Nat
    /\ wasConnected \in BOOLEAN
    /\ gaveUp \in BOOLEAN
=============================================================================
