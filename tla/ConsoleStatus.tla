---------------------------- MODULE ConsoleStatus ----------------------------
(***************************************************************************)
(* The times the console shows (SessionStatus.tsx): how long the session   *)
(* has run and how long its token has left.  Each is computed when its     *)
(* effect runs, when the props it depends on change, and then by an        *)
(* interval of a second, the unit of time here.  Permissions, error text   *)
(* and the 300 ms animation are left out.                                  *)
(***************************************************************************)
EXTENDS Integers

CONSTANTS
    MaxClock,           (* bounds the time explored                          *)
    Dates,              (* the start and expiry times the props may hold     *)
    NoDate,             (* undefined, and the null of timeToExpiry           *)
    ExpiryWarning       (* TOKEN_EXPIRY_WARNING_THRESHOLD, in seconds        *)

ASSUME StatusAssumption ==
    /\ MaxClock \in Nat /\ ExpiryWarning \in Nat \ {0}
    /\ Dates \subseteq Nat
    /\ NoDate \notin Int

VARIABLES
    clock,
    connection,         (* the prop connectionState                          *)
    sessionStartTime, tokenExpiresAt,
    elapsedTime, timeToExpiry,
    due                 (* the intervals whose callback is due               *)

statusVars == <<clock, connection, sessionStartTime, tokenExpiresAt,
                elapsedTime, timeToExpiry, due>>

ConnectionStates == {"disconnected", "connecting", "connected",
                     "reconnecting", "failed", "revoked"}

isConnected(c) == c \in {"connected", "reconnecting"}

StatusInit ==
    /\ clock = 0
    /\ connection = "disconnected"
    /\ sessionStartTime = NoDate /\ tokenExpiresAt = NoDate
    /\ elapsedTime = 0 /\ timeToExpiry = NoDate
    /\ due = {}

(* Negative while the start is still to come. *)
updateTimer(start) == clock - start

(* Faulty variant: the time left is not bounded below. *)
updateExpiryUnbounded(expiry) == expiry - clock

updateExpiry(expiry) == IF expiry > clock THEN expiry - clock ELSE 0

(* Faulty variant: the effect depends on the connection alone. *)
ExpiryEffectMissesToken(c, expiry) ==
    timeToExpiry' = IF isConnected(c) = isConnected(connection) THEN timeToExpiry
                    ELSE IF expiry = NoDate \/ ~isConnected(c) THEN NoDate
                    ELSE updateExpiry(expiry)

TimerEffect(c, start) ==
    elapsedTime' = IF <<start, isConnected(c)>> = <<sessionStartTime, isConnected(connection)>>
                   THEN elapsedTime
                   ELSE IF start = NoDate \/ ~isConnected(c) THEN 0
                   ELSE updateTimer(start)

ExpiryEffect(c, expiry) ==
    timeToExpiry' = IF <<expiry, isConnected(c)>> = <<tokenExpiresAt, isConnected(connection)>>
                    THEN timeToExpiry
                    ELSE IF expiry = NoDate \/ ~isConnected(c) THEN NoDate
                    ELSE updateExpiry(expiry)

(* A render with new props and the effects it runs.  An effect that runs    *)
(* again clears its interval, and with it the callback that was due.        *)
Render(c, start, expiry) ==
    /\ connection' = c /\ sessionStartTime' = start /\ tokenExpiresAt' = expiry
    /\ TimerEffect(c, start)
    /\ ExpiryEffect(c, expiry)
    /\ due' = {i \in due :
                 /\ isConnected(c) = isConnected(connection)
                 /\ i = "timer" => start = sessionStartTime
                 /\ i = "expiry" => expiry = tokenExpiresAt}
    /\ UNCHANGED clock

Interval(i) ==
    /\ i \in due
    /\ due' = due \ {i}
    /\ elapsedTime' = IF i = "timer" THEN updateTimer(sessionStartTime) ELSE elapsedTime
    /\ timeToExpiry' = IF i = "expiry" THEN updateExpiry(tokenExpiresAt) ELSE timeToExpiry
    /\ UNCHANGED <<clock, connection, sessionStartTime, tokenExpiresAt>>

(* A second passes; no callback is late by more than one. *)
Second ==
    /\ clock < MaxClock
    /\ due = {}
    /\ clock' = clock + 1
    /\ due' = {i \in {"timer", "expiry"} :
                 /\ isConnected(connection)
                 /\ (IF i = "timer" THEN sessionStartTime ELSE tokenExpiresAt) # NoDate}
    /\ UNCHANGED <<connection, sessionStartTime, tokenExpiresAt, elapsedTime, timeToExpiry>>

StatusNext ==
    \/ \E c \in ConnectionStates, start, expiry \in Dates \cup {NoDate} :
          Render(c, start, expiry)
    \/ \E i \in {"timer", "expiry"} : Interval(i)
    \/ Second

StatusTypeOK ==
    /\ clock \in 0..MaxClock
    /\ connection \in ConnectionStates
    /\ {sessionStartTime, tokenExpiresAt} \subseteq Dates \cup {NoDate}
    /\ elapsedTime \in Int /\ elapsedTime <= MaxClock
    /\ timeToExpiry \in Nat \cup {NoDate}
    /\ due \subseteq {"timer", "expiry"}

-----------------------------------------------------------------------------
(* Properties                                                              *)

showExpiryWarning == timeToExpiry # NoDate /\ timeToExpiry < ExpiryWarning

(* What is shown is about the session and the token of now, a second old at *)
(* most, whatever order the connection, the session and a renewed token     *)
(* change in; and nothing is shown of a connection that is gone.  So a      *)
(* token about to expire is announced, and one that is renewed is not.      *)
ShownTimesAreFresh ==
    /\ ~isConnected(connection) => elapsedTime = 0 /\ timeToExpiry = NoDate
    /\ isConnected(connection) /\ sessionStartTime # NoDate =>
         clock - sessionStartTime - elapsedTime \in 0..1
    /\ isConnected(connection) /\ tokenExpiresAt # NoDate =>
         /\ timeToExpiry # NoDate
         /\ timeToExpiry - updateExpiry(tokenExpiresAt) \in 0..1
         /\ tokenExpiresAt < clock + ExpiryWarning - 1 => showExpiryWarning
         /\ showExpiryWarning => tokenExpiresAt < clock + ExpiryWarning
=============================================================================
