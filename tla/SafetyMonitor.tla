---------------------------- MODULE SafetyMonitor ----------------------------
(***************************************************************************)
(* The robot agent's safety monitor (robot-agent/internal/safety).         *)
(*                                                                         *)
(* Every exported method of Monitor takes its mutex for its whole body and *)
(* runs the safe-stop callback with the mutex held, so each method is one  *)
(* action.  Who calls them, and in which order, is RobotAgent's business;  *)
(* here any call may come at any time.                                     *)
(*                                                                         *)
(* Clocks.  The code stores instants and compares the time elapsed since   *)
(* them with a limit.  The model keeps the elapsed time itself and stops   *)
(* counting one past the limit: a longer silence cannot be told apart.     *)
(***************************************************************************)
EXTENDS Naturals

CONSTANTS
    ControlLossTimeout,    (* controlLossTimeout, in ticks                  *)
    InvalidCmdThreshold,   (* invalidCmdThreshold                           *)
    InvalidCmdTimeWindow   (* invalidCmdTimeWindow, in ticks; 0 disables it *)

ASSUME MonitorAssumption ==
    /\ ControlLossTimeout \in Nat
    /\ InvalidCmdThreshold \in Nat \ {0}
    /\ InvalidCmdTimeWindow \in Nat

VARIABLES
    controlAge,       (* time.Since(lastControlTime)                        *)
    invalidCmdCount,  (* saturates at the threshold it is compared with     *)
    windowAge,        (* now - firstInvalidCmdTime; 0 while the count is 0, *)
                      (* or without a window                                *)
    stopped,
    inControlLoss,
    haltFailed        (* haltFailed.Error: the last callback reported   *)
                      (* that the hardware did not stop                     *)

timers == <<controlAge, windowAge>>
monitorVars == <<controlAge, invalidCmdCount, windowAge, stopped,
                 inControlLoss, haltFailed>>

Capped(n, limit) == IF n > limit THEN limit ELSE n

-----------------------------------------------------------------------------

(* NewMonitor: the silence is counted from construction on. *)
MonitorInit ==
    /\ controlAge = 0
    /\ invalidCmdCount = 0
    /\ windowAge = 0
    /\ stopped = FALSE
    /\ inControlLoss = FALSE
    /\ haltFailed = FALSE

(* The first trigger stops the robot and calls back; any later one is       *)
(* dropped while the robot is stopped.  The callback may report an error.   *)
(* The trigger's name only reaches logs and audit events.                   *)
triggerSafeStop ==
    /\ stopped' = TRUE
    /\ IF stopped THEN UNCHANGED haltFailed ELSE haltFailed' \in BOOLEAN

(* Faulty variant: a valid command clears every stop. *)
OnValidControlClearsLatch ==
    /\ controlAge' = 0
    /\ invalidCmdCount' = 0
    /\ windowAge' = 0
    /\ stopped' = FALSE
    /\ inControlLoss' = FALSE
    /\ UNCHANGED haltFailed

(* A valid command forgets the invalid ones and recovers from control loss, *)
(* and from nothing else.                                                   *)
OnValidControl ==
    /\ controlAge' = 0
    /\ invalidCmdCount' = 0
    /\ windowAge' = 0
    /\ stopped' = (stopped /\ ~inControlLoss)
    /\ inControlLoss' = FALSE
    /\ UNCHANGED haltFailed

(* Faulty variant: the window never expires. *)
windowNeverExpires == FALSE

windowExpired ==
    /\ InvalidCmdTimeWindow > 0
    /\ invalidCmdCount > 0
    /\ windowAge > InvalidCmdTimeWindow

(* The invalid commands already in the window when another one arrives. *)
countInWindow == IF windowExpired THEN 0 ELSE invalidCmdCount

(* Faulty variant: the threshold is compared with > instead of >=. *)
OnInvalidCommandPastThreshold ==
    /\ windowAge' = IF countInWindow = 0 THEN 0 ELSE windowAge
    /\ invalidCmdCount' = Capped(countInWindow + 1, InvalidCmdThreshold)
    /\ IF countInWindow + 1 > InvalidCmdThreshold
         THEN triggerSafeStop
         ELSE UNCHANGED <<stopped, haltFailed>>
    /\ UNCHANGED <<controlAge, inControlLoss>>

(* Faulty variant: the command that restarts the window is not counted. *)
OnInvalidCommandLosesFirst ==
    /\ windowAge' = IF countInWindow = 0 THEN 0 ELSE windowAge
    /\ invalidCmdCount' = IF windowExpired
                            THEN 0
                            ELSE Capped(countInWindow + 1, InvalidCmdThreshold)
    /\ IF invalidCmdCount' >= InvalidCmdThreshold
         THEN triggerSafeStop
         ELSE UNCHANGED <<stopped, haltFailed>>
    /\ UNCHANGED <<controlAge, inControlLoss>>

OnInvalidCommand ==
    /\ windowAge' = IF countInWindow = 0 THEN 0 ELSE windowAge
    /\ invalidCmdCount' = Capped(countInWindow + 1, InvalidCmdThreshold)
    /\ IF invalidCmdCount' >= InvalidCmdThreshold
         THEN triggerSafeStop
         ELSE UNCHANGED <<stopped, haltFailed>>
    /\ UNCHANGED <<controlAge, inControlLoss>>

(* Faulty variant: an emergency during control loss stays recoverable. *)
OnEmergencyKeepsRecovery ==
    /\ triggerSafeStop
    /\ UNCHANGED <<controlAge, invalidCmdCount, windowAge, inControlLoss>>

(* OnEStop, OnTokenExpired and OnRevoked differ only in the trigger. *)
OnEmergency ==
    /\ inControlLoss' = FALSE
    /\ triggerSafeStop
    /\ UNCHANGED <<controlAge, invalidCmdCount, windowAge>>

OnEStop == OnEmergency
OnTokenExpired == OnEmergency
OnRevoked == OnEmergency

silent == controlAge > ControlLossTimeout

CheckControlLoss ==
    /\ ~stopped
    /\ silent
    /\ inControlLoss' = TRUE
    /\ triggerSafeStop
    /\ UNCHANGED <<controlAge, invalidCmdCount, windowAge>>

Reset ==
    /\ invalidCmdCount' = 0
    /\ windowAge' = 0
    /\ controlAge' = 0
    /\ stopped' = FALSE
    /\ inControlLoss' = FALSE
    /\ UNCHANGED haltFailed

(* Faulty variant: the age of the window is not kept in range. *)
TickUncapped ==
    /\ controlAge' = Capped(controlAge + 1, ControlLossTimeout + 1)
    /\ windowAge' = IF invalidCmdCount = 0 THEN 0 ELSE windowAge + 1
    /\ UNCHANGED <<invalidCmdCount, stopped, inControlLoss, haltFailed>>

(* Time passes. *)
Tick ==
    /\ controlAge' = Capped(controlAge + 1, ControlLossTimeout + 1)
    /\ windowAge' = IF invalidCmdCount = 0 \/ InvalidCmdTimeWindow = 0
                      THEN 0
                      ELSE Capped(windowAge + 1, InvalidCmdTimeWindow + 1)
    /\ UNCHANGED <<invalidCmdCount, stopped, inControlLoss, haltFailed>>

-----------------------------------------------------------------------------

CountersInRange ==
    /\ controlAge \in 0 .. ControlLossTimeout + 1
    /\ invalidCmdCount \in 0 .. InvalidCmdThreshold
    /\ windowAge \in 0 .. InvalidCmdTimeWindow + 1

FlagsOK == stopped \in BOOLEAN /\ inControlLoss \in BOOLEAN /\ haltFailed \in BOOLEAN

(* The monitor's variables have their types and its counters stay in range. *)
MonitorTypeOK == CountersInRange /\ FlagsOK
=============================================================================
