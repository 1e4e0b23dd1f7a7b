---------------------------- MODULE SafetyHistory ----------------------------
(***************************************************************************)
(* The safety monitor on its own, every call possible at every moment,     *)
(* with two history variables that remember what its callers reported.     *)
(* They only record: no action of the monitor reads them.                  *)
(***************************************************************************)
EXTENDS SafetyMonitor

VARIABLES
    emergency,  (* an emergency was reported since the last Reset           *)
    invalids    (* invalids[d]: invalid commands at most d ticks ago, none  *)
                (* before the last valid command, while not stopped         *)

vars == <<monitorVars, emergency, invalids>>

Ages == 0 .. InvalidCmdTimeWindow

NoInvalids == [d \in Ages |-> 0]

(* The invalid commands of the last InvalidCmdTimeWindow ticks. *)
InWindow(h) == h[InvalidCmdTimeWindow]

Init ==
    /\ MonitorInit
    /\ emergency = FALSE
    /\ invalids = NoInvalids

Valid == OnValidControl /\ invalids' = NoInvalids /\ UNCHANGED emergency

(* Commands that arrive while the robot is stopped are not recorded: only a *)
(* valid command or a Reset, which clear the record, let it run again.      *)
Invalid ==
    /\ OnInvalidCommand
    /\ invalids' = IF stopped THEN invalids ELSE [d \in Ages |-> invalids[d] + 1]
    /\ UNCHANGED emergency

Report ==
    /\ OnEStop \/ OnTokenExpired \/ OnRevoked
    /\ emergency' = TRUE
    /\ UNCHANGED invalids

Lose == CheckControlLoss /\ UNCHANGED <<emergency, invalids>>

Restart == Reset /\ emergency' = FALSE /\ invalids' = NoInvalids

Pass ==
    /\ Tick
    /\ invalids' = [d \in Ages |-> IF d = 0 THEN 0 ELSE invalids[d - 1]]
    /\ UNCHANGED emergency

Next == Valid \/ Invalid \/ Report \/ Lose \/ Restart \/ Pass

SafetySpec == Init /\ [][Next]_vars

(* runSafetyMonitor calls CheckControlLoss every 100 ms. *)
Spec == SafetySpec /\ WF_vars(Lose)

-----------------------------------------------------------------------------

(* The monitor's variables and the history variables have their types. *)
TypeOK ==
    /\ MonitorTypeOK
    /\ emergency \in BOOLEAN
    /\ invalids \in [Ages -> Nat]

(* Once an e-stop, an expiry or a revocation was reported the robot is      *)
(* stopped and not recoverable until Reset, even when the report found it   *)
(* already stopped for control loss: OnEStop, OnTokenExpired and OnRevoked  *)
(* take the recovery away although triggerSafeStop then does nothing.       *)
EmergencyLatch == emergency => stopped /\ ~inControlLoss

(* The window restarts at the first command after it expires, it does not   *)
(* slide, so more than the threshold may fall within its length; but a      *)
(* robot that is still running has seen less than twice threshold - 1 of    *)
(* them: the command that opened the expired window is out of reach.        *)
BurstBound ==
    (/\ InvalidCmdTimeWindow > 0
     /\ ~stopped
     /\ InWindow(invalids) > 0) =>
        InWindow(invalids) < 2 * (InvalidCmdThreshold - 1)

(* A stop for invalid commands is justified: this command and the threshold *)
(* minus one before it came within one window with no valid one in between. *)
InvalidStopJustified ==
    [][(/\ InvalidCmdTimeWindow > 0
        /\ ~stopped /\ stopped'
        /\ Invalid)
         => InWindow(invalids') >= InvalidCmdThreshold]_vars

(* The count alone decides: at the threshold the robot is stopped, and a    *)
(* robot that may recover from control loss is stopped too.                 *)
StopInv ==
    /\ invalidCmdCount >= InvalidCmdThreshold => stopped
    /\ inControlLoss => stopped

(* What a robot that runs has counted: of the window that is open, every    *)
(* command but the first is younger than the window; of the windows before, *)
(* the first command is older than InvalidCmdTimeWindow and at most         *)
(* InvalidCmdThreshold - 2 others are not.                                  *)
WindowInv ==
    ~stopped /\ InvalidCmdTimeWindow > 0 =>
        \A d \in Ages :
            /\ invalidCmdCount = 0 => invalids[d] = 0
            /\ invalidCmdCount > 0 =>
                 IF d < windowAge
                 THEN invalids[d] < invalidCmdCount
                 ELSE /\ invalids[d] >= invalidCmdCount
                      /\ invalids[d] <= invalidCmdCount + InvalidCmdThreshold - 2

(* The inductive invariant. *)
IInv == TypeOK /\ StopInv /\ EmergencyLatch /\ WindowInv

-----------------------------------------------------------------------------

Abstract == INSTANCE SafeStop WITH
    mode <- IF ~stopped THEN "running"
            ELSE IF inControlLoss THEN "suspended" ELSE "latched",
    overdue <- silent

(* The monitor implements SafeStop: the counters, the window and the clocks *)
(* never let a robot leave a latch, and silence suspends it.                *)
ImplementsSafeStop == Abstract!Spec

ImplementsSafeStopSafety == Abstract!SafetySpec
=============================================================================
