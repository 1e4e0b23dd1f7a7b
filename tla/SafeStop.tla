------------------------------- MODULE SafeStop -------------------------------
(***************************************************************************)
(* What the safety monitor promises, without counters or clocks: a robot   *)
(* is running, suspended (it may resume when the operator is heard again)  *)
(* or latched (only a reset, that is a new session, lets it move again).   *)
(***************************************************************************)
VARIABLES
    mode,       (* "running", "suspended" or "latched"                      *)
    emergency,  (* an e-stop, an expiry or a revocation since the last reset *)
    overdue     (* the operator has been silent for longer than allowed     *)

safeStopVars == <<mode, emergency, overdue>>

Init == mode = "running" /\ emergency = FALSE /\ overdue = FALSE

(* An emergency latches, whatever the mode was. *)
Latch == mode' = "latched" /\ emergency' = TRUE /\ UNCHANGED overdue

(* Too many invalid commands latch a running robot. *)
Trip == mode = "running" /\ mode' = "latched" /\ UNCHANGED <<emergency, overdue>>

FallSilent == overdue' = TRUE /\ UNCHANGED <<mode, emergency>>

Suspend ==
    /\ mode = "running" /\ overdue
    /\ mode' = "suspended"
    /\ UNCHANGED <<emergency, overdue>>

(* A valid command ends the silence and a suspension, never a latch. *)
Hear ==
    /\ overdue' = FALSE
    /\ mode' = IF mode = "latched" THEN "latched" ELSE "running"
    /\ UNCHANGED emergency

Restart == mode' = "running" /\ emergency' = FALSE /\ overdue' = FALSE

Next == Latch \/ Trip \/ FallSilent \/ Suspend \/ Hear \/ Restart

SafetySpec == Init /\ [][Next]_safeStopVars

Spec == SafetySpec /\ WF_safeStopVars(Suspend)
=============================================================================
