---------------------------- MODULE MonitorProofs ----------------------------
(* What every operation of the safety monitor preserves, whoever calls it.   *)
EXTENDS SafetyMonitor, TLAPS

OperationButReset ==
    \/ OnValidControl \/ OnInvalidCommand \/ OnEmergency
    \/ CheckControlLoss \/ Tick
    \/ UNCHANGED monitorVars

MonitorOperation == OperationButReset \/ Reset

(* What Capped returns for a counter and its limit. *)
LEMMA CappedInRange ==
    ASSUME NEW limit \in Nat, NEW n \in Nat
    PROVE  /\ Capped(n, limit) \in 0 .. limit
           /\ Capped(n, limit) >= limit <=> n >= limit
BY DEF Capped

LEMMA MonitorInitType == MonitorInit => MonitorTypeOK
<1> SUFFICES ASSUME MonitorInit PROVE CountersInRange /\ FlagsOK
  BY DEF MonitorTypeOK
<1> USE DEF MonitorInit
<1>1. CountersInRange
  BY MonitorAssumption DEF MonitorAssumption, CountersInRange
<1>2. FlagsOK
  BY DEF FlagsOK
<1> QED
  BY <1>1, <1>2

(* No operation takes a counter out of its range. *)
LEMMA CountersStayInRange ==
    ASSUME MonitorTypeOK, MonitorOperation PROVE CountersInRange'
<1> USE MonitorAssumption DEF MonitorAssumption, MonitorTypeOK, CountersInRange
<1>1. CASE OnValidControl
  BY <1>1 DEF OnValidControl
<1>2. CASE OnInvalidCommand
  <2> USE <1>2 DEF OnInvalidCommand
  <2>1. countInWindow \in Nat
    BY DEF countInWindow
  <2>2. Capped(countInWindow + 1, InvalidCmdThreshold) \in 0 .. InvalidCmdThreshold
    BY <2>1, CappedInRange
  <2>3. windowAge' \in 0 .. InvalidCmdTimeWindow + 1
    OBVIOUS
  <2> QED
    BY <2>2, <2>3
<1>3. CASE OnEmergency
  BY <1>3 DEF OnEmergency
<1>4. CASE CheckControlLoss
  BY <1>4 DEF CheckControlLoss
<1>5. CASE Reset
  BY <1>5 DEF Reset
<1>6. CASE Tick
  BY <1>6 DEF Tick, Capped
<1>7. CASE UNCHANGED monitorVars
  BY <1>7 DEF monitorVars
<1> QED
  BY <1>1, <1>2, <1>3, <1>4, <1>5, <1>6, <1>7 DEF MonitorOperation, OperationButReset

LEMMA FlagsStayBoolean ==
    ASSUME MonitorTypeOK, MonitorOperation PROVE FlagsOK'
<1> USE DEF MonitorTypeOK, FlagsOK
<1>1. CASE OnValidControl
  BY <1>1 DEF OnValidControl
<1>2. CASE OnInvalidCommand
  BY <1>2 DEF OnInvalidCommand, triggerSafeStop
<1>3. CASE OnEmergency
  BY <1>3 DEF OnEmergency, triggerSafeStop
<1>4. CASE CheckControlLoss
  BY <1>4 DEF CheckControlLoss, triggerSafeStop
<1>5. CASE Reset
  BY <1>5 DEF Reset
<1>6. CASE Tick
  BY <1>6 DEF Tick
<1>7. CASE UNCHANGED monitorVars
  BY <1>7 DEF monitorVars
<1> QED
  BY <1>1, <1>2, <1>3, <1>4, <1>5, <1>6, <1>7 DEF MonitorOperation, OperationButReset

(* Only Reset takes a stop back that cannot recover. *)
LEMMA LatchedStaysStopped ==
    ASSUME stopped, ~inControlLoss, OperationButReset PROVE stopped'
<1>1. CASE OnValidControl
  BY <1>1 DEF OnValidControl
<1>2. CASE OnInvalidCommand \/ OnEmergency \/ CheckControlLoss \/ Tick
  BY <1>2 DEF OnInvalidCommand, OnEmergency, CheckControlLoss, Tick, triggerSafeStop
<1>3. CASE UNCHANGED monitorVars
  BY <1>3 DEF monitorVars
<1> QED
  BY <1>1, <1>2, <1>3 DEF OperationButReset

(* Every operation keeps the monitor's type. *)
LEMMA MonitorStepType ==
    ASSUME MonitorTypeOK, MonitorOperation PROVE MonitorTypeOK'
BY CountersStayInRange, FlagsStayBoolean DEF MonitorTypeOK
=============================================================================
