---------------------------- MODULE SafetyProofs ----------------------------
(***************************************************************************)
(* Proofs about the safety monitor, for every timeout, threshold and       *)
(* window: its type, its stop invariants, what the window lets pass and    *)
(* what it stops, and that it implements SafeStop (safety part).  IInv is  *)
(* inductive: EmergencyLatch alone is not, for OnValidControl preserves it *)
(* only because a recoverable robot has no emergency pending, and          *)
(* CheckControlLoss because a stopped one is left; BurstBound is not, for  *)
(* the record must say where the open window begins.                       *)
(***************************************************************************)
EXTENDS SafetyHistory, MonitorProofs

(* Every step of the history is an operation of the monitor. *)
LEMMA StepsAreOperations == [Next]_vars => MonitorOperation
BY DEF Next, vars, Valid, Invalid, Report, Lose, Restart, Pass, OnEStop,
       OnTokenExpired, OnRevoked, MonitorOperation, OperationButReset

LEMMA InitInv == Init => IInv
<1> SUFFICES ASSUME Init PROVE IInv
  OBVIOUS
<1> USE DEF Init, MonitorInit
<1>1. MonitorTypeOK
  BY MonitorInitType
<1>2. invalids \in [Ages -> Nat] /\ emergency \in BOOLEAN
  BY DEF NoInvalids
<1>3. StopInv
  BY MonitorAssumption DEF MonitorAssumption, StopInv
<1>4. EmergencyLatch
  BY DEF EmergencyLatch
<1>5. WindowInv
  BY DEF WindowInv, NoInvalids
<1> QED
  BY <1>1, <1>2, <1>3, <1>4, <1>5 DEF IInv, TypeOK

(* What a robot that runs has counted stays right: a command counts for     *)
(* every age, a tick shifts the ages, and a window opened over an expired   *)
(* one leaves the first command of that one behind.                         *)
LEMMA StepWindow == IInv /\ [Next]_vars => WindowInv'
<1> SUFFICES ASSUME IInv, [Next]_vars, ~stopped', InvalidCmdTimeWindow > 0, NEW d \in Ages
             PROVE  /\ invalidCmdCount' = 0 => invalids'[d] = 0
                    /\ invalidCmdCount' > 0 =>
                         IF d < windowAge'
                         THEN invalids'[d] < invalidCmdCount'
                         ELSE /\ invalids'[d] >= invalidCmdCount'
                              /\ invalids'[d] <= invalidCmdCount' + InvalidCmdThreshold - 2
  BY DEF WindowInv
<1> DEFINE W == InvalidCmdTimeWindow
           T == InvalidCmdThreshold
<1>1. /\ W \in Nat /\ T \in Nat \ {0} /\ d \in Nat /\ d <= W
      /\ invalidCmdCount \in Nat /\ windowAge \in Nat /\ windowAge <= W + 1
      /\ stopped \in BOOLEAN
      /\ \A e \in Ages : invalids[e] \in Nat
  BY MonitorAssumption
     DEF MonitorAssumption, IInv, TypeOK, MonitorTypeOK, CountersInRange, FlagsOK, Ages
<1>2. ASSUME ~stopped, NEW e \in Ages
      PROVE  /\ invalidCmdCount < T
             /\ invalidCmdCount = 0 => invalids[e] = 0
             /\ invalidCmdCount > 0 =>
                  IF e < windowAge
                  THEN invalids[e] < invalidCmdCount
                  ELSE invalids[e] >= invalidCmdCount /\ invalids[e] <= invalidCmdCount + T - 2
  BY <1>1, <1>2 DEF IInv, StopInv, WindowInv
<1>3. CASE Valid \/ Restart
  BY <1>3 DEF Valid, OnValidControl, Restart, Reset, NoInvalids
<1>4. CASE Invalid
  <2>1. ~stopped
    BY <1>1, <1>4 DEF Invalid, OnInvalidCommand, triggerSafeStop
  <2>2. /\ invalids'[d] = invalids[d] + 1
        /\ windowAge' = IF countInWindow = 0 THEN 0 ELSE windowAge
        /\ invalidCmdCount' = Capped(countInWindow + 1, T)
        /\ invalidCmdCount' < T
    <3>1. /\ windowAge' = IF countInWindow = 0 THEN 0 ELSE windowAge
          /\ invalidCmdCount' = Capped(countInWindow + 1, T)
          /\ ~(invalidCmdCount' >= T)
      BY <1>4 DEF Invalid, OnInvalidCommand, triggerSafeStop
    <3>2. countInWindow \in Nat
      BY <1>1 DEF countInWindow
    <3>3. invalidCmdCount' \in Nat
      BY <1>1, <3>1, <3>2 DEF Capped
    <3> QED
      BY <1>1, <1>4, <2>1, <3>1, <3>3 DEF Invalid
  <2>3. invalids[d] \in Nat
    BY <1>1
  <2>4. CASE windowExpired
    <3>1. invalidCmdCount > 0 /\ windowAge = W + 1 /\ countInWindow = 0
      BY <1>1, <2>4 DEF windowExpired, countInWindow
    <3>2. invalids[d] < invalidCmdCount /\ invalidCmdCount < T
      BY <1>1, <1>2, <2>1, <3>1
    <3>3. invalidCmdCount' = 1 /\ windowAge' = 0
      BY <1>1, <2>2, <3>1 DEF Capped
    <3> QED
      BY <1>1, <2>2, <2>3, <3>2, <3>3
  <2>5. CASE ~windowExpired /\ invalidCmdCount = 0
    <3>1. countInWindow = 0 /\ invalids[d] = 0
      BY <1>2, <2>1, <2>5 DEF countInWindow
    <3>2. invalidCmdCount' = 1 /\ windowAge' = 0
      BY <1>1, <2>2, <3>1 DEF Capped
    <3> QED
      BY <1>1, <2>2, <3>1, <3>2
  <2>6. CASE ~windowExpired /\ invalidCmdCount > 0
    <3>1. countInWindow = invalidCmdCount
      BY <2>6 DEF countInWindow
    <3>2. invalidCmdCount' = invalidCmdCount + 1 /\ windowAge' = windowAge
      BY <1>1, <1>2, <2>1, <2>2, <2>6, <3>1 DEF Capped
    <3>3. IF d < windowAge
          THEN invalids[d] < invalidCmdCount
          ELSE invalids[d] >= invalidCmdCount /\ invalids[d] <= invalidCmdCount + T - 2
      BY <1>2, <2>1, <2>6
    <3> QED
      BY <1>1, <2>2, <2>3, <3>2, <3>3
  <2> QED
    BY <1>1, <2>4, <2>5, <2>6
<1>5. CASE Pass
  <2>1. /\ invalidCmdCount' = invalidCmdCount /\ ~stopped
        /\ windowAge' = IF invalidCmdCount = 0 THEN 0 ELSE Capped(windowAge + 1, W + 1)
        /\ invalids'[d] = IF d = 0 THEN 0 ELSE invalids[d - 1]
    BY <1>1, <1>5 DEF Pass, Tick
  <2>2. CASE d = 0
    BY <1>1, <2>1, <2>2 DEF Capped
  <2>3. CASE d # 0
    <3>1. d - 1 \in Ages /\ invalids'[d] = invalids[d - 1]
      BY <1>1, <2>1, <2>3 DEF Ages
    <3>2. invalidCmdCount > 0 => (d < windowAge' <=> d - 1 < windowAge)
      BY <1>1, <2>1, <2>3 DEF Capped
    <3> QED
      BY <1>2, <2>1, <3>1, <3>2
  <2> QED
    BY <2>2, <2>3
<1>6. CASE Report \/ Lose
  BY <1>6 DEF Report, OnEStop, OnTokenExpired, OnRevoked, OnEmergency, Lose,
              CheckControlLoss, triggerSafeStop
<1>7. CASE UNCHANGED vars
  BY <1>2, <1>7 DEF vars, monitorVars
<1> QED
  BY <1>3, <1>4, <1>5, <1>6, <1>7 DEF Next

LEMMA StepInv == IInv /\ [Next]_vars => IInv'
<1> SUFFICES ASSUME IInv, [Next]_vars
             PROVE  /\ emergency' \in BOOLEAN /\ invalids' \in [Ages -> Nat]
                    /\ StopInv' /\ EmergencyLatch'
  BY StepsAreOperations, MonitorStepType, StepWindow DEF IInv, TypeOK
<1> USE MonitorAssumption
    DEF MonitorAssumption, IInv, TypeOK, MonitorTypeOK, CountersInRange, FlagsOK,
        StopInv, EmergencyLatch
<1>1. CASE Valid
  <2> USE <1>1 DEF Valid, OnValidControl
  <2>1. StopInv'
    OBVIOUS
  <2>2. EmergencyLatch'
    OBVIOUS
  <2>3. emergency' \in BOOLEAN /\ invalids' \in [Ages -> Nat]
    BY DEF NoInvalids
  <2> QED
    BY <2>1, <2>2, <2>3
<1>2. CASE Invalid
  <2> USE <1>2 DEF Invalid, OnInvalidCommand, triggerSafeStop
  <2>1. StopInv'
    OBVIOUS
  <2>2. EmergencyLatch'
    OBVIOUS
  <2>3. emergency' \in BOOLEAN /\ invalids' \in [Ages -> Nat]
    BY DEF Ages
  <2> QED
    BY <2>1, <2>2, <2>3
<1>3. CASE Report
  <2>1. OnEmergency /\ emergency' = TRUE /\ invalids' = invalids
    BY <1>3 DEF Report, OnEStop, OnTokenExpired, OnRevoked
  <2>2. StopInv' /\ EmergencyLatch'
    BY <2>1 DEF OnEmergency, triggerSafeStop
  <2> QED
    BY <2>1, <2>2
<1>4. CASE Lose
  <2> USE <1>4 DEF Lose, CheckControlLoss, triggerSafeStop
  <2>1. StopInv' /\ EmergencyLatch'
    OBVIOUS
  <2> QED
    BY <2>1
<1>5. CASE Restart
  <2> USE <1>5 DEF Restart, Reset
  <2>1. StopInv' /\ EmergencyLatch'
    OBVIOUS
  <2> QED
    BY <2>1 DEF NoInvalids
<1>6. CASE Pass
  <2> USE <1>6 DEF Pass, Tick
  <2>1. StopInv' /\ EmergencyLatch'
    OBVIOUS
  <2>2. emergency' \in BOOLEAN /\ invalids' \in [Ages -> Nat]
    BY DEF Ages
  <2> QED
    BY <2>1, <2>2
<1>7. CASE UNCHANGED vars
  BY <1>7 DEF vars, monitorVars
<1> QED
  BY <1>1, <1>2, <1>3, <1>4, <1>5, <1>6, <1>7 DEF Next

(* Every variable keeps its type and every counter its range. *)
THEOREM TypeCorrect == Spec => []TypeOK
<1>1. IInv => TypeOK
  BY DEF IInv
<1> QED
  BY InitInv, StepInv, <1>1, PTL DEF Spec, SafetySpec

(* Neither the counter at its threshold nor a suspension ever coexists with *)
(* a robot that is not stopped.                                             *)
THEOREM StopInvariant == Spec => []StopInv
<1>1. IInv => StopInv
  BY DEF IInv
<1> QED
  BY InitInv, StepInv, <1>1, PTL DEF Spec, SafetySpec

(* Once an emergency was reported the robot stays stopped for good until    *)
(* Reset, in whichever state and order the reports arrived.                 *)
THEOREM EmergenciesLatch == Spec => []EmergencyLatch
<1>1. IInv => EmergencyLatch
  BY DEF IInv
<1> QED
  BY InitInv, StepInv, <1>1, PTL DEF Spec, SafetySpec

(* A robot that is still running has seen less than twice the threshold     *)
(* minus one invalid commands within the length of the window, whatever the *)
(* threshold and the window and wherever the windows began.                 *)
THEOREM BurstsAreBounded == Spec => []BurstBound
<1>1. ASSUME IInv PROVE BurstBound
  <2> SUFFICES ASSUME InvalidCmdTimeWindow > 0, ~stopped, invalids[InvalidCmdTimeWindow] > 0
               PROVE  invalids[InvalidCmdTimeWindow] < 2 * (InvalidCmdThreshold - 1)
    BY DEF BurstBound, InWindow
  <2> DEFINE h == invalids[InvalidCmdTimeWindow]
  <2>1. /\ InvalidCmdTimeWindow \in Ages /\ h \in Nat
        /\ invalidCmdCount \in Nat /\ InvalidCmdThreshold \in Nat \ {0}
        /\ invalidCmdCount < InvalidCmdThreshold
    BY <1>1, MonitorAssumption
       DEF IInv, TypeOK, StopInv, MonitorAssumption, MonitorTypeOK, CountersInRange, Ages
  <2>2. invalidCmdCount > 0
        /\ (h < invalidCmdCount \/ h <= invalidCmdCount + InvalidCmdThreshold - 2)
    BY <1>1, <2>1 DEF IInv, WindowInv
  <2> QED
    BY <2>1, <2>2
<1> QED
  BY InitInv, StepInv, <1>1, PTL DEF Spec, SafetySpec

(* A robot that an invalid command stops has seen the threshold of them,    *)
(* this one included, within one window and no valid one in between.        *)
THEOREM StopsAreJustified == Spec => InvalidStopJustified
<1> DEFINE Justified == (/\ InvalidCmdTimeWindow > 0
                         /\ ~stopped /\ stopped'
                         /\ Invalid)
                          => InWindow(invalids') >= InvalidCmdThreshold
<1>1. ASSUME IInv, [Next]_vars PROVE [Justified]_vars
  <2> SUFFICES ASSUME InvalidCmdTimeWindow > 0, ~stopped, stopped', Invalid
               PROVE  invalids'[InvalidCmdTimeWindow] >= InvalidCmdThreshold
    BY DEF InWindow
  <2> DEFINE h == invalids[InvalidCmdTimeWindow]
  <2>1. /\ InvalidCmdTimeWindow \in Ages /\ InvalidCmdTimeWindow \in Nat /\ h \in Nat
        /\ invalidCmdCount \in Nat /\ InvalidCmdThreshold \in Nat \ {0}
        /\ windowAge \in Nat
    BY <1>1, MonitorAssumption
       DEF IInv, TypeOK, StopInv, MonitorAssumption, MonitorTypeOK, CountersInRange, Ages
  <2>2. invalids'[InvalidCmdTimeWindow] = h + 1
    BY <2>1 DEF Invalid
  <2>3. countInWindow \in Nat /\ countInWindow + 1 >= InvalidCmdThreshold
    <3>1. countInWindow \in Nat
      BY <2>1 DEF countInWindow
    <3>2. Capped(countInWindow + 1, InvalidCmdThreshold) >= InvalidCmdThreshold
      BY DEF Invalid, OnInvalidCommand
    <3> QED
      BY <2>1, <3>1, <3>2 DEF Capped
  <2>4. countInWindow <= h
    <3>1. CASE countInWindow = 0
      BY <2>1, <3>1
    <3>2. CASE countInWindow # 0
      <4>1. /\ countInWindow = invalidCmdCount /\ invalidCmdCount > 0
            /\ ~(InvalidCmdTimeWindow < windowAge)
        BY <2>1, <3>2 DEF countInWindow, windowExpired
      <4> QED
        BY <1>1, <2>1, <4>1 DEF IInv, WindowInv
    <3> QED
      BY <3>1, <3>2
  <2> QED
    BY <2>1, <2>2, <2>3, <2>4
<1>2. InvalidStopJustified <=> [][Justified]_vars
  BY DEF InvalidStopJustified
<1> QED
  BY InitInv, StepInv, <1>1, <1>2, PTL DEF Spec, SafetySpec

(* Initially the robot runs, and its operator has not been silent. *)
LEMMA InitRefines == Init => Abstract!Init
BY MonitorAssumption
   DEF MonitorAssumption, Init, MonitorInit, Abstract!Init, silent

LEMMA StepRefines ==
    IInv /\ [Next]_vars => [Abstract!Next]_(Abstract!safeStopVars)
<1> DEFINE mode == IF ~stopped THEN "running"
                   ELSE IF inControlLoss THEN "suspended" ELSE "latched"
<1> SUFFICES ASSUME IInv, [Next]_vars
             PROVE  [Abstract!Next]_(Abstract!safeStopVars)
  OBVIOUS
<1> USE MonitorAssumption
    DEF MonitorAssumption, IInv, TypeOK, MonitorTypeOK, CountersInRange, FlagsOK,
        StopInv, EmergencyLatch
<1>1. CASE Valid
  <2>1. silent' = FALSE
    BY <1>1 DEF Valid, OnValidControl, silent
  <2>2. mode' = IF mode = "latched" THEN "latched" ELSE "running"
    BY <1>1 DEF Valid, OnValidControl
  <2>3. Abstract!Hear
    BY <1>1, <2>1, <2>2 DEF Valid, Abstract!Hear
  <2> QED
    BY <2>3 DEF Abstract!Next
<1>2. CASE Invalid
  <2>1. silent' = silent /\ emergency' = emergency
    BY <1>2 DEF Invalid, OnInvalidCommand, silent
  <2>2. mode' = mode \/ (mode = "running" /\ mode' = "latched")
    BY <1>2 DEF Invalid, OnInvalidCommand, triggerSafeStop
  <2>3. Abstract!Trip \/ UNCHANGED Abstract!safeStopVars
    BY <2>1, <2>2 DEF Abstract!Trip, Abstract!safeStopVars
  <2> QED
    BY <2>3 DEF Abstract!Next
<1>3. CASE Report
  <2>1. OnEmergency /\ emergency' = TRUE
    BY <1>3 DEF Report, OnEStop, OnTokenExpired, OnRevoked
  <2>2. silent' = silent /\ mode' = "latched"
    BY <2>1 DEF OnEmergency, triggerSafeStop, silent
  <2>3. Abstract!Latch
    BY <2>1, <2>2 DEF Abstract!Latch
  <2> QED
    BY <2>3 DEF Abstract!Next
<1>4. CASE Lose
  <2>1. silent /\ silent' = silent /\ emergency' = emergency
    BY <1>4 DEF Lose, CheckControlLoss, silent
  <2>2. mode = "running" /\ mode' = "suspended"
    BY <1>4 DEF Lose, CheckControlLoss, triggerSafeStop
  <2>3. Abstract!Suspend
    BY <2>1, <2>2 DEF Abstract!Suspend
  <2> QED
    BY <2>3 DEF Abstract!Next
<1>5. CASE Restart
  <2>1. silent' = FALSE
    BY <1>5 DEF Restart, Reset, silent
  <2>2. mode' = "running" /\ emergency' = FALSE
    BY <1>5 DEF Restart, Reset
  <2>3. Abstract!Restart
    BY <2>1, <2>2 DEF Abstract!Restart
  <2> QED
    BY <2>3 DEF Abstract!Next
<1>6. CASE Pass
  <2>1. silent' \in BOOLEAN /\ (silent => silent')
    BY <1>6 DEF Pass, Tick, Capped, silent
  <2>2. mode' = mode /\ emergency' = emergency
    BY <1>6 DEF Pass, Tick
  <2>3. Abstract!FallSilent \/ UNCHANGED Abstract!safeStopVars
    BY <2>1, <2>2 DEF Abstract!FallSilent, Abstract!safeStopVars, silent
  <2> QED
    BY <2>3 DEF Abstract!Next
<1>7. CASE UNCHANGED vars
  <2>1. UNCHANGED Abstract!safeStopVars
    BY <1>7 DEF vars, monitorVars, Abstract!safeStopVars, silent
  <2> QED
    BY <2>1
<1> QED
  BY <1>1, <1>2, <1>3, <1>4, <1>5, <1>6, <1>7 DEF Next

(* The monitor implements the safety part of SafeStop: whatever calls its   *)
(* goroutines make, a latch is left by Reset alone and a suspension only by *)
(* a valid command, an emergency or Reset.                                  *)
THEOREM ImplementsSafety == Spec => ImplementsSafeStopSafety
BY InitRefines, StepRefines, InitInv, StepInv, PTL
     DEF Spec, SafetySpec, ImplementsSafeStopSafety, Abstract!SafetySpec
=============================================================================
