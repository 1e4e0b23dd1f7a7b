---------------------------- MODULE ConsoleProofs ----------------------------
(***************************************************************************)
(* Proofs about the console: its sockets, for any number of them and any   *)
(* bound of the reconnection; the times it shows, for any threshold; its   *)
(* batches of movement, for any buttons; the command its keys call for;    *)
(* lost messages and samples, for any number of messages and any size of   *)
(* buffer and samples; and the types of all of it.                         *)
(***************************************************************************)
EXTENDS MCConsole, FiniteSetTheorems, SequenceTheorems, TLAPS

(* The parts of the console as specifications of their own. *)
StatusSpec == StatusInit /\ [][StatusNext]_statusVars
InputSpec == InputInit /\ [][InputNext]_inputVars
VideoSpec == VideoInit /\ [][VideoNext]_videoVars

-----------------------------------------------------------------------------
(* Sockets and the link                                                    *)

(* What the signaling hook does in any step of the link. *)
SignalStep ==
    \/ Connect \/ Disable \/ disconnect
    \/ \E c \in WebSockets : onopen(c) \/ onclose(c) \/ handleMessage(c)
    \/ UNCHANGED signalVars

(* Closing a set of sockets leaves no socket of it live and makes none so.  *)
LEMMA ClosingEffect ==
    ASSUME NEW C, ws \in [WebSockets -> {"connecting", "open", "closing", "closed"}]
    PROVE  /\ Closing(C) \in [WebSockets -> {"connecting", "open", "closing", "closed"}]
           /\ \A c \in WebSockets : /\ c \in C => Closing(C)[c] \in {"closing", "closed"}
                                    /\ c \notin C => Closing(C)[c] = ws[c]
  BY DEF Closing, Live

(* Every step of the link is one of the hook or leaves it alone. *)
LEMMA LinkStepsSignal == [LinkNext]_linkVars => SignalStep
  BY DEF LinkNext, linkVars, SignalStep, SignalingSteps, Revoke, Dismiss, Create, Close,
         onconnectionstatechange, TimerFires

(* The types of the hook and its socket are kept. *)
LEMMA SignalStepInv ==
    ASSUME SignalTypeOK, OneLiveSocket, SignalStep
    PROVE  SignalTypeOK' /\ OneLiveSocket'
<1> USE SocketAssumption DEF SignalTypeOK, OneLiveSocket
<1>1. CASE Connect
  <2>1. PICK c \in WebSockets :
          /\ ws' = [Closing({effectWs}) EXCEPT ![c] = "connecting"]
          /\ wsRef' = c /\ effectWs' = c /\ status' = "connecting" /\ reason' = FALSE
    BY <1>1 DEF Connect
  <2>2. SignalTypeOK'
    BY <2>1, ClosingEffect
  <2>3. \A d \in WebSockets : Live(d)' => d = c
    BY <2>1, ClosingEffect DEF Live
  <2> QED
    BY <2>1, <2>2, <2>3
<1>2. CASE Disable
  BY <1>2, ClosingEffect DEF Disable, Live
<1>3. CASE disconnect
  BY <1>3, ClosingEffect DEF disconnect, Live
<1>4. ASSUME NEW c \in WebSockets, onopen(c) PROVE SignalTypeOK' /\ OneLiveSocket'
  BY <1>4 DEF onopen, Live
<1>5. ASSUME NEW c \in WebSockets, onclose(c) PROVE SignalTypeOK' /\ OneLiveSocket'
  BY <1>5 DEF onclose, Live
<1>6. ASSUME NEW c \in WebSockets, handleMessage(c) PROVE SignalTypeOK' /\ OneLiveSocket'
  BY <1>6 DEF handleMessage, Live
<1>7. CASE UNCHANGED signalVars
  BY <1>7 DEF signalVars, Live
<1> QED
  BY <1>1, <1>2, <1>3, <1>4, <1>5, <1>6, <1>7 DEF SignalStep

(* The initial state has no socket. *)
LEMMA InitSignal == LinkInit => SignalTypeOK /\ OneLiveSocket
  BY DEF LinkInit, SignalInit, SignalTypeOK, OneLiveSocket, Live

(* However often the effect of the hook runs again, and whatever the peer   *)
(* connection, its timers and a revocation do meanwhile, at most one socket *)
(* is connecting or open: the one the next cleanup closes.                  *)
THEOREM OneSocket == LinkSpec => []OneLiveSocket
<1>1. SignalTypeOK /\ OneLiveSocket /\ [LinkNext]_linkVars => (SignalTypeOK /\ OneLiveSocket)'
  BY LinkStepsSignal, SignalStepInv
<1> QED
  BY <1>1, InitSignal, PTL DEF LinkSpec

-----------------------------------------------------------------------------
(* The reconnection                                                        *)

(* What the counter does in any step of the link. *)
CounterStep ==
    \/ cleanup \/ handleConnected \/ handleDisconnected
    \/ \E t \in Timers, lost \in BOOLEAN : Timeout(t, lost)
    \/ UNCHANGED reconnectVars

LEMMA LinkStepsCounter == [LinkNext]_linkVars => CounterStep
<1> SUFFICES ASSUME [LinkNext]_linkVars PROVE CounterStep
  OBVIOUS
<1>1. ASSUME NEW t \in Timers, TimerFires(t) PROVE CounterStep
  <2>1. (pc = "disconnected") \in BOOLEAN
    OBVIOUS
  <2> QED
    BY <1>1, <2>1 DEF TimerFires, CounterStep
<1> QED
  BY <1>1 DEF LinkNext, linkVars, CounterStep, SignalingSteps, Revoke, Dismiss, Create, Close,
              onconnectionstatechange

(* Every variable of the reconnection keeps its type. *)
LEMMA CounterStepTypes ==
    ASSUME ReconnectTypeOK, CounterStep PROVE ReconnectTypeOK'
<1> USE ReconnectAssumption DEF ReconnectTypeOK
<1>1. CASE cleanup
  BY <1>1 DEF cleanup
<1>2. CASE handleConnected
  BY <1>2 DEF handleConnected
<1>3. CASE handleDisconnected
  BY <1>3 DEF handleDisconnected, scheduleReconnect
<1>4. ASSUME NEW t \in Timers, NEW lost \in BOOLEAN, Timeout(t, lost) PROVE ReconnectTypeOK'
  <2>1. attempts' \in Nat
    BY <1>4 DEF Timeout
  <2>2. timers' \subseteq Timers /\ timerRef' \in Timers \cup {NoTimer} /\ gaveUp' \in BOOLEAN
    BY <1>4 DEF Timeout, scheduleReconnect
  <2>3. wasConnected' \in BOOLEAN
    BY <1>4 DEF Timeout
  <2> QED
    BY <2>1, <2>2, <2>3
<1>5. CASE UNCHANGED reconnectVars
  BY <1>5 DEF reconnectVars
<1> QED
  BY <1>1, <1>2, <1>3, <1>4, <1>5 DEF CounterStep

(* Every variable of the two connections keeps its type. *)
THEOREM LinkTypeCorrect == LinkSpec => []LinkTypeOK
<1> DEFINE PeerTypeOK == /\ revocation \in {"never", "yes", "dismissed"}
                         /\ pc \in States /\ connectionState \in States
                         /\ pcRevoked \in BOOLEAN
           Inv == LinkTypeOK /\ OneLiveSocket
<1>1. LinkTypeOK <=> SignalTypeOK /\ ReconnectTypeOK /\ PeerTypeOK
  BY DEF LinkTypeOK
<1>2. LinkInit => Inv
  <2>1. ASSUME LinkInit PROVE ReconnectTypeOK
    <3>1. timers = {} /\ timerRef = NoTimer /\ attempts = 0
          /\ wasConnected = FALSE /\ gaveUp = FALSE
      BY <2>1 DEF LinkInit, ReconnectInit
    <3>2. attempts \in Nat
      BY <3>1
    <3> QED
      BY <3>1, <3>2 DEF ReconnectTypeOK
  <2>2. LinkInit => PeerTypeOK
    BY DEF LinkInit, States
  <2> QED
    BY <1>1, <2>1, <2>2, InitSignal
<1>3. PeerTypeOK /\ [LinkNext]_linkVars => PeerTypeOK'
  BY DEF LinkNext, linkVars, peerVars, SignalingSteps, Revoke, Dismiss, Create, Close,
         onconnectionstatechange, TimerFires, isRevoked, States
<1>4. Inv /\ [LinkNext]_linkVars => Inv'
  BY <1>1, <1>3, LinkStepsSignal, LinkStepsCounter, SignalStepInv, CounterStepTypes
     DEF LinkTypeOK
<1> QED
  BY <1>2, <1>4, PTL DEF LinkSpec

-----------------------------------------------------------------------------
(* The times shown                                                         *)

(* How late an interval is. *)
late(i) == IF i \in due THEN 1 ELSE 0

StatusVarsOK ==
    /\ clock \in Nat /\ clock <= MaxClock
    /\ connection \in ConnectionStates
    /\ sessionStartTime \in Dates \cup {NoDate}
    /\ tokenExpiresAt \in Dates \cup {NoDate}
    /\ due \subseteq {"timer", "expiry"}

HasTimer == isConnected(connection) /\ sessionStartTime # NoDate
HasExpiry == isConnected(connection) /\ tokenExpiresAt # NoDate

(* Each time shown is exact but for the callback that is due. *)
TimerInv ==
    /\ "timer" \in due => HasTimer
    /\ HasTimer => elapsedTime = clock - late("timer") - sessionStartTime
    /\ ~HasTimer => elapsedTime = 0

ExpiryInv ==
    /\ "expiry" \in due => HasExpiry
    /\ HasExpiry => timeToExpiry = IF tokenExpiresAt > clock - late("expiry")
                                   THEN tokenExpiresAt - (clock - late("expiry")) ELSE 0
    /\ ~HasExpiry => timeToExpiry = NoDate

StatusIInv == StatusVarsOK /\ TimerInv /\ ExpiryInv

(* Nothing is shown at first. *)
LEMMA InitStatus == StatusInit => StatusIInv
  BY StatusAssumption
     DEF StatusAssumption, StatusInit, StatusIInv, StatusVarsOK, ConnectionStates, TimerInv,
         ExpiryInv, HasTimer, HasExpiry, isConnected

(* A date that is there is a number. *)
LEMMA DatesAreNumbers == \A d \in Dates \cup {NoDate} : d # NoDate => d \in Nat
  BY StatusAssumption DEF StatusAssumption

(* Every step keeps the types of the props and of the clock. *)
LEMMA StepStatusVars ==
    ASSUME StatusVarsOK, [StatusNext]_statusVars PROVE StatusVarsOK'
<1>1. CASE Second
  <2>1. clock' \in Nat /\ clock' <= MaxClock
    BY <1>1, StatusAssumption DEF Second, StatusVarsOK, StatusAssumption
  <2> QED
    BY <1>1, <2>1 DEF Second, StatusVarsOK
<1>2. CASE \E c \in ConnectionStates, start, expiry \in Dates \cup {NoDate} :
             Render(c, start, expiry)
  BY <1>2 DEF Render, StatusVarsOK
<1>3. CASE \E i \in {"timer", "expiry"} : Interval(i)
  BY <1>3 DEF Interval, StatusVarsOK
<1>4. CASE UNCHANGED statusVars
  BY <1>4 DEF statusVars, StatusVarsOK
<1> QED
  BY <1>1, <1>2, <1>3, <1>4 DEF StatusNext

(* Every step keeps the running time right. *)
LEMMA StepTimer ==
    ASSUME StatusVarsOK, TimerInv, [StatusNext]_statusVars PROVE TimerInv'
<1>1. clock \in Nat /\ (sessionStartTime # NoDate => sessionStartTime \in Nat)
  BY DatesAreNumbers DEF StatusVarsOK
<1>2. ASSUME NEW c \in ConnectionStates, NEW start \in Dates \cup {NoDate},
             NEW expiry \in Dates \cup {NoDate}, Render(c, start, expiry)
      PROVE  TimerInv'
  <2>1. /\ connection' = c /\ sessionStartTime' = start /\ clock' = clock
        /\ start # NoDate => start \in Nat
    BY <1>2, DatesAreNumbers DEF Render
  <2>2. CASE start = sessionStartTime /\ isConnected(c) = isConnected(connection)
    <3>1. elapsedTime' = elapsedTime
      BY <1>2, <2>2 DEF Render, TimerEffect
    <3>2. "timer" \in due' <=> "timer" \in due
      BY <1>2, <2>2 DEF Render
    <3>3. HasTimer' = HasTimer
      BY <2>1, <2>2 DEF HasTimer
    <3> QED
      BY <2>1, <2>2, <3>1, <3>2, <3>3 DEF TimerInv, late
  <2>3. CASE ~(start = sessionStartTime /\ isConnected(c) = isConnected(connection))
    <3>1. "timer" \notin due'
      BY <1>2, <2>3 DEF Render
    <3>2. elapsedTime' = IF start = NoDate \/ ~isConnected(c) THEN 0 ELSE clock - start
      BY <1>2, <2>3 DEF Render, TimerEffect, updateTimer
    <3>3. HasTimer' <=> isConnected(c) /\ start # NoDate
      BY <2>1 DEF HasTimer
    <3>4. late("timer")' = 0
      BY <3>1 DEF late
    <3>5. CASE HasTimer'
      <4>1. start \in Nat /\ elapsedTime' = clock - start
        BY <2>1, <3>2, <3>3, <3>5
      <4>2. elapsedTime' = clock - 0 - start
        BY <1>1, <4>1
      <4> QED
        BY <2>1, <3>1, <3>4, <3>5, <4>2 DEF TimerInv
    <3>6. CASE ~HasTimer'
      BY <3>1, <3>2, <3>3, <3>6 DEF TimerInv
    <3> QED
      BY <3>5, <3>6
  <2> QED
    BY <2>2, <2>3
<1>3. ASSUME NEW i \in {"timer", "expiry"}, Interval(i) PROVE TimerInv'
  <2>1. /\ clock' = clock /\ sessionStartTime' = sessionStartTime /\ HasTimer' = HasTimer
        /\ due' = due \ {i} /\ i \in due
    BY <1>3 DEF Interval, HasTimer
  <2>2. CASE i = "timer"
    <3>1. HasTimer /\ late("timer") = 1 /\ late("timer")' = 0 /\ "timer" \notin due'
      BY <2>1, <2>2 DEF late, TimerInv
    <3>2. elapsedTime' = clock - sessionStartTime
      BY <1>3, <2>2 DEF Interval, updateTimer
    <3>3. sessionStartTime \in Nat
      BY <1>1, <3>1 DEF HasTimer
    <3>4. elapsedTime' = clock - 0 - sessionStartTime
      BY <1>1, <3>2, <3>3
    <3> QED
      BY <2>1, <3>1, <3>4 DEF TimerInv
  <2>3. CASE i = "expiry"
    <3>1. elapsedTime' = elapsedTime /\ ("timer" \in due' <=> "timer" \in due)
      BY <1>3, <2>1, <2>3 DEF Interval
    <3> QED
      BY <2>1, <3>1 DEF TimerInv, late
  <2> QED
    BY <2>2, <2>3
<1>4. CASE Second
  <2>1. /\ clock' = clock + 1 /\ sessionStartTime' = sessionStartTime /\ HasTimer' = HasTimer
        /\ elapsedTime' = elapsedTime /\ due = {}
        /\ "timer" \in due' <=> HasTimer
    BY <1>4 DEF Second, HasTimer
  <2>2. CASE HasTimer
    <3>1. late("timer") = 0 /\ late("timer")' = 1
      BY <2>1, <2>2 DEF late
    <3>2. sessionStartTime \in Nat /\ elapsedTime = clock - 0 - sessionStartTime
      BY <1>1, <2>2, <3>1 DEF TimerInv, HasTimer
    <3>3. elapsedTime' = clock' - 1 - sessionStartTime
      BY <1>1, <2>1, <3>2
    <3> QED
      BY <2>1, <2>2, <3>1, <3>3 DEF TimerInv
  <2>3. CASE ~HasTimer
    BY <2>1, <2>3 DEF TimerInv
  <2> QED
    BY <2>2, <2>3
<1>5. CASE UNCHANGED statusVars
  BY <1>5 DEF statusVars, TimerInv, HasTimer, late
<1> QED
  BY <1>2, <1>3, <1>4, <1>5 DEF StatusNext

(* Every step keeps the remaining time right. *)
LEMMA StepExpiry ==
    ASSUME StatusVarsOK, ExpiryInv, [StatusNext]_statusVars PROVE ExpiryInv'
<1>1. clock \in Nat /\ (tokenExpiresAt # NoDate => tokenExpiresAt \in Nat)
  BY DatesAreNumbers DEF StatusVarsOK
<1>2. ASSUME NEW c \in ConnectionStates, NEW start \in Dates \cup {NoDate},
             NEW expiry \in Dates \cup {NoDate}, Render(c, start, expiry)
      PROVE  ExpiryInv'
  <2>1. /\ connection' = c /\ tokenExpiresAt' = expiry /\ clock' = clock
        /\ expiry # NoDate => expiry \in Nat
    BY <1>2, DatesAreNumbers DEF Render
  <2>2. CASE expiry = tokenExpiresAt /\ isConnected(c) = isConnected(connection)
    <3>1. timeToExpiry' = timeToExpiry
      BY <1>2, <2>2 DEF Render, ExpiryEffect
    <3>2. "expiry" \in due' <=> "expiry" \in due
      BY <1>2, <2>2 DEF Render
    <3>3. HasExpiry' = HasExpiry
      BY <2>1, <2>2 DEF HasExpiry
    <3> QED
      BY <2>1, <2>2, <3>1, <3>2, <3>3 DEF ExpiryInv, late
  <2>3. CASE ~(expiry = tokenExpiresAt /\ isConnected(c) = isConnected(connection))
    <3>1. "expiry" \notin due'
      BY <1>2, <2>3 DEF Render
    <3>2. timeToExpiry' = IF expiry = NoDate \/ ~isConnected(c) THEN NoDate
                          ELSE updateExpiry(expiry)
      BY <1>2, <2>3 DEF Render, ExpiryEffect
    <3>3. HasExpiry' <=> isConnected(c) /\ expiry # NoDate
      BY <2>1 DEF HasExpiry
    <3>4. late("expiry")' = 0 /\ clock' - 0 = clock
      BY <1>1, <2>1, <3>1 DEF late
    <3>5. CASE HasExpiry'
      <4>1. timeToExpiry' = IF expiry > clock THEN expiry - clock ELSE 0
        BY <3>2, <3>3, <3>5 DEF updateExpiry
      <4> QED
        BY <2>1, <3>1, <3>4, <3>5, <4>1 DEF ExpiryInv
    <3>6. CASE ~HasExpiry'
      BY <3>1, <3>2, <3>3, <3>6 DEF ExpiryInv
    <3> QED
      BY <3>5, <3>6
  <2> QED
    BY <2>2, <2>3
<1>3. ASSUME NEW i \in {"timer", "expiry"}, Interval(i) PROVE ExpiryInv'
  <2>1. /\ clock' = clock /\ tokenExpiresAt' = tokenExpiresAt /\ HasExpiry' = HasExpiry
        /\ due' = due \ {i} /\ i \in due
    BY <1>3 DEF Interval, HasExpiry
  <2>2. CASE i = "expiry"
    <3>1. HasExpiry /\ late("expiry")' = 0 /\ "expiry" \notin due' /\ clock' - 0 = clock
      BY <1>1, <2>1, <2>2 DEF late, ExpiryInv
    <3>2. timeToExpiry' = IF tokenExpiresAt > clock THEN tokenExpiresAt - clock ELSE 0
      BY <1>3, <2>2 DEF Interval, updateExpiry
    <3> QED
      BY <2>1, <3>1, <3>2 DEF ExpiryInv
  <2>3. CASE i = "timer"
    <3>1. timeToExpiry' = timeToExpiry /\ ("expiry" \in due' <=> "expiry" \in due)
      BY <1>3, <2>1, <2>3 DEF Interval
    <3> QED
      BY <2>1, <3>1 DEF ExpiryInv, late
  <2> QED
    BY <2>2, <2>3
<1>4. CASE Second
  <2>1. /\ clock' = clock + 1 /\ tokenExpiresAt' = tokenExpiresAt /\ HasExpiry' = HasExpiry
        /\ timeToExpiry' = timeToExpiry /\ due = {}
        /\ "expiry" \in due' <=> HasExpiry
    BY <1>4 DEF Second, HasExpiry
  <2>2. CASE HasExpiry
    <3>1. late("expiry") = 0 /\ late("expiry")' = 1
      BY <2>1, <2>2 DEF late
    <3>2. clock - 0 = clock /\ clock' - 1 = clock
      BY <1>1, <2>1
    <3> QED
      BY <2>1, <2>2, <3>1, <3>2 DEF ExpiryInv
  <2>3. CASE ~HasExpiry
    BY <2>1, <2>3 DEF ExpiryInv
  <2> QED
    BY <2>2, <2>3
<1>5. CASE UNCHANGED statusVars
  BY <1>5 DEF statusVars, ExpiryInv, HasExpiry, late
<1> QED
  BY <1>2, <1>3, <1>4, <1>5 DEF StatusNext

(* The invariant is one. *)
LEMMA StatusInvariant == StatusSpec => []StatusIInv
<1>1. StatusIInv /\ [StatusNext]_statusVars => StatusIInv'
  BY StepStatusVars, StepTimer, StepExpiry DEF StatusIInv
<1> QED
  BY <1>1, InitStatus, PTL DEF StatusSpec

(* The times shown are about the session and the token of now, a second old *)
(* at most, for every order in which connection, session and token change:  *)
(* a token about to expire is announced, one that is renewed is not, and    *)
(* nothing is shown of a connection that is gone.                           *)
THEOREM TimesAreFresh == StatusSpec => []ShownTimesAreFresh
<1>1. ASSUME StatusIInv PROVE ShownTimesAreFresh
  <2>1. clock \in Nat /\ ExpiryWarning \in Nat /\ 0 < ExpiryWarning
    BY <1>1, StatusAssumption DEF StatusIInv, StatusVarsOK, StatusAssumption
  <2>2. ~isConnected(connection) => elapsedTime = 0 /\ timeToExpiry = NoDate
    BY <1>1 DEF StatusIInv, TimerInv, ExpiryInv, HasTimer, HasExpiry
  <2>3. ASSUME isConnected(connection), sessionStartTime # NoDate
        PROVE  clock - sessionStartTime - elapsedTime \in 0..1
    <3>1. sessionStartTime \in Nat
      BY <1>1, <2>3, DatesAreNumbers DEF StatusIInv, StatusVarsOK
    <3>2. elapsedTime = clock - late("timer") - sessionStartTime /\ late("timer") \in 0..1
      BY <1>1, <2>3 DEF StatusIInv, TimerInv, HasTimer, late
    <3> QED
      BY <2>1, <3>1, <3>2
  <2>4. ASSUME isConnected(connection), tokenExpiresAt # NoDate
        PROVE  /\ timeToExpiry # NoDate
               /\ timeToExpiry - updateExpiry(tokenExpiresAt) \in 0..1
               /\ tokenExpiresAt < clock + ExpiryWarning - 1 => showExpiryWarning
               /\ showExpiryWarning => tokenExpiresAt < clock + ExpiryWarning
    <3>1. tokenExpiresAt \in Nat
      BY <1>1, <2>4, DatesAreNumbers DEF StatusIInv, StatusVarsOK
    <3>2. timeToExpiry = IF tokenExpiresAt > clock - late("expiry")
                         THEN tokenExpiresAt - (clock - late("expiry")) ELSE 0
      BY <1>1, <2>4 DEF StatusIInv, ExpiryInv, HasExpiry
    <3>3. late("expiry") = 0 \/ late("expiry") = 1
      BY DEF late
    <3>4. timeToExpiry \in Int
      BY <2>1, <3>1, <3>2, <3>3
    <3>5. timeToExpiry # NoDate
      BY <3>4, StatusAssumption DEF StatusAssumption
    <3>6. timeToExpiry - updateExpiry(tokenExpiresAt) \in 0..1
      BY <2>1, <3>1, <3>2, <3>3 DEF updateExpiry
    <3>7. tokenExpiresAt < clock + ExpiryWarning - 1 => timeToExpiry < ExpiryWarning
      BY <2>1, <3>1, <3>2, <3>3
    <3>8. timeToExpiry < ExpiryWarning => tokenExpiresAt < clock + ExpiryWarning
      BY <2>1, <3>1, <3>2, <3>3
    <3> QED
      BY <3>5, <3>6, <3>7, <3>8 DEF showExpiryWarning
  <2> QED
    BY <2>2, <2>3, <2>4 DEF ShownTimesAreFresh
<1> QED
  BY <1>1, StatusInvariant, PTL

-----------------------------------------------------------------------------
(* Batches of movement                                                     *)

(* Of the buttons it could hear the hook takes for pressed those that are   *)
(* down; the timer that runs knows what the hook does, and what was seen is *)
(* sent or waiting, whether or not the input is enabled.                    *)
BatchInv ==
    /\ accumulatedMovement \in Int /\ moved \in Int /\ sent \in Int
    /\ sent + accumulatedMovement = moved
    /\ pressedButtons \ unheard = down \ unheard
    /\ batch # NoBatch => batch = pressedButtons
    /\ sentButtons = TRUE

(* The bounds are on what TLC explores: movement itself is an integer. *)
LEMMA StepBatch ==
    ASSUME BatchInv, [InputNext]_inputVars PROVE BatchInv'
<1>1. accumulatedMovement \in Int /\ moved \in Int /\ sent \in Int
      /\ sent + accumulatedMovement = moved
  BY DEF BatchInv
<1>2. ASSUME NEW d \in {-1, 1}, handleMouseMove(d) PROVE BatchInv'
  <2>1. moved' = moved + d /\ UNCHANGED <<down, unheard, pressedButtons>>
    BY <1>2 DEF handleMouseMove, buttonVars
  <2>2. CASE ~batchMs /\ flushBatch(accumulatedMovement + d, pressedButtons) /\ UNCHANGED batch
    <3>1. sent' = sent + (accumulatedMovement + d) /\ accumulatedMovement' = 0
      BY <2>2 DEF flushBatch
    <3>2. /\ accumulatedMovement' \in Int /\ moved' \in Int /\ sent' \in Int
          /\ sent' + accumulatedMovement' = moved'
      BY <1>1, <2>1, <3>1
    <3>3. sentButtons' = TRUE
      BY <2>2 DEF flushBatch, RightButtons, BatchInv
    <3> QED
      BY <2>1, <2>2, <3>2, <3>3 DEF BatchInv
  <2>3. CASE /\ accumulatedMovement' = accumulatedMovement + d
             /\ batch' = IF batch = NoBatch THEN pressedButtons ELSE batch
             /\ UNCHANGED <<accumulatedScroll, sent, sentButtons>>
    <3>1. /\ accumulatedMovement' \in Int /\ moved' \in Int /\ sent' \in Int
          /\ sent' + accumulatedMovement' = moved'
      BY <1>1, <2>1, <2>3
    <3> QED
      BY <2>1, <2>3, <3>1 DEF BatchInv
  <2> QED
    BY <1>2, <2>2, <2>3 DEF handleMouseMove
<1>3. CASE BatchTimeout
  <2>1. sent' = sent + accumulatedMovement /\ accumulatedMovement' = 0 /\ moved' = moved
        /\ batch' = NoBatch /\ UNCHANGED <<down, unheard, pressedButtons>>
    BY <1>3 DEF BatchTimeout, flushBatch, buttonVars
  <2>2. /\ accumulatedMovement' \in Int /\ moved' \in Int /\ sent' \in Int
        /\ sent' + accumulatedMovement' = moved'
    BY <1>1, <2>1
  <2>3. sentButtons' = TRUE
    BY <1>3 DEF BatchTimeout, flushBatch, RightButtons, BatchInv
  <2> QED
    BY <2>1, <2>2, <2>3 DEF BatchInv
<1>4. ASSUME NEW b \in Buttons, handleMouseDown(b) \/ handleMouseUp(b) \/ MouseElsewhere(b)
      PROVE  BatchInv'
  BY <1>4 DEF handleMouseDown, handleMouseUp, MouseElsewhere, setPressedButtons,
              ButtonFrame, BatchInv
<1>5. CASE handleWheel \/ Enable \/ KeyboardStep \/ UNCHANGED inputVars
  BY <1>5 DEF handleWheel, Enable, KeyboardStep, handleKeyDown, handleKeyUp, KeyUpElsewhere,
              mouseVars, buttonVars, inputVars, BatchInv
<1>6. CASE DisableInput
  <2>1. sent' = 0 /\ accumulatedMovement' = 0 /\ moved' = 0 /\ batch' = NoBatch
        /\ down' = down /\ unheard' = down /\ pressedButtons' = {} /\ sentButtons' = TRUE
    BY <1>6 DEF DisableInput
  <2> QED
    BY <2>1 DEF BatchInv
<1> QED
  BY <1>2, <1>3, <1>4, <1>5, <1>6 DEF InputNext, MouseStep

(* Movement is neither lost nor sent twice, and is sent, of the buttons     *)
(* whose last change the hook could hear, with exactly those that are down, *)
(* however movement, buttons and batch timer interleave.                    *)
THEOREM BatchesAreRight == InputSpec => []BatchKnowsButtons
<1>1. InputInit => BatchInv
  BY DEF InputInit, BatchInv
<1>2. BatchInv => BatchKnowsButtons
  BY DEF BatchInv, BatchKnowsButtons
<1> QED
  BY <1>1, <1>2, StepBatch, PTL DEF InputSpec

-----------------------------------------------------------------------------
(* Keys                                                                    *)

(* What the keyboard hook believes: while the input is disabled, nothing;   *)
(* a key that came up unseen is down no more.                               *)
KeyInv ==
    /\ held \subseteq Keys /\ pressedKeys \subseteq Keys
    /\ missed \subseteq pressedKeys
    /\ missed \cap held = {}
    /\ ~enabled => pressedKeys = {}
    /\ pressedKeys \ missed \subseteq held
    /\ enabled \in BOOLEAN /\ interrupted \in BOOLEAN
    /\ command \in [v : -1..1, w : -1..1]
    /\ ~interrupted => command = calculateDriveCommand(pressedKeys)

LEMMA KeysAreFinite == \A S \in SUBSET Keys : IsFiniteSet(S)
<1>1. \A a, b, c, d : IsFiniteSet({a, b, c, d})
  <2> SUFFICES ASSUME NEW a, NEW b, NEW c, NEW d PROVE IsFiniteSet({a, b, c, d})
    OBVIOUS
  <2>1. IsFiniteSet({a}) /\ IsFiniteSet({b}) /\ IsFiniteSet({c}) /\ IsFiniteSet({d})
    BY FS_Singleton
  <2>2. IsFiniteSet({a} \cup {b}) /\ IsFiniteSet({c} \cup {d})
    BY <2>1, FS_Union
  <2>3. IsFiniteSet(({a} \cup {b}) \cup ({c} \cup {d}))
    BY <2>2, FS_Union
  <2>4. ({a} \cup {b}) \cup ({c} \cup {d}) = {a, b, c, d}
    OBVIOUS
  <2> QED
    BY <2>3, <2>4
<1>2. DriveKeyCodes = {"KeyW", "KeyS", "KeyA", "KeyD"}
                        \cup {"ArrowUp", "ArrowDown", "ArrowLeft", "ArrowRight"}
  BY DEF DriveKeyCodes
<1>3. IsFiniteSet(DriveKeyCodes)
  BY <1>1, <1>2, FS_Union
<1> QED
  BY <1>3, FS_Subset, InputAssumption DEF InputAssumption

(* A drive command is within its bounds, and no keys mean a halt. *)
LEMMA DriveCommands ==
    /\ \A S \in SUBSET Keys : calculateDriveCommand(S) \in [v : -1..1, w : -1..1]
    /\ calculateDriveCommand({}) = Halt
<1>1. \A n \in Int : Clamp(n) \in -1..1
  BY DEF Clamp
<1>2. ASSUME NEW S \in SUBSET Keys
      PROVE  calculateDriveCommand(S) \in [v : -1..1, w : -1..1]
  <2>1. \A D : Cardinality(S \cap D) \in Nat
    <3>1. \A D : S \cap D \in SUBSET Keys
      OBVIOUS
    <3> QED
      BY <3>1, KeysAreFinite, FS_CardinalityType
  <2>2. ASSUME NEW D, NEW E PROVE Cardinality(S \cap D) - Cardinality(S \cap E) \in Int
    <3>1. \A m, n \in Nat : m - n \in Int
      OBVIOUS
    <3> QED
      BY <2>1, <3>1
  <2> QED
    BY <1>1, <2>2 DEF calculateDriveCommand
<1>3. calculateDriveCommand({}) = Halt
  <2>1. \A D : {} \cap D = {}
    OBVIOUS
  <2>2. Cardinality({}) = 0
    BY FS_EmptySet
  <2> QED
    BY <2>1, <2>2 DEF calculateDriveCommand, Halt, Clamp
<1> QED
  BY <1>2, <1>3

LEMMA StepKeys ==
    ASSUME KeyInv, [InputNext]_inputVars PROVE KeyInv'
<1>1. ASSUME NEW S \in SUBSET Keys, setPressedKeys(S)
      PROVE  /\ pressedKeys' = S /\ interrupted' = FALSE
             /\ command' \in [v : -1..1, w : -1..1]
             /\ command' = calculateDriveCommand(pressedKeys')
  BY <1>1, DriveCommands DEF setPressedKeys
<1>2. ASSUME NEW k \in Keys, handleKeyDown(k) PROVE KeyInv'
  <2>1. CASE enabled
    <3>1. setPressedKeys(pressedKeys \cup {k}) /\ missed' = missed \ {k}
          /\ held' = held \cup {k} /\ enabled' = enabled
      BY <1>2, <2>1 DEF handleKeyDown
    <3>2. pressedKeys \cup {k} \in SUBSET Keys
      BY DEF KeyInv
    <3>3. /\ pressedKeys' = pressedKeys \cup {k} /\ interrupted' = FALSE
          /\ command' \in [v : -1..1, w : -1..1]
          /\ command' = calculateDriveCommand(pressedKeys')
      BY <1>1, <3>1, <3>2
    <3>4. /\ held' \subseteq Keys /\ pressedKeys' \subseteq Keys
          /\ missed' \subseteq pressedKeys' /\ missed' \cap held' = {}
          /\ pressedKeys' \ missed' \subseteq held'
      BY <3>1, <3>3 DEF KeyInv
    <3> QED
      BY <2>1, <3>1, <3>3, <3>4 DEF KeyInv
  <2>2. CASE ~enabled
    BY <1>2, <2>2 DEF handleKeyDown, KeyInv
  <2> QED
    BY <2>1, <2>2
<1>3. ASSUME NEW k \in Keys, handleKeyUp(k) PROVE KeyInv'
  <2>1. CASE enabled
    <3>1. setPressedKeys(pressedKeys \ {k}) /\ missed' = missed
          /\ held' = held \ {k} /\ enabled' = enabled /\ k \in held
      BY <1>3, <2>1 DEF handleKeyUp
    <3>2. pressedKeys \ {k} \in SUBSET Keys
      BY DEF KeyInv
    <3>3. /\ pressedKeys' = pressedKeys \ {k} /\ interrupted' = FALSE
          /\ command' \in [v : -1..1, w : -1..1]
          /\ command' = calculateDriveCommand(pressedKeys')
      BY <1>1, <3>1, <3>2
    <3>4. /\ held' \subseteq Keys /\ pressedKeys' \subseteq Keys
          /\ missed' \subseteq pressedKeys' /\ missed' \cap held' = {}
          /\ pressedKeys' \ missed' \subseteq held'
      BY <3>1, <3>3 DEF KeyInv
    <3> QED
      BY <2>1, <3>1, <3>3, <3>4 DEF KeyInv
  <2>2. CASE ~enabled
    BY <1>3, <2>2 DEF handleKeyUp, KeyInv
  <2> QED
    BY <2>1, <2>2
<1>4. ASSUME NEW k \in Keys, KeyUpElsewhere(k) PROVE KeyInv'
  BY <1>4 DEF KeyUpElsewhere, KeyInv
<1>5. CASE DisableInput
  <2>1. /\ enabled' = FALSE /\ pressedKeys' = {} /\ missed' = {} /\ held' = held
        /\ command' = command /\ interrupted' \in BOOLEAN
        /\ ~interrupted' => command = Halt
    BY <1>5 DEF DisableInput, KeyInv
  <2> QED
    BY <2>1, DriveCommands DEF KeyInv
<1>6. CASE Enable
  BY <1>6 DEF Enable, keyboardVars, KeyInv
<1>7. CASE MouseStep \/ UNCHANGED inputVars
  <2>1. UNCHANGED <<enabled, keyboardVars>>
    BY <1>7 DEF MouseStep, handleMouseMove, handleMouseDown, handleMouseUp, MouseElsewhere,
                ButtonFrame, handleWheel, BatchTimeout, inputVars
  <2> QED
    BY <2>1 DEF keyboardVars, KeyInv
<1> QED
  BY <1>2, <1>3, <1>4, <1>5, <1>6, <1>7 DEF InputNext, KeyboardStep

(* A key taken for pressed is down or came up unseen, and the command in    *)
(* force is the one the keys call for unless the input was disabled since:  *)
(* for every set of drive keys, in whatever order they are pressed, released *)
(* and missed.                                                              *)
THEOREM CommandMatchesKeys == InputSpec => []KeysMatch
<1>1. InputInit => KeyInv
  BY DriveCommands DEF InputInit, KeyInv, Halt
<1>2. KeyInv => KeysMatch
  BY DriveCommands DEF KeyInv, KeysMatch
<1> QED
  BY <1>1, <1>2, StepKeys, PTL DEF InputSpec

-----------------------------------------------------------------------------
(* Lost messages                                                           *)

(* The channel has a first and a last message as soon as it has one, and as *)
(* long as they come in order the others are between them.                  *)
LossInv ==
    /\ got \subseteq 1..MaxSequence
    /\ firstSequence \in 0..MaxSequence /\ lastSequence \in 0..MaxSequence
    /\ receivedFirst \in BOOLEAN /\ (receivedFirst <=> got # {})
    /\ got # {} => firstSequence \in got /\ lastSequence \in got
    /\ inOrder => \A m \in got : firstSequence <= m /\ m <= lastSequence
    /\ inOrder \in BOOLEAN
    /\ droppedMessages \in Nat /\ droppedBefore \in Nat
    /\ LossIsCounted

LEMMA MissingIsFinite == IsFiniteSet(Missing) /\ Cardinality(Missing) \in Nat
<1>1. IsFiniteSet(1..MaxSequence)
  BY FS_Interval, VideoAssumption DEF VideoAssumption
<1> QED
  BY <1>1, FS_Subset, FS_CardinalityType DEF Missing

(* A message that comes counts the numbers it leaps, which are those that   *)
(* it makes known to be missing.                                            *)
LEMMA StepLossTimestamp ==
    ASSUME LossInv, NEW n \in 1..MaxSequence, handleTimestamp(n) PROVE LossInv'
<1> DEFINE leapt == (lastSequence + 1)..(n - 1)
<1>1. /\ n \in Nat /\ lastSequence \in Nat /\ firstSequence \in Nat
      /\ MaxSequence \in Nat /\ n <= MaxSequence
      /\ \A m \in got : m \in Nat
  BY VideoAssumption DEF VideoAssumption, LossInv
<1>2. /\ got' = got \cup {n} /\ lastSequence' = n /\ receivedFirst' = TRUE /\ n \notin got
      /\ droppedMessages' = droppedMessages + gap(n) /\ droppedBefore' = droppedBefore
      /\ inOrder' \in BOOLEAN
      /\ inOrder' <=> inOrder /\ (got = {} \/ n > lastSequence)
      /\ firstSequence' = IF got = {} THEN n ELSE firstSequence
  BY DEF handleTimestamp
<1>3. gap(n) \in Nat /\ (gap(n) = IF receivedFirst THEN Cardinality(leapt) ELSE 0)
      /\ IsFiniteSet(leapt)
  <2>1. /\ IsFiniteSet(leapt)
        /\ Cardinality(leapt) = IF lastSequence + 1 > n - 1 THEN 0
                                ELSE (n - 1) - (lastSequence + 1) + 1
    BY <1>1, FS_Interval
  <2> QED
    BY <1>1, <2>1 DEF gap, LossInv
<1>4. /\ got' \subseteq 1..MaxSequence /\ firstSequence' \in 0..MaxSequence
      /\ lastSequence' \in 0..MaxSequence /\ inOrder' \in BOOLEAN
      /\ receivedFirst' \in BOOLEAN /\ (receivedFirst' <=> got' # {})
      /\ firstSequence' \in got' /\ lastSequence' \in got'
  <2>1. got' \subseteq 1..MaxSequence
    BY <1>2 DEF LossInv
  <2>2. firstSequence' \in got' /\ lastSequence' \in got'
    BY <1>2 DEF LossInv
  <2>3. firstSequence' \in 0..MaxSequence /\ lastSequence' \in 0..MaxSequence
    BY <1>1, <2>1, <2>2
  <2> QED
    BY <1>2, <2>1, <2>2, <2>3
<1>5. ASSUME inOrder', NEW m \in got' PROVE firstSequence' <= m /\ m <= lastSequence'
  <2>1. CASE got = {}
    BY <1>1, <1>2, <2>1
  <2>2. CASE got # {}
    <3>1. inOrder /\ n > lastSequence /\ firstSequence' = firstSequence
      BY <1>2, <1>5, <2>2
    <3>2. \A k \in got : firstSequence <= k /\ k <= lastSequence
      BY <3>1 DEF LossInv
    <3>3. firstSequence <= lastSequence
      BY <2>2, <3>2 DEF LossInv
    <3> QED
      BY <1>1, <1>2, <3>1, <3>2, <3>3
  <2> QED
    BY <2>1, <2>2
<1>6. droppedMessages' \in Nat /\ droppedBefore' \in Nat
  BY <1>2, <1>3 DEF LossInv
<1>7. LossIsCounted'
  <2>1. CASE got = {}
    <3>1. \A m \in got' : m = firstSequence'
      BY <1>2, <2>1
    <3>2. Missing' = {} /\ Missing = {}
      <4>1. Missing = {}
        BY <2>1 DEF Missing
      <4>2. firstSequence' \in Nat
        BY <1>1, <1>2, <2>1
      <4>3. \A k \in 1..MaxSequence : ~(k > firstSequence' /\ firstSequence' > k)
        BY <1>1, <4>2
      <4> QED
        BY <3>1, <4>1, <4>3 DEF Missing
    <3>3. droppedMessages' = droppedMessages
      <4>1. gap(n) = 0
        BY <1>3, <2>1 DEF LossInv
      <4> QED
        BY <1>2, <4>1 DEF LossInv
    <3>4. inOrder' = inOrder
      BY <1>2, <2>1 DEF LossInv
    <3> QED
      BY <1>2, <3>2, <3>3, <3>4 DEF LossInv, LossIsCounted
  <2>2. CASE got # {} /\ n > lastSequence
    <3>1. firstSequence' = firstSequence /\ lastSequence \in got /\ inOrder' = inOrder
      BY <1>2, <2>2 DEF LossInv
    <3>2. Missing' \subseteq Missing \cup leapt
      <4> SUFFICES ASSUME NEW k \in Missing', k \notin Missing PROVE k \in leapt
        OBVIOUS
      <4>1. /\ k \in 1..MaxSequence /\ k > firstSequence /\ k \notin got /\ k # n
            /\ \E m \in got \cup {n} : m > k
        BY <1>2, <3>1 DEF Missing
      <4>2. \A m \in got : ~(m > k)
        BY <4>1 DEF Missing
      <4>3. k \in Nat /\ n > k /\ ~(lastSequence > k) /\ k # lastSequence
        BY <3>1, <4>1, <4>2
      <4> QED
        BY <1>1, <4>3
    <3>3. Cardinality(Missing \cup leapt)
            = Cardinality(Missing) + gap(n) - Cardinality(Missing \cap leapt)
          /\ IsFiniteSet(Missing \cup leapt)
      BY <1>3, <2>2, MissingIsFinite, FS_Union DEF LossInv
    <3>4. Cardinality(Missing') <= Cardinality(Missing \cup leapt)
      BY <3>2, <3>3, FS_Subset
    <3>5. Cardinality(Missing \cap leapt) \in Nat /\ Cardinality(Missing') \in Nat
          /\ Cardinality(Missing) \in Nat
      BY <3>2, <3>3, MissingIsFinite, FS_Subset, FS_CardinalityType
    <3>6. ASSUME inOrder PROVE Cardinality(Missing') = Cardinality(Missing) + gap(n)
      <4>1. \A m \in got : m <= lastSequence /\ firstSequence <= lastSequence
        BY <3>6 DEF LossInv
      <4>2. Missing \cap leapt = {}
        <5>1. \A k \in Missing : k \in Nat /\ k < lastSequence
          BY <1>1, <4>1 DEF Missing
        <5> QED
          BY <1>1, <5>1
      <4>3. Missing \cup leapt \subseteq Missing'
        <5>1. ASSUME NEW k \in Missing PROVE k \in Missing'
          <6>1. k \in 1..MaxSequence /\ k > firstSequence /\ k \notin got
                /\ \E m \in got : m > k
            BY DEF Missing
          <6>2. k # n
            BY <1>1, <2>2, <4>1, <6>1
          <6> QED
            BY <1>2, <3>1, <6>1, <6>2 DEF Missing
        <5>2. ASSUME NEW k \in leapt PROVE k \in Missing'
          <6>1. k \in Nat /\ k > lastSequence /\ n > k
            BY <1>1
          <6>2. k \in 1..MaxSequence /\ k > firstSequence /\ k # n
            BY <1>1, <3>1, <4>1, <6>1
          <6>3. k \notin got
            BY <1>1, <4>1, <6>1
          <6> QED
            BY <1>2, <3>1, <6>1, <6>2, <6>3 DEF Missing
        <5> QED
          BY <5>1, <5>2
      <4>4. Cardinality({}) = 0
        BY FS_EmptySet
      <4>5. Missing' = Missing \cup leapt
        BY <3>2, <4>3
      <4>6. Cardinality(Missing') = Cardinality(Missing) + gap(n) - 0
        BY <3>3, <4>2, <4>4, <4>5
      <4> QED
        BY <1>3, <3>5, <4>6
    <3>7. Cardinality(Missing') <= Cardinality(Missing) + gap(n)
      BY <1>3, <3>3, <3>4, <3>5
    <3>8. ASSUME NEW a \in Nat, NEW b \in Nat, NEW g \in Nat,
                 a = Cardinality(Missing), b = Cardinality(Missing'), g = gap(n)
          PROVE  /\ droppedMessages' - droppedBefore' >= b
                 /\ inOrder => droppedMessages' - droppedBefore' = b
      <4>1. b <= a + g /\ (inOrder => b = a + g)
        BY <3>6, <3>7, <3>8
      <4>2. /\ droppedMessages - droppedBefore >= a
            /\ droppedMessages \in Nat /\ droppedBefore \in Nat
            /\ inOrder => droppedMessages - droppedBefore = a
        <5>1. droppedMessages \in Nat /\ droppedBefore \in Nat
          BY DEF LossInv
        <5>2. LossIsCounted
          BY DEF LossInv
        <5> QED
          BY <3>8, <5>1, <5>2 DEF LossIsCounted
      <4>3. droppedMessages' = droppedMessages + g /\ droppedBefore' = droppedBefore
        BY <1>2, <3>8
      <4> QED
        BY <4>1, <4>2, <4>3
    <3>9. /\ droppedMessages' - droppedBefore' >= Cardinality(Missing')
          /\ inOrder => droppedMessages' - droppedBefore' = Cardinality(Missing')
      BY <1>3, <3>5, <3>8
    <3> QED
      BY <3>1, <3>9 DEF LossIsCounted
  <2>3. CASE got # {} /\ ~(n > lastSequence)
    <3>1. firstSequence' = firstSequence /\ lastSequence \in got /\ ~inOrder'
      BY <1>2, <2>3 DEF LossInv
    <3>2. lastSequence > n
      BY <1>1, <1>2, <2>3, <3>1
    <3>3. Missing' \subseteq Missing
      <4> SUFFICES ASSUME NEW k \in Missing' PROVE k \in Missing
        OBVIOUS
      <4>1. /\ k \in 1..MaxSequence /\ k > firstSequence /\ k \notin got
            /\ \E m \in got \cup {n} : m > k
        BY <1>2, <3>1 DEF Missing
      <4>2. n > k => lastSequence > k
        BY <1>1, <3>2, <4>1
      <4> QED
        BY <3>1, <4>1, <4>2 DEF Missing
    <3>4. Cardinality(Missing') <= Cardinality(Missing) /\ Cardinality(Missing') \in Nat
          /\ Cardinality(Missing) \in Nat
      BY <3>3, MissingIsFinite, FS_Subset, FS_CardinalityType
    <3> QED
      BY <1>2, <1>3, <3>1, <3>4 DEF LossInv, LossIsCounted
  <2> QED
    BY <2>1, <2>2, <2>3
<1> QED
  BY <1>4, <1>5, <1>6, <1>7 DEF LossInv

LEMMA StepLoss ==
    ASSUME LossInv, [VideoNext]_videoVars PROVE LossInv'
<1>1. CASE NewChannel
  <2>1. /\ got' = {} /\ firstSequence' = 0 /\ receivedFirst' = FALSE /\ inOrder' = TRUE
        /\ droppedBefore' = droppedMessages /\ droppedMessages' = droppedMessages
        /\ lastSequence' = lastSequence
    BY <1>1 DEF NewChannel
  <2>2. Missing' = {}
    BY <2>1 DEF Missing
  <2>3. Cardinality({}) = 0 /\ droppedMessages - droppedMessages = 0
    BY FS_EmptySet DEF LossInv
  <2>4. LossIsCounted'
    BY <2>1, <2>2, <2>3 DEF LossIsCounted
  <2>5. 0 \in 0..MaxSequence
    BY VideoAssumption DEF VideoAssumption
  <2> QED
    BY <2>1, <2>4, <2>5 DEF LossInv
<1>2. ASSUME NEW n \in 1..MaxSequence, handleTimestamp(n) PROVE LossInv'
  BY <1>2, StepLossTimestamp
<1>3. CASE Process \/ UNCHANGED videoVars
  <2>1. UNCHANGED frameVars
    BY <1>3 DEF Process, videoVars
  <2> QED
    BY <2>1 DEF frameVars, LossInv, LossIsCounted, Missing
<1> QED
  BY <1>1, <1>2, <1>3 DEF VideoNext

(* The invariant is one. *)
LEMMA LossInvariant == VideoSpec => []LossInv
<1>1. ASSUME VideoInit PROVE LossInv
  <2>1. Cardinality({}) = 0 /\ 0 \in 0..MaxSequence
    BY FS_EmptySet, VideoAssumption DEF VideoAssumption
  <2>2. Missing = {}
    BY <1>1 DEF VideoInit, Missing
  <2>3. droppedMessages - droppedBefore = 0
    BY <1>1 DEF VideoInit
  <2>4. LossIsCounted
    BY <2>1, <2>2, <2>3 DEF LossIsCounted
  <2> QED
    BY <1>1, <2>1, <2>4 DEF VideoInit, LossInv
<1> QED
  BY <1>1, StepLoss, PTL DEF VideoSpec

(* Whatever the range of the numbers, every message missed between the      *)
(* first of a channel and its last is counted, in whatever order the others *)
(* come, and nothing else is when they come in order.                       *)
THEOREM LossesAreCounted == VideoSpec => []LossIsCounted
<1>1. LossInv => LossIsCounted
  BY DEF LossInv
<1> QED
  BY <1>1, LossInvariant, PTL

-----------------------------------------------------------------------------
(* Samples                                                                 *)

AtMost(m, n) == IF m < n THEN m ELSE n

(* What the last elements of a sequence are. *)
LEMMA LastElements ==
    ASSUME NEW s \in Seq(Nat), NEW n \in Nat
    PROVE  /\ LastN(s, n) \in Seq(Nat)
           /\ Len(LastN(s, n)) = AtMost(n, Len(s))
           /\ \A i \in 1..AtMost(n, Len(s)) :
                LastN(s, n)[i] = s[Len(s) - AtMost(n, Len(s)) + i]
<1> DEFINE l == AtMost(n, Len(s))
           m == Len(s) - l + 1
<1>1. Len(s) \in Nat /\ \A i \in 1..Len(s) : s[i] \in Nat
  BY LenProperties, ElementOfSeq
<1>2. l \in Nat /\ l <= Len(s) /\ m \in Int /\ 1 <= m
  BY <1>1 DEF AtMost
<1>3. LastN(s, n) = SubSeq(s, m, Len(s))
  BY DEF LastN, AtMost
<1>4. \A i \in m..Len(s) : s[i] \in Nat
  BY <1>1, <1>2
<1> HIDE DEF m
<1>5. /\ SubSeq(s, m, Len(s)) \in Seq(Nat)
      /\ Len(SubSeq(s, m, Len(s))) = IF m <= Len(s) THEN Len(s) - m + 1 ELSE 0
      /\ \A i \in 1..Len(s) - m + 1 : SubSeq(s, m, Len(s))[i] = s[m + i - 1]
  BY <1>1, <1>2, <1>4, SubSeqProperties
<1> HIDE DEF l
<1>6. m = Len(s) - l + 1
  BY DEF m, l
<1>7. /\ Len(s) - m + 1 = l
      /\ (IF m <= Len(s) THEN Len(s) - m + 1 ELSE 0) = l
      /\ \A i \in 1..l : m + i - 1 = Len(s) - l + i
  BY <1>1, <1>2, <1>6
<1>8. /\ LastN(s, n) \in Seq(Nat) /\ Len(LastN(s, n)) = l
      /\ \A i \in 1..l : LastN(s, n)[i] = s[Len(s) - l + i]
  BY <1>3, <1>5, <1>7
<1> QED
  BY <1>8 DEF l

(* The buffer holds the newest timestamps, in the order of their arrival. *)
BufferInv ==
    /\ arrivals \in Nat
    /\ timestamps \in Seq(Nat)
    /\ Len(timestamps) = AtMost(arrivals, BufferSize)
    /\ \A i \in 1..Len(timestamps) : timestamps[i] = arrivals - Len(timestamps) + i

(* The samples are the newest of the first p timestamps. *)
NewestOf(p) ==
    /\ Len(samples) = AtMost(p, maxSamples)
    /\ \A i \in 1..Len(samples) : samples[i] = p - Len(samples) + i

(* What was processed tells which timestamps are new until the buffer is    *)
(* full; from then on there are no new samples.                             *)
SampleInv ==
    /\ rendered \in BOOLEAN
    /\ lastProcessedCount \in 0..Len(timestamps)
    /\ rendered => lastProcessedCount = Len(timestamps)
    /\ samples \in Seq(Nat)
    /\ \A i \in 1..Len(samples) - 1 : samples[i] < samples[i + 1]
    /\ lastProcessedCount < BufferSize \/ arrivals <= BufferSize => NewestOf(lastProcessedCount)

LEMMA StepBuffer ==
    ASSUME BufferInv, [VideoNext]_videoVars PROVE BufferInv'
<1>1. ASSUME NEW n \in 1..MaxSequence, handleTimestamp(n) PROVE BufferInv'
  <2> DEFINE kept == LastN(timestamps, BufferSize - 1)
             l == AtMost(BufferSize - 1, Len(timestamps))
             new == arrivals + 1
  <2>1. BufferSize \in Nat /\ BufferSize - 1 \in Nat /\ arrivals \in Nat /\ new \in Nat
        /\ timestamps \in Seq(Nat) /\ Len(timestamps) = AtMost(arrivals, BufferSize)
    BY VideoAssumption DEF VideoAssumption, BufferInv
  <2>2. /\ kept \in Seq(Nat) /\ Len(kept) = l
        /\ \A i \in 1..l : kept[i] = timestamps[Len(timestamps) - l + i]
    BY <2>1, LastElements
  <2>3. l \in Nat /\ l <= Len(timestamps) /\ l + 1 = AtMost(new, BufferSize)
    BY <2>1 DEF AtMost
  <2>4. arrivals' = new /\ timestamps' = Append(kept, new)
    BY <1>1 DEF handleTimestamp
  <2> HIDE DEF kept, l
  <2>5. /\ Append(kept, new) \in Seq(Nat) /\ Len(Append(kept, new)) = l + 1
        /\ \A i \in 1..l : Append(kept, new)[i] = kept[i]
        /\ Append(kept, new)[l + 1] = new
    BY <2>1, <2>2, AppendProperties
  <2>6. ASSUME NEW i \in 1..(l + 1) PROVE timestamps'[i] = new - (l + 1) + i
    <3>1. CASE i = l + 1
      BY <2>1, <2>3, <2>4, <2>5, <3>1
    <3>2. CASE i # l + 1
      <4>1. i \in 1..l
        BY <2>3, <3>2
      <4>2. Len(timestamps) - l + i \in 1..Len(timestamps) /\ Len(timestamps) \in Nat
        BY <2>1, <2>3, <4>1, LenProperties
      <4>3. timestamps[Len(timestamps) - l + i]
              = arrivals - Len(timestamps) + (Len(timestamps) - l + i)
        BY <4>2 DEF BufferInv
      <4>4. timestamps'[i] = timestamps[Len(timestamps) - l + i]
        BY <2>2, <2>4, <2>5, <4>1
      <4> QED
        BY <2>1, <2>3, <4>1, <4>2, <4>3, <4>4
    <3> QED
      BY <3>1, <3>2
  <2> QED
    BY <2>1, <2>3, <2>4, <2>5, <2>6 DEF BufferInv
<1>2. CASE NewChannel \/ Process \/ UNCHANGED videoVars
  BY <1>2 DEF NewChannel, Process, videoVars, frameVars, BufferInv
<1> QED
  BY <1>1, <1>2 DEF VideoNext

(* The samples taken from the timestamps not yet processed. *)
LEMMA StepProcess ==
    ASSUME BufferInv, SampleInv, Process PROVE SampleInv'
<1> DEFINE p == lastProcessedCount
           count == Len(timestamps)
           new == newTimestamps(p)
           all == samples \o new
           after == LastN(all, maxSamples)
<1>1. /\ count \in Nat /\ p \in Nat /\ p <= count
      /\ maxSamples \in Nat \ {0} /\ BufferSize \in Nat \ {0} /\ arrivals \in Nat
      /\ count = AtMost(arrivals, BufferSize)
      /\ timestamps \in Seq(Nat) /\ samples \in Seq(Nat)
  BY LenProperties, VideoAssumption DEF VideoAssumption, BufferInv, SampleInv
<1>2. UNCHANGED <<arrivals, timestamps>> /\ rendered' = TRUE
  BY DEF Process, frameVars
<1>3. CASE count = p
  <2>1. UNCHANGED <<lastProcessedCount, samples>>
    BY <1>1, <1>3 DEF Process, latencyVars
  <2> QED
    BY <1>2, <1>3, <2>1 DEF SampleInv, NewestOf
<1>4. CASE count # p
  <2>1. lastProcessedCount' = count /\ samples' = after
    BY <1>1, <1>4 DEF Process
  <2>2. p < count /\ p < BufferSize /\ count <= BufferSize /\ count <= arrivals
    BY <1>1, <1>4 DEF AtMost
  <2>3. /\ Len(samples) = AtMost(p, maxSamples)
        /\ \A i \in 1..Len(samples) : samples[i] = p - Len(samples) + i
    BY <2>2 DEF SampleInv, NewestOf
  <2>4. Len(samples) \in Nat /\ Len(samples) <= p /\ Len(samples) <= maxSamples
    BY <1>1, <2>3 DEF AtMost
  <2>5. /\ new \in Seq(Nat) /\ Len(new) = count - p
        /\ \A j \in 1..(count - p) : new[j] = arrivals - count + p + j
    <3>1. \A i \in (p + 1)..count : i \in 1..count
      BY <1>1
    <3>2. \A i \in (p + 1)..count : timestamps[i] \in Nat
      BY <1>1, <3>1, ElementOfSeq
    <3>3. p + 1 \in Int /\ count \in Int /\ p + 1 <= count
          /\ count - (p + 1) + 1 = count - p
      BY <1>1, <2>2
    <3>4. /\ new \in Seq(Nat) /\ Len(new) = count - p
          /\ \A j \in 1..(count - p) : new[j] = timestamps[p + 1 + j - 1]
      BY <3>2, <3>3, SubSeqProperties DEF newTimestamps
    <3>5. ASSUME NEW j \in 1..(count - p) PROVE new[j] = arrivals - count + p + j
      <4>1. p + 1 + j - 1 = p + j /\ p + j \in 1..count
        BY <1>1
      <4>2. timestamps[p + j] = arrivals - count + (p + j)
        BY <4>1 DEF BufferInv
      <4> QED
        BY <1>1, <3>4, <4>1, <4>2
    <3> QED
      BY <3>4, <3>5
  <2>6. /\ all \in Seq(Nat) /\ Len(all) = Len(samples) + (count - p)
        /\ \A i \in 1..Len(samples) + (count - p) :
             all[i] = IF i <= Len(samples) THEN samples[i] ELSE new[i - Len(samples)]
    BY <1>1, <2>5, ConcatProperties
  <2> DEFINE total == Len(samples) + (count - p)
             value(i) == IF i <= Len(samples) THEN p - Len(samples) + i
                         ELSE arrivals - count + p + (i - Len(samples))
  <2>7. ASSUME NEW i \in 1..total PROVE all[i] = value(i)
    <3>1. CASE i <= Len(samples)
      BY <2>3, <2>4, <2>6, <3>1
    <3>2. CASE ~(i <= Len(samples))
      <4>1. i - Len(samples) \in 1..(count - p)
        BY <1>1, <2>4, <3>2
      <4> QED
        BY <2>5, <2>6, <3>2, <4>1
    <3> QED
      BY <3>1, <3>2
  <2>8. \A i \in 1..total : /\ i + 1 \in 1..total => all[i] < all[i + 1]
                            /\ arrivals = count => all[i] = p - Len(samples) + i
    <3> SUFFICES ASSUME NEW i \in 1..total
                 PROVE  /\ i + 1 \in 1..total => all[i] < all[i + 1]
                        /\ arrivals = count => all[i] = p - Len(samples) + i
      OBVIOUS
    <3>1. all[i] = value(i)
      BY <2>7
    <3>2. i + 1 \in 1..total => all[i + 1] = value(i + 1)
      BY <2>7
    <3>3. value(i) < value(i + 1) /\ (arrivals = count => value(i) = p - Len(samples) + i)
      <4>1. /\ i \in Int /\ p \in Int /\ Len(samples) \in Int /\ count \in Int /\ arrivals \in Int
            /\ count <= arrivals
        BY <1>1, <2>2, <2>4
      <4>2. CASE i + 1 <= Len(samples)
        BY <4>1, <4>2
      <4>3. CASE i = Len(samples)
        BY <4>1, <4>3
      <4>4. CASE i > Len(samples)
        BY <4>1, <4>4
      <4> QED
        BY <4>1, <4>2, <4>3, <4>4
    <3> QED
      BY <3>1, <3>2, <3>3
  <2> HIDE DEF value, all
  <2> DEFINE l == AtMost(maxSamples, total)
  <2>9. total \in Nat /\ l \in Nat /\ l <= total /\ maxSamples \in Nat
        /\ l = AtMost(count, maxSamples)
    BY <1>1, <2>2, <2>3, <2>4 DEF AtMost
  <2>10. /\ after \in Seq(Nat) /\ Len(after) = l
         /\ \A i \in 1..l : after[i] = all[total - l + i]
    <3>1. /\ after \in Seq(Nat) /\ Len(after) = AtMost(maxSamples, Len(all))
          /\ \A i \in 1..AtMost(maxSamples, Len(all)) :
               after[i] = all[Len(all) - AtMost(maxSamples, Len(all)) + i]
      BY <2>6, <2>9, LastElements
    <3>2. Len(all) = total
      BY <2>6
    <3> HIDE DEF total, after
    <3> QED
      BY <3>1, <3>2
  <2> HIDE DEF l, total, after
  <2>11. \A i \in 1..(l - 1) : after[i] < after[i + 1]
    <3> SUFFICES ASSUME NEW i \in 1..(l - 1) PROVE after[i] < after[i + 1]
      OBVIOUS
    <3>1. /\ i \in 1..l /\ i + 1 \in 1..l
          /\ total - l + i \in 1..total /\ (total - l + i) + 1 \in 1..total
          /\ total - l + (i + 1) = (total - l + i) + 1
      BY <2>9
    <3> QED
      BY <2>8, <2>10, <3>1
  <2>12. ASSUME arrivals = count, NEW i \in 1..l PROVE after[i] = count - l + i
    <3>1. total - l + i \in 1..total
      BY <2>9
    <3>2. after[i] = p - Len(samples) + (total - l + i)
      BY <2>8, <2>10, <2>12, <3>1
    <3>3. total = Len(samples) + (count - p)
      BY DEF total
    <3>4. i \in Int /\ l \in Int /\ p \in Int /\ count \in Int /\ Len(samples) \in Int
      BY <1>1, <2>4, <2>9
    <3>5. p - Len(samples) + (total - l + i) = count - l + i
      BY <3>3, <3>4
    <3> QED
      BY <3>2, <3>5
  <2>13. count < BufferSize \/ arrivals <= BufferSize => arrivals = count
    BY <1>1 DEF AtMost
  <2>14. /\ rendered' \in BOOLEAN /\ lastProcessedCount' \in 0..Len(timestamps')
         /\ lastProcessedCount' = Len(timestamps')
    BY <1>1, <1>2, <2>1
  <2>15. /\ samples' \in Seq(Nat) /\ Len(samples') = l
         /\ \A i \in 1..Len(samples') - 1 : samples'[i] < samples'[i + 1]
    BY <2>1, <2>10, <2>11
  <2>16. lastProcessedCount' < BufferSize \/ arrivals' <= BufferSize
           => NewestOf(lastProcessedCount)'
    BY <1>2, <2>1, <2>9, <2>12, <2>13, <2>15 DEF NewestOf
  <2> QED
    BY <2>14, <2>15, <2>16 DEF SampleInv
<1> QED
  BY <1>3, <1>4

LEMMA StepSamples ==
    ASSUME BufferInv, SampleInv, [VideoNext]_videoVars PROVE SampleInv'
<1>1. ASSUME NEW n \in 1..MaxSequence, handleTimestamp(n) PROVE SampleInv'
  <2>1. /\ UNCHANGED <<lastProcessedCount, samples>> /\ rendered' = FALSE
        /\ arrivals' = arrivals + 1
    BY <1>1 DEF handleTimestamp, latencyVars
  <2>2. /\ Len(timestamps) = AtMost(arrivals, BufferSize) /\ arrivals \in Nat
        /\ Len(timestamps') = AtMost(arrivals', BufferSize)
        /\ BufferSize \in Nat \ {0}
    <3>1. BufferInv'
      BY <1>1, StepBuffer DEF VideoNext
    <3> QED
      BY <3>1, VideoAssumption DEF BufferInv, VideoAssumption
  <2>3. lastProcessedCount' \in 0..Len(timestamps')
    BY <2>1, <2>2 DEF SampleInv, AtMost
  <2>4. arrivals' <= BufferSize => arrivals <= BufferSize
    BY <2>1, <2>2
  <2> QED
    BY <2>1, <2>3, <2>4 DEF SampleInv, NewestOf
<1>2. CASE Process
  BY <1>2, StepProcess
<1>3. CASE NewChannel \/ UNCHANGED videoVars
  BY <1>3 DEF NewChannel, videoVars, frameVars, latencyVars, SampleInv, NewestOf
<1> QED
  BY <1>1, <1>2, <1>3 DEF VideoNext

(* The invariants are. *)
LEMMA SampleInvariant == VideoSpec => [](BufferInv /\ SampleInv)
<1>1. VideoInit => BufferInv /\ SampleInv
  <2>1. <<>> \in Seq(Nat) /\ Len(<<>>) = 0
    BY EmptySeq
  <2>2. AtMost(0, BufferSize) = 0 /\ AtMost(0, maxSamples) = 0
    BY VideoAssumption DEF VideoAssumption, AtMost
  <2> QED
    BY <2>1, <2>2 DEF VideoInit, BufferInv, SampleInv, NewestOf
<1> QED
  BY <1>1, StepBuffer, StepSamples, PTL DEF VideoSpec

(* No timestamp becomes a sample twice, and until the buffer is full none   *)
(* is passed over, for any buffer and any number of samples kept, however   *)
(* many timestamps arrive between two renders.                              *)
THEOREM SamplesAreTheNewest == VideoSpec => []EachTimestampOnce
<1>1. ASSUME BufferInv, SampleInv PROVE EachTimestampOnce
  <2> DEFINE first == [i \in 1..arrivals |-> i]
  <2>1. arrivals \in Nat /\ maxSamples \in Nat /\ BufferSize \in Nat /\ samples \in Seq(Nat)
    BY <1>1, VideoAssumption DEF VideoAssumption, BufferInv, SampleInv
  <2>2. ASSUME arrivals <= BufferSize, rendered PROVE samples = LastN(first, maxSamples)
    <3>1. lastProcessedCount = arrivals
      BY <1>1, <2>1, <2>2 DEF BufferInv, SampleInv, AtMost
    <3>2. /\ Len(samples) = AtMost(arrivals, maxSamples)
          /\ \A i \in 1..Len(samples) : samples[i] = arrivals - Len(samples) + i
      BY <1>1, <2>2, <3>1 DEF SampleInv, NewestOf
    <3>3. first \in Seq(Nat) /\ Len(first) = arrivals
      BY <2>1
    <3>4. AtMost(arrivals, maxSamples) = AtMost(maxSamples, arrivals)
          /\ AtMost(arrivals, maxSamples) \in 0..arrivals
      BY <2>1 DEF AtMost
    <3> DEFINE l == AtMost(arrivals, maxSamples)
               lasts == LastN(first, maxSamples)
    <3>5. \A i \in 1..arrivals : first[i] = i
      OBVIOUS
    <3> HIDE DEF first
    <3>6. /\ lasts \in Seq(Nat)
          /\ Len(lasts) = l
          /\ \A i \in 1..l : lasts[i] = first[arrivals - l + i]
      <4>1. /\ lasts \in Seq(Nat) /\ Len(lasts) = AtMost(maxSamples, Len(first))
            /\ \A i \in 1..AtMost(maxSamples, Len(first)) :
                 lasts[i] = first[Len(first) - AtMost(maxSamples, Len(first)) + i]
        BY <2>1, <3>3, LastElements
      <4> HIDE DEF lasts
      <4> QED
        BY <3>3, <3>4, <4>1
    <3> HIDE DEF l, lasts
    <3>7. ASSUME NEW i \in 1..l PROVE first[arrivals - l + i] = arrivals - l + i
      <4>1. arrivals - l + i \in 1..arrivals
        BY <2>1, <3>4 DEF l
      <4> QED
        BY <3>5, <4>1
    <3>8. \A i \in 1..Len(samples) : samples[i] = lasts[i]
      BY <3>2, <3>6, <3>7 DEF l
    <3>9. Len(samples) = Len(lasts)
      BY <3>2, <3>6 DEF l
    <3>10. samples = lasts
      BY <2>1, <3>6, <3>8, <3>9, SeqEqual
    <3> QED
      BY <3>10 DEF lasts
  <2> QED
    BY <1>1, <2>2 DEF EachTimestampOnce, SampleInv
<1> QED
  BY <1>1, SampleInvariant, PTL

-----------------------------------------------------------------------------
(* The console                                                             *)

(* What the inductive invariants leave open of the types of the input.      *)
MouseTypes ==
    /\ batchMs \in BOOLEAN /\ accumulatedScroll \in BOOLEAN
    /\ down \subseteq Buttons /\ unheard \subseteq Buttons
    /\ pressedButtons \subseteq Buttons
    /\ batch = NoBatch \/ batch \in SUBSET Buttons
    /\ accumulatedMovement \in -MaxMove..MaxMove

LEMMA StepMouseTypes ==
    ASSUME MouseTypes, [InputNext]_inputVars PROVE MouseTypes'
<1> USE DEF MouseTypes
<1>1. 0 \in -MaxMove..MaxMove
  BY InputAssumption DEF InputAssumption
<1>2. ASSUME NEW d \in {-1, 1}, handleMouseMove(d) PROVE MouseTypes'
  BY <1>1, <1>2 DEF handleMouseMove, flushBatch, buttonVars
<1>3. ASSUME NEW b \in Buttons, handleMouseDown(b) \/ handleMouseUp(b) \/ MouseElsewhere(b)
      PROVE  MouseTypes'
  BY <1>3 DEF handleMouseDown, handleMouseUp, MouseElsewhere, setPressedButtons, ButtonFrame
<1>4. CASE handleWheel \/ BatchTimeout
  BY <1>1, <1>4 DEF handleWheel, BatchTimeout, flushBatch, buttonVars
<1>5. CASE KeyboardStep
  BY <1>5 DEF KeyboardStep, handleKeyDown, handleKeyUp, KeyUpElsewhere, mouseVars, buttonVars
<1>6. CASE Enable \/ DisableInput \/ UNCHANGED inputVars
  BY <1>1, <1>6 DEF Enable, DisableInput, mouseVars, buttonVars, inputVars
<1> QED
  BY <1>2, <1>3, <1>4, <1>5, <1>6 DEF InputNext, MouseStep

(* Every variable of the input keeps its type. *)
LEMMA InputTypes == InputSpec => []InputTypeOK
<1>1. InputInit => KeyInv /\ BatchInv /\ MouseTypes
  <2>1. InputInit => KeyInv
    BY DriveCommands DEF InputInit, KeyInv, Halt
  <2>2. InputInit => BatchInv
    BY DEF InputInit, BatchInv
  <2>3. InputInit => MouseTypes
    <3>1. 0 \in -MaxMove..MaxMove
      BY InputAssumption DEF InputAssumption
    <3> QED
      BY <3>1 DEF InputInit, MouseTypes
  <2> QED
    BY <2>1, <2>2, <2>3
<1>2. KeyInv /\ BatchInv /\ MouseTypes => InputTypeOK
  BY DEF KeyInv, BatchInv, MouseTypes, InputTypeOK
<1> QED
  BY <1>1, <1>2, StepKeys, StepBatch, StepMouseTypes, PTL DEF InputSpec

(* Every variable of the times shown keeps its type. *)
LEMMA StatusTypes == StatusSpec => []StatusTypeOK
<1>1. ASSUME StatusIInv PROVE StatusTypeOK
  <2>1. clock \in Nat /\ clock <= MaxClock /\ MaxClock \in Nat
    BY <1>1, StatusAssumption DEF StatusIInv, StatusVarsOK, StatusAssumption
  <2>2. elapsedTime \in Int /\ elapsedTime <= MaxClock
    <3>1. CASE ~HasTimer
      BY <1>1, <2>1, <3>1 DEF StatusIInv, TimerInv
    <3>2. CASE HasTimer
      <4>1. sessionStartTime \in Nat
        BY <1>1, <3>2, DatesAreNumbers DEF StatusIInv, StatusVarsOK, HasTimer
      <4>2. late("timer") \in {0, 1}
        BY DEF late
      <4>3. elapsedTime = clock - late("timer") - sessionStartTime
        BY <1>1, <3>2 DEF StatusIInv, TimerInv
      <4> QED
        BY <2>1, <4>1, <4>2, <4>3
    <3> QED
      BY <3>1, <3>2
  <2>3. timeToExpiry \in Nat \cup {NoDate}
    <3>1. CASE ~HasExpiry
      BY <1>1, <3>1 DEF StatusIInv, ExpiryInv
    <3>2. CASE HasExpiry
      <4>1. tokenExpiresAt \in Nat
        BY <1>1, <3>2, DatesAreNumbers DEF StatusIInv, StatusVarsOK, HasExpiry
      <4>2. late("expiry") \in {0, 1}
        BY DEF late
      <4>3. timeToExpiry = IF tokenExpiresAt > clock - late("expiry")
                           THEN tokenExpiresAt - (clock - late("expiry")) ELSE 0
        BY <1>1, <3>2 DEF StatusIInv, ExpiryInv
      <4> QED
        BY <2>1, <4>1, <4>2, <4>3
    <3> QED
      BY <3>1, <3>2
  <2> QED
    BY <1>1, <2>1, <2>2, <2>3 DEF StatusIInv, StatusVarsOK, StatusTypeOK
<1> QED
  BY <1>1, StatusInvariant, PTL

(* What the inductive invariants leave open of the types of the video. *)
VideoTypes ==
    /\ open \in BOOLEAN /\ clockOffset \in BOOLEAN
    /\ negative \subseteq ToSet(samples)

LEMMA StepVideoTypes ==
    ASSUME VideoTypes, [VideoNext]_videoVars PROVE VideoTypes'
<1> USE DEF VideoTypes
<1>1. CASE Process
  <2>1. CASE UNCHANGED latencyVars
    BY <1>1, <2>1 DEF Process, frameVars, latencyVars
  <2>2. CASE ~UNCHANGED latencyVars
    <3>1. negative' \subseteq ToSet(samples')
      BY <1>1, <2>2 DEF Process
    <3>2. \E n, count : clockOffset' = offsetReported(n, count)
      BY <1>1, <2>2 DEF Process
    <3>3. clockOffset' \in BOOLEAN
      BY <3>2 DEF offsetReported
    <3> QED
      BY <1>1, <3>1, <3>3 DEF Process, frameVars
  <2> QED
    BY <2>1, <2>2
<1>2. ASSUME NEW n \in 1..MaxSequence, handleTimestamp(n) PROVE VideoTypes'
  BY <1>2 DEF handleTimestamp, latencyVars
<1>3. CASE NewChannel \/ UNCHANGED videoVars
  BY <1>3 DEF NewChannel, latencyVars, frameVars, videoVars
<1> QED
  BY <1>1, <1>2, <1>3 DEF VideoNext

(* Every variable of the video keeps its type. *)
LEMMA VideoTypesKept == VideoSpec => []VideoTypeOK
<1>1. VideoInit => VideoTypes
  BY DEF VideoInit, VideoTypes
<1>2. VideoSpec => []VideoTypes
  BY <1>1, StepVideoTypes, PTL DEF VideoSpec
<1>3. ASSUME LossInv, BufferInv, SampleInv, VideoTypes PROVE VideoTypeOK
  <2>1. droppedBefore <= droppedMessages
    <3>1. /\ droppedMessages \in Nat /\ droppedBefore \in Nat
          /\ droppedMessages - droppedBefore >= Cardinality(Missing)
          /\ Cardinality(Missing) \in Nat
      BY <1>3, MissingIsFinite DEF LossInv, LossIsCounted
    <3> QED
      BY <3>1
  <2>2. Len(timestamps) \in Nat /\ Len(timestamps) <= BufferSize
    BY <1>3, VideoAssumption, LenProperties DEF BufferInv, AtMost, VideoAssumption
  <2>3. lastProcessedCount \in 0..BufferSize
    BY <1>3, <2>2, VideoAssumption DEF SampleInv, VideoAssumption
  <2> QED
    BY <1>3, <2>1, <2>2, <2>3 DEF LossInv, SampleInv, VideoTypes, VideoTypeOK
<1> QED
  BY <1>2, <1>3, LossInvariant, SampleInvariant, PTL

(* Each part takes its own steps in the console. *)
LEMMA PartsOfTheConsole == Spec => LinkSpec /\ StatusSpec /\ InputSpec /\ VideoSpec
<1>1. Init => LinkInit /\ StatusInit /\ InputInit /\ VideoInit
  BY DEF Init
<1>2. [Next]_vars => /\ [LinkNext]_linkVars /\ [StatusNext]_statusVars
                     /\ [InputNext]_inputVars /\ [VideoNext]_videoVars
  BY DEF Next, vars, LinkStep, StatusStep, InputStep, VideoStep
<1> QED
  BY <1>1, <1>2, PTL DEF Spec, LinkSpec, StatusSpec, InputSpec, VideoSpec

(* Every variable of the console keeps its type, in every part of it. *)
THEOREM ConsoleTypeCorrect == Spec => []TypeOK
<1>1. LinkTypeOK /\ StatusTypeOK /\ InputTypeOK /\ VideoTypeOK => TypeOK
  BY DEF TypeOK
<1> QED
  BY <1>1, PartsOfTheConsole, LinkTypeCorrect, StatusTypes, InputTypes, VideoTypesKept, PTL
=============================================================================
