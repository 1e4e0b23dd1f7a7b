---------------------------- MODULE ConsoleInput -----------------------------
(***************************************************************************)
(* The operator's keyboard and mouse (useKeyboardInput.ts,                 *)
(* useMouseInput.ts): what the hooks believe to be pressed against what    *)
(* is, and the commands they make of it.  An event, the render it causes   *)
(* and the effects of that render are one step.  Vertical movement is      *)
(* handled as the horizontal is and left out, as are the callbacks that    *)
(* only pass an event on: an e-stop key reaches onEStop and changes        *)
(* nothing here.                                                           *)
(***************************************************************************)
EXTENDS Integers, FiniteSets

CONSTANTS
    Keys,               (* the drive keys the operator uses                  *)
    Buttons, NoBatch,
    MaxMove             (* bounds the movement waiting and that sent         *)

DriveKeyCodes == {"KeyW", "KeyS", "KeyA", "KeyD",
                  "ArrowUp", "ArrowDown", "ArrowLeft", "ArrowRight"}

ASSUME InputAssumption == Keys \subseteq DriveKeyCodes /\ MaxMove \in Nat

VARIABLES
    enabled,
    held,               (* the keys that are down                            *)
    missed,             (* pressed keys that came up with the window out of  *)
                        (* focus, when no event reaches it                   *)
    pressedKeys,
    command,            (* the last drive command                            *)
    interrupted,        (* the input was disabled since then                 *)
    batchMs,            (* whether movement is batched                       *)
    down,               (* the buttons that are down                         *)
    unheard,            (* those last pressed or released where the hook     *)
                        (* does not listen: outside the target, or disabled  *)
    pressedButtons,
    accumulatedMovement,
    accumulatedScroll,  (* whether the wheel has turned                      *)
    batch,              (* the buttons captured by the timer that runs       *)
    moved, sent,        (* the movement seen and sent since it was enabled   *)
    sentButtons         (* whether the last command named the right buttons  *)

keyboardVars == <<held, missed, pressedKeys, command, interrupted>>
buttonVars == <<down, unheard, pressedButtons>>
mouseVars == <<buttonVars, accumulatedMovement, accumulatedScroll, batch, moved, sent,
               sentButtons>>
inputVars == <<enabled, batchMs, keyboardVars, mouseVars>>

(* The keys of each direction. *)
DRIVE_KEYS ==
    [forward |-> {"KeyW", "ArrowUp"}, backward |-> {"KeyS", "ArrowDown"},
     left |-> {"KeyA", "ArrowLeft"}, right |-> {"KeyD", "ArrowRight"}]

Clamp(n) == IF n > 1 THEN 1 ELSE IF n < -1 THEN -1 ELSE n

(* Every pressed key adds 1 or -1 to its axis. *)
calculateDriveCommand(keys) ==
    LET pressed(direction) == Cardinality(keys \cap DRIVE_KEYS[direction])
    IN  [v |-> Clamp(pressed("forward") - pressed("backward")),
         w |-> Clamp(pressed("left") - pressed("right"))]

Halt == [v |-> 0, w |-> 0]

InputInit ==
    /\ enabled = FALSE
    /\ held = {} /\ missed = {} /\ pressedKeys = {}
    /\ command = Halt /\ interrupted = FALSE
    /\ batchMs \in BOOLEAN
    /\ down = {} /\ unheard = {} /\ pressedButtons = {}
    /\ accumulatedMovement = 0 /\ accumulatedScroll = FALSE
    /\ batch = NoBatch
    /\ moved = 0 /\ sent = 0 /\ sentButtons = TRUE

-----------------------------------------------------------------------------
(* The keyboard                                                            *)

(* setPressedKeys, which also sends the command of the new set. *)
setPressedKeys(keys) ==
    /\ pressedKeys' = keys
    /\ command' = calculateDriveCommand(keys)
    /\ interrupted' = FALSE

(* A key goes down, or repeats; a repeat the debounce drops is no step.     *)
handleKeyDown(k) ==
    /\ held' = held \cup {k}
    /\ IF enabled THEN setPressedKeys(pressedKeys \cup {k}) /\ missed' = missed \ {k}
                  ELSE UNCHANGED <<pressedKeys, command, interrupted, missed>>
    /\ UNCHANGED <<enabled, batchMs, mouseVars>>

(* Faulty variant: a key that comes up sends the command of the keys before. *)
handleKeyUpLate(k) ==
    /\ k \in held
    /\ held' = held \ {k}
    /\ IF enabled THEN /\ pressedKeys' = pressedKeys \ {k}
                       /\ command' = calculateDriveCommand(pressedKeys)
                       /\ interrupted' = FALSE
                  ELSE UNCHANGED <<pressedKeys, command, interrupted>>
    /\ UNCHANGED <<enabled, batchMs, mouseVars, missed>>

handleKeyUp(k) ==
    /\ k \in held
    /\ held' = held \ {k}
    /\ IF enabled THEN setPressedKeys(pressedKeys \ {k})
                  ELSE UNCHANGED <<pressedKeys, command, interrupted>>
    /\ UNCHANGED <<enabled, batchMs, mouseVars, missed>>

(* A key comes up while another window has the focus. *)
KeyUpElsewhere(k) ==
    /\ k \in held
    /\ held' = held \ {k}
    /\ missed' = missed \cup ({k} \cap pressedKeys)
    /\ UNCHANGED <<enabled, batchMs, mouseVars, pressedKeys, command, interrupted>>

-----------------------------------------------------------------------------
(* The mouse                                                               *)

(* The right buttons: of those the hook could follow, the ones down. *)
RightButtons(buttons) == buttons \ unheard = down \ unheard

(* A command that would carry no movement is not sent, its scroll is lost.  *)
flushBatch(movement, buttons) ==
    /\ sent' = sent + movement
    /\ sentButtons' = IF movement = 0 THEN sentButtons ELSE RightButtons(buttons)
    /\ accumulatedMovement' = 0
    /\ accumulatedScroll' = FALSE

handleMouseMove(d) ==
    LET movement == accumulatedMovement + d IN
    /\ enabled
    /\ movement \in -MaxMove..MaxMove /\ moved + d \in -MaxMove..MaxMove
    /\ moved' = moved + d
    /\ \/ /\ ~batchMs
          /\ flushBatch(movement, pressedButtons)
          /\ UNCHANGED batch
       \/ /\ batchMs
          /\ accumulatedMovement' = movement
          /\ batch' = IF batch = NoBatch THEN pressedButtons ELSE batch
          /\ UNCHANGED <<accumulatedScroll, sent, sentButtons>>
    /\ UNCHANGED <<enabled, batchMs, keyboardVars, buttonVars>>

(* The timeout of scheduleBatch, with the flushBatch it was set with. *)
BatchTimeout ==
    /\ batch # NoBatch
    /\ flushBatch(accumulatedMovement, batch)
    /\ batch' = NoBatch
    /\ UNCHANGED <<enabled, batchMs, keyboardVars, buttonVars, moved>>

(* Faulty variant: the cleanup leaves the timer alone. *)
setPressedButtonsKeepsTimer(buttons) ==
    /\ pressedButtons' = buttons
    /\ UNCHANGED batch

(* Buttons set anew, even to the same, make new handlers: the cleanup of    *)
(* their effect clears the timer, and the movement waits for the next one.  *)
setPressedButtons(buttons) ==
    /\ pressedButtons' = buttons
    /\ batch' = NoBatch

ButtonFrame == UNCHANGED <<enabled, batchMs, keyboardVars, accumulatedMovement,
                           accumulatedScroll, moved, sent, sentButtons>>

handleMouseDown(b) ==
    /\ enabled /\ b \notin down
    /\ setPressedButtons(pressedButtons \cup {b})
    /\ down' = down \cup {b}
    /\ unheard' = unheard \ {b}
    /\ ButtonFrame

(* A button comes up over the target, wherever it was pressed. *)
handleMouseUp(b) ==
    /\ enabled /\ b \in down
    /\ setPressedButtons(pressedButtons \ {b})
    /\ down' = down \ {b}
    /\ unheard' = unheard \ {b}
    /\ ButtonFrame

(* A button is pressed or released outside the target, or while the input is *)
(* disabled: no handler hears it.                                           *)
MouseElsewhere(b) ==
    /\ down' = IF b \in down THEN down \ {b} ELSE down \cup {b}
    /\ unheard' = unheard \cup {b}
    /\ UNCHANGED <<pressedButtons, batch>>
    /\ ButtonFrame

handleWheel ==
    /\ enabled
    /\ accumulatedScroll' = TRUE
    /\ UNCHANGED <<enabled, batchMs, keyboardVars, buttonVars, accumulatedMovement,
                   batch, moved, sent, sentButtons>>

-----------------------------------------------------------------------------
(* Both                                                                    *)

Enable ==
    /\ ~enabled
    /\ enabled' = TRUE
    /\ UNCHANGED <<batchMs, keyboardVars, mouseVars>>

(* The effects of both hooks on enabled: no command stops the robot, and the *)
(* buttons that are down are forgotten.                                     *)
DisableInput ==
    /\ enabled
    /\ enabled' = FALSE
    /\ pressedKeys' = {} /\ missed' = {}
    /\ interrupted' = (interrupted \/ command # Halt)
    /\ unheard' = down /\ pressedButtons' = {} /\ batch' = NoBatch
    /\ accumulatedMovement' = 0 /\ accumulatedScroll' = FALSE
    /\ moved' = 0 /\ sent' = 0 /\ sentButtons' = TRUE
    /\ UNCHANGED <<batchMs, held, command, down>>

KeyboardStep == \E k \in Keys : handleKeyDown(k) \/ handleKeyUp(k) \/ KeyUpElsewhere(k)

MouseStep ==
    \/ \E d \in {-1, 1} : handleMouseMove(d)
    \/ \E b \in Buttons : handleMouseDown(b) \/ handleMouseUp(b) \/ MouseElsewhere(b)
    \/ handleWheel
    \/ BatchTimeout

InputNext == KeyboardStep \/ MouseStep \/ Enable \/ DisableInput

InputTypeOK ==
    /\ {enabled, interrupted, batchMs, accumulatedScroll, sentButtons} \subseteq BOOLEAN
    /\ held \subseteq Keys /\ pressedKeys \subseteq Keys
    /\ missed \subseteq pressedKeys
    /\ command \in [v : -1..1, w : -1..1]
    /\ down \subseteq Buttons /\ unheard \subseteq Buttons
    /\ pressedButtons \subseteq Buttons
    /\ batch = NoBatch \/ batch \in SUBSET Buttons
    /\ accumulatedMovement \in -MaxMove..MaxMove

-----------------------------------------------------------------------------
(* Properties                                                              *)

(* The last command is the one the keys call for: a key that is taken for   *)
(* pressed is down, or came up unseen; and unless the input was disabled,   *)
(* which sends nothing, releasing the keys in any order ends in a halt.     *)
KeysMatch ==
    /\ pressedKeys \ missed \subseteq held
    /\ ~interrupted => command = calculateDriveCommand(pressedKeys)
    /\ enabled /\ held = {} /\ command # Halt => missed # {} \/ interrupted

(* Movement is neither lost nor sent twice while the input is enabled, and  *)
(* each command names, of the buttons whose last change the hook could hear, *)
(* exactly those that are down when it is sent, however movement, buttons   *)
(* and the batch timer interleave.  (A button released outside the target   *)
(* goes on being named, one still down when the input is enabled again is   *)
(* not: both are unheard.)                                                  *)
BatchKnowsButtons ==
    /\ enabled => sent + accumulatedMovement = moved
    /\ sentButtons
=============================================================================
