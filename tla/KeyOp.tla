------------------------------- MODULE KeyOp -------------------------------
(***************************************************************************)
(* The keyboard teleoperation node in front of the Kobuki base.  Three     *)
(* flows of control touch cmd_ and power_status_: the timer of 100 ms, the *)
(* keyboard thread, which takes the mutex that the timer takes, and the    *)
(* destructor, which switches the motors off without that mutex while the  *)
(* keyboard thread still runs.  Velocities and motor power travel on two   *)
(* topics, which keep the order of their messages but not of each other's. *)
(* Velocities are counted in steps.                                        *)
(***************************************************************************)
EXTENDS Sequences, KobukiBase

CONSTANTS
  LinearMax, AngularMax,    \* linear_vel_max and angular_vel_max, in steps
  Keys,                     \* keys the operator may press
  Window                    \* messages of a topic that are on their way

ASSUME KeyAssumption ==
  /\ LinearMax \in Nat /\ AngularMax \in Nat /\ Window \in Nat \ {0}
  /\ Keys \subseteq {"up", "down", "left", "right", "space", "e", "d"}

VARIABLES
  cmd,               \* cmd_
  lastZeroVelSent, powerStatus, quitRequested,
  key, keyPc,        \* the keyboard thread: the key it handles, and where
  keyReg,            \* the velocity it has computed
  exitPc,            \* the destructor
  velTopic, powerTopic

keyVars == <<cmd, lastZeroVelSent, powerStatus, quitRequested, key, keyPc,
             keyReg, exitPc, velTopic, powerTopic, baseVars>>

Still == [v |-> 0, w |-> 0]

KeyInit ==
  /\ cmd = Still /\ lastZeroVelSent = TRUE
  /\ powerStatus = TRUE /\ quitRequested = FALSE
  /\ key = "none" /\ keyPc = "wait" /\ keyReg = Still /\ exitPc = "running"
  /\ velTopic = <<>> /\ powerTopic = <<TRUE>>
  /\ BaseInit

Sent(topic, m) ==
  IF Len(topic) = Window THEN Append(Tail(topic), m) ELSE Append(topic, m)

\* The timer waits for the mutex; it does not run during destruction.
KeySpin ==
  /\ keyPc = "wait" /\ exitPc = "running"
  /\ cmd # Still \/ ~lastZeroVelSent
  /\ velTopic' = Sent(velTopic, cmd)
  /\ lastZeroVelSent' = (cmd = Still)
  /\ UNCHANGED <<cmd, powerStatus, quitRequested, key, keyPc, keyReg, exitPc,
                 powerTopic, baseVars>>

\* processKeyboardInput takes the mutex and dispatches.
PressKey(k) ==
  /\ keyPc = "wait" /\ ~quitRequested
  /\ key' = k
  /\ keyPc' = IF k \in {"e", "d"} THEN "zero" ELSE "read"
  /\ UNCHANGED <<cmd, lastZeroVelSent, powerStatus, quitRequested, keyReg,
                 exitPc, velTopic, powerTopic, baseVars>>

\* A velocity at its limit still grows by one step.
Moved(k, c) ==
  CASE k = "up"    -> [c EXCEPT !.v = IF @ <= LinearMax THEN @ + 1 ELSE @]
    [] k = "down"  -> [c EXCEPT !.v = IF @ >= -LinearMax THEN @ - 1 ELSE @]
    [] k = "left"  -> [c EXCEPT !.w = IF @ <= AngularMax THEN @ + 1 ELSE @]
    [] k = "right" -> [c EXCEPT !.w = IF @ >= -AngularMax THEN @ - 1 ELSE @]
    [] k = "space" -> Still

ReadCmd ==
  /\ keyPc = "read"
  /\ IF powerStatus THEN keyReg' = Moved(key, cmd) /\ keyPc' = "write"
                    ELSE UNCHANGED keyReg /\ keyPc' = "wait"
  /\ UNCHANGED <<cmd, lastZeroVelSent, powerStatus, quitRequested, key, exitPc,
                 velTopic, powerTopic, baseVars>>

WriteCmd ==
  /\ keyPc = "write" /\ keyPc' = "wait"
  /\ cmd' = keyReg /\ keyReg' = Still
  /\ UNCHANGED <<lastZeroVelSent, powerStatus, quitRequested, key, exitPc,
                 velTopic, powerTopic, baseVars>>

\* enable() and disable() of the keyboard thread.
KeyZero ==
  /\ keyPc = "zero" /\ keyPc' = "publish"
  /\ cmd' = Still
  /\ UNCHANGED <<lastZeroVelSent, powerStatus, quitRequested, key, keyReg,
                 exitPc, velTopic, powerTopic, baseVars>>

KeyPublish ==
  /\ keyPc = "publish" /\ keyPc' = "power"
  /\ velTopic' = Sent(velTopic, cmd)
  /\ UNCHANGED <<cmd, lastZeroVelSent, powerStatus, quitRequested, key, keyReg,
                 exitPc, powerTopic, baseVars>>

KeyPower ==
  /\ keyPc = "power" /\ keyPc' = "wait"
  /\ powerTopic' = IF powerStatus # (key = "e") THEN Sent(powerTopic, key = "e")
                   ELSE powerTopic
  /\ powerStatus' = (key = "e")
  /\ UNCHANGED <<cmd, lastZeroVelSent, quitRequested, key, keyReg, exitPc,
                 velTopic, baseVars>>

\* The destructor: disable(), then the end of the keyboard thread.
Exit ==
  /\ exitPc = "running" /\ exitPc' = "publish"
  /\ cmd' = Still
  /\ UNCHANGED <<lastZeroVelSent, powerStatus, quitRequested, key, keyPc,
                 keyReg, velTopic, powerTopic, baseVars>>

ExitPublish ==
  /\ exitPc = "publish" /\ exitPc' = "test"
  /\ velTopic' = Sent(velTopic, cmd)
  /\ UNCHANGED <<cmd, lastZeroVelSent, powerStatus, quitRequested, key, keyPc,
                 keyReg, powerTopic, baseVars>>

\* Mutant: the motors are left on.
ExitTestKeepsPower ==
  /\ exitPc = "test"
  /\ exitPc' = IF powerStatus THEN "off" ELSE "quit"
  /\ UNCHANGED <<cmd, lastZeroVelSent, powerStatus, quitRequested, key, keyPc,
                 keyReg, velTopic, powerTopic, baseVars>>

ExitTest ==
  /\ exitPc = "test"
  /\ exitPc' = IF powerStatus THEN "off" ELSE "quit"
  /\ powerTopic' = IF powerStatus THEN Sent(powerTopic, FALSE) ELSE powerTopic
  /\ UNCHANGED <<cmd, lastZeroVelSent, powerStatus, quitRequested, key, keyPc,
                 keyReg, velTopic, baseVars>>

ExitOff ==
  /\ exitPc = "off" /\ exitPc' = "quit"
  /\ powerStatus' = FALSE
  /\ UNCHANGED <<cmd, lastZeroVelSent, quitRequested, key, keyPc, keyReg,
                 velTopic, powerTopic, baseVars>>

ExitQuit ==
  /\ exitPc = "quit" /\ exitPc' = "join"
  /\ quitRequested' = TRUE
  /\ UNCHANGED <<cmd, lastZeroVelSent, powerStatus, key, keyPc, keyReg,
                 velTopic, powerTopic, baseVars>>

ExitJoin ==
  /\ exitPc = "join" /\ keyPc = "wait" /\ exitPc' = "gone"
  /\ UNCHANGED <<cmd, lastZeroVelSent, powerStatus, quitRequested, key, keyPc,
                 keyReg, velTopic, powerTopic, baseVars>>

\* The Kobuki node takes the two topics in any order.
TakeVelocity ==
  /\ velTopic # <<>> /\ velTopic' = Tail(velTopic)
  /\ VelocityCommand(Head(velTopic))
  /\ UNCHANGED <<cmd, lastZeroVelSent, powerStatus, quitRequested, key, keyPc,
                 keyReg, exitPc, powerTopic>>

TakePower ==
  /\ powerTopic # <<>> /\ powerTopic' = Tail(powerTopic)
  /\ IF Head(powerTopic) THEN MotorPowerOn ELSE MotorPowerOff
  /\ UNCHANGED <<cmd, lastZeroVelSent, powerStatus, quitRequested, key, keyPc,
                 keyReg, exitPc, velTopic>>

KeyboardStep == ReadCmd \/ WriteCmd \/ KeyZero \/ KeyPublish \/ KeyPower
ExitStep == ExitPublish \/ ExitTest \/ ExitOff \/ ExitQuit \/ ExitJoin

KeyNext ==
  \/ KeySpin \/ KeyboardStep \/ (\E k \in Keys : PressKey(k))
  \/ Exit \/ ExitStep
  \/ TakeVelocity \/ TakePower

----------------------------------------------------------------------------
KeyTypeOK ==
  /\ cmd.v \in -LinearMax - 1 .. LinearMax + 1
  /\ cmd.w \in -AngularMax - 1 .. AngularMax + 1
  /\ {lastZeroVelSent, powerStatus, quitRequested, enabled} \subseteq BOOLEAN
  /\ Len(velTopic) <= Window /\ Len(powerTopic) <= Window

\* The keyboard thread may handle a key while the destructor switches the
\* motors off, and velocities may overtake that order: when everything has
\* arrived the base stands all the same (keyop.cpp:121).
ExitStops ==
  exitPc = "gone" /\ velTopic = <<>> /\ powerTopic = <<>> => BaseStopped

\* Power and velocity travel apart, yet when no power message is on its way
\* the base is enabled exactly if the node believes it to be (keyop.cpp:305).
PowerAgrees ==
  exitPc = "running" /\ powerTopic = <<>> => enabled = powerStatus

\* A velocity that a disabled base dropped is not lost: what the node holds
\* reaches the base, the zero of a pressed space bar too (keyop.cpp:138).
BaseFollows ==
  keyPc = "wait" ~> (baseCmd = cmd \/ keyPc # "wait" \/ exitPc # "running")

=============================================================================
