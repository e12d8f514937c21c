----------------------------- MODULE KobukiBase -----------------------------
(***************************************************************************)
(* The part of the Kobuki node and driver that a velocity command passes:  *)
(* subscribeVelocityCommand and subscribeMotorPower (kobuki_ros.cpp),      *)
(* setBaseControl, enable and disable (kobuki.cpp).  The driver sends the  *)
(* base command it holds again with every packet, so the robot moves at    *)
(* that command until another one replaces it.                             *)
(***************************************************************************)
EXTENDS Integers

VARIABLES
  enabled,    \* is_enabled
  baseCmd     \* the velocities of diff_drive, [v, w]

baseVars == <<enabled, baseCmd>>

BaseStopped == baseCmd = [v |-> 0, w |-> 0]

BaseInit ==
  /\ enabled = TRUE
  /\ BaseStopped

\* cmd_vel_wrapper relays the Twist unchanged to commands/velocity; a
\* disabled driver drops it.
VelocityCommand(twist) ==
  /\ baseCmd' = IF enabled THEN twist ELSE baseCmd
  /\ UNCHANGED enabled

MotorPowerOn ==
  /\ enabled' = TRUE
  /\ UNCHANGED baseCmd

\* Mutant: the command is left as it is when the motors are switched off.
PowerOffOnly ==
  /\ enabled' = FALSE
  /\ UNCHANGED baseCmd

MotorPowerOff ==
  /\ enabled' = FALSE
  /\ baseCmd' = [v |-> 0, w |-> 0]

=============================================================================
