------------------------------- MODULE DeadMan -------------------------------
(***************************************************************************)
(* What a control stack promises the person at the kill-switch: the robot  *)
(* moves only while it is granted to, or within a grace period after that. *)
(* How fast it moves, and that it moves at all, is not promised.           *)
(***************************************************************************)
EXTENDS Naturals

CONSTANT Grace  \* number of periods after which the robot stands still

VARIABLES
  granted,  \* is the robot granted to move?
  idle,     \* periods since it last was, up to Grace + 1
  moving

vars == <<granted, idle, moving>>

Init ==
  /\ granted = FALSE
  /\ idle = Grace + 1
  /\ moving = FALSE

Grant ==
  /\ granted' = TRUE
  /\ idle' = 0
  /\ UNCHANGED moving

Revoke ==
  /\ granted' = FALSE
  /\ UNCHANGED <<idle, moving>>

Move ==
  /\ idle <= Grace
  /\ moving' = TRUE
  /\ UNCHANGED <<granted, idle>>

Stop ==
  /\ moving' = FALSE
  /\ UNCHANGED <<granted, idle>>

\* A period ends; the last one of grace ends with the robot at a standstill.
Period ==
  /\ idle' = IF granted THEN 0 ELSE IF idle <= Grace THEN idle + 1 ELSE idle
  /\ idle' > Grace => ~moving
  /\ UNCHANGED <<granted, moving>>

Next == Grant \/ Revoke \/ Move \/ Stop \/ Period

Spec == Init /\ [][Next]_vars

=============================================================================
