------------------------------- MODULE AccNode -------------------------------
(***************************************************************************)
(* The adaptive cruise control of the follower, swarm_acc_mpc_node.py: it  *)
(* integrates the acceleration the MPC returns for the last Telemetry into *)
(* a speed command and caps the integrator itself by the curve limit.      *)
(*                                                                         *)
(* The MPC (swarm_acc_mpc.py) is any choice within u_limits.  The turn     *)
(* rate of the Twist is left out: the lane-keeping node does not read it.  *)
(***************************************************************************)
EXTENDS ControlTypes

CONSTANTS
  TeleSpeeds,    \* own speeds a Telemetry message can report
  VCmdMin, VCmdMax,
  AMin, AMax,    \* change of speed that a_min and a_max make in one period
  TeleTimeout,   \* telemetry_timeout in ticks
  CurveTimeout,  \* v_curve_timeout in ticks
  CurveSlowdown  \* curve_slowdown

ASSUME AccAssumption ==
  /\ TeleSpeeds \subseteq Int
  /\ VCmdMin \in Int /\ VCmdMax \in Int /\ VCmdMin <= 0 /\ 0 <= VCmdMax
  /\ AMin \in Int /\ AMax \in Int /\ AMin <= 0 /\ 0 <= AMax
  /\ TeleTimeout \in Nat /\ CurveTimeout \in Nat
  /\ CurveSlowdown \in BOOLEAN
  /\ \A c \in Curves : VCmdMin <= c

VARIABLES
  start,       \* parameter start, the kill-switch
  tele,        \* last_telemetry
  teleAge,     \* age of last_telemetry_stamp
  vCurve,      \* _v_curve
  vCurveAge,   \* age of _v_curve_stamp
  wasStarted,  \* _was_started
  vCmd,        \* _v_cmd_published, the integrator
  accOut       \* speed published on cmd_vel_topic and not yet delivered, or None

accInputs == <<start, tele, teleAge, vCurve, vCurveAge>>
accVars == <<accInputs, wasStarted, vCmd, accOut>>

Commands == VCmdMin..VCmdMax

AccTypeOK ==
  /\ start \in BOOLEAN /\ wasStarted \in BOOLEAN
  /\ tele = None \/ (tele.is_valid \in BOOLEAN /\ tele.v \in TeleSpeeds)
  /\ teleAge \in Ages(TeleTimeout)
  /\ tele = None <=> teleAge = None
  /\ vCurve \in Curves \cup {None}
  /\ vCurveAge \in Ages(CurveTimeout)
  /\ vCurve = None <=> vCurveAge = None
  /\ vCmd \in Commands \cup TeleSpeeds
  /\ accOut \in Commands \cup {None}

AccInit ==
  /\ start = FALSE /\ wasStarted = FALSE
  /\ tele = None /\ teleAge = None
  /\ vCurve = None /\ vCurveAge = None
  /\ vCmd = 0
  /\ accOut = None

-----------------------------------------------------------------------------
TelemetryCb(msg) ==
  /\ tele' = msg
  /\ teleAge' = 0
  /\ UNCHANGED <<start, vCurve, vCurveAge, wasStarted, vCmd, accOut>>

VCurveCb(c) ==
  /\ vCurve' = c
  /\ vCurveAge' = 0
  /\ UNCHANGED <<start, tele, teleAge, wasStarted, vCmd, accOut>>

SetStart(b) ==
  /\ start' = b
  /\ UNCHANGED <<tele, teleAge, vCurve, vCurveAge, wasStarted, vCmd, accOut>>

\* The integrator after the test for an edge of start: the own speed of the
\* last message, however old and valid or not.
Seed ==
  IF start /\ ~wasStarted THEN (IF tele = None THEN 0 ELSE tele.v) ELSE vCmd

\* calculate_control: whatever the solver finds, a_cmd is within u_limits.
AccelByMpc == AMin..AMax

\* Mutant: the cap is not applied.
Uncapped(v) == v

CapToCurve(v) ==
  IF CurveSlowdown /\ Fresh(vCurveAge, CurveTimeout) THEN Least(v, vCurve) ELSE v

\* Mutant: the last command is published again while not started.
SilentRepeats ==
  /\ ~start \/ tele = None
  /\ vCmd' = Seed
  /\ accOut' = Clip(Seed, VCmdMin, VCmdMax)

Silent ==
  /\ ~start \/ tele = None
  /\ vCmd' = Seed
  /\ accOut' = None

\* A stale message and an invalid one are answered by the same stop.
StopOnBadTelemetry ==
  /\ start /\ tele # None
  /\ ~Fresh(teleAge, TeleTimeout) \/ ~tele.is_valid
  /\ vCmd' = 0
  /\ accOut' = 0

\* Mutant: the test of the age is missing.
FollowAtAnyAge ==
  /\ start /\ tele # None
  /\ tele.is_valid
  /\ \E a \in AccelByMpc : vCmd' = CapToCurve(Clip(Seed + a, VCmdMin, VCmdMax))
  /\ accOut' = vCmd'

Follow ==
  /\ start /\ tele # None
  /\ Fresh(teleAge, TeleTimeout) /\ tele.is_valid
  /\ \E a \in AccelByMpc : vCmd' = CapToCurve(Clip(Seed + a, VCmdMin, VCmdMax))
  /\ accOut' = vCmd'

\* _control_step
AccControlStep ==
  /\ wasStarted' = start
  /\ Silent \/ StopOnBadTelemetry \/ Follow
  /\ UNCHANGED accInputs

AccTaken ==
  /\ accOut' = None
  /\ UNCHANGED <<accInputs, wasStarted, vCmd>>

AccElapse ==
  /\ teleAge' = Older(teleAge, TeleTimeout)
  /\ vCurveAge' = Older(vCurveAge, CurveTimeout)
  /\ UNCHANGED <<start, tele, vCurve, wasStarted, vCmd, accOut>>

=============================================================================
