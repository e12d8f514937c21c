------------------------------- MODULE CcNode -------------------------------
(***************************************************************************)
(* The cruise-control node of the leader, swarm_cc_mpc_node.py: it stores  *)
(* the measured speed and the curve limit that callbacks bring, and on its *)
(* timer integrates the acceleration the MPC returns into a speed command. *)
(*                                                                         *)
(* Speeds are integers; one unit is what a_cmd changes in one period.  The *)
(* MPC (swarm_cc_mpc.py) is any choice within u_limits, which is what      *)
(* calculate_control guarantees of its result for every solver outcome.    *)
(***************************************************************************)
EXTENDS ControlTypes

CONSTANTS
  Speeds,         \* speeds the odometry can report
  VRefs,          \* values the operator can give v_ref
  VCmdMin, VCmdMax,
  AMin, AMax,     \* change of speed that a_min and a_max make in one period
  OdomTimeout,    \* odom_timeout in ticks
  CurveTimeout,   \* v_curve_timeout in ticks
  CurveSlowdown   \* curve_slowdown

ASSUME CcAssumption ==
  /\ Speeds \subseteq Int /\ VRefs \subseteq Int
  /\ VCmdMin \in Int /\ VCmdMax \in Int /\ VCmdMin <= 0 /\ 0 <= VCmdMax
  /\ AMin \in Int /\ AMax \in Int /\ AMin <= 0 /\ 0 <= AMax
  /\ OdomTimeout \in Nat /\ CurveTimeout \in Nat
  /\ CurveSlowdown \in BOOLEAN

VARIABLES
  start,       \* parameter start, the kill-switch
  vRef,        \* parameter v_ref
  vMeas,       \* _v_meas
  vMeasAge,    \* age of _v_meas_stamp
  vCurve,      \* _v_curve
  vCurveAge,   \* age of _v_curve_stamp
  wasStarted,  \* _was_started
  vCmd,        \* _v_cmd_published, the integrator
  tracked,     \* the reference last published on topic v_ref
  ccOut        \* speed published on cmd_vel_topic and not yet delivered, or None

ccVars == <<start, vRef, vMeas, vMeasAge, vCurve, vCurveAge, wasStarted, vCmd, tracked,
            ccOut>>

\* The integrator is seeded with a measured speed, which the limits of the
\* commands do not bound; every command published is within them.
Commands == VCmdMin..VCmdMax

CcTypeOK ==
  /\ start \in BOOLEAN /\ wasStarted \in BOOLEAN
  /\ vRef \in VRefs
  /\ vMeas \in Speeds \cup {None}
  /\ vMeasAge \in Ages(OdomTimeout)
  /\ vMeas = None <=> vMeasAge = None
  /\ vCurve \in Curves \cup {None}
  /\ vCurveAge \in Ages(CurveTimeout)
  /\ vCurve = None <=> vCurveAge = None
  /\ vCmd \in Commands \cup Speeds
  /\ tracked \in VRefs \cup Curves \cup {None}
  /\ ccOut \in Commands \cup {None}

CcInit ==
  /\ start = FALSE /\ wasStarted = FALSE
  /\ vRef \in VRefs
  /\ vMeas = None /\ vMeasAge = None
  /\ vCurve = None /\ vCurveAge = None
  /\ vCmd = 0
  /\ tracked = None
  /\ ccOut = None

-----------------------------------------------------------------------------
OdomCb(v) ==
  /\ vMeas' = v
  /\ vMeasAge' = 0
  /\ UNCHANGED <<start, vRef, vCurve, vCurveAge, wasStarted, vCmd, tracked, ccOut>>

VCurveCb(c) ==
  /\ vCurve' = c
  /\ vCurveAge' = 0
  /\ UNCHANGED <<start, vRef, vMeas, vMeasAge, wasStarted, vCmd, tracked, ccOut>>

\* ros2 param set: the control step reads both parameters when it runs.
SetStart(b) ==
  /\ start' = b
  /\ UNCHANGED <<vRef, vMeas, vMeasAge, vCurve, vCurveAge, wasStarted, vCmd, tracked, ccOut>>

SetVRef(v) ==
  /\ vRef' = v
  /\ UNCHANGED <<start, vMeas, vMeasAge, vCurve, vCurveAge, wasStarted, vCmd, tracked, ccOut>>

\* calculate_control: whatever the solver finds, a_cmd is within u_limits.
AccelByMpc == AMin..AMax

\* _effective_v_ref
EffectiveVRef ==
  IF CurveSlowdown /\ Fresh(vCurveAge, CurveTimeout) THEN Least(vRef, vCurve) ELSE vRef

\* The integrator after the test for an edge of start.
Seed ==
  IF start /\ ~wasStarted THEN (IF vMeas = None THEN 0 ELSE vMeas) ELSE vCmd

NoOdomYet ==
  /\ vMeas = None
  /\ vCmd' = Seed
  /\ ccOut' = None
  /\ UNCHANGED tracked

\* Mutant: the last command is published again while not started.
IdleRepeats ==
  /\ vMeas # None
  /\ ~start
  /\ vCmd' = Seed
  /\ ccOut' = Clip(vCmd, VCmdMin, VCmdMax)
  /\ tracked' = EffectiveVRef

\* Not started: the command topic is left to others, the diagnosis goes on.
Idle ==
  /\ vMeas # None
  /\ ~start
  /\ vCmd' = Seed
  /\ ccOut' = None
  /\ tracked' = EffectiveVRef

\* Mutant: the stop leaves the integrator where it was.
StopKeepsIntegrator ==
  /\ vMeas # None
  /\ start
  /\ ~Fresh(vMeasAge, OdomTimeout)
  /\ vCmd' = Seed
  /\ ccOut' = 0
  /\ tracked' = EffectiveVRef

StopOnStaleOdom ==
  /\ vMeas # None
  /\ start
  /\ ~Fresh(vMeasAge, OdomTimeout)
  /\ vCmd' = 0
  /\ ccOut' = 0
  /\ tracked' = EffectiveVRef

\* Mutant: the test of the age is missing.
DriveAtAnyAge ==
  /\ vMeas # None
  /\ start
  /\ \E a \in AccelByMpc : vCmd' = Clip(Seed + a, VCmdMin, VCmdMax)
  /\ ccOut' = vCmd'
  /\ tracked' = EffectiveVRef

\* Mutant: the integrator is published as it is.
DriveUnclipped ==
  /\ vMeas # None
  /\ start
  /\ Fresh(vMeasAge, OdomTimeout)
  /\ \E a \in AccelByMpc : vCmd' = Seed + a
  /\ ccOut' = vCmd'
  /\ tracked' = EffectiveVRef

\* Mutant: the node waits for a curve limit before it drives.
DriveAfterCurve ==
  /\ vMeas # None
  /\ start
  /\ Fresh(vMeasAge, OdomTimeout)
  /\ vCurve # None
  /\ \E a \in AccelByMpc : vCmd' = Clip(Seed + a, VCmdMin, VCmdMax)
  /\ ccOut' = vCmd'
  /\ tracked' = EffectiveVRef

Drive ==
  /\ vMeas # None
  /\ start
  /\ Fresh(vMeasAge, OdomTimeout)
  /\ \E a \in AccelByMpc : vCmd' = Clip(Seed + a, VCmdMin, VCmdMax)
  /\ ccOut' = vCmd'
  /\ tracked' = EffectiveVRef

\* _control_step
CcControlStep ==
  /\ wasStarted' = start
  /\ NoOdomYet \/ Idle \/ StopOnStaleOdom \/ Drive
  /\ UNCHANGED <<start, vRef, vMeas, vMeasAge, vCurve, vCurveAge>>

\* The message published is delivered.
CcTaken ==
  /\ ccOut' = None
  /\ UNCHANGED <<start, vRef, vMeas, vMeasAge, vCurve, vCurveAge, wasStarted, vCmd, tracked>>

CcElapse ==
  /\ vMeasAge' = Older(vMeasAge, OdomTimeout)
  /\ vCurveAge' = Older(vCurveAge, CurveTimeout)
  /\ UNCHANGED <<start, vRef, vMeas, vCurve, wasStarted, vCmd, tracked, ccOut>>

=============================================================================
