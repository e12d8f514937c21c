----------------------------- MODULE LeaderStack -----------------------------
(***************************************************************************)
(* The control stack of the leader as tvp_core_control.launch.xml wires    *)
(* it: with lateral the cruise control feeds long_cmd to the lane-keeping  *)
(* node, which commands the base on cmd_vel and returns v_curve; without   *)
(* it the cruise control commands the base itself.                         *)
(*                                                                         *)
(* Every node is a process with one timer.  In one tick the timer of every *)
(* node that is up fires once, in any order, and callbacks run between     *)
(* them; a message is delivered in the tick it is published in.  Nodes can *)
(* crash; the launch file does not start them again.                       *)
(***************************************************************************)
EXTENDS CcNode, LatNode, KobukiBase

CONSTANTS
  Lateral,         \* the launch argument
  Crashable,       \* nodes that may crash
  TeleopTwists,    \* commands the operator may send with the keyboard
  CmdVelTimeout,   \* cmd_vel_timeout_sec of the Kobuki node in ticks
  OffCap,          \* bounds of the counters off, silence and pathSilence
  SilenceCap,
  PathCap

ASSUME LeaderAssumption ==
  /\ Lateral \in BOOLEAN
  /\ Crashable \subseteq {"cc", "lat"}
  /\ TeleopTwists \subseteq [v : Int, w : Int]
  /\ CmdVelTimeout \in Nat
  /\ OffCap \in Nat /\ SilenceCap \in Nat /\ PathCap \in Nat

VARIABLES
  teleopOut,    \* Twist of the keyboard not yet delivered
  up,           \* nodes that run
  fired,        \* nodes whose timer has fired in this tick
  \* Counters for the properties, in ticks:
  off,          \* since the cruise control was last started and up
  silence,      \* since odometry last reached the cruise control
  pathSilence,  \* since a path last reached the lane-keeping node
  cmdAge,       \* since a command last reached the base; None before one has
  laneTicks     \* that the lane-keeping node has driven without a break, up to 2

counters == <<off, silence, pathSilence, cmdAge, laneTicks>>
leaderVars == <<ccVars, latVars, baseVars, teleopOut, up, fired, counters>>

Nodes == IF Lateral THEN {"cc", "lat"} ELSE {"cc"}

Twists == [v : Commands, w : WMin..WMax] \cup TeleopTwists

LeaderTypeOK ==
  /\ CcTypeOK
  /\ LatTypeOK
  /\ longV \in Commands \cup {None}
  /\ latOut \in Twists \cup {None}
  /\ enabled \in BOOLEAN
  /\ baseCmd \in Twists \cup {StopTwist}
  /\ teleopOut \in TeleopTwists \cup {None}
  /\ up \subseteq Nodes /\ fired \subseteq up
  /\ off \in 0..OffCap /\ silence \in 0..SilenceCap /\ pathSilence \in 0..PathCap
  /\ cmdAge \in Ages(CmdVelTimeout)
  /\ laneTicks \in 0..2

LeaderInit ==
  /\ CcInit /\ LatInit /\ BaseInit
  /\ teleopOut = None
  /\ up = Nodes /\ fired = {}
  /\ off = OffCap /\ silence = SilenceCap /\ pathSilence = PathCap
  /\ cmdAge = None
  /\ laneTicks = 0

-----------------------------------------------------------------------------
\* The world around the stack: odometry of the base, poses and paths.
Odometry(v) ==
  /\ "cc" \in up
  /\ OdomCb(v)
  /\ silence' = 0
  /\ UNCHANGED <<latVars, baseVars, teleopOut, up, fired, off, pathSilence, cmdAge, laneTicks>>

Pose ==
  /\ "lat" \in up /\ ~havePose
  /\ PoseCb
  /\ UNCHANGED <<ccVars, baseVars, teleopOut, up, fired, counters>>

LanePath(p) ==
  /\ "lat" \in up
  /\ PathCb(p)
  /\ pathSilence' = 0
  /\ UNCHANGED <<ccVars, baseVars, teleopOut, up, fired, off, silence, cmdAge, laneTicks>>

\* The operator: parameters, the keyboard, the motor switch.
OperatorStart(b) ==
  /\ "cc" \in up /\ b # start
  /\ SetStart(b)
  /\ off' = IF b THEN 0 ELSE off
  /\ UNCHANGED <<latVars, baseVars, teleopOut, up, fired, silence, pathSilence, cmdAge, laneTicks>>

OperatorVRef(v) ==
  /\ "cc" \in up
  /\ SetVRef(v)
  /\ UNCHANGED <<latVars, baseVars, teleopOut, up, fired, counters>>

Teleop(twist) ==
  /\ teleopOut = None
  /\ teleopOut' = twist
  /\ UNCHANGED <<ccVars, latVars, baseVars, up, fired, counters>>

MotorPower ==
  /\ MotorPowerOn \/ MotorPowerOff
  /\ UNCHANGED <<ccVars, latVars, teleopOut, up, fired, counters>>

-----------------------------------------------------------------------------
CcTimer ==
  /\ "cc" \in up \ fired
  /\ CcControlStep
  /\ fired' = fired \cup {"cc"}
  /\ UNCHANGED <<latVars, baseVars, teleopOut, up, counters>>

LatTimer ==
  /\ "lat" \in up \ fired
  /\ LatControlStep
  /\ fired' = fired \cup {"lat"}
  /\ laneTicks' = IF wasFresh' THEN Least(laneTicks + 1, 2) ELSE 0
  /\ UNCHANGED <<ccVars, baseVars, teleopOut, up, off, silence, pathSilence, cmdAge>>

DeliverLongCmd ==
  /\ "lat" \in up /\ ccOut # None
  /\ LongCmdCb(ccOut)
  /\ CcTaken
  /\ UNCHANGED <<baseVars, teleopOut, up, fired, counters>>

DeliverCurve ==
  /\ "cc" \in up /\ curveOut # None
  /\ VCurveCb(curveOut)
  /\ CurveTaken
  /\ UNCHANGED <<baseVars, teleopOut, up, fired, counters>>

\* A command reaches the base.
Command(twist) ==
  /\ twist # None
  /\ VelocityCommand(twist)
  /\ cmdAge' = 0
  /\ UNCHANGED <<up, fired, off, silence, pathSilence, laneTicks>>

DeliverLaneCommand ==
  /\ latOut # None
  /\ Command(latOut)
  /\ LatTaken
  /\ UNCHANGED <<ccVars, teleopOut>>

\* Without lateral the Twist of the cruise control, which does not turn,
\* goes to the base.
DeliverCruiseCommand ==
  /\ ~Lateral /\ ccOut # None
  /\ Command([v |-> ccOut, w |-> 0])
  /\ CcTaken
  /\ UNCHANGED <<latVars, teleopOut>>

DeliverTeleop ==
  /\ teleopOut # None
  /\ Command(teleopOut)
  /\ teleopOut' = None
  /\ UNCHANGED <<ccVars, latVars>>

Deliver ==
  \/ DeliverLongCmd
  \/ DeliverCurve
  \/ DeliverLaneCommand
  \/ DeliverCruiseCommand
  \/ DeliverTeleop

Crash(n) ==
  /\ n \in up
  /\ up' = up \ {n}
  /\ fired' = fired \ {n}
  /\ UNCHANGED <<ccVars, latVars, baseVars, teleopOut, counters>>

\* What was published in this tick has reached every node that runs.
Delivered ==
  /\ ccOut = None \/ (Lateral /\ "lat" \notin up)
  /\ curveOut = None \/ "cc" \notin up
  /\ latOut = None
  /\ teleopOut = None

\* The next control period begins.
Tick ==
  /\ fired = up
  /\ Delivered
  /\ fired' = {}
  /\ CcElapse
  /\ LatElapse
  /\ off' = IF start /\ "cc" \in up THEN 0 ELSE Least(off + 1, OffCap)
  /\ silence' = Least(silence + 1, SilenceCap)
  /\ pathSilence' = Least(pathSilence + 1, PathCap)
  /\ cmdAge' = Older(cmdAge, CmdVelTimeout)
  /\ UNCHANGED <<baseVars, teleopOut, up, laneTicks>>

LeaderNext ==
  \/ \E v \in Speeds : Odometry(v)
  \/ Pose
  \/ \E p \in Paths : LanePath(p)
  \/ \E b \in BOOLEAN : OperatorStart(b)
  \/ \E v \in VRefs : OperatorVRef(v)
  \/ \E twist \in TeleopTwists : Teleop(twist)
  \/ MotorPower
  \/ CcTimer
  \/ LatTimer
  \/ Deliver
  \/ \E n \in Crashable : Crash(n)
  \/ Tick

LeaderSpec == LeaderInit /\ [][LeaderNext]_leaderVars

\* Timers fire and messages arrive, as the executors of the nodes and the
\* middleware see to; the sensors and the lane publisher keep publishing.
\* Nothing is assumed of the operator.
LeaderFairness ==
  /\ WF_leaderVars(CcTimer) /\ WF_leaderVars(LatTimer) /\ WF_leaderVars(Tick)
  /\ WF_leaderVars(DeliverLongCmd) /\ WF_leaderVars(DeliverCurve)
  /\ WF_leaderVars(DeliverLaneCommand)
  /\ WF_leaderVars(Pose) /\ WF_leaderVars(\E p \in Paths : LanePath(p))
  /\ WF_leaderVars(\E v \in Speeds : Odometry(v))

LeaderFairSpec == LeaderSpec /\ LeaderFairness

-----------------------------------------------------------------------------
\* Switching start off, or losing the cruise control, brings the base to a
\* standstill within the timeout of long_cmd and one period (the comment on
\* telemetry_timeout in lat_mpc.param.yaml), as long as the lane-keeping node
\* runs and nobody uses the keyboard.
KillStops == off > LongTimeout + 1 => BaseStopped

\* Without odometry the robot stops moving along the lane, whatever the
\* operator does with start and whether or not the cruise control crashes
\* while the odometry it holds ages.
SilenceStops == silence > OdomTimeout + LongTimeout + 1 => baseCmd.v = 0

\* Once a command has reached the base, one does in every period: a stale
\* long_cmd is answered by a stop, never by silence.  The base itself does
\* not notice silence.
Heartbeat == cmdAge # None => cmdAge <= 1

\* While the lane-keeping node drives, the cruise control tracks no speed
\* above the limit of the curve, from the second period on.
LimitTracked ==
  laneTicks = 2 /\ fired = Nodes => ~CurveSlowdown \/ \E c \in Curves : tracked <= c

\* What the lane-keeping node owes the nodes around it: an answer in every
\* period, and the limit in time (swarm_lat_mpc_node.py:228).
LaneServed == Heartbeat /\ LimitTracked

\* The projection on the path starts from a point that the path has, also
\* after paths of other lengths arrived between two steps.
IdxInPath == prevPathIdx # None => prevPathIdx < path.n

\* The speed the cruise control starts a step from: the measured one on an
\* edge of start, else the last one it commanded, which the lane-keeping
\* node has.
Reference ==
  IF start /\ ~wasStarted /\ vMeas # None THEN vMeas
  ELSE IF longV = None THEN 0
  ELSE longV

\* No command is faster than its reference by more than one step of a_max:
\* neither an integrator left over from an earlier drive nor a stop on stale
\* odometry makes the next command jump.
SmoothSpeed ==
  [][ccOut = None /\ ccOut' # None => ccOut' <= Clip(Reference, VCmdMin, VCmdMax) + AMax]_leaderVars

\* A base that has heard no command for cmd_vel_timeout_sec stands still
\* (the messages of kobuki_ros.cpp on velocity commands).
CommandTimeout == cmdAge # None /\ cmdAge > CmdVelTimeout => BaseStopped

\* A robot whose path has not been heard of for telemetry_timeout stops (the
\* comment on telemetry_timeout in params_swarm_lat.yaml).
PathStaleStops == pathSilence > LongTimeout + 2 => baseCmd.v = 0

\* Without lateral, a cruise control that has been off for a period leaves
\* cmd_vel to the keyboard (the comment on the kill-switch in _control_step).
TeleopAlone ==
  [][off > 0 => ~(DeliverLaneCommand \/ DeliverCruiseCommand)]_leaderVars

\* Once start stays on, the lane is kept for good: the two nodes, each of
\* which reads what the other publishes, do not wait for each other.
DrivesForGood == <>[](start /\ up = Nodes) => <>[](laneTicks = 2)

\* Once start stays off, the robot stands still for good.
StopsForGood == <>[]~start => <>[]BaseStopped

=============================================================================
