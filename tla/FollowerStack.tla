---------------------------- MODULE FollowerStack ----------------------------
(***************************************************************************)
(* The control stack of the follower (longitudinal = acc in                *)
(* tvp_core_control.launch.xml): acc_telemetry joins what the bridge       *)
(* mirrors of the leader with the follower's own sensors, the adaptive     *)
(* cruise control answers each Telemetry with a speed on long_cmd, and the *)
(* lane-keeping node commands the base and returns v_curve.                *)
(*                                                                         *)
(* Time, timers and delivery are as in LeaderStack.  The leader, the       *)
(* bridge and the sensors are the environment: each input may come at any  *)
(* time or stay away.                                                      *)
(***************************************************************************)
EXTENDS AccTelemetry, AccNode, LatNode, KobukiBase

CONSTANTS
  PathPoints,   \* numbers of points of the paths the leader can send
  Watched,      \* the stamped input whose silence is counted
  Crashable,    \* nodes that may crash
  OffCap,       \* bounds of the counters off, silence and invalid
  SilenceCap,
  InvalidCap

ASSUME FollowerAssumption ==
  /\ PathPoints \subseteq Nat
  /\ Watched \in Stamped
  /\ Crashable \subseteq {"tele", "acc", "lat"}
  /\ OwnSpeeds \cup {0} \subseteq TeleSpeeds
  /\ OffCap \in Nat /\ SilenceCap \in Nat /\ InvalidCap \in Nat

VARIABLES
  up,         \* nodes that run
  fired,      \* nodes whose timer has fired in this tick
  \* Counters for the properties, in ticks:
  off,        \* since the adaptive cruise control was last started and up
  silence,    \* since the watched input last came
  invalid,    \* since a valid Telemetry last reached the cruise control
  laneTicks   \* that the lane-keeping node has driven without a break, to LaneSettled

counters == <<off, silence, invalid, laneTicks>>
followerVars == <<teleVars, accVars, latVars, baseVars, up, fired, counters>>

Nodes == {"tele", "acc", "lat"}

Twists == [v : Commands, w : WMin..WMax]

\* The first limit takes a period to reach the cruise control, and what was
\* commanded before may be driven until it is stale, should no other come.
LaneSettled == LongTimeout + 3

FollowerTypeOK ==
  /\ TeleTypeOK
  /\ AccTypeOK
  /\ LatTypeOK
  /\ longV \in Commands \cup {None}
  /\ latOut \in Twists \cup {None}
  /\ enabled \in BOOLEAN
  /\ baseCmd \in Twists
  /\ up \subseteq Nodes /\ fired \subseteq up
  /\ off \in 0..OffCap /\ silence \in 0..SilenceCap /\ invalid \in 0..InvalidCap
  /\ laneTicks \in 0..LaneSettled

FollowerInit ==
  /\ TeleInit /\ AccInit /\ LatInit /\ BaseInit
  /\ up = Nodes /\ fired = {}
  /\ off = OffCap /\ silence = SilenceCap /\ invalid = InvalidCap
  /\ laneTicks = 0

-----------------------------------------------------------------------------
\* The world around the stack.  The own pose goes to two nodes.
Input(i) ==
  /\ "tele" \in up
  /\ InputCb(i)
  /\ silence' = IF i = Watched THEN 0 ELSE silence
  /\ UNCHANGED <<accVars, latVars, baseVars, up, fired, off, invalid, laneTicks>>

SelfOdom(v) ==
  /\ "tele" \in up
  /\ SelfOdomCb(v)
  /\ UNCHANGED <<accVars, latVars, baseVars, up, fired, counters>>

LeaderPath(points) ==
  /\ "tele" \in up
  /\ LeaderPathCb(points)
  /\ silence' = IF Watched = "path" THEN 0 ELSE silence
  /\ UNCHANGED <<accVars, latVars, baseVars, up, fired, off, invalid, laneTicks>>

Pose ==
  /\ "lat" \in up /\ ~havePose
  /\ PoseCb
  /\ UNCHANGED <<teleVars, accVars, baseVars, up, fired, counters>>

OperatorStart(b) ==
  /\ "acc" \in up /\ b # start
  /\ SetStart(b)
  /\ off' = IF b THEN 0 ELSE off
  /\ UNCHANGED <<teleVars, latVars, baseVars, up, fired, silence, invalid, laneTicks>>

-----------------------------------------------------------------------------
TeleTimer ==
  /\ "tele" \in up \ fired
  /\ TelemetryStep
  /\ fired' = fired \cup {"tele"}
  /\ UNCHANGED <<accVars, latVars, baseVars, up, counters>>

AccTimer ==
  /\ "acc" \in up \ fired
  /\ AccControlStep
  /\ fired' = fired \cup {"acc"}
  /\ UNCHANGED <<teleVars, latVars, baseVars, up, counters>>

LatTimer ==
  /\ "lat" \in up \ fired
  /\ LatControlStep
  /\ fired' = fired \cup {"lat"}
  /\ laneTicks' = IF wasFresh' THEN Least(laneTicks + 1, LaneSettled) ELSE 0
  /\ UNCHANGED <<teleVars, accVars, baseVars, up, off, silence, invalid>>

DeliverTelemetry ==
  /\ "acc" \in up /\ teleOut # None
  /\ TelemetryCb(teleOut)
  /\ TeleTaken
  /\ invalid' = IF teleOut.is_valid THEN 0 ELSE invalid
  /\ UNCHANGED <<latVars, baseVars, up, fired, off, silence, laneTicks>>

DeliverPath ==
  /\ "lat" \in up /\ pathOut # None
  /\ \E p \in Paths : PathCb(p)
  /\ PathTaken
  /\ UNCHANGED <<accVars, baseVars, up, fired, counters>>

DeliverLongCmd ==
  /\ "lat" \in up /\ accOut # None
  /\ LongCmdCb(accOut)
  /\ AccTaken
  /\ UNCHANGED <<teleVars, baseVars, up, fired, counters>>

DeliverCurve ==
  /\ "acc" \in up /\ curveOut # None
  /\ VCurveCb(curveOut)
  /\ CurveTaken
  /\ UNCHANGED <<teleVars, baseVars, up, fired, counters>>

DeliverLaneCommand ==
  /\ latOut # None
  /\ VelocityCommand(latOut)
  /\ LatTaken
  /\ UNCHANGED <<teleVars, accVars, up, fired, counters>>

Deliver ==
  \/ DeliverTelemetry
  \/ DeliverPath
  \/ DeliverLongCmd
  \/ DeliverCurve
  \/ DeliverLaneCommand

Crash(n) ==
  /\ n \in up
  /\ up' = up \ {n}
  /\ fired' = fired \ {n}
  /\ UNCHANGED <<teleVars, accVars, latVars, baseVars, counters>>

Delivered ==
  /\ teleOut = None \/ "acc" \notin up
  /\ pathOut = None \/ "lat" \notin up
  /\ accOut = None \/ "lat" \notin up
  /\ curveOut = None \/ "acc" \notin up
  /\ latOut = None

Tick ==
  /\ fired = up
  /\ Delivered
  /\ fired' = {}
  /\ TeleElapse /\ AccElapse /\ LatElapse
  /\ off' = IF start /\ "acc" \in up THEN 0 ELSE Least(off + 1, OffCap)
  /\ silence' = Least(silence + 1, SilenceCap)
  /\ invalid' = Least(invalid + 1, InvalidCap)
  /\ UNCHANGED <<baseVars, up, laneTicks>>

FollowerNext ==
  \/ \E i \in Stamped : Input(i)
  \/ \E v \in OwnSpeeds : SelfOdom(v)
  \/ \E points \in PathPoints : LeaderPath(points)
  \/ Pose
  \/ \E b \in BOOLEAN : OperatorStart(b)
  \/ TeleTimer
  \/ AccTimer
  \/ LatTimer
  \/ Deliver
  \/ \E n \in Crashable : Crash(n)
  \/ Tick

FollowerSpec == FollowerInit /\ [][FollowerNext]_followerVars

-----------------------------------------------------------------------------
\* No stamped input steers the robot forward for longer than the timeouts
\* along its way: each node in turn may crash just before it would notice.
SilenceStops ==
  silence > InputTimeout + TeleTimeout + LongTimeout + 1 => baseCmd.v = 0

\* Telemetry that is missing or invalid stops the robot along the lane.
InvalidStops == invalid > TeleTimeout + LongTimeout + 1 => baseCmd.v = 0

\* A robot that keeps its lane does not enter the curve faster than the
\* limit the lane-keeping node published when it saw the curve, even if the
\* cruise control died before it heard of the limit.
CurveCapped ==
  laneTicks = LaneSettled => ~CurveSlowdown \/ \E c \in Curves : baseCmd.v <= c

\* The speed the cruise control starts a step from.
Reference ==
  IF start /\ ~wasStarted /\ tele # None THEN tele.v
  ELSE IF longV = None THEN 0
  ELSE longV

\* No command is faster than its reference by more than one step of a_max.
SmoothSpeed ==
  [][accOut = None /\ accOut' # None =>
       accOut' <= Clip(Reference, VCmdMin, VCmdMax) + AMax]_followerVars

\* The stack as the operator sees it: a follower switched off, or one that
\* lost its cruise control, stands still after the timeout of long_cmd and
\* one period, and does not move again before it is started.
DeadManSwitch ==
  INSTANCE DeadMan WITH Grace <- LongTimeout + 1,
                        granted <- start /\ "acc" \in up,
                        idle <- Least(off, LongTimeout + 2),
                        moving <- ~BaseStopped
DeadManSpec == DeadManSwitch!Spec

\* Every command lies within its limits and, on a curve, below the limit of it
\* (swarm_acc_mpc_node.py:142).
SpeedBounded == FollowerTypeOK /\ CurveCapped

\* The follower obeys its operator like a dead man's switch, and no start, stop
\* or gap of the Telemetry makes a command jump (swarm_acc_mpc_node.py:154).
StopsDeadStartsSmooth == DeadManSpec /\ SmoothSpeed

=============================================================================
