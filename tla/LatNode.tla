------------------------------- MODULE LatNode -------------------------------
(***************************************************************************)
(* The lane-keeping node, swarm_lat_mpc_node.py, with the integrator of    *)
(* its MPC (swarm_lat_mpc.py).  It takes the speed from long_cmd, adds a   *)
(* turn rate and publishes both on cmd_vel; while it drives it publishes   *)
(* the speed limit of the curve ahead.                                     *)
(*                                                                         *)
(* Poses are left out: where the robot is on the path, which turn the MPC  *)
(* chooses and how sharp the curve ahead is are any choice the code can    *)
(* make.  One unit of turn rate is what alpha changes in one period.       *)
(***************************************************************************)
EXTENDS ControlTypes

CONSTANTS
  WMin, WMax,          \* w_cmd_min, w_cmd_max
  AlphaMin, AlphaMax,  \* change of turn rate that alpha_limits make in a period
  LongTimeout,         \* telemetry_timeout of this node in ticks
  Paths,               \* the paths that can arrive: how many points, closed or not
  SearchWindow         \* search_window of frenet_project

ASSUME LatAssumption ==
  /\ WMin \in Int /\ WMax \in Int /\ WMin <= 0 /\ 0 <= WMax
  /\ AlphaMin \in Int /\ AlphaMax \in Int /\ AlphaMin <= 0 /\ 0 <= AlphaMax
  /\ LongTimeout \in Nat
  /\ Paths \subseteq [n : Nat \ {0}, cyclic : BOOLEAN]
  /\ None \notin Paths
  /\ SearchWindow \in Nat
  /\ None \notin [v : Int, w : Int]

VARIABLES
  longV,        \* linear.x of last_long_cmd
  longAge,      \* age of last_long_cmd_stamp
  wasFresh,     \* _long_cmd_was_fresh
  wCmd,         \* w_cmd in the MPC's predicted state, 0 after reset
  havePose,     \* last_pose is not None
  path,         \* _path_x, _path_y; None before the first path
  prevPathIdx,  \* _prev_path_idx
  latOut,       \* Twist published on cmd_vel_topic and not yet delivered, or None
  curveOut      \* limit published on v_curve and not yet delivered, or None

latInputs == <<longV, longAge, havePose, path>>
latVars == <<latInputs, wasFresh, wCmd, prevPathIdx, latOut, curveOut>>

LatTypeOK ==
  /\ longV \in Int \cup {None}
  /\ longAge \in Ages(LongTimeout)
  /\ longV = None <=> longAge = None
  /\ wasFresh \in BOOLEAN
  /\ wCmd \in WMin..WMax
  /\ havePose \in BOOLEAN
  /\ path \in Paths \cup {None}
  /\ prevPathIdx \in Nat \cup {None}
  /\ latOut \in [v : Int, w : WMin..WMax] \cup {None}
  /\ curveOut \in Curves \cup {None}

LatInit ==
  /\ longV = None /\ longAge = None
  /\ wasFresh = FALSE
  /\ wCmd = 0
  /\ havePose = FALSE
  /\ path = None
  /\ prevPathIdx = None
  /\ latOut = None
  /\ curveOut = None

\* Twist(): both speeds zero.
StopTwist == [v |-> 0, w |-> 0]

-----------------------------------------------------------------------------
LongCmdCb(v) ==
  /\ longV' = v
  /\ longAge' = 0
  /\ UNCHANGED <<wasFresh, wCmd, havePose, path, prevPathIdx, latOut, curveOut>>

PoseCb ==
  /\ havePose' = TRUE
  /\ UNCHANGED <<longV, longAge, wasFresh, wCmd, path, prevPathIdx, latOut, curveOut>>

\* Mutant: a path of another length keeps the index of the last projection.
IdxKept(p) == prevPathIdx

\* The index is forgotten when the number of points differs, not when the
\* points do.
IdxAfterPath(p) ==
  IF path # None /\ p.n = path.n THEN prevPathIdx ELSE None

\* A path with no pose is ignored.
PathCb(p) ==
  /\ path' = p
  /\ prevPathIdx' = IdxAfterPath(p)
  /\ UNCHANGED <<longV, longAge, wasFresh, wCmd, havePose, latOut, curveOut>>

\* The points frenet_project compares with the pose: those near the last
\* projection, round the seam of a closed path, or all.
Candidates ==
  LET near == {prevPathIdx + k : k \in (-SearchWindow)..SearchWindow} IN
  IF prevPathIdx = None \/ prevPathIdx >= path.n THEN 0..(path.n - 1)
  ELSE IF path.cyclic THEN {i % path.n : i \in near}
  ELSE near \cap 0..(path.n - 1)

\* calculate_control: the MPC steers by an angular acceleration and keeps its
\* integral, which a reset forgets, within the limits.
TurnRatesByMpc ==
  {Clip((IF wasFresh THEN wCmd ELSE 0) + alpha, WMin, WMax) : alpha \in AlphaMin..AlphaMax}

NotReady == ~havePose \/ path = None \/ longV = None

LatIdle ==
  /\ NotReady
  /\ latOut' = None /\ curveOut' = None
  /\ UNCHANGED <<wasFresh, wCmd, prevPathIdx>>

\* Mutant: a stale long_cmd ends the step before the stop is published.
SilentOnStaleLong ==
  /\ ~NotReady
  /\ ~Fresh(longAge, LongTimeout)
  /\ latOut' = None /\ curveOut' = None
  /\ wasFresh' = FALSE
  /\ wCmd' = 0
  /\ UNCHANGED prevPathIdx

\* A stale long_cmd: the robot is told to stop, on every tick.
StopOnStaleLong ==
  /\ ~NotReady
  /\ ~Fresh(longAge, LongTimeout)
  /\ latOut' = StopTwist /\ curveOut' = None
  /\ wasFresh' = FALSE
  /\ wCmd' = 0
  /\ UNCHANGED prevPathIdx

\* The speed is that of long_cmd, 0 included, and the MPC turns the robot
\* whatever the speed is (v_op has a floor).
KeepLane ==
  /\ ~NotReady
  /\ Fresh(longAge, LongTimeout)
  /\ wasFresh' = TRUE
  /\ prevPathIdx' \in Candidates
  /\ curveOut' \in Curves
  /\ wCmd' \in TurnRatesByMpc
  /\ latOut' = [v |-> longV, w |-> wCmd']

\* _control_step
LatControlStep ==
  /\ LatIdle \/ StopOnStaleLong \/ KeepLane
  /\ UNCHANGED latInputs

\* A message published is delivered.
LatTaken ==
  /\ latOut' = None
  /\ UNCHANGED <<latInputs, wasFresh, wCmd, prevPathIdx, curveOut>>

CurveTaken ==
  /\ curveOut' = None
  /\ UNCHANGED <<latInputs, wasFresh, wCmd, prevPathIdx, latOut>>

LatElapse ==
  /\ longAge' = Older(longAge, LongTimeout)
  /\ UNCHANGED <<longV, havePose, path, wasFresh, wCmd, prevPathIdx, latOut, curveOut>>

=============================================================================
