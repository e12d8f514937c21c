------------------------ MODULE FollowerStack_proofs ------------------------
(***************************************************************************)
(* What the control stack of the follower guarantees for every timeout of  *)
(* its three nodes, every limit, and every order of inputs, timers,        *)
(* messages and crashes.                                                   *)
(***************************************************************************)
EXTENDS FollowerStack, LatNode_proofs

USE TypesAssumption, TelemetryAssumption, AccAssumption, LatAssumption, FollowerAssumption

----------------------------------------------------------------------------
(* Types of acc_telemetry and of the adaptive cruise control.              *)

LEMMA TelemetryType ==
  ASSUME TeleTypeOK, TelemetryStep
  PROVE  TeleTypeOK'
<1>1. HaveInputs => selfV \in OwnSpeeds
  BY DEF TeleTypeOK, HaveInputs
<1>2. teleOut' \in Telemetry
  BY <1>1 DEF TelemetryStep, Telemetry
<1>3. QED
  BY <1>2 DEF TelemetryStep, TeleTypeOK

LEMMA TeleElapseType ==
  ASSUME TeleTypeOK, TeleElapse
  PROVE  TeleTypeOK'
<1>1. stampAge' \in [Stamped -> Ages(InputTimeout)]
  BY OlderAge DEF TeleElapse, TeleTypeOK
<1>2. QED
  BY <1>1 DEF TeleElapse, TeleTypeOK

LEMMA SeedType == AccTypeOK => Seed \in Commands \cup TeleSpeeds
BY DEF AccTypeOK, Seed, Commands

LEMMA FollowType ==
  ASSUME AccTypeOK, Follow
  PROVE  vCmd' \in Commands /\ accOut' = vCmd'
<1>1. Seed \in Int
  <2>1. Seed \in Commands \cup TeleSpeeds
    BY SeedType
  <2>2. QED
    BY <2>1 DEF Commands
<1>2. PICK a \in AMin..AMax : vCmd' = CapToCurve(Clip(Seed + a, VCmdMin, VCmdMax))
  BY DEF Follow, AccelByMpc
<1> DEFINE v == Clip(Seed + a, VCmdMin, VCmdMax)
<1>3. v \in VCmdMin..VCmdMax
  <2>1. Seed + a \in Int /\ VCmdMin <= VCmdMax
    BY <1>1
  <2>2. QED
    BY <2>1, ClipRange
<1> HIDE DEF v
<1>4. CapToCurve(v) \in VCmdMin..VCmdMax
  <2>1. CASE CurveSlowdown /\ Fresh(vCurveAge, CurveTimeout)
    <3>1. vCurve \in Curves
      BY <2>1 DEF AccTypeOK, Fresh
    <3>2. vCurve \in Int /\ VCmdMin <= vCurve
      BY <3>1
    <3>3. QED
      BY <1>3, <2>1, <3>2 DEF CapToCurve, Least
  <2>2. CASE ~(CurveSlowdown /\ Fresh(vCurveAge, CurveTimeout))
    BY <1>3, <2>2 DEF CapToCurve
  <2>3. QED
    BY <2>1, <2>2
<1>5. QED
  BY <1>2, <1>4 DEF v, Commands, Follow

LEMMA AccControlType ==
  ASSUME AccTypeOK, AccControlStep
  PROVE  AccTypeOK'
<1>1. wasStarted' = start /\ UNCHANGED accInputs
  BY DEF AccControlStep
<1>2. 0 \in Commands
  BY DEF Commands
<1>3. vCmd' \in Commands \cup TeleSpeeds /\ accOut' \in Commands \cup {None}
  <2>1. CASE Silent
    BY <2>1, SeedType DEF Silent
  <2>2. CASE StopOnBadTelemetry
    BY <2>2, <1>2 DEF StopOnBadTelemetry
  <2>3. CASE Follow
    BY <2>3, FollowType
  <2>4. QED
    BY <2>1, <2>2, <2>3 DEF AccControlStep
<1>4. QED
  BY <1>1, <1>3 DEF AccTypeOK, accInputs

LEMMA AccElapseType ==
  ASSUME AccTypeOK, AccElapse
  PROVE  AccTypeOK'
BY OlderAge DEF AccElapse, AccTypeOK

----------------------------------------------------------------------------
LEMMA FollowerTypeInit == FollowerInit => FollowerTypeOK
<1> SUFFICES ASSUME FollowerInit
             PROVE  FollowerTypeOK
  OBVIOUS
<1>1. 0 \in Commands /\ 0 \in WMin..WMax
  BY DEF Commands
<1>2. TeleTypeOK
  BY DEF FollowerInit, TeleInit, TeleTypeOK, Ages
<1>3. AccTypeOK
  BY <1>1 DEF FollowerInit, AccInit, AccTypeOK, Ages
<1>4. LatTypeOK /\ longV = None /\ latOut = None
  BY <1>1 DEF FollowerInit, LatInit, LatTypeOK, Ages
<1>5. enabled \in BOOLEAN /\ baseCmd \in Twists
  BY <1>1 DEF FollowerInit, BaseInit, BaseStopped, Twists
<1>6. QED
  BY <1>2, <1>3, <1>4, <1>5 DEF FollowerInit, FollowerTypeOK, LaneSettled

LEMMA FollowerTypeStep ==
  ASSUME FollowerTypeOK, [FollowerNext]_followerVars
  PROVE  FollowerTypeOK'
<1> USE DEF FollowerTypeOK, counters
<1>1. ASSUME UNCHANGED accVars
      PROVE  AccTypeOK'
  BY <1>1 DEF accVars, accInputs, AccTypeOK
<1>2. ASSUME UNCHANGED latVars
      PROVE  LatTypeOK' /\ UNCHANGED <<longV, latOut>>
  BY <1>2 DEF latVars, latInputs, LatTypeOK
<1>3. ASSUME UNCHANGED teleVars
      PROVE  TeleTypeOK'
  BY <1>3 DEF teleVars, TeleTypeOK
<1>4. ASSUME NEW i \in Stamped, Input(i)
      PROVE  FollowerTypeOK'
  <2>1. TeleTypeOK'
    BY <1>4 DEF Input, InputCb, TeleTypeOK, Ages
  <2>2. QED
    BY <1>1, <1>2, <1>4, <2>1 DEF Input, baseVars
<1>5. ASSUME NEW v \in OwnSpeeds, SelfOdom(v)
      PROVE  FollowerTypeOK'
  <2>1. TeleTypeOK'
    BY <1>5 DEF SelfOdom, SelfOdomCb, TeleTypeOK
  <2>2. QED
    BY <1>1, <1>2, <1>5, <2>1 DEF SelfOdom, baseVars
<1>6. ASSUME NEW points \in PathPoints, LeaderPath(points)
      PROVE  FollowerTypeOK'
  <2>1. (points >= 2) \in BOOLEAN
    OBVIOUS
  <2>2. TeleTypeOK'
    BY <1>6, <2>1 DEF LeaderPath, LeaderPathCb, TeleTypeOK, Ages
  <2>3. QED
    BY <1>1, <1>2, <1>6, <2>2 DEF LeaderPath, baseVars
<1>7. CASE Pose
  <2>1. LatTypeOK' /\ UNCHANGED <<longV, latOut>>
    BY <1>7 DEF Pose, PoseCb, LatTypeOK
  <2>2. QED
    BY <1>1, <1>3, <1>7, <2>1 DEF Pose, baseVars
<1>8. ASSUME NEW b \in BOOLEAN, OperatorStart(b)
      PROVE  FollowerTypeOK'
  <2>1. AccTypeOK'
    BY <1>8 DEF OperatorStart, SetStart, AccTypeOK
  <2>2. off' \in 0..OffCap
    BY <1>8 DEF OperatorStart
  <2>3. QED
    BY <1>2, <1>3, <1>8, <2>1, <2>2 DEF OperatorStart, baseVars
<1>9. CASE TeleTimer
  <2>1. TeleTypeOK'
    BY <1>9, TelemetryType DEF TeleTimer
  <2>2. QED
    BY <1>1, <1>2, <1>9, <2>1 DEF TeleTimer, baseVars
<1>10. CASE AccTimer
  <2>1. AccTypeOK'
    BY <1>10, AccControlType DEF AccTimer
  <2>2. QED
    BY <1>2, <1>3, <1>10, <2>1 DEF AccTimer, baseVars
<1>11. CASE LatTimer
  <2>1. LatTypeOK' /\ latOut' \in Twists \cup {None}
    <3>1. Commands \subseteq Int /\ 0 \in Commands
      BY DEF Commands
    <3>2. QED
      BY <1>11, <3>1, LatControlType DEF LatTimer, Twists
  <2>2. UNCHANGED longV
    BY <1>11 DEF LatTimer, LatControlStep, latInputs
  <2>3. laneTicks' \in 0..LaneSettled
    BY <1>11, CappedCount DEF LatTimer, LaneSettled
  <2>4. QED
    BY <1>1, <1>3, <1>11, <2>1, <2>2, <2>3 DEF LatTimer, baseVars
<1>12. CASE DeliverTelemetry
  <2>1. teleOut \in Telemetry
    BY <1>12 DEF DeliverTelemetry, TeleTypeOK
  <2>2. teleOut.is_valid \in BOOLEAN /\ teleOut.v \in TeleSpeeds /\ teleOut # None
    BY <1>12, <2>1 DEF DeliverTelemetry, Telemetry
  <2>3. TeleTypeOK' /\ AccTypeOK'
    BY <1>12, <2>2 DEF DeliverTelemetry, TelemetryCb, TeleTaken, TeleTypeOK, AccTypeOK, Ages
  <2>4. invalid' \in 0..InvalidCap
    BY <1>12 DEF DeliverTelemetry
  <2>5. QED
    BY <1>2, <1>12, <2>3, <2>4 DEF DeliverTelemetry, baseVars
<1>13. CASE DeliverPath
  <2>1. TeleTypeOK'
    BY <1>13 DEF DeliverPath, PathTaken, TeleTypeOK
  <2>2. LatTypeOK' /\ UNCHANGED <<longV, latOut>>
    BY <1>13 DEF DeliverPath, PathCb, IdxAfterPath, LatTypeOK
  <2>3. QED
    BY <1>1, <1>13, <2>1, <2>2 DEF DeliverPath, baseVars
<1>14. CASE DeliverLongCmd
  <2>1. accOut \in Commands /\ accOut \in Int
    BY <1>14 DEF DeliverLongCmd, AccTypeOK, Commands
  <2>2. AccTypeOK'
    BY <1>14 DEF DeliverLongCmd, AccTaken, accInputs, AccTypeOK
  <2>3. LatTypeOK' /\ longV' \in Commands /\ UNCHANGED latOut
    BY <1>14, <2>1 DEF DeliverLongCmd, LongCmdCb, LatTypeOK, Ages
  <2>4. QED
    BY <1>3, <1>14, <2>2, <2>3 DEF DeliverLongCmd, baseVars
<1>15. CASE DeliverCurve
  <2>1. curveOut \in Curves
    BY <1>15 DEF DeliverCurve, LatTypeOK
  <2>2. AccTypeOK'
    BY <1>15, <2>1 DEF DeliverCurve, VCurveCb, AccTypeOK, Ages
  <2>3. LatTypeOK' /\ UNCHANGED <<longV, latOut>>
    BY <1>15 DEF DeliverCurve, CurveTaken, latInputs, LatTypeOK
  <2>4. QED
    BY <1>3, <1>15, <2>2, <2>3 DEF DeliverCurve, baseVars
<1>16. CASE DeliverLaneCommand
  <2>1. LatTypeOK' /\ UNCHANGED longV /\ latOut' = None
    BY <1>16 DEF DeliverLaneCommand, LatTaken, latInputs, LatTypeOK
  <2>2. baseCmd' \in Twists /\ enabled' \in BOOLEAN
    BY <1>16 DEF DeliverLaneCommand, VelocityCommand
  <2>3. QED
    BY <1>1, <1>3, <1>16, <2>1, <2>2 DEF DeliverLaneCommand
<1>17. ASSUME NEW n \in Crashable, Crash(n)
       PROVE  FollowerTypeOK'
  BY <1>1, <1>2, <1>3, <1>17 DEF Crash, baseVars
<1>18. CASE Tick
  <2>1. TeleTypeOK' /\ AccTypeOK'
    BY <1>18, TeleElapseType, AccElapseType DEF Tick
  <2>2. LatTypeOK' /\ UNCHANGED <<longV, latOut>>
    BY <1>18, OlderAge DEF Tick, LatElapse, LatTypeOK
  <2>3. off' \in 0..OffCap /\ silence' \in 0..SilenceCap /\ invalid' \in 0..InvalidCap
    BY <1>18, CappedCount DEF Tick
  <2>4. QED
    BY <1>18, <2>1, <2>2, <2>3 DEF Tick, baseVars
<1>19. CASE UNCHANGED followerVars
  BY <1>1, <1>2, <1>3, <1>19 DEF followerVars, baseVars
<1>20. QED
  BY <1>4, <1>5, <1>6, <1>7, <1>8, <1>9, <1>10, <1>11, <1>12, <1>13, <1>14, <1>15, <1>16,
     <1>17, <1>18, <1>19 DEF FollowerNext, Deliver

\* Every variable of the follower's stack keeps its type.  In particular what
\* the adaptive cruise control publishes, and what the base is told, stays
\* within v_cmd_limits and w_cmd_limits, although the integrator is seeded with
\* a reported speed that nothing limits and capped by a curve limit that does
\* not know them.
THEOREM FollowerTypeCorrect == FollowerSpec => []FollowerTypeOK
BY FollowerTypeInit, FollowerTypeStep, PTL DEF FollowerSpec

----------------------------------------------------------------------------
(***************************************************************************)
(* The kill-switch.  Where the lane-keeping node does not crash, every     *)
(* command passes a long_cmd whose age counts the periods since the        *)
(* adaptive cruise control was last on.                                    *)
(***************************************************************************)

Steady == Crashable \subseteq {"tele", "acc"}

\* Only the lane-keeping node commands the base, and not before it is ready.
OneVoice ==
  /\ "lat" \in up
  /\ enabled = TRUE
  /\ latOut # None => "lat" \in fired
  /\ NotReady => latOut = None /\ BaseStopped /\ ~wasFresh /\ laneTicks = 0

\* A cruise control that is off is silent, and long_cmd ages with it.
LongCmdAges ==
  off >= 1 =>
    /\ ~start \/ "acc" \notin up
    /\ accOut = None
    /\ longV # None => longAge >= Least(off, LongTimeout + 1)

\* In the last period of grace long_cmd is stale, and the answer to it has
\* reached the base before the period ends.
GraceEnds ==
  /\ off >= LongTimeout + 1 => latOut \in {None, StopTwist}
  /\ off = LongTimeout + 1 /\ "lat" \in fired => latOut = StopTwist \/ BaseStopped
  /\ off >= LongTimeout + 2 => BaseStopped

KillInv == FollowerTypeOK /\ OneVoice /\ LongCmdAges /\ GraceEnds

LEMMA KillInit ==
  ASSUME Steady, FollowerInit
  PROVE  KillInv
<1>1. FollowerTypeOK
  BY FollowerTypeInit
<1>2. /\ longV = None /\ latOut = None /\ wasFresh = FALSE /\ BaseStopped
      /\ enabled = TRUE /\ accOut = None /\ start = FALSE
  BY DEF FollowerInit, LatInit, BaseInit, AccInit
<1>3. OneVoice
  BY <1>2 DEF OneVoice, FollowerInit, Nodes
<1>4. LongCmdAges /\ GraceEnds
  BY <1>2 DEF LongCmdAges, GraceEnds
<1>5. QED
  BY <1>1, <1>3, <1>4 DEF KillInv

\* What a step of the lane-keeping node that is not ready does: nothing.
LEMMA NotReadyIdles ==
  ASSUME LatControlStep, NotReady
  PROVE  latOut' = None /\ curveOut' = None /\ UNCHANGED <<wasFresh, wCmd, prevPathIdx>>
BY DEF LatControlStep, LatIdle, StopOnStaleLong, KeepLane

LEMMA OneVoiceStep ==
  ASSUME Steady, KillInv, [FollowerNext]_followerVars
  PROVE  OneVoice'
<1> USE DEF KillInv, OneVoice
<1>1. ASSUME UNCHANGED <<enabled, baseCmd, latOut, wasFresh, laneTicks>>,
             "lat" \in up', "lat" \in fired => "lat" \in fired',
             NotReady' => NotReady
      PROVE  OneVoice'
  BY <1>1 DEF BaseStopped
<1>2. CASE \/ \E i \in Stamped : Input(i)
           \/ \E v \in OwnSpeeds : SelfOdom(v)
           \/ \E points \in PathPoints : LeaderPath(points)
           \/ \E b \in BOOLEAN : OperatorStart(b)
           \/ TeleTimer \/ AccTimer \/ DeliverTelemetry
  BY <1>1, <1>2 DEF Input, SelfOdom, LeaderPath, OperatorStart, TeleTimer, AccTimer,
     DeliverTelemetry, latVars, latInputs, baseVars, counters, NotReady
<1>3. CASE Pose
  BY <1>1, <1>3 DEF Pose, PoseCb, baseVars, counters, NotReady
<1>4. CASE LatTimer
  <2>1. NotReady' = NotReady /\ UNCHANGED <<up, enabled, baseCmd>> /\ "lat" \in fired'
    BY <1>4 DEF LatTimer, LatControlStep, latInputs, baseVars, NotReady
  <2>2. NotReady => latOut' = None /\ ~wasFresh' /\ laneTicks' = 0
    BY <1>4, NotReadyIdles DEF LatTimer
  <2>3. QED
    BY <2>1, <2>2 DEF BaseStopped
<1>5. CASE DeliverPath
  <2>1. PICK p \in Paths : PathCb(p)
    BY <1>5 DEF DeliverPath
  <2>2. NotReady' => NotReady
    BY <2>1 DEF PathCb, NotReady
  <2>3. QED
    BY <1>1, <1>5, <2>1, <2>2 DEF DeliverPath, PathCb, baseVars, counters
<1>6. CASE DeliverLongCmd
  <2>1. NotReady' => NotReady
    BY <1>6 DEF DeliverLongCmd, LongCmdCb, NotReady
  <2>2. QED
    BY <1>1, <1>6, <2>1 DEF DeliverLongCmd, LongCmdCb, baseVars, counters
<1>7. CASE DeliverCurve
  BY <1>1, <1>7 DEF DeliverCurve, CurveTaken, latInputs, baseVars, counters, NotReady
<1>8. CASE DeliverLaneCommand
  <2>1. ~NotReady' /\ latOut' = None
    BY <1>8 DEF DeliverLaneCommand, LatTaken, latInputs, NotReady
  <2>2. UNCHANGED <<up, enabled>>
    BY <1>8 DEF DeliverLaneCommand, VelocityCommand
  <2>3. QED
    BY <2>1, <2>2
<1>9. ASSUME NEW n \in Crashable, Crash(n)
      PROVE  OneVoice'
  <2>1. n # "lat"
    BY DEF Steady
  <2>2. "lat" \in up' /\ ("lat" \in fired => "lat" \in fired')
    BY <1>9, <2>1 DEF Crash
  <2>3. QED
    BY <1>1, <1>9, <2>2 DEF Crash, latVars, latInputs, baseVars, counters, NotReady
<1>10. CASE Tick
  BY <1>10 DEF Tick, Delivered, LatElapse, baseVars, NotReady, BaseStopped
<1>11. CASE UNCHANGED followerVars
  BY <1>1, <1>11 DEF followerVars, latVars, latInputs, baseVars, counters, NotReady
<1>12. QED
  BY <1>2, <1>3, <1>4, <1>5, <1>6, <1>7, <1>8, <1>9, <1>10, <1>11 DEF FollowerNext, Deliver

LEMMA LongCmdAgesStep ==
  ASSUME Steady, KillInv, [FollowerNext]_followerVars
  PROVE  LongCmdAges'
<1> USE DEF KillInv, LongCmdAges
<1>1. ASSUME UNCHANGED <<off, start, accOut, longV, longAge>>, up' \subseteq up
      PROVE  LongCmdAges'
  BY <1>1
<1>2. CASE \/ \E i \in Stamped : Input(i)
           \/ \E v \in OwnSpeeds : SelfOdom(v)
           \/ \E points \in PathPoints : LeaderPath(points)
           \/ Pose \/ TeleTimer
  BY <1>1, <1>2 DEF Input, SelfOdom, LeaderPath, Pose, PoseCb, TeleTimer, accVars, accInputs,
     latVars, latInputs, counters
<1>3. CASE DeliverTelemetry \/ DeliverPath \/ DeliverCurve \/ DeliverLaneCommand
  BY <1>1, <1>3 DEF DeliverTelemetry, TelemetryCb, DeliverPath, PathCb, DeliverCurve, VCurveCb,
     CurveTaken, DeliverLaneCommand, LatTaken, accVars, accInputs, latVars, latInputs, counters
<1>4. ASSUME NEW b \in BOOLEAN, OperatorStart(b)
      PROVE  LongCmdAges'
  <2>1. /\ off' = (IF b THEN 0 ELSE off) /\ start' = b
        /\ UNCHANGED <<accOut, longV, longAge, up>>
    BY <1>4 DEF OperatorStart, SetStart, latVars, latInputs
  <2>2. QED
    BY <2>1
<1>5. CASE AccTimer
  <2>1. UNCHANGED <<off, start, longV, longAge, up>> /\ "acc" \in up
    BY <1>5 DEF AccTimer, AccControlStep, accInputs, latVars, latInputs, counters
  <2>2. ~start => accOut' = None
    BY <1>5 DEF AccTimer, AccControlStep, Silent, StopOnBadTelemetry, Follow
  <2>3. QED
    BY <2>1, <2>2
<1>6. CASE LatTimer
  BY <1>1, <1>6 DEF LatTimer, LatControlStep, accVars, accInputs, latInputs
<1>7. CASE DeliverLongCmd
  BY <1>7 DEF DeliverLongCmd, counters
<1>8. ASSUME NEW n \in Crashable, Crash(n)
      PROVE  LongCmdAges'
  BY <1>1, <1>8 DEF Crash, accVars, accInputs, latVars, latInputs, counters
<1>9. CASE Tick
  <2>1. accOut' = None
    BY <1>9 DEF Tick, Delivered, OneVoice, AccElapse
  <2>2. off' >= 1 => ~start' \/ "acc" \notin up'
    BY <1>9 DEF Tick, AccElapse
  <2>3. ASSUME off' >= 1, longV' # None
        PROVE  longAge' >= Least(off', LongTimeout + 1)
    <3>1. longAge \in Ages(LongTimeout) /\ longAge # None
      BY <1>9, <2>3 DEF Tick, LatElapse, FollowerTypeOK, LatTypeOK
    <3>2. longAge' = Older(longAge, LongTimeout)
      BY <1>9 DEF Tick, LatElapse
    <3>3. off' <= off + 1 /\ off \in Nat /\ off' \in Nat
      BY <1>9, <2>3 DEF Tick, Least, FollowerTypeOK
    <3>4. off >= 1 => longAge >= Least(off, LongTimeout + 1)
      BY <1>9, <2>3 DEF Tick, LatElapse
    <3>5. off - 0 = off /\ off' - 0 = off' /\ 0 + 1 = 1
      BY <3>3
    <3>6. QED
      BY <2>3, <3>1, <3>2, <3>3, <3>4, <3>5 DEF Older, Ages, Least
  <2>4. QED
    BY <2>1, <2>2, <2>3
<1>10. CASE UNCHANGED followerVars
  BY <1>1, <1>10 DEF followerVars, accVars, accInputs, latVars, latInputs, counters
<1>11. QED
  BY <1>2, <1>3, <1>4, <1>5, <1>6, <1>7, <1>8, <1>9, <1>10 DEF FollowerNext, Deliver

LEMMA GraceEndsStep ==
  ASSUME Steady, KillInv, [FollowerNext]_followerVars
  PROVE  GraceEnds'
<1> USE DEF KillInv, GraceEnds, FollowerTypeOK
<1>1. ASSUME off' = off \/ off' = 0, UNCHANGED <<latOut, baseCmd>>,
             "lat" \in fired' => "lat" \in fired
      PROVE  GraceEnds'
  BY <1>1 DEF BaseStopped
<1>2. CASE \/ \E i \in Stamped : Input(i)
           \/ \E v \in OwnSpeeds : SelfOdom(v)
           \/ \E points \in PathPoints : LeaderPath(points)
           \/ Pose \/ \E b \in BOOLEAN : OperatorStart(b)
           \/ TeleTimer \/ AccTimer
  BY <1>1, <1>2 DEF Input, SelfOdom, LeaderPath, Pose, PoseCb, OperatorStart, TeleTimer,
     AccTimer, latVars, baseVars, counters
<1>3. CASE DeliverTelemetry \/ DeliverPath \/ DeliverLongCmd \/ DeliverCurve
  BY <1>1, <1>3 DEF DeliverTelemetry, DeliverPath, PathCb, DeliverLongCmd, LongCmdCb,
     DeliverCurve, CurveTaken, latVars, baseVars, counters
<1>4. CASE LatTimer
  <2>1. UNCHANGED off /\ BaseStopped' = BaseStopped
    BY <1>4 DEF LatTimer, baseVars, BaseStopped
  <2>2. ASSUME off >= LongTimeout + 1, ~NotReady
        PROVE  latOut' = StopTwist
    <3>1. longV # None /\ Least(off, LongTimeout + 1) = LongTimeout + 1 /\ off >= 1
      BY <2>2 DEF NotReady, Least
    <3>2. ~Fresh(longAge, LongTimeout)
      BY <3>1 DEF LongCmdAges, Fresh
    <3>3. QED
      BY <1>4, <2>2, <3>2 DEF LatTimer, LatControlStep, LatIdle, StopOnStaleLong, KeepLane
  <2>3. NotReady => latOut' = None /\ BaseStopped
    BY <1>4, NotReadyIdles DEF LatTimer, OneVoice
  <2>4. QED
    BY <2>1, <2>2, <2>3
<1>5. CASE DeliverLaneCommand
  <2>1. UNCHANGED <<off, fired>> /\ latOut' = None
    BY <1>5 DEF DeliverLaneCommand, LatTaken, counters
  <2>2. off >= LongTimeout + 1 => BaseStopped'
    BY <1>5 DEF DeliverLaneCommand, OneVoice, VelocityCommand, BaseStopped, StopTwist
  <2>3. QED
    BY <2>1, <2>2
<1>6. ASSUME NEW n \in Crashable, Crash(n)
      PROVE  GraceEnds'
  BY <1>1, <1>6 DEF Crash, latVars, baseVars, counters
<1>7. CASE Tick
  <2>1. latOut' = None /\ "lat" \in fired /\ fired' = {} /\ BaseStopped' = BaseStopped
    BY <1>7 DEF Tick, Delivered, LatElapse, OneVoice, baseVars, BaseStopped
  <2>2. latOut # StopTwist
    BY <1>7, StopIsACommand DEF Tick, Delivered
  <2>3. off' <= off + 1 /\ off \in Nat /\ off' \in Nat
    BY <1>7 DEF Tick, Least
  <2>4. off >= LongTimeout + 1 => BaseStopped
    BY <2>1, <2>2, <2>3
  <2>5. QED
    BY <2>1, <2>3, <2>4
<1>8. CASE UNCHANGED followerVars
  BY <1>1, <1>8 DEF followerVars, latVars, baseVars, counters
<1>9. QED
  BY <1>2, <1>3, <1>4, <1>5, <1>6, <1>7, <1>8 DEF FollowerNext, Deliver

LEMMA KillStep ==
  ASSUME Steady, KillInv, [FollowerNext]_followerVars
  PROVE  KillInv'
BY FollowerTypeStep, OneVoiceStep, LongCmdAgesStep, GraceEndsStep DEF KillInv

----------------------------------------------------------------------------
(* The stack implements the dead man's switch.                             *)

Granted == start /\ "acc" \in up
Idling == Least(off, LongTimeout + 2)

LEMMA DeadManStep ==
  ASSUME Steady, OffCap >= LongTimeout + 2, KillInv, KillInv', [FollowerNext]_followerVars
  PROVE  DeadManSwitch!Next \/ UNCHANGED <<Granted, Idling, ~BaseStopped>>
<1> DEFINE Abs == <<Granted, Idling, ~BaseStopped>>
<1> USE DEF Granted, Idling
<1>1. ASSUME UNCHANGED <<start, off, baseCmd>>, "acc" \in up' <=> "acc" \in up
      PROVE  UNCHANGED Abs
  BY <1>1 DEF BaseStopped
<1>2. CASE \/ \E i \in Stamped : Input(i)
           \/ \E v \in OwnSpeeds : SelfOdom(v)
           \/ \E points \in PathPoints : LeaderPath(points)
           \/ Pose \/ TeleTimer \/ AccTimer \/ LatTimer \/ UNCHANGED followerVars
  BY <1>1, <1>2 DEF Input, SelfOdom, LeaderPath, Pose, TeleTimer, AccTimer, AccControlStep,
     LatTimer, followerVars, accVars, accInputs, baseVars, counters
<1>3. CASE DeliverTelemetry \/ DeliverPath \/ DeliverLongCmd \/ DeliverCurve
  BY <1>1, <1>3 DEF DeliverTelemetry, TelemetryCb, DeliverPath, DeliverLongCmd, AccTaken,
     DeliverCurve, VCurveCb, accVars, accInputs, baseVars, counters
<1>4. ASSUME NEW b \in BOOLEAN, OperatorStart(b)
      PROVE  DeadManSwitch!Next
  <2>1. /\ "acc" \in up /\ UNCHANGED up /\ start' = b /\ BaseStopped' = BaseStopped
        /\ off' = IF b THEN 0 ELSE off
    BY <1>4 DEF OperatorStart, SetStart, baseVars, BaseStopped
  <2>2. CASE b = TRUE
    <3>1. Idling' = 0
      BY <2>1, <2>2 DEF Least
    <3>2. QED
      BY <2>1, <2>2, <3>1 DEF DeadManSwitch!Next, DeadManSwitch!Grant
  <2>3. CASE b = FALSE
    BY <2>1, <2>3 DEF DeadManSwitch!Next, DeadManSwitch!Revoke
  <2>4. QED
    BY <2>2, <2>3
<1>5. CASE DeliverLaneCommand
  <2>1. UNCHANGED <<start, up, off>>
    BY <1>5 DEF DeliverLaneCommand, accVars, accInputs, counters
  <2>2. CASE BaseStopped'
    BY <2>1, <2>2 DEF DeadManSwitch!Next, DeadManSwitch!Stop
  <2>3. CASE ~BaseStopped'
    <3>1. ~(off' >= LongTimeout + 2)
      BY <2>3 DEF KillInv, GraceEnds
    <3>2. Idling <= LongTimeout + 1
      BY <2>1, <3>1 DEF Least, KillInv, FollowerTypeOK
    <3>3. QED
      BY <2>1, <2>3, <3>2 DEF DeadManSwitch!Next, DeadManSwitch!Move
  <2>4. QED
    BY <2>2, <2>3
<1>6. ASSUME NEW n \in Crashable, Crash(n)
      PROVE  DeadManSwitch!Next \/ UNCHANGED Abs
  <2>1. CASE n = "acc"
    <3>1. Granted' = FALSE /\ UNCHANGED off /\ BaseStopped' = BaseStopped
      BY <1>6, <2>1 DEF Crash, baseVars, counters, BaseStopped
    <3>2. QED
      BY <3>1 DEF DeadManSwitch!Next, DeadManSwitch!Revoke
  <2>2. CASE n # "acc"
    BY <1>1, <1>6, <2>2 DEF Crash, accVars, accInputs, baseVars, counters
  <2>3. QED
    BY <2>1, <2>2
<1>7. CASE Tick
  <2>1. /\ UNCHANGED <<start, up>> /\ BaseStopped' = BaseStopped
        /\ off' = IF start /\ "acc" \in up THEN 0 ELSE Least(off + 1, OffCap)
    BY <1>7 DEF Tick, AccElapse, baseVars, BaseStopped
  <2>2. off \in 0..OffCap
    BY DEF KillInv, FollowerTypeOK
  <2>3. Idling' = IF Granted THEN 0
                  ELSE IF Idling <= LongTimeout + 1 THEN Idling + 1 ELSE Idling
    BY <2>1, <2>2 DEF Least
  <2>4. Idling' > LongTimeout + 1 => BaseStopped'
    BY <2>1, <2>2 DEF Least, KillInv, GraceEnds, FollowerTypeOK
  <2>5. QED
    BY <2>1, <2>3, <2>4 DEF DeadManSwitch!Next, DeadManSwitch!Period
<1>8. QED
  BY <1>2, <1>3, <1>4, <1>5, <1>6, <1>7 DEF FollowerNext, Deliver

LEMMA StackIsDeadMan ==
  ASSUME Steady, OffCap >= LongTimeout + 2
  PROVE  FollowerSpec => DeadManSpec
<1>1. FollowerInit => KillInv
  BY KillInit
<1>2. KillInv /\ [FollowerNext]_followerVars => KillInv'
  BY KillStep
<1>3. FollowerInit => DeadManSwitch!Init
  BY DEF FollowerInit, AccInit, BaseInit, DeadManSwitch!Init, Least
<1>4. KillInv /\ KillInv' /\ [FollowerNext]_followerVars
        => [DeadManSwitch!Next]_(DeadManSwitch!vars)
  BY DeadManStep DEF Granted, Idling, DeadManSwitch!vars
<1>5. QED
  BY <1>1, <1>2, <1>3, <1>4, PTL DEF FollowerSpec, DeadManSpec, DeadManSwitch!Spec

----------------------------------------------------------------------------
(***************************************************************************)
(* No command makes the speed jump.  The integrator of a cruise control    *)
(* that is on holds what was commanded last, so that its next command is a *)
(* step from there.                                                        *)
(***************************************************************************)

\* The speed that the lane-keeping node has, or is about to have.
Commanded == IF accOut # None THEN accOut ELSE IF longV # None THEN longV ELSE 0

Tracks ==
  /\ wasStarted => vCmd = Commanded
  /\ tele = None => vCmd = 0 /\ accOut = None /\ longV = None

LEMMA TracksStep ==
  ASSUME FollowerTypeOK, Tracks, [FollowerNext]_followerVars
  PROVE  Tracks'
<1> USE DEF Tracks, Commanded
<1>1. ASSUME UNCHANGED <<wasStarted, vCmd, tele, accOut, longV>>
      PROVE  Tracks'
  BY <1>1
<1>2. CASE \/ \E i \in Stamped : Input(i)
           \/ \E v \in OwnSpeeds : SelfOdom(v)
           \/ \E points \in PathPoints : LeaderPath(points)
           \/ Pose \/ TeleTimer \/ \E b \in BOOLEAN : OperatorStart(b)
           \/ \E n \in Crashable : Crash(n)
  BY <1>1, <1>2 DEF Input, SelfOdom, LeaderPath, Pose, PoseCb, TeleTimer, OperatorStart,
     SetStart, Crash, accVars, accInputs, latVars, latInputs
<1>3. CASE DeliverPath \/ DeliverCurve \/ DeliverLaneCommand \/ LatTimer
  BY <1>1, <1>3 DEF DeliverPath, PathCb, DeliverCurve, VCurveCb, CurveTaken,
     DeliverLaneCommand, LatTaken, LatTimer, LatControlStep, accVars, accInputs, latInputs
<1>4. CASE DeliverTelemetry
  <2>1. tele' # None /\ UNCHANGED <<wasStarted, vCmd, accOut, longV>>
    BY <1>4 DEF DeliverTelemetry, TelemetryCb, latVars, latInputs
  <2>2. QED
    BY <2>1
<1>5. CASE DeliverLongCmd
  <2>1. /\ accOut # None /\ longV' = accOut /\ accOut' = None
        /\ UNCHANGED <<wasStarted, vCmd, tele>>
    BY <1>5 DEF DeliverLongCmd, LongCmdCb, AccTaken, accInputs
  <2>2. QED
    BY <2>1
<1>6. CASE AccTimer
  <2>1. wasStarted' = start /\ UNCHANGED <<start, tele, longV>>
    BY <1>6 DEF AccTimer, AccControlStep, accInputs, latVars, latInputs
  <2>2. CASE Silent
    <3>1. accOut' = None /\ vCmd' = Seed
      BY <2>2 DEF Silent
    <3>2. tele = None => Seed = 0
      BY DEF Seed
    <3>3. QED
      BY <2>1, <2>2, <3>1, <3>2 DEF Silent
  <2>3. CASE StopOnBadTelemetry \/ Follow
    <3>1. tele # None /\ accOut' = vCmd' /\ vCmd' # None
      <4>1. CASE StopOnBadTelemetry
        BY <4>1 DEF StopOnBadTelemetry
      <4>2. CASE Follow
        BY <4>2, FollowType DEF FollowerTypeOK, Commands, Follow
      <4>3. QED
        BY <2>3, <4>1, <4>2
    <3>2. QED
      BY <2>1, <3>1
  <2>4. QED
    BY <1>6, <2>2, <2>3 DEF AccTimer, AccControlStep
<1>7. CASE Tick \/ UNCHANGED followerVars
  BY <1>1, <1>7 DEF Tick, AccElapse, LatElapse, followerVars, accVars, accInputs, latVars,
     latInputs
<1>8. QED
  BY <1>2, <1>3, <1>4, <1>5, <1>6, <1>7 DEF FollowerNext, Deliver

LEMMA SmoothStep ==
  ASSUME VCmdMin = 0, FollowerTypeOK, Tracks, [FollowerNext]_followerVars,
         accOut = None, accOut' # None
  PROVE  accOut' <= Clip(Reference, VCmdMin, VCmdMax) + AMax
<1>1. AccTimer
  BY DEF FollowerNext, Deliver, Input, SelfOdom, LeaderPath, Pose, OperatorStart, SetStart,
     TeleTimer, LatTimer, DeliverTelemetry, TelemetryCb, DeliverPath, DeliverLongCmd, AccTaken,
     DeliverCurve, VCurveCb, DeliverLaneCommand, Crash, Tick, AccElapse, followerVars, accVars
<1>2. Reference \in Int
  <2>1. tele # None => tele.v \in Int
    BY DEF FollowerTypeOK, AccTypeOK
  <2>2. longV # None => longV \in Int
    BY DEF FollowerTypeOK, LatTypeOK
  <2>3. QED
    BY <2>1, <2>2 DEF Reference
<1>3. CASE StopOnBadTelemetry
  <2>1. Clip(Reference, VCmdMin, VCmdMax) \in VCmdMin..VCmdMax
    <3>1. VCmdMin <= VCmdMax
      OBVIOUS
    <3>2. QED
      BY <1>2, <3>1, ClipRange
  <2>2. QED
    BY <1>3, <2>1 DEF StopOnBadTelemetry
<1>4. CASE Follow
  <2>1. Seed = Reference
    BY <1>4 DEF Follow, Seed, Reference, Tracks, Commanded
  <2>2. PICK a \in AMin..AMax : vCmd' = CapToCurve(Clip(Seed + a, VCmdMin, VCmdMax))
    BY <1>4 DEF Follow, AccelByMpc
  <2> DEFINE v == Clip(Seed + a, VCmdMin, VCmdMax)
  <2>3. v <= Clip(Reference, VCmdMin, VCmdMax) + AMax
    <3>1. a \in Int /\ a <= AMax /\ 0 <= AMax /\ VCmdMin <= VCmdMax
      OBVIOUS
    <3>2. QED
      BY <1>2, <2>1, <3>1, ClipStep
  <2>4. v \in Int /\ Clip(Reference, VCmdMin, VCmdMax) \in Int
    <3>1. VCmdMin <= VCmdMax /\ Seed + a \in Int
      BY <1>2, <2>1
    <3>2. v \in VCmdMin..VCmdMax
      BY <3>1, ClipRange
    <3>3. Clip(Reference, VCmdMin, VCmdMax) \in VCmdMin..VCmdMax
      BY <1>2, <3>1, ClipRange
    <3>4. VCmdMin..VCmdMax \subseteq Int
      OBVIOUS
    <3>5. QED
      BY <3>2, <3>3, <3>4
  <2> HIDE DEF v
  <2>5. CapToCurve(v) <= v
    <3>1. CurveSlowdown /\ Fresh(vCurveAge, CurveTimeout) => vCurve \in Int
      BY DEF FollowerTypeOK, AccTypeOK, Fresh
    <3>2. QED
      BY <2>4, <3>1 DEF CapToCurve, Least
  <2>6. accOut' = CapToCurve(v)
    BY <1>4, <2>2 DEF Follow, v
  <2>7. accOut' \in Int
    BY <1>4, FollowType DEF FollowerTypeOK, Commands
  <2>8. QED
    BY <2>3, <2>4, <2>5, <2>6, <2>7
<1>5. QED
  BY <1>1, <1>3, <1>4 DEF AccTimer, AccControlStep, Silent

\* The follower is a dead man's switch, and after a stop, a start or a gap of
\* the Telemetry it goes on from the speed commanded last, or from its own: of a
\* robot that is never told to reverse, for all limits and timeouts.
THEOREM FollowerIsDeadManAndSmooth ==
  ASSUME Steady, OffCap >= LongTimeout + 2, VCmdMin = 0
  PROVE  FollowerSpec => StopsDeadStartsSmooth
<1>1. FollowerInit => Tracks
  BY DEF FollowerInit, AccInit, LatInit, Tracks, Commanded
<1>2. FollowerTypeOK /\ Tracks /\ [FollowerNext]_followerVars => Tracks'
  BY TracksStep
<1>3. FollowerTypeOK /\ Tracks /\ [FollowerNext]_followerVars
        => [accOut = None /\ accOut' # None =>
              accOut' <= Clip(Reference, VCmdMin, VCmdMax) + AMax]_followerVars
  BY SmoothStep
<1>4. FollowerSpec => SmoothSpeed
  BY <1>1, <1>2, <1>3, FollowerTypeCorrect, PTL DEF FollowerSpec, SmoothSpeed
<1>5. QED
  BY <1>4, StackIsDeadMan DEF StopsDeadStartsSmooth

----------------------------------------------------------------------------
(***************************************************************************)
(* A follower that gets no valid Telemetry stops moving along the lane.    *)
(***************************************************************************)

\* The valid message that the cruise control holds is as old as the counter.
TeleAges == tele # None /\ tele.is_valid => teleAge >= Least(invalid, TeleTimeout + 1)

\* Without one no speed is published, and the last one that was ages.
InvalidIsSlow ==
  invalid >= TeleTimeout + 1 =>
    /\ accOut \in {None, 0}
    /\ longV \notin {None, 0} => longAge >= Least(invalid - TeleTimeout, LongTimeout + 1)

SpeedlessOut == latOut # None => latOut.v = 0

\* In the last period every command is without speed, and one has been given
\* to the base before the period ends.
InvalidEnds ==
  /\ invalid >= TeleTimeout + LongTimeout + 1 => SpeedlessOut
  /\ invalid = TeleTimeout + LongTimeout + 1 /\ "lat" \in fired =>
       latOut # None \/ baseCmd.v = 0
  /\ invalid >= TeleTimeout + LongTimeout + 2 => baseCmd.v = 0

InvalidInv == KillInv /\ TeleAges /\ InvalidIsSlow /\ InvalidEnds

LEMMA InvalidInit ==
  ASSUME Steady, FollowerInit
  PROVE  InvalidInv
<1>1. KillInv
  BY KillInit
<1>2. tele = None /\ accOut = None /\ longV = None /\ latOut = None /\ baseCmd.v = 0
  BY DEF FollowerInit, AccInit, LatInit, BaseInit, BaseStopped
<1>3. QED
  BY <1>1, <1>2 DEF InvalidInv, TeleAges, InvalidIsSlow, InvalidEnds, SpeedlessOut

\* Capped counters grow by one at most.
LEMMA CountersGrow ==
  ASSUME FollowerTypeOK, Tick
  PROVE  /\ invalid \in Nat /\ invalid' \in Nat /\ invalid' <= invalid + 1
         /\ silence \in Nat /\ silence' \in Nat /\ silence' <= silence + 1
         /\ invalid' = Least(invalid + 1, InvalidCap)
BY DEF FollowerTypeOK, Tick, Least

LEMMA TeleAgesStep ==
  ASSUME FollowerTypeOK, TeleAges, [FollowerNext]_followerVars
  PROVE  TeleAges'
<1> USE DEF TeleAges
<1>1. ASSUME UNCHANGED <<tele, teleAge, invalid>>
      PROVE  TeleAges'
  BY <1>1
<1>2. CASE \/ \E i \in Stamped : Input(i)
           \/ \E v \in OwnSpeeds : SelfOdom(v)
           \/ \E points \in PathPoints : LeaderPath(points)
           \/ Pose \/ TeleTimer \/ \E b \in BOOLEAN : OperatorStart(b)
           \/ \E n \in Crashable : Crash(n)
  BY <1>1, <1>2 DEF Input, SelfOdom, LeaderPath, Pose, TeleTimer, OperatorStart, SetStart,
     Crash, accVars, accInputs, counters
<1>3. CASE \/ AccTimer \/ LatTimer \/ DeliverPath \/ DeliverLongCmd \/ DeliverCurve
           \/ DeliverLaneCommand \/ UNCHANGED followerVars
  BY <1>1, <1>3 DEF AccTimer, AccControlStep, LatTimer, DeliverPath, DeliverLongCmd, AccTaken,
     DeliverCurve, VCurveCb, DeliverLaneCommand, followerVars, accVars, accInputs, counters
<1>4. CASE DeliverTelemetry
  <2>1. tele' = teleOut /\ teleAge' = 0 /\ invalid' = IF teleOut.is_valid THEN 0 ELSE invalid
    BY <1>4 DEF DeliverTelemetry, TelemetryCb
  <2>2. QED
    BY <2>1 DEF Least
<1>5. CASE Tick
  <2>1. UNCHANGED tele /\ teleAge' = Older(teleAge, TeleTimeout)
    BY <1>5 DEF Tick, AccElapse
  <2>2. invalid \in Nat /\ invalid' \in Nat /\ invalid' <= invalid + 1
    BY <1>5, CountersGrow
  <2>3. tele # None => teleAge \in 0..(TeleTimeout + 1)
    BY DEF FollowerTypeOK, AccTypeOK, Ages
  <2>4. QED
    BY <2>1, <2>2, <2>3 DEF Older, Least
<1>6. QED
  BY <1>2, <1>3, <1>4, <1>5 DEF FollowerNext, Deliver

LEMMA InvalidIsSlowStep ==
  ASSUME InvalidInv, [FollowerNext]_followerVars
  PROVE  InvalidIsSlow'
<1> USE DEF InvalidInv, InvalidIsSlow
<1>1. ASSUME invalid' = invalid \/ invalid' = 0, UNCHANGED <<accOut, longV, longAge>>
      PROVE  InvalidIsSlow'
  BY <1>1
<1>2. CASE \/ \E i \in Stamped : Input(i)
           \/ \E v \in OwnSpeeds : SelfOdom(v)
           \/ \E points \in PathPoints : LeaderPath(points)
           \/ Pose \/ TeleTimer \/ \E b \in BOOLEAN : OperatorStart(b)
           \/ \E n \in Crashable : Crash(n)
  BY <1>1, <1>2 DEF Input, SelfOdom, LeaderPath, Pose, PoseCb, TeleTimer, OperatorStart,
     SetStart, Crash, accVars, latVars, latInputs, counters
<1>3. CASE \/ LatTimer \/ DeliverTelemetry \/ DeliverPath \/ DeliverCurve
           \/ DeliverLaneCommand \/ UNCHANGED followerVars
  BY <1>1, <1>3 DEF LatTimer, LatControlStep, DeliverTelemetry, TelemetryCb, DeliverPath,
     PathCb, DeliverCurve, VCurveCb, CurveTaken, DeliverLaneCommand, LatTaken, followerVars,
     accVars, latVars, latInputs, counters
<1>4. CASE AccTimer
  <2>1. UNCHANGED <<invalid, longV, longAge>>
    BY <1>4 DEF AccTimer, latVars, latInputs, counters
  <2>2. ASSUME invalid >= TeleTimeout + 1
        PROVE  accOut' \in {None, 0}
    <3>1. tele # None /\ tele.is_valid => ~Fresh(teleAge, TeleTimeout)
      BY <2>2 DEF TeleAges, KillInv, FollowerTypeOK, Fresh, Least
    <3>2. QED
      BY <1>4, <3>1 DEF AccTimer, AccControlStep, Silent, StopOnBadTelemetry, Follow
  <2>3. QED
    BY <2>1, <2>2
<1>5. CASE DeliverLongCmd
  <2>1. longV' = accOut /\ accOut # None /\ accOut' = None /\ UNCHANGED invalid
    BY <1>5 DEF DeliverLongCmd, LongCmdCb, AccTaken, counters
  <2>2. QED
    BY <2>1
<1>6. CASE Tick
  <2>1. accOut' = None
    BY <1>6 DEF Tick, Delivered, KillInv, OneVoice, AccElapse
  <2>2. invalid \in Nat /\ invalid' \in Nat /\ invalid' <= invalid + 1
    BY <1>6, CountersGrow DEF KillInv
  <2>3. ASSUME invalid' >= TeleTimeout + 1, longV' \notin {None, 0}
        PROVE  longAge' >= Least(invalid' - TeleTimeout, LongTimeout + 1)
    <3>1. longV \notin {None, 0} /\ longAge' = Older(longAge, LongTimeout)
      BY <1>6, <2>3 DEF Tick, LatElapse
    <3>2. longAge \in Ages(LongTimeout) /\ longAge # None
      BY <3>1 DEF KillInv, FollowerTypeOK, LatTypeOK
    <3>3. invalid >= TeleTimeout + 1 =>
            longAge >= Least(invalid - TeleTimeout, LongTimeout + 1)
      BY <3>1
    <3>4. QED
      BY <2>2, <2>3, <3>1, <3>2, <3>3, AgeKeepsUp
  <2>4. QED
    BY <2>1, <2>3
<1>7. QED
  BY <1>2, <1>3, <1>4, <1>5, <1>6 DEF FollowerNext, Deliver

LEMMA InvalidEndsStep ==
  ASSUME InvalidInv, [FollowerNext]_followerVars
  PROVE  InvalidEnds'
<1> USE DEF InvalidInv, InvalidEnds, SpeedlessOut
<1>1. ASSUME invalid' = invalid \/ invalid' = 0, UNCHANGED <<latOut, baseCmd>>,
             "lat" \in fired' => "lat" \in fired
      PROVE  InvalidEnds'
  BY <1>1
<1>2. CASE \/ \E i \in Stamped : Input(i)
           \/ \E v \in OwnSpeeds : SelfOdom(v)
           \/ \E points \in PathPoints : LeaderPath(points)
           \/ Pose \/ \E b \in BOOLEAN : OperatorStart(b)
           \/ TeleTimer \/ AccTimer \/ \E n \in Crashable : Crash(n)
  BY <1>1, <1>2 DEF Input, SelfOdom, LeaderPath, Pose, PoseCb, OperatorStart, TeleTimer,
     AccTimer, Crash, latVars, baseVars, counters
<1>3. CASE \/ DeliverTelemetry \/ DeliverPath \/ DeliverLongCmd \/ DeliverCurve
           \/ UNCHANGED followerVars
  BY <1>1, <1>3 DEF DeliverTelemetry, DeliverPath, PathCb, DeliverLongCmd, LongCmdCb,
     DeliverCurve, CurveTaken, followerVars, latVars, baseVars, counters
<1>4. CASE LatTimer
  <2>1. UNCHANGED <<invalid, baseCmd>>
    BY <1>4 DEF LatTimer, baseVars
  <2>2. NotReady => latOut' = None /\ baseCmd.v = 0
    BY <1>4, NotReadyIdles DEF LatTimer, KillInv, OneVoice, BaseStopped
  <2>3. ASSUME invalid >= TeleTimeout + LongTimeout + 1, ~NotReady
        PROVE  latOut' # None /\ latOut'.v = 0
    <3>1. invalid \in Nat /\ longV # None
      BY <2>3 DEF KillInv, FollowerTypeOK, NotReady
    <3>2. ASSUME Fresh(longAge, LongTimeout)
          PROVE  longV = 0
      <4>1. Least(invalid - TeleTimeout, LongTimeout + 1) = LongTimeout + 1
        BY <2>3, <3>1 DEF Least
      <4>2. invalid >= TeleTimeout + 1
        BY <2>3, <3>1
      <4>3. longV \notin {None, 0} => longAge >= LongTimeout + 1
        BY <4>1, <4>2 DEF InvalidIsSlow
      <4>4. QED
        BY <3>1, <3>2, <4>3 DEF Fresh
    <3>3. CASE StopOnStaleLong
      BY <3>3, StopIsACommand DEF StopOnStaleLong, StopTwist
    <3>4. CASE KeepLane
      <4>1. latOut' = [v |-> 0, w |-> wCmd']
        BY <3>2, <3>4 DEF KeepLane
      <4>2. wCmd' \in Int
        BY <3>4, KeepLaneType DEF KillInv, FollowerTypeOK
      <4>3. QED
        BY <4>1, <4>2
    <3>5. QED
      BY <1>4, <2>3, <3>3, <3>4 DEF LatTimer, LatControlStep, LatIdle
  <2>4. QED
    BY <2>1, <2>2, <2>3
<1>5. CASE DeliverLaneCommand
  <2>1. UNCHANGED <<invalid, fired>> /\ latOut' = None /\ baseCmd' = latOut /\ latOut # None
    BY <1>5 DEF DeliverLaneCommand, VelocityCommand, LatTaken, counters, KillInv, OneVoice
  <2>2. QED
    BY <2>1 DEF KillInv, FollowerTypeOK
<1>6. CASE Tick
  <2>1. latOut = None /\ latOut' = None /\ "lat" \in fired /\ fired' = {} /\ baseCmd' = baseCmd
    BY <1>6 DEF Tick, Delivered, LatElapse, KillInv, OneVoice, baseVars
  <2>2. invalid \in Nat /\ invalid' \in Nat /\ invalid' <= invalid + 1
    BY <1>6, CountersGrow DEF KillInv
  <2>3. invalid >= TeleTimeout + LongTimeout + 1 => baseCmd.v = 0
    BY <2>1, <2>2
  <2>4. QED
    BY <2>1, <2>2, <2>3
<1>7. QED
  BY <1>2, <1>3, <1>4, <1>5, <1>6 DEF FollowerNext, Deliver

LEMMA InvalidInvariant ==
  ASSUME Steady
  PROVE  FollowerSpec => []InvalidInv
<1>1. FollowerInit => InvalidInv
  BY InvalidInit
<1>2. InvalidInv /\ [FollowerNext]_followerVars => InvalidInv'
  BY KillStep, TeleAgesStep, InvalidIsSlowStep, InvalidEndsStep DEF InvalidInv, KillInv
<1>3. QED
  BY <1>1, <1>2, PTL DEF FollowerSpec

\* Telemetry that is missing or invalid brings the robot's speed to zero within
\* the two timeouts on the way and one period, and keeps it there, whatever the
\* operator does and whichever of the two other nodes crashes when.
THEOREM InvalidTelemetryStops ==
  ASSUME Steady
  PROVE  FollowerSpec => []InvalidStops
<1>1. InvalidInv => InvalidStops
  BY DEF InvalidInv, InvalidEnds, InvalidStops, KillInv, FollowerTypeOK
<1>2. QED
  BY <1>1, InvalidInvariant, PTL

----------------------------------------------------------------------------
(* One input that stays away makes the Telemetry invalid or missing.       *)

\* The stamp of the input that is watched is as old as its silence.
StampAges ==
  stampAge[Watched] # None => stampAge[Watched] >= Least(silence, InputTimeout + 1)

\* From its timeout on, no valid message is on its way, and none arrived since.
SilentIsInvalid ==
  silence >= InputTimeout + 1 =>
    /\ "acc" \in up /\ teleOut # None => ~teleOut.is_valid
    /\ invalid >= Least(silence - InputTimeout, InvalidCap)

StampInv == FollowerTypeOK /\ StampAges /\ SilentIsInvalid

\* A counter that kept up with another from its limit on still does a period
\* later.
LEMMA CountKeepsUp ==
  ASSUME NEW from \in Nat, NEW cap \in Nat, NEW n \in Nat, NEW n1 \in Nat, NEW m \in Nat,
         n1 <= n + 1, n1 >= from + 1, n >= from + 1 => m >= Least(n - from, cap)
  PROVE  Least(m + 1, cap) >= Least(n1 - from, cap)
BY DEF Least

LEMMA StampInit == FollowerInit => StampInv
<1> SUFFICES ASSUME FollowerInit
             PROVE  StampInv
  OBVIOUS
<1>1. stampAge[Watched] = None /\ teleOut = None /\ invalid = InvalidCap /\ silence = SilenceCap
  BY DEF FollowerInit, TeleInit
<1>2. QED
  BY <1>1, FollowerTypeInit DEF StampInv, StampAges, SilentIsInvalid, Least

LEMMA StampAgesStep ==
  ASSUME StampInv, [FollowerNext]_followerVars
  PROVE  StampAges'
<1> USE DEF StampInv, StampAges
<1>1. ASSUME UNCHANGED <<stampAge, silence>>
      PROVE  StampAges'
  BY <1>1
<1>2. stampAge \in [Stamped -> Ages(InputTimeout)] /\ Watched \in Stamped /\ silence \in Nat
  BY DEF FollowerTypeOK, TeleTypeOK
<1>3. ASSUME NEW i \in Stamped, Input(i)
      PROVE  StampAges'
  <2>1. /\ stampAge' = [stampAge EXCEPT ![i] = 0]
        /\ silence' = IF i = Watched THEN 0 ELSE silence
    BY <1>3 DEF Input, InputCb
  <2>2. QED
    BY <1>2, <2>1 DEF Least
<1>4. ASSUME NEW points \in PathPoints, LeaderPath(points)
      PROVE  StampAges'
  <2>1. /\ stampAge' = [stampAge EXCEPT !["path"] = 0]
        /\ silence' = IF Watched = "path" THEN 0 ELSE silence
    BY <1>4 DEF LeaderPath, LeaderPathCb
  <2>2. QED
    BY <1>2, <2>1 DEF Least
<1>5. CASE \/ \E v \in OwnSpeeds : SelfOdom(v)
           \/ Pose \/ TeleTimer \/ AccTimer \/ LatTimer \/ \E b \in BOOLEAN : OperatorStart(b)
           \/ \E n \in Crashable : Crash(n)
  BY <1>1, <1>5 DEF SelfOdom, SelfOdomCb, Pose, TeleTimer, TelemetryStep, AccTimer, LatTimer,
     OperatorStart, Crash, teleVars, counters
<1>6. CASE Deliver \/ UNCHANGED followerVars
  BY <1>1, <1>6 DEF Deliver, DeliverTelemetry, TeleTaken, DeliverPath, PathTaken,
     DeliverLongCmd, DeliverCurve, DeliverLaneCommand, followerVars, teleVars, counters
<1>7. CASE Tick
  <2>1. stampAge'[Watched] = Older(stampAge[Watched], InputTimeout)
    BY <1>2, <1>7 DEF Tick, TeleElapse
  <2>2. silence' \in Nat /\ silence' <= silence + 1
    BY <1>7, CountersGrow
  <2>3. stampAge[Watched] \in Ages(InputTimeout)
    BY <1>2
  <2>4. QED
    BY <1>2, <2>1, <2>2, <2>3 DEF Older, Ages, Least
<1>8. QED
  BY <1>3, <1>4, <1>5, <1>6, <1>7 DEF FollowerNext

LEMMA SilentIsInvalidStep ==
  ASSUME StampInv, [FollowerNext]_followerVars
  PROVE  SilentIsInvalid'
<1> USE DEF StampInv, SilentIsInvalid
<1>1. ASSUME silence' = silence \/ silence' = 0, UNCHANGED <<teleOut, invalid>>, up' \subseteq up
      PROVE  SilentIsInvalid'
  BY <1>1
<1>2. CASE \/ \E i \in Stamped : Input(i)
           \/ \E v \in OwnSpeeds : SelfOdom(v)
           \/ \E points \in PathPoints : LeaderPath(points)
           \/ Pose \/ AccTimer \/ LatTimer \/ \E b \in BOOLEAN : OperatorStart(b)
           \/ \E n \in Crashable : Crash(n)
  BY <1>1, <1>2 DEF Input, InputCb, SelfOdom, SelfOdomCb, LeaderPath, LeaderPathCb, Pose,
     AccTimer, LatTimer, OperatorStart, Crash, teleVars, counters
<1>3. CASE DeliverPath \/ DeliverLongCmd \/ DeliverCurve \/ DeliverLaneCommand
           \/ UNCHANGED followerVars
  BY <1>1, <1>3 DEF DeliverPath, PathTaken, DeliverLongCmd, DeliverCurve, DeliverLaneCommand,
     followerVars, teleVars, counters
<1>4. CASE TeleTimer
  <2>1. UNCHANGED <<silence, invalid, up>>
    BY <1>4 DEF TeleTimer, counters
  <2>2. ASSUME silence >= InputTimeout + 1
        PROVE  ~teleOut'.is_valid
    <3>1. ~Fresh(stampAge[Watched], InputTimeout)
      BY <2>2 DEF StampAges, FollowerTypeOK, Fresh, Least
    <3>2. ~HaveInputs
      BY <3>1 DEF HaveInputs
    <3>3. QED
      BY <1>4, <3>2 DEF TeleTimer, TelemetryStep
  <2>3. QED
    BY <2>1, <2>2
<1>5. CASE DeliverTelemetry
  <2>1. /\ UNCHANGED <<silence, up>> /\ teleOut' = None /\ teleOut # None /\ "acc" \in up
        /\ invalid' = IF teleOut.is_valid THEN 0 ELSE invalid
    BY <1>5 DEF DeliverTelemetry, TeleTaken
  <2>2. QED
    BY <2>1
<1>6. CASE Tick
  <2>1. UNCHANGED <<teleOut, up>> /\ ("acc" \in up => teleOut = None)
    BY <1>6 DEF Tick, Delivered, TeleElapse
  <2>2. /\ invalid \in Nat /\ silence \in Nat /\ silence' \in Nat /\ silence' <= silence + 1
        /\ invalid' = Least(invalid + 1, InvalidCap)
    BY <1>6, CountersGrow
  <2>3. ASSUME silence' >= InputTimeout + 1
        PROVE  invalid' >= Least(silence' - InputTimeout, InvalidCap)
    <3>1. silence >= InputTimeout + 1 => invalid >= Least(silence - InputTimeout, InvalidCap)
      OBVIOUS
    <3>2. QED
      BY <2>2, <2>3, <3>1, CountKeepsUp
  <2>4. QED
    BY <2>1, <2>3
<1>7. QED
  BY <1>2, <1>3, <1>4, <1>5, <1>6 DEF FollowerNext, Deliver

\* When one of the stamped inputs stays away, the robot's speed along the lane
\* goes to zero within the three timeouts on the way and a period, for every
\* timeout, and although each node may crash just before it would notice.
THEOREM InputSilenceStops ==
  ASSUME Steady, InvalidCap >= TeleTimeout + LongTimeout + 2
  PROVE  FollowerSpec => []SilenceStops
<1>1. FollowerInit => StampInv
  BY StampInit
<1>2. StampInv /\ [FollowerNext]_followerVars => StampInv'
  BY FollowerTypeStep, StampAgesStep, SilentIsInvalidStep DEF StampInv
<1>3. StampInv /\ InvalidInv => SilenceStops
  <2> SUFFICES ASSUME StampInv, InvalidInv,
                      silence > InputTimeout + TeleTimeout + LongTimeout + 1
               PROVE  baseCmd.v = 0
    BY DEF SilenceStops
  <2>1. silence \in Nat /\ invalid \in Nat
    BY DEF StampInv, FollowerTypeOK
  <2>2. invalid >= Least(silence - InputTimeout, InvalidCap)
    BY <2>1 DEF StampInv, SilentIsInvalid
  <2>3. invalid >= TeleTimeout + LongTimeout + 2
    BY <2>1, <2>2 DEF Least
  <2>4. QED
    BY <2>3 DEF InvalidInv, InvalidEnds
<1>4. QED
  BY <1>1, <1>2, <1>3, InvalidInvariant, PTL DEF FollowerSpec

----------------------------------------------------------------------------
(***************************************************************************)
(* The limit of a curve.  It travels against the commands, so that it      *)
(* takes a period to reach the cruise control, one more to bound what is   *)
(* commanded, and as long as a command stays fresh to bound what is        *)
(* driven, should the cruise control die in between.                       *)
(***************************************************************************)

Capped(v) == \E c \in Curves : v <= c

\* The period that the lane-keeping node drives in is not at its end.
Begun == IF "lat" \in fired THEN 1 ELSE 0

\* Periods that it has driven to their end are enough.
Driven(n) == laneTicks >= n + Begun

\* A cruise control that runs holds a limit of this or the last period.
LimitKnown ==
  "acc" \in up =>
    /\ Driven(1) => vCurveAge \in {0, 1}
    /\ "lat" \in fired /\ laneTicks >= 1 => curveOut # None \/ vCurveAge = 0

\* What it commands is below the limit, and what it commanded before ages.
SlowSoon ==
  Driven(1) =>
    /\ accOut # None => Capped(accOut)
    /\ longV # None
    /\ Capped(longV) \/ longAge >= LongTimeout + 1 \/ longAge + Begun >= laneTicks

\* Once that is stale, what is driven is below the limit.
SlowAtLast ==
  /\ Driven(LongTimeout + 1) /\ "lat" \in fired =>
       IF latOut # None THEN Capped(latOut.v) ELSE Capped(baseCmd.v)
  /\ Driven(LongTimeout + 2) => Capped(baseCmd.v)

CurveInv == KillInv /\ LimitKnown /\ SlowSoon /\ SlowAtLast

\* A limit that is fresh bounds the command; so does every limit a stop.
LEMMA CommandCapped ==
  ASSUME CurveSlowdown = TRUE, CurveTimeout >= 1, VCmdMin = 0,
         AccTypeOK, vCurveAge \in {0, 1}, AccControlStep, accOut' # None
  PROVE  Capped(accOut')
<1>1. vCurve \in Curves /\ Fresh(vCurveAge, CurveTimeout)
  BY DEF AccTypeOK, Fresh
<1>2. CASE StopOnBadTelemetry
  <2>1. 0 <= vCurve /\ accOut' = 0
    BY <1>1, <1>2 DEF StopOnBadTelemetry
  <2>2. QED
    BY <1>1, <2>1 DEF Capped
<1>3. CASE Follow
  <2>1. PICK a \in AMin..AMax : accOut' = CapToCurve(Clip(Seed + a, VCmdMin, VCmdMax))
    BY <1>3 DEF Follow, AccelByMpc
  <2> DEFINE v == Clip(Seed + a, VCmdMin, VCmdMax)
  <2>2. v \in Int
    <3>1. Seed \in Commands \cup TeleSpeeds
      BY SeedType
    <3>2. Seed + a \in Int /\ VCmdMin <= VCmdMax
      BY <3>1 DEF Commands
    <3>3. v \in VCmdMin..VCmdMax
      BY <3>2, ClipRange
    <3>4. QED
      BY <3>3
  <2> HIDE DEF v
  <2>3. CapToCurve(v) <= vCurve
    BY <1>1, <2>2 DEF CapToCurve, Least
  <2>4. accOut' <= vCurve
    BY <2>1, <2>3 DEF v
  <2>5. QED
    BY <1>1, <2>4 DEF Capped
<1>4. QED
  BY <1>2, <1>3 DEF AccControlStep, Silent

LEMMA CurveInit ==
  ASSUME Steady, FollowerInit
  PROVE  CurveInv
<1>1. KillInv
  BY KillInit
<1>2. laneTicks = 0 /\ fired = {}
  BY DEF FollowerInit
<1>3. \A n \in Nat \ {0} : ~Driven(n)
  BY <1>2 DEF Driven, Begun
<1>4. ~Driven(1) /\ ~Driven(LongTimeout + 1) /\ ~Driven(LongTimeout + 2)
  BY <1>3
<1>5. QED
  BY <1>1, <1>2, <1>4 DEF CurveInv, LimitKnown, SlowSoon, SlowAtLast

\* The timer of the lane-keeping node begins a period and ends none.
LEMMA TimerDriven ==
  ASSUME FollowerTypeOK, LatTimer
  PROVE  /\ "lat" \notin fired /\ "lat" \in fired'
         /\ laneTicks \in Nat /\ laneTicks' \in Nat /\ laneTicks' <= laneTicks + 1
         /\ \A n \in Nat : Driven(n)' => Driven(n)
<1>1. "lat" \notin fired /\ "lat" \in fired'
  BY DEF LatTimer
<1>2. laneTicks \in 0..LaneSettled
  BY DEF FollowerTypeOK
<1>3. laneTicks' \in {0, Least(laneTicks + 1, LaneSettled)}
  BY DEF LatTimer
<1>4. laneTicks' \in Nat /\ laneTicks' <= laneTicks + 1
  BY <1>2, <1>3 DEF Least, LaneSettled
<1>5. ASSUME NEW n \in Nat, laneTicks' >= n + 1
      PROVE  laneTicks >= n
  BY <1>2, <1>4, <1>5
<1>6. QED
  BY <1>1, <1>2, <1>4, <1>5 DEF Driven, Begun

LEMMA LimitKnownStep ==
  ASSUME Steady, CurveTimeout >= 1, CurveInv, [FollowerNext]_followerVars
  PROVE  LimitKnown'
<1> USE DEF CurveInv, LimitKnown
<1>1. ASSUME UNCHANGED <<laneTicks, vCurveAge, curveOut>>, up' \subseteq up,
             "lat" \in fired' <=> "lat" \in fired
      PROVE  LimitKnown'
  BY <1>1 DEF Driven, Begun
<1>2. CASE \/ \E i \in Stamped : Input(i)
           \/ \E v \in OwnSpeeds : SelfOdom(v)
           \/ \E points \in PathPoints : LeaderPath(points)
           \/ Pose \/ \E b \in BOOLEAN : OperatorStart(b)
           \/ TeleTimer \/ AccTimer
  BY <1>1, <1>2 DEF Input, SelfOdom, LeaderPath, Pose, PoseCb, OperatorStart, SetStart,
     TeleTimer, AccTimer, AccControlStep, accVars, accInputs, latVars, counters
<1>3. CASE \/ DeliverTelemetry \/ DeliverPath \/ DeliverLongCmd \/ DeliverLaneCommand
           \/ UNCHANGED followerVars
  BY <1>1, <1>3 DEF DeliverTelemetry, TelemetryCb, DeliverPath, PathCb, DeliverLongCmd,
     LongCmdCb, AccTaken, DeliverLaneCommand, LatTaken, followerVars, accVars, accInputs,
     latVars, counters
<1>4. ASSUME NEW n \in Crashable, Crash(n)
      PROVE  LimitKnown'
  <2>1. n # "lat"
    BY DEF Steady
  <2>2. QED
    BY <1>1, <1>4, <2>1 DEF Crash, accVars, accInputs, latVars, counters
<1>5. CASE LatTimer
  <2>1. UNCHANGED <<vCurveAge, up>>
    BY <1>5 DEF LatTimer, accVars, accInputs
  <2>2. "lat" \notin fired /\ "lat" \in fired' /\ laneTicks' \in Nat
    BY <1>5, TimerDriven DEF KillInv
  <2>3. laneTicks' >= 1 => curveOut' # None
    <3>1. KeepLane \/ ~wasFresh'
      BY <1>5 DEF LatTimer, LatControlStep, StopOnStaleLong, LatIdle, KillInv, OneVoice
    <3>2. laneTicks' # 0 => wasFresh'
      BY <1>5 DEF LatTimer
    <3>3. KeepLane => curveOut' # None
      BY DEF KeepLane
    <3>4. laneTicks' # 0 => curveOut' # None
      BY <3>1, <3>2, <3>3
    <3>5. QED
      BY <3>4
  <2>4. Driven(1)' => Driven(1)
    BY <1>5, TimerDriven DEF KillInv
  <2>5. QED
    BY <2>1, <2>2, <2>3, <2>4
<1>6. CASE DeliverCurve
  BY <1>6 DEF DeliverCurve, VCurveCb
<1>7. CASE Tick
  <2>1. /\ "lat" \in fired /\ fired' = {} /\ UNCHANGED <<laneTicks, curveOut, up>>
        /\ vCurveAge' = Older(vCurveAge, CurveTimeout)
        /\ "acc" \in up => curveOut = None
    BY <1>7 DEF Tick, Delivered, AccElapse, LatElapse, KillInv, OneVoice
  <2>2. Driven(1)' => laneTicks >= 1
    BY <2>1 DEF Driven, Begun
  <2>3. QED
    BY <2>1, <2>2 DEF Older
<1>8. QED
  BY <1>2, <1>3, <1>4, <1>5, <1>6, <1>7 DEF FollowerNext, Deliver

LEMMA SlowSoonStep ==
  ASSUME Steady, CurveSlowdown = TRUE, CurveTimeout >= 1, VCmdMin = 0,
         CurveInv, [FollowerNext]_followerVars
  PROVE  SlowSoon'
<1> USE DEF CurveInv, SlowSoon
<1>0. laneTicks \in Nat
  BY DEF KillInv, FollowerTypeOK, LaneSettled
<1>1. ASSUME UNCHANGED <<laneTicks, accOut, longV, longAge>>,
             "lat" \in fired' <=> "lat" \in fired
      PROVE  SlowSoon'
  BY <1>1 DEF Driven, Begun, Capped
<1>2. CASE \/ \E i \in Stamped : Input(i)
           \/ \E v \in OwnSpeeds : SelfOdom(v)
           \/ \E points \in PathPoints : LeaderPath(points)
           \/ Pose \/ \E b \in BOOLEAN : OperatorStart(b)
           \/ TeleTimer
  BY <1>1, <1>2 DEF Input, SelfOdom, LeaderPath, Pose, PoseCb, OperatorStart, SetStart,
     TeleTimer, accVars, latVars, latInputs, counters
<1>3. CASE \/ DeliverTelemetry \/ DeliverPath \/ DeliverCurve \/ DeliverLaneCommand
           \/ UNCHANGED followerVars
  BY <1>1, <1>3 DEF DeliverTelemetry, TelemetryCb, DeliverPath, PathCb, DeliverCurve,
     VCurveCb, CurveTaken, DeliverLaneCommand, LatTaken, followerVars, accVars, latVars,
     latInputs, counters
<1>4. ASSUME NEW n \in Crashable, Crash(n)
      PROVE  SlowSoon'
  <2>1. n # "lat"
    BY DEF Steady
  <2>2. QED
    BY <1>1, <1>4, <2>1 DEF Crash, accVars, latVars, latInputs, counters
<1>5. CASE AccTimer
  <2>1. /\ UNCHANGED <<laneTicks, longV, longAge>> /\ "acc" \in up
        /\ "lat" \in fired' <=> "lat" \in fired
    BY <1>5 DEF AccTimer, latVars, latInputs, counters
  <2>2. Driven(1)' = Driven(1) /\ Begun' = Begun
    BY <2>1 DEF Driven, Begun
  <2>3. ASSUME Driven(1), accOut' # None
        PROVE  Capped(accOut')
    BY <1>5, <2>1, <2>3, CommandCapped DEF AccTimer, LimitKnown, KillInv, FollowerTypeOK
  <2>4. Capped(longV)' = Capped(longV) /\ Capped(accOut)' = Capped(accOut')
    BY <2>1 DEF Capped
  <2>5. QED
    BY <2>1, <2>2, <2>3, <2>4
<1>6. CASE LatTimer
  <2>1. UNCHANGED <<accOut, longV, longAge>>
    BY <1>6 DEF LatTimer, LatControlStep, latInputs, accVars
  <2>2. /\ Begun = 0 /\ Begun' = 1 /\ laneTicks' \in Nat /\ laneTicks' <= laneTicks + 1
        /\ Driven(1)' => Driven(1)
    BY <1>6, TimerDriven DEF KillInv, Begun
  <2>3. Capped(accOut)' = Capped(accOut) /\ Capped(longV)' = Capped(longV)
    BY <2>1 DEF Capped
  <2>4. ASSUME longV # None, longAge + Begun >= laneTicks
        PROVE  longAge' + Begun' >= laneTicks'
    <3>1. longAge \in Nat
      BY <2>4 DEF KillInv, FollowerTypeOK, LatTypeOK, Ages
    <3>2. QED
      BY <1>0, <2>1, <2>2, <2>4, <3>1
  <2>5. QED
    BY <2>1, <2>2, <2>3, <2>4
<1>7. CASE DeliverLongCmd
  <2>1. /\ UNCHANGED <<laneTicks, fired>> /\ accOut' = None /\ accOut # None
        /\ longV' = accOut
    BY <1>7 DEF DeliverLongCmd, LongCmdCb, AccTaken, counters
  <2>2. Driven(1)' = Driven(1) /\ (Capped(accOut) => Capped(longV)')
    BY <2>1 DEF Driven, Begun, Capped
  <2>3. QED
    BY <2>1, <2>2
<1>8. CASE Tick
  <2>1. /\ "lat" \in fired /\ fired' = {} /\ UNCHANGED <<laneTicks, longV>>
        /\ accOut' = None /\ longAge' = Older(longAge, LongTimeout)
    BY <1>8 DEF Tick, Delivered, AccElapse, LatElapse, KillInv, OneVoice
  <2>2. Begun = 1 /\ Begun' = 0 /\ (Driven(1)' => laneTicks >= 1)
    BY <2>1 DEF Driven, Begun
  <2>3. Capped(longV)' = Capped(longV)
    BY <2>1 DEF Capped
  <2>4. laneTicks >= 1 => longV # None /\ longAge \in 0..(LongTimeout + 1)
    BY <1>0 DEF KillInv, OneVoice, NotReady, FollowerTypeOK, LatTypeOK, Ages
  <2>5. ASSUME laneTicks >= 1, ~Capped(longV)
        PROVE  longAge' >= LongTimeout + 1 \/ longAge' >= laneTicks
    <3>1. laneTicks = 1 \/ Driven(1)
      BY <1>0, <2>2, <2>5 DEF Driven
    <3>2. laneTicks = 1 \/ longAge >= LongTimeout + 1 \/ longAge + 1 >= laneTicks
      BY <2>2, <2>5, <3>1
    <3>3. longAge' = IF longAge <= LongTimeout THEN longAge + 1 ELSE longAge
      BY <2>1, <2>4, <2>5 DEF Older
    <3>4. longAge \in 0..(LongTimeout + 1)
      BY <2>4, <2>5
    <3>5. QED
      BY <1>0, <3>2, <3>3, <3>4
  <2>6. Driven(1)' /\ ~Capped(longV) => longAge' >= LongTimeout + 1 \/ longAge' + 0 >= laneTicks
    <3>1. laneTicks >= 1 => longAge' + 0 = longAge'
      BY <2>1, <2>4 DEF Older
    <3>2. QED
      BY <2>2, <2>5, <3>1
  <2>7. QED
    BY <2>1, <2>2, <2>3, <2>4, <2>6
<1>9. QED
  BY <1>2, <1>3, <1>4, <1>5, <1>6, <1>7, <1>8 DEF FollowerNext, Deliver

LEMMA SlowAtLastStep ==
  ASSUME Steady, VCmdMin = 0, CurveInv, [FollowerNext]_followerVars
  PROVE  SlowAtLast'
<1> USE DEF CurveInv, SlowAtLast
<1>0. laneTicks \in Nat
  BY DEF KillInv, FollowerTypeOK, LaneSettled
<1>1. ASSUME UNCHANGED <<laneTicks, latOut, baseCmd>>, "lat" \in fired' <=> "lat" \in fired
      PROVE  SlowAtLast'
  <2>1. \A n : Driven(n)' = Driven(n)
    BY <1>1 DEF Driven, Begun
  <2>2. QED
    BY <1>1, <2>1 DEF Capped
<1>2. CASE \/ \E i \in Stamped : Input(i)
           \/ \E v \in OwnSpeeds : SelfOdom(v)
           \/ \E points \in PathPoints : LeaderPath(points)
           \/ Pose \/ \E b \in BOOLEAN : OperatorStart(b)
           \/ TeleTimer \/ AccTimer
  BY <1>1, <1>2 DEF Input, SelfOdom, LeaderPath, Pose, PoseCb, OperatorStart, TeleTimer,
     AccTimer, latVars, baseVars, counters
<1>3. CASE \/ DeliverTelemetry \/ DeliverPath \/ DeliverLongCmd \/ DeliverCurve
           \/ UNCHANGED followerVars
  BY <1>1, <1>3 DEF DeliverTelemetry, DeliverPath, PathCb, DeliverLongCmd, LongCmdCb,
     DeliverCurve, CurveTaken, followerVars, latVars, baseVars, counters
<1>4. ASSUME NEW n \in Crashable, Crash(n)
      PROVE  SlowAtLast'
  <2>1. n # "lat"
    BY DEF Steady
  <2>2. QED
    BY <1>1, <1>4, <2>1 DEF Crash, latVars, baseVars, counters
<1>5. CASE LatTimer
  <2>1. UNCHANGED baseCmd
    BY <1>5 DEF LatTimer, baseVars
  <2>2. /\ "lat" \in fired' /\ \A n \in Nat : Driven(n)' => Driven(n)
        /\ Begun = 0 /\ Begun' = 1 /\ laneTicks' \in Nat
    BY <1>5, TimerDriven DEF KillInv, Begun
  <2>3. ASSUME Driven(LongTimeout + 1)'
        PROVE  latOut' # None /\ Capped(latOut'.v)
    <3>1. Driven(LongTimeout + 1) /\ wasFresh'
      <4>1. Driven(LongTimeout + 1)
        BY <2>2, <2>3
      <4>2. laneTicks' # 0
        BY <2>2, <2>3 DEF Driven
      <4>3. wasFresh'
        BY <1>5, <4>2 DEF LatTimer
      <4>4. QED
        BY <4>1, <4>3
    <3>2. KeepLane
      BY <1>5, <3>1 DEF LatTimer, LatControlStep, LatIdle, StopOnStaleLong, KillInv, OneVoice
    <3>3. longAge \in 0..LongTimeout
      BY <3>2 DEF KeepLane, Fresh
    <3>4. laneTicks >= LongTimeout + 1 /\ Driven(1)
      BY <1>0, <2>2, <3>1 DEF Driven
    <3>5. Capped(longV)
      BY <1>0, <2>2, <3>3, <3>4 DEF SlowSoon
    <3>6. latOut' = [v |-> longV, w |-> wCmd'] /\ longV \in Int /\ wCmd' \in Int
      BY <3>2, KeepLaneType DEF KillInv, FollowerTypeOK, LatTypeOK, KeepLane, NotReady
    <3>7. latOut'.v = longV /\ latOut' \in [v : Int, w : Int]
      BY <3>6
    <3>8. QED
      BY <3>5, <3>7
  <2>4. Capped(baseCmd.v)' = Capped(baseCmd.v) /\ Capped(latOut.v)' = Capped(latOut'.v)
    BY <2>1 DEF Capped
  <2>5. Driven(LongTimeout + 2)' => Driven(LongTimeout + 2)
    BY <2>2
  <2>6. QED
    BY <2>1, <2>2, <2>3, <2>4, <2>5
<1>6. CASE DeliverLaneCommand
  <2>1. /\ UNCHANGED <<laneTicks, fired>> /\ latOut # None /\ latOut' = None
        /\ baseCmd' = latOut
    BY <1>6 DEF DeliverLaneCommand, VelocityCommand, LatTaken, counters, KillInv, OneVoice
  <2>2. (\A n : Driven(n)' = Driven(n)) /\ "lat" \in fired
    BY <2>1 DEF Driven, Begun, KillInv, OneVoice
  <2>3. Capped(baseCmd.v)' = Capped(latOut.v)
    BY <2>1 DEF Capped
  <2>4. Driven(LongTimeout + 2) => Driven(LongTimeout + 1)
    BY <1>0 DEF Driven, Begun
  <2>5. QED
    BY <2>1, <2>2, <2>3, <2>4
<1>7. CASE Tick
  <2>1. /\ "lat" \in fired /\ fired' = {} /\ UNCHANGED <<laneTicks, baseCmd>>
        /\ latOut = None
    BY <1>7 DEF Tick, Delivered, KillInv, OneVoice, baseVars
  <2>2. Driven(LongTimeout + 2)' => Driven(LongTimeout + 1)
    BY <1>0, <2>1 DEF Driven, Begun
  <2>3. Capped(baseCmd.v)' = Capped(baseCmd.v)
    BY <2>1 DEF Capped
  <2>4. "lat" \notin fired'
    BY <2>1
  <2>5. QED
    BY <2>1, <2>2, <2>3, <2>4
<1>8. QED
  BY <1>2, <1>3, <1>4, <1>5, <1>6, <1>7 DEF FollowerNext, Deliver

\* The robot never drives faster than its limits, and not faster than the
\* curve once it has kept its lane for the timeout of long_cmd and three
\* periods: for every limit of curves and every timeout of it that lasts a
\* period, whenever the cruise control crashes.
THEOREM FollowerSpeedBounded ==
  ASSUME Steady, CurveTimeout >= 1, VCmdMin = 0
  PROVE  FollowerSpec => []SpeedBounded
<1>1. CASE CurveSlowdown = FALSE
  <2>1. FollowerTypeOK => SpeedBounded
    BY <1>1 DEF SpeedBounded, CurveCapped
  <2>2. QED
    BY <2>1, FollowerTypeCorrect, PTL
<1>2. CASE CurveSlowdown = TRUE
  <2>1. FollowerInit => CurveInv
    BY CurveInit
  <2>2. CurveInv /\ [FollowerNext]_followerVars => CurveInv'
    BY <1>2, KillStep, LimitKnownStep, SlowSoonStep, SlowAtLastStep DEF CurveInv
  <2>3. CurveInv => SpeedBounded
    <3>1. ASSUME CurveInv, laneTicks = LaneSettled
          PROVE  Capped(baseCmd.v)
      <4>1. Driven(LongTimeout + 2)
        BY <3>1 DEF Driven, Begun, LaneSettled
      <4>2. QED
        BY <3>1, <4>1 DEF CurveInv, SlowAtLast
    <3>2. QED
      BY <3>1 DEF SpeedBounded, CurveCapped, CurveInv, KillInv, Capped
  <2>4. QED
    BY <2>1, <2>2, <2>3, PTL DEF FollowerSpec
<1>3. QED
  BY <1>1, <1>2

=============================================================================
