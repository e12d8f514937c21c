------------------------- MODULE LeaderStack_proofs -------------------------
(***************************************************************************)
(* What the control stack of the leader guarantees for every timeout,      *)
(* every limit of speed, acceleration and turn rate, and every path.       *)
(***************************************************************************)
EXTENDS LeaderStack, LatNode_proofs

USE TypesAssumption, CcAssumption, LatAssumption, LeaderAssumption

-----------------------------------------------------------------------------
(* Types of the cruise control.                                            *)

LEMMA SeedType == CcTypeOK => Seed \in Commands \cup Speeds
BY DEF CcTypeOK, Seed, Commands

LEMMA EffectiveVRefType == CcTypeOK => EffectiveVRef \in VRefs \cup Curves
<1> SUFFICES ASSUME CcTypeOK
             PROVE  EffectiveVRef \in VRefs \cup Curves
  OBVIOUS
<1>1. vRef \in VRefs
  BY DEF CcTypeOK
<1>2. Fresh(vCurveAge, CurveTimeout) => vCurve \in Curves
  BY DEF CcTypeOK, Fresh
<1>3. Least(vRef, vCurve) \in {vRef, vCurve}
  BY LeastOf
<1>4. QED
  BY <1>1, <1>2, <1>3 DEF EffectiveVRef

LEMMA DriveType ==
  ASSUME CcTypeOK, Drive
  PROVE  vCmd' \in Commands
<1>1. Seed \in Int
  <2>1. Seed \in Commands \cup Speeds
    BY SeedType
  <2>2. QED
    BY <2>1 DEF Commands
<1>2. PICK a \in AMin..AMax : vCmd' = Clip(Seed + a, VCmdMin, VCmdMax)
  BY DEF Drive, AccelByMpc
<1>3. Seed + a \in Int
  BY <1>1
<1>4. VCmdMin <= VCmdMax
  OBVIOUS
<1>5. Clip(Seed + a, VCmdMin, VCmdMax) \in VCmdMin..VCmdMax
  BY <1>3, <1>4, ClipRange
<1>6. QED
  BY <1>2, <1>5 DEF Commands

LEMMA CcControlType ==
  ASSUME CcTypeOK, CcControlStep
  PROVE  CcTypeOK'
<1>1. wasStarted' = start /\ UNCHANGED <<start, vRef, vMeas, vMeasAge, vCurve, vCurveAge>>
  BY DEF CcControlStep
<1>2. 0 \in Commands
  BY DEF Commands
<1>3. /\ vCmd' \in Commands \cup Speeds
      /\ ccOut' \in Commands \cup {None}
      /\ tracked' \in VRefs \cup Curves \cup {None}
  <2>1. CASE NoOdomYet
    BY <2>1, SeedType DEF NoOdomYet, CcTypeOK
  <2>2. CASE Idle
    BY <2>2, SeedType, EffectiveVRefType DEF Idle
  <2>3. CASE StopOnStaleOdom
    BY <2>3, <1>2, EffectiveVRefType DEF StopOnStaleOdom
  <2>4. CASE Drive
    BY <2>4, DriveType, EffectiveVRefType DEF Drive
  <2>5. QED
    BY <2>1, <2>2, <2>3, <2>4 DEF CcControlStep
<1>4. QED
  BY <1>1, <1>3 DEF CcTypeOK

LEMMA CcElapseType ==
  ASSUME CcTypeOK, CcElapse
  PROVE  CcTypeOK'
BY OlderAge DEF CcElapse, CcTypeOK

-----------------------------------------------------------------------------
LEMMA LeaderTypeInit == LeaderInit => LeaderTypeOK
<1> SUFFICES ASSUME LeaderInit
             PROVE  LeaderTypeOK
  OBVIOUS
<1>1. CcTypeOK
  <2>1. 0 \in Commands
    BY DEF Commands
  <2>2. QED
    BY <2>1 DEF LeaderInit, CcInit, CcTypeOK, Ages
<1>2. LatTypeOK
  <2>1. 0 \in WMin..WMax
    OBVIOUS
  <2>2. QED
    BY <2>1 DEF LeaderInit, LatInit, LatTypeOK, Ages
<1>3. enabled \in BOOLEAN /\ baseCmd = StopTwist
  BY DEF LeaderInit, BaseInit, BaseStopped, StopTwist
<1>4. longV = None /\ latOut = None
  BY DEF LeaderInit, LatInit
<1>5. QED
  BY <1>1, <1>2, <1>3, <1>4 DEF LeaderInit, LeaderTypeOK, Ages

LEMMA LeaderTypeStep ==
  ASSUME LeaderTypeOK, [LeaderNext]_leaderVars
  PROVE  LeaderTypeOK'
<1> USE DEF LeaderTypeOK, counters
<1>1. ASSUME NEW v \in Speeds, Odometry(v)
      PROVE  LeaderTypeOK'
  <2>1. CcTypeOK'
    BY <1>1 DEF Odometry, OdomCb, CcTypeOK, Ages
  <2>2. QED
    BY <1>1, <2>1 DEF Odometry, latVars, latInputs, baseVars, LatTypeOK
<1>2. CASE Pose
  <2>1. CcTypeOK' /\ LatTypeOK'
    BY <1>2 DEF Pose, PoseCb, ccVars, CcTypeOK, LatTypeOK
  <2>2. QED
    BY <1>2, <2>1 DEF Pose, PoseCb, baseVars
<1>3. ASSUME NEW p \in Paths, LanePath(p)
      PROVE  LeaderTypeOK'
  <2>1. prevPathIdx' \in Nat \cup {None} /\ path' \in Paths
    BY <1>3 DEF LanePath, PathCb, IdxAfterPath, LatTypeOK
  <2>2. CcTypeOK' /\ LatTypeOK'
    BY <1>3, <2>1 DEF LanePath, PathCb, ccVars, CcTypeOK, LatTypeOK
  <2>3. QED
    BY <1>3, <2>2 DEF LanePath, PathCb, baseVars
<1>4. ASSUME NEW b \in BOOLEAN, OperatorStart(b)
      PROVE  LeaderTypeOK'
  <2>1. CcTypeOK' /\ LatTypeOK'
    BY <1>4 DEF OperatorStart, SetStart, latVars, latInputs, CcTypeOK, LatTypeOK
  <2>2. off' \in 0..OffCap
    BY <1>4 DEF OperatorStart
  <2>3. QED
    BY <1>4, <2>1, <2>2 DEF OperatorStart, latVars, latInputs, baseVars
<1>5. ASSUME NEW v \in VRefs, OperatorVRef(v)
      PROVE  LeaderTypeOK'
  <2>1. CcTypeOK' /\ LatTypeOK'
    BY <1>5 DEF OperatorVRef, SetVRef, latVars, latInputs, CcTypeOK, LatTypeOK
  <2>2. QED
    BY <1>5, <2>1 DEF OperatorVRef, latVars, latInputs, baseVars
<1>6. ASSUME NEW twist \in TeleopTwists, Teleop(twist)
      PROVE  LeaderTypeOK'
  BY <1>6 DEF Teleop, ccVars, latVars, latInputs, baseVars, CcTypeOK, LatTypeOK
<1>7. CASE MotorPower
  <2>1. enabled' \in BOOLEAN /\ baseCmd' \in Twists \cup {StopTwist}
    BY <1>7 DEF MotorPower, MotorPowerOn, MotorPowerOff, StopTwist
  <2>2. QED
    BY <1>7, <2>1 DEF MotorPower, ccVars, latVars, latInputs, CcTypeOK, LatTypeOK
<1>8. CASE CcTimer
  <2>1. CcTypeOK'
    BY <1>8, CcControlType DEF CcTimer
  <2>2. LatTypeOK'
    BY <1>8 DEF CcTimer, latVars, latInputs, LatTypeOK
  <2>3. QED
    BY <1>8, <2>1, <2>2 DEF CcTimer, latVars, latInputs, baseVars
<1>9. CASE LatTimer
  <2>1. LatTypeOK' /\ latOut' \in Twists \cup {None}
    <3>1. Commands \subseteq Int /\ 0 \in Commands
      BY DEF Commands
    <3>2. QED
      BY <1>9, <3>1, LatControlType DEF LatTimer, Twists
  <2>2. CcTypeOK'
    BY <1>9 DEF LatTimer, ccVars, CcTypeOK
  <2>3. UNCHANGED longV
    BY <1>9 DEF LatTimer, LatControlStep, latInputs
  <2>4. laneTicks' \in 0..2
    BY <1>9, CappedCount DEF LatTimer
  <2>5. QED
    BY <1>9, <2>1, <2>2, <2>3, <2>4 DEF LatTimer, baseVars
<1>10. CASE DeliverLongCmd
  <2>1. ccOut \in Commands /\ ccOut \in Int
    BY <1>10 DEF DeliverLongCmd, CcTypeOK, Commands
  <2>2. CcTypeOK'
    BY <1>10 DEF DeliverLongCmd, CcTaken, CcTypeOK
  <2>3. LatTypeOK' /\ longV' \in Commands /\ UNCHANGED latOut
    BY <1>10, <2>1 DEF DeliverLongCmd, LongCmdCb, LatTypeOK, Ages
  <2>4. QED
    BY <1>10, <2>2, <2>3 DEF DeliverLongCmd, baseVars
<1>11. CASE DeliverCurve
  <2>1. curveOut \in Curves
    BY <1>11 DEF DeliverCurve, LatTypeOK
  <2>2. CcTypeOK'
    BY <1>11, <2>1 DEF DeliverCurve, VCurveCb, CcTypeOK, Ages
  <2>3. LatTypeOK' /\ UNCHANGED <<longV, latOut>>
    BY <1>11 DEF DeliverCurve, CurveTaken, latInputs, LatTypeOK
  <2>4. QED
    BY <1>11, <2>2, <2>3 DEF DeliverCurve, baseVars
<1>12. ASSUME NEW twist \in Twists \cup {StopTwist, None}, Command(twist)
       PROVE  /\ enabled' \in BOOLEAN /\ baseCmd' \in Twists \cup {StopTwist}
              /\ cmdAge' \in Ages(CmdVelTimeout)
  BY <1>12 DEF Command, VelocityCommand, Ages
<1>13. CASE DeliverLaneCommand
  <2>1. CcTypeOK'
    BY <1>13 DEF DeliverLaneCommand, ccVars, CcTypeOK
  <2>2. LatTypeOK' /\ UNCHANGED longV /\ latOut' = None
    BY <1>13 DEF DeliverLaneCommand, LatTaken, latInputs, LatTypeOK
  <2>3. Command(latOut) /\ latOut \in Twists \cup {StopTwist, None}
    BY <1>13 DEF DeliverLaneCommand
  <2>4. QED
    BY <1>12, <1>13, <2>1, <2>2, <2>3 DEF DeliverLaneCommand, Command
<1>14. CASE DeliverCruiseCommand
  <2>1. CcTypeOK'
    BY <1>14 DEF DeliverCruiseCommand, CcTaken, CcTypeOK
  <2>2. LatTypeOK' /\ UNCHANGED <<longV, latOut>>
    BY <1>14 DEF DeliverCruiseCommand, latVars, latInputs, LatTypeOK
  <2>3. [v |-> ccOut, w |-> 0] \in Twists
    BY <1>14 DEF DeliverCruiseCommand, CcTypeOK, Twists
  <2>4. Command([v |-> ccOut, w |-> 0])
    BY <1>14 DEF DeliverCruiseCommand
  <2>5. QED
    BY <1>12, <1>14, <2>1, <2>2, <2>3, <2>4 DEF DeliverCruiseCommand, Command
<1>15. CASE DeliverTeleop
  <2>1. CcTypeOK' /\ LatTypeOK' /\ UNCHANGED <<longV, latOut>>
    BY <1>15 DEF DeliverTeleop, ccVars, latVars, latInputs, CcTypeOK, LatTypeOK
  <2>2. Command(teleopOut) /\ teleopOut \in Twists \cup {StopTwist, None}
    BY <1>15 DEF DeliverTeleop, Twists
  <2>3. QED
    BY <1>12, <1>15, <2>1, <2>2 DEF DeliverTeleop, Command
<1>16. ASSUME NEW n \in Crashable, Crash(n)
       PROVE  LeaderTypeOK'
  BY <1>16 DEF Crash, ccVars, latVars, latInputs, baseVars, CcTypeOK, LatTypeOK
<1>17. CASE Tick
  <2>1. CcTypeOK'
    BY <1>17, CcElapseType DEF Tick
  <2>2. LatTypeOK' /\ UNCHANGED <<longV, latOut>>
    BY <1>17, OlderAge DEF Tick, LatElapse, LatTypeOK
  <2>3. cmdAge' \in Ages(CmdVelTimeout)
    BY <1>17, OlderAge DEF Tick
  <2>4. /\ off' \in 0..OffCap
        /\ silence' \in 0..SilenceCap
        /\ pathSilence' \in 0..PathCap
    BY <1>17, CappedCount DEF Tick
  <2>5. QED
    BY <1>17, <2>1, <2>2, <2>3, <2>4 DEF Tick, baseVars
<1>18. CASE UNCHANGED leaderVars
  BY <1>18 DEF leaderVars, ccVars, latVars, latInputs, baseVars, CcTypeOK, LatTypeOK
<1>19. QED
  BY <1>1, <1>2, <1>3, <1>4, <1>5, <1>6, <1>7, <1>8, <1>9, <1>10, <1>11, <1>13, <1>14,
     <1>15, <1>16, <1>17, <1>18 DEF LeaderNext, Deliver

\* Every variable of the leader's stack keeps its type.  In particular what
\* the cruise control publishes, and what the base is told, stays within
\* v_cmd_limits and w_cmd_limits, although the integrator is seeded with a
\* measured speed that nothing limits.
THEOREM LeaderTypeCorrect == LeaderSpec => []LeaderTypeOK
BY LeaderTypeInit, LeaderTypeStep, PTL DEF LeaderSpec

-----------------------------------------------------------------------------
(* The kill-switch.  Where the lane-keeping node does not crash and nobody *)
(* uses the keyboard, every command passes a long_cmd whose age counts the *)
(* periods since the cruise control was last on.                           *)

Unattended == Lateral /\ Crashable \subseteq {"cc"} /\ TeleopTwists = {}

\* Only the lane-keeping node commands the base, and not before it is ready.
OneVoice ==
  /\ "lat" \in up
  /\ teleopOut = None
  /\ ~enabled => BaseStopped
  /\ NotReady => latOut = None /\ BaseStopped

\* A cruise control that is off is silent, and long_cmd ages with it.
LongCmdAges ==
  off >= 1 =>
    /\ ~start \/ "cc" \notin up
    /\ ccOut = None
    /\ longV # None => longAge >= Least(off, LongTimeout + 1)

\* In the last period of grace long_cmd is stale, and the answer to it has
\* reached the base before the period ends.
GraceEnds ==
  /\ off >= LongTimeout + 1 => latOut \in {None, StopTwist}
  /\ off = LongTimeout + 1 /\ "lat" \in fired => latOut = StopTwist \/ BaseStopped
  /\ off >= LongTimeout + 2 => BaseStopped

KillInv == LeaderTypeOK /\ OneVoice /\ LongCmdAges /\ GraceEnds

\* What a stop on its way does to the base, and a base that stands still to
\* commands that do not come.
LEMMA StopDelivered ==
  ASSUME OneVoice, latOut = StopTwist, Command(latOut)
  PROVE  BaseStopped'
BY DEF OneVoice, Command, VelocityCommand, BaseStopped, StopTwist

LEMMA KillInit ==
  ASSUME Unattended, LeaderInit
  PROVE  KillInv
<1>1. LeaderTypeOK
  BY LeaderTypeInit
<1>2. longV = None /\ latOut = None /\ BaseStopped /\ enabled = TRUE /\ teleopOut = None
  BY DEF LeaderInit, LatInit, BaseInit
<1>3. OneVoice
  BY <1>2 DEF OneVoice, LeaderInit, Unattended, Nodes
<1>4. LongCmdAges
  BY <1>2 DEF LongCmdAges, LeaderInit, CcInit
<1>5. GraceEnds
  BY <1>2 DEF GraceEnds
<1>6. QED
  BY <1>1, <1>3, <1>4, <1>5 DEF KillInv

LEMMA OneVoiceStep ==
  ASSUME Unattended, KillInv, [LeaderNext]_leaderVars
  PROVE  OneVoice'
<1> USE DEF KillInv, OneVoice
<1>1. ASSUME UNCHANGED <<up, teleopOut, enabled, baseCmd, latOut>>,
             NotReady' => NotReady
      PROVE  OneVoice'
  BY <1>1 DEF BaseStopped
<1>2. ASSUME NEW v \in Speeds, Odometry(v)
      PROVE  OneVoice'
  BY <1>1, <1>2 DEF Odometry, latVars, latInputs, baseVars, NotReady
<1>3. CASE Pose
  BY <1>1, <1>3 DEF Pose, PoseCb, baseVars, NotReady
<1>4. ASSUME NEW p \in Paths, LanePath(p)
      PROVE  OneVoice'
  BY <1>1, <1>4 DEF LanePath, PathCb, baseVars, NotReady
<1>5. ASSUME NEW b \in BOOLEAN, OperatorStart(b)
      PROVE  OneVoice'
  BY <1>1, <1>5 DEF OperatorStart, latVars, latInputs, baseVars, NotReady
<1>6. ASSUME NEW v \in VRefs, OperatorVRef(v)
      PROVE  OneVoice'
  BY <1>1, <1>6 DEF OperatorVRef, latVars, latInputs, baseVars, NotReady
<1>7. ASSUME NEW twist \in TeleopTwists
      PROVE  FALSE
  BY <1>7 DEF Unattended
<1>8. CASE MotorPower
  <2>1. ~enabled' \/ BaseStopped => BaseStopped'
    BY <1>8 DEF MotorPower, MotorPowerOn, MotorPowerOff, BaseStopped
  <2>2. NotReady' = NotReady /\ UNCHANGED <<up, teleopOut, latOut>>
    BY <1>8 DEF MotorPower, latVars, latInputs, NotReady
  <2>3. QED
    BY <2>1, <2>2
<1>9. CASE CcTimer
  BY <1>1, <1>9 DEF CcTimer, latVars, latInputs, baseVars, NotReady
<1>10. CASE LatTimer
  <2>1. NotReady' = NotReady /\ UNCHANGED <<up, teleopOut, enabled, baseCmd>>
    BY <1>10 DEF LatTimer, LatControlStep, latInputs, baseVars, NotReady
  <2>2. NotReady => latOut' = None
    BY <1>10 DEF LatTimer, LatControlStep, LatIdle, StopOnStaleLong, KeepLane
  <2>3. QED
    BY <2>1, <2>2 DEF BaseStopped
<1>11. CASE DeliverLongCmd
  BY <1>1, <1>11 DEF DeliverLongCmd, LongCmdCb, baseVars, NotReady
<1>12. CASE DeliverCurve
  BY <1>1, <1>12 DEF DeliverCurve, CurveTaken, latInputs, baseVars, NotReady
<1>13. CASE DeliverLaneCommand
  <2>1. ~NotReady'
    BY <1>13 DEF DeliverLaneCommand, LatTaken, latInputs, NotReady, Command
  <2>2. ~enabled' => BaseStopped'
    BY <1>13 DEF DeliverLaneCommand, Command, VelocityCommand, BaseStopped
  <2>3. UNCHANGED <<up, teleopOut>>
    BY <1>13 DEF DeliverLaneCommand, Command
  <2>4. QED
    BY <2>1, <2>2, <2>3
<1>14. CASE DeliverCruiseCommand
  BY <1>14 DEF DeliverCruiseCommand, Unattended
<1>15. CASE DeliverTeleop
  BY <1>15 DEF DeliverTeleop
<1>16. ASSUME NEW n \in Crashable, Crash(n)
       PROVE  OneVoice'
  <2>1. n = "cc"
    BY DEF Unattended
  <2>2. "lat" \in up'
    BY <1>16, <2>1 DEF Crash
  <2>3. QED
    BY <1>16, <2>2 DEF Crash, latVars, latInputs, baseVars, NotReady, BaseStopped
<1>17. CASE Tick
  BY <1>1, <1>17 DEF Tick, LatElapse, baseVars, NotReady
<1>18. CASE UNCHANGED leaderVars
  BY <1>1, <1>18 DEF leaderVars, latVars, latInputs, baseVars, NotReady
<1>19. QED
  BY <1>2, <1>3, <1>4, <1>5, <1>6, <1>7, <1>8, <1>9, <1>10, <1>11, <1>12, <1>13, <1>14,
     <1>15, <1>16, <1>17, <1>18 DEF LeaderNext, Deliver

LEMMA LongCmdAgesStep ==
  ASSUME Unattended, KillInv, [LeaderNext]_leaderVars
  PROVE  LongCmdAges'
<1> USE DEF KillInv, LongCmdAges, LeaderTypeOK
<1>1. ASSUME UNCHANGED <<off, start, ccOut, longV, longAge>>, up' \subseteq up
      PROVE  LongCmdAges'
  BY <1>1
<1>2. CASE (\E v \in Speeds : Odometry(v)) \/ (\E v \in VRefs : OperatorVRef(v)) \/ Pose
           \/ (\E p \in Paths : LanePath(p)) \/ (\E t \in TeleopTwists : Teleop(t))
  BY <1>1, <1>2 DEF Odometry, OdomCb, OperatorVRef, SetVRef, Pose, PoseCb, LanePath, PathCb,
     Teleop, ccVars, latVars, latInputs, counters
<1>3. ASSUME NEW b \in BOOLEAN, OperatorStart(b)
      PROVE  LongCmdAges'
  BY <1>3 DEF OperatorStart, SetStart, latVars, latInputs
<1>4. CASE MotorPower
  BY <1>1, <1>4 DEF MotorPower, ccVars, latVars, latInputs, counters
<1>5. CASE CcTimer
  <2>1. UNCHANGED <<off, start, longV, longAge, up>>
    BY <1>5 DEF CcTimer, CcControlStep, latVars, latInputs, counters
  <2>2. "cc" \in up
    BY <1>5 DEF CcTimer
  <2>3. ~start => ccOut' = None
    BY <1>5 DEF CcTimer, CcControlStep, NoOdomYet, Idle, StopOnStaleOdom, Drive
  <2>4. QED
    BY <2>1, <2>2, <2>3
<1>6. CASE LatTimer
  BY <1>1, <1>6 DEF LatTimer, LatControlStep, ccVars, latInputs
<1>7. CASE DeliverLongCmd
  BY <1>7 DEF DeliverLongCmd, counters
<1>8. CASE DeliverCurve
  BY <1>1, <1>8 DEF DeliverCurve, VCurveCb, CurveTaken, latInputs, counters
<1>9. CASE DeliverLaneCommand
  BY <1>1, <1>9 DEF DeliverLaneCommand, Command, LatTaken, latInputs, ccVars
<1>10. CASE DeliverCruiseCommand
  BY <1>10 DEF DeliverCruiseCommand, Unattended
<1>11. CASE DeliverTeleop
  BY <1>11 DEF DeliverTeleop, OneVoice
<1>12. ASSUME NEW n \in Crashable, Crash(n)
       PROVE  LongCmdAges'
  BY <1>1, <1>12 DEF Crash, ccVars, latVars, latInputs, counters
<1>13. CASE Tick
  <2>1. ccOut' = None
    BY <1>13 DEF Tick, Delivered, OneVoice, CcElapse
  <2>2. off' >= 1 => ~start' \/ "cc" \notin up'
    BY <1>13 DEF Tick, CcElapse
  <2>3. ASSUME off' >= 1, longV' # None
        PROVE  longAge' >= Least(off', LongTimeout + 1)
    <3>1. longAge \in 0..(LongTimeout + 1)
      BY <1>13, <2>3 DEF Tick, LatElapse, LatTypeOK, Ages
    <3>2. longAge' = IF longAge <= LongTimeout THEN longAge + 1 ELSE longAge
      BY <1>13, <3>1 DEF Tick, LatElapse, Older
    <3>3. off' <= off + 1 /\ off \in Nat /\ off' \in Nat
      BY <1>13, <2>3, LeaderTypeStep DEF Tick, Least
    <3>4. off >= 1 => longAge >= Least(off, LongTimeout + 1)
      BY <1>13, <2>3 DEF Tick, LatElapse
    <3>5. QED
      BY <2>3, <3>1, <3>2, <3>3, <3>4 DEF Least
  <2>4. QED
    BY <2>1, <2>2, <2>3
<1>14. CASE UNCHANGED leaderVars
  BY <1>1, <1>14 DEF leaderVars, ccVars, latVars, latInputs, counters
<1>15. QED
  BY <1>2, <1>3, <1>4, <1>5, <1>6, <1>7, <1>8, <1>9, <1>10, <1>11, <1>12, <1>13, <1>14
     DEF LeaderNext, Deliver

LEMMA GraceEndsStep ==
  ASSUME Unattended, KillInv, [LeaderNext]_leaderVars
  PROVE  GraceEnds'
<1> USE DEF KillInv, GraceEnds, LeaderTypeOK
<1>1. ASSUME UNCHANGED <<off, latOut>>, BaseStopped => BaseStopped',
             "lat" \in fired' => "lat" \in fired
      PROVE  GraceEnds'
  BY <1>1
<1>2. CASE (\E v \in Speeds : Odometry(v)) \/ (\E v \in VRefs : OperatorVRef(v)) \/ Pose
           \/ (\E p \in Paths : LanePath(p)) \/ (\E t \in TeleopTwists : Teleop(t))
  BY <1>1, <1>2 DEF Odometry, OperatorVRef, Pose, PoseCb, LanePath, PathCb, Teleop,
     latVars, latInputs, baseVars, counters, BaseStopped
<1>3. ASSUME NEW b \in BOOLEAN, OperatorStart(b)
      PROVE  GraceEnds'
  <2>1. off' = off \/ off' = 0
    BY <1>3 DEF OperatorStart
  <2>2. UNCHANGED <<latOut, fired>> /\ BaseStopped' = BaseStopped
    BY <1>3 DEF OperatorStart, latVars, baseVars, BaseStopped
  <2>3. QED
    BY <2>1, <2>2
<1>4. CASE MotorPower
  <2>1. UNCHANGED <<off, latOut, fired>>
    BY <1>4 DEF MotorPower, latVars, counters
  <2>2. BaseStopped => BaseStopped'
    BY <1>4 DEF MotorPower, MotorPowerOn, MotorPowerOff, BaseStopped
  <2>3. QED
    BY <1>1, <2>1, <2>2
<1>5. CASE CcTimer
  BY <1>1, <1>5 DEF CcTimer, latVars, baseVars, counters, BaseStopped
<1>6. CASE LatTimer
  <2>1. UNCHANGED off /\ BaseStopped' = BaseStopped
    BY <1>6 DEF LatTimer, baseVars, BaseStopped
  <2>2. ASSUME off >= LongTimeout + 1, ~NotReady
        PROVE  latOut' = StopTwist
    <3>1. longV # None /\ Least(off, LongTimeout + 1) = LongTimeout + 1 /\ off >= 1
      BY <2>2 DEF NotReady, Least
    <3>2. ~Fresh(longAge, LongTimeout)
      BY <3>1 DEF LongCmdAges, Fresh
    <3>3. QED
      BY <1>6, <2>2, <3>2 DEF LatTimer, LatControlStep, LatIdle, StopOnStaleLong, KeepLane
  <2>3. NotReady => latOut' = None /\ BaseStopped
    BY <1>6 DEF LatTimer, LatControlStep, LatIdle, StopOnStaleLong, KeepLane, OneVoice
  <2>4. QED
    BY <2>1, <2>2, <2>3
<1>7. CASE DeliverLongCmd
  BY <1>1, <1>7 DEF DeliverLongCmd, LongCmdCb, baseVars, counters, BaseStopped
<1>8. CASE DeliverCurve
  BY <1>1, <1>8 DEF DeliverCurve, CurveTaken, baseVars, counters, BaseStopped
<1>9. CASE DeliverLaneCommand
  <2>1. UNCHANGED <<off, fired>> /\ latOut' = None
    BY <1>9 DEF DeliverLaneCommand, Command, LatTaken
  <2>2. off >= LongTimeout + 1 => BaseStopped'
    BY <1>9, StopDelivered DEF DeliverLaneCommand, Command
  <2>3. QED
    BY <2>1, <2>2
<1>10. CASE DeliverCruiseCommand
  BY <1>10 DEF DeliverCruiseCommand, Unattended
<1>11. CASE DeliverTeleop
  BY <1>11 DEF DeliverTeleop, OneVoice
<1>12. ASSUME NEW n \in Crashable, Crash(n)
       PROVE  GraceEnds'
  BY <1>1, <1>12 DEF Crash, latVars, baseVars, counters, BaseStopped
<1>13. CASE Tick
  <2>1. latOut' = None /\ "lat" \in fired /\ fired' = {} /\ BaseStopped' = BaseStopped
    BY <1>13 DEF Tick, Delivered, LatElapse, OneVoice, baseVars, BaseStopped
  <2>2. latOut # StopTwist
    BY <1>13, StopIsACommand DEF Tick, Delivered
  <2>3. off' <= off + 1 /\ off \in Nat /\ off' \in Nat
    BY <1>13, LeaderTypeStep DEF Tick, Least
  <2>4. off' >= LongTimeout + 2 => off >= LongTimeout + 1
    BY <2>3
  <2>5. off >= LongTimeout + 1 => BaseStopped
    BY <2>1, <2>2, <2>3
  <2>6. QED
    BY <2>1, <2>4, <2>5
<1>14. CASE UNCHANGED leaderVars
  BY <1>1, <1>14 DEF leaderVars, latVars, baseVars, counters, BaseStopped
<1>15. QED
  BY <1>2, <1>3, <1>4, <1>5, <1>6, <1>7, <1>8, <1>9, <1>10, <1>11, <1>12, <1>13, <1>14
     DEF LeaderNext, Deliver

LEMMA KillStep ==
  ASSUME Unattended, KillInv, [LeaderNext]_leaderVars
  PROVE  KillInv'
BY LeaderTypeStep, OneVoiceStep, LongCmdAgesStep, GraceEndsStep DEF KillInv

\* The kill-switch brings the base to a standstill within the timeout of
\* long_cmd and one period, and keeps it there, whatever the timeouts, limits,
\* paths and odometry are, and if the cruise control crashes at any moment.
THEOREM KillSwitchStops ==
  ASSUME Unattended
  PROVE  LeaderSpec => []KillStops
<1>1. LeaderInit => KillInv
  BY KillInit
<1>2. KillInv /\ [LeaderNext]_leaderVars => KillInv'
  BY KillStep
<1>3. KillInv => KillStops
  BY DEF KillInv, GraceEnds, KillStops, LeaderTypeOK
<1>4. QED
  BY <1>1, <1>2, <1>3, PTL DEF LeaderSpec

----------------------------------------------------------------------------
(***************************************************************************)
(* A leader that no longer hears of its own speed stops moving along the   *)
(* lane, for every timeout of the two nodes on the way, and whether or not *)
(* the cruise control crashes while it does.                               *)
(***************************************************************************)

\* The odometry that the cruise control holds is as old as the silence.
OdomAges == vMeas # None => vMeasAge >= Least(silence, OdomTimeout + 1)

\* On stale odometry no speed is published, and the last one that was ages.
StaleIsSlow ==
  silence >= OdomTimeout + 1 =>
    /\ ccOut \in {None, 0}
    /\ longV \notin {None, 0} => longAge >= Least(silence - OdomTimeout, LongTimeout + 1)

SpeedlessOut == latOut # None => latOut.v = 0

\* In the last period every command is without speed, and one has been given
\* to the base before the period ends.
SilenceEnds ==
  /\ silence >= OdomTimeout + LongTimeout + 1 => SpeedlessOut
  /\ silence = OdomTimeout + LongTimeout + 1 /\ "lat" \in fired =>
       latOut # None \/ baseCmd.v = 0
  /\ silence >= OdomTimeout + LongTimeout + 2 => baseCmd.v = 0

SilenceInv == KillInv /\ OdomAges /\ StaleIsSlow /\ SilenceEnds

LEMMA SilenceInit ==
  ASSUME Unattended, LeaderInit
  PROVE  SilenceInv
<1>1. KillInv
  BY KillInit
<1>2. vMeas = None /\ ccOut = None /\ longV = None /\ latOut = None /\ baseCmd.v = 0
  BY DEF LeaderInit, CcInit, LatInit, BaseInit, BaseStopped
<1>3. QED
  BY <1>1, <1>2 DEF SilenceInv, OdomAges, StaleIsSlow, SilenceEnds, SpeedlessOut

\* A counter that is capped grows by one at most.
LEMMA SilenceGrows ==
  ASSUME LeaderTypeOK, Tick
  PROVE  silence \in Nat /\ silence' \in Nat /\ silence' <= silence + 1
BY DEF LeaderTypeOK, Tick, Least

LEMMA OdomAgesStep ==
  ASSUME SilenceInv, [LeaderNext]_leaderVars
  PROVE  OdomAges'
<1> USE DEF SilenceInv, OdomAges
<1>1. ASSUME UNCHANGED <<vMeas, vMeasAge, silence>>
      PROVE  OdomAges'
  BY <1>1
<1>2. ASSUME NEW v \in Speeds, Odometry(v)
      PROVE  OdomAges'
  BY <1>2 DEF Odometry, OdomCb, Least
<1>3. CASE Tick
  <2>1. ASSUME vMeas' # None
        PROVE  vMeasAge' >= Least(silence', OdomTimeout + 1)
    <3>1. vMeasAge \in 0..(OdomTimeout + 1) /\ vMeasAge >= Least(silence, OdomTimeout + 1)
      BY <1>3, <2>1 DEF KillInv, LeaderTypeOK, CcTypeOK, Ages, Tick, CcElapse
    <3>2. vMeasAge' = IF vMeasAge <= OdomTimeout THEN vMeasAge + 1 ELSE vMeasAge
      BY <1>3, <3>1 DEF Tick, CcElapse, Older
    <3>3. silence \in Nat /\ silence' \in Nat /\ silence' <= silence + 1
      BY <1>3, SilenceGrows DEF KillInv
    <3>4. QED
      BY <3>1, <3>2, <3>3 DEF Least
  <2>2. QED
    BY <2>1
<1>4. CASE (\E v \in VRefs : OperatorVRef(v)) \/ Pose \/ (\E p \in Paths : LanePath(p))
           \/ (\E b \in BOOLEAN : OperatorStart(b)) \/ (\E t \in TeleopTwists : Teleop(t))
           \/ MotorPower
  BY <1>1, <1>4 DEF OperatorVRef, SetVRef, Pose, LanePath, OperatorStart, SetStart, Teleop,
     MotorPower, ccVars, counters
<1>5. CASE CcTimer \/ LatTimer
  BY <1>1, <1>5 DEF CcTimer, CcControlStep, LatTimer, ccVars, counters
<1>6. CASE Deliver
  BY <1>1, <1>6 DEF Deliver, DeliverLongCmd, DeliverCurve, VCurveCb, DeliverLaneCommand,
     DeliverCruiseCommand, DeliverTeleop, Command, CcTaken, ccVars, counters
<1>7. CASE (\E n \in Crashable : Crash(n)) \/ UNCHANGED leaderVars
  BY <1>1, <1>7 DEF Crash, leaderVars, ccVars, counters
<1>8. QED
  BY <1>2, <1>3, <1>4, <1>5, <1>6, <1>7 DEF LeaderNext

LEMMA StaleIsSlowStep ==
  ASSUME Unattended, SilenceInv, [LeaderNext]_leaderVars
  PROVE  StaleIsSlow'
<1> USE DEF SilenceInv, StaleIsSlow
<1>1. ASSUME UNCHANGED <<silence, ccOut, longV, longAge>>
      PROVE  StaleIsSlow'
  BY <1>1
<1>2. ASSUME NEW v \in Speeds, Odometry(v)
      PROVE  StaleIsSlow'
  BY <1>2 DEF Odometry
<1>3. CASE CcTimer
  <2>1. UNCHANGED <<silence, longV, longAge>>
    BY <1>3 DEF CcTimer, latVars, latInputs, counters
  <2>2. ASSUME silence >= OdomTimeout + 1
        PROVE  ccOut' \in {None, 0}
    <3>1. vMeas # None => ~Fresh(vMeasAge, OdomTimeout)
      BY <2>2 DEF KillInv, LeaderTypeOK, OdomAges, Fresh, Least
    <3>2. QED
      BY <1>3, <3>1 DEF CcTimer, CcControlStep, NoOdomYet, Idle, StopOnStaleOdom, Drive
  <2>3. QED
    BY <2>1, <2>2
<1>4. CASE DeliverLongCmd
  <2>1. longV' = ccOut /\ ccOut # None /\ ccOut' = None /\ silence' = silence
    BY <1>4 DEF DeliverLongCmd, LongCmdCb, CcTaken, counters
  <2>2. QED
    BY <2>1
<1>5. CASE Tick
  <2>1. silence \in Nat /\ silence' \in Nat /\ silence' <= silence + 1
    BY <1>5, SilenceGrows DEF KillInv
  <2>2. ccOut' = None
    BY <1>5 DEF Tick, Delivered, KillInv, OneVoice, CcElapse
  <2>3. ASSUME silence' >= OdomTimeout + 1, longV' \notin {None, 0}
        PROVE  longAge' >= Least(silence' - OdomTimeout, LongTimeout + 1)
    <3>1. longV \notin {None, 0}
      BY <1>5, <2>3 DEF Tick, LatElapse
    <3>2. longAge \in Ages(LongTimeout) /\ longAge # None
      BY <3>1 DEF KillInv, LeaderTypeOK, LatTypeOK
    <3>3. longAge' = Older(longAge, LongTimeout)
      BY <1>5 DEF Tick, LatElapse
    <3>4. silence >= OdomTimeout + 1 =>
            longAge >= Least(silence - OdomTimeout, LongTimeout + 1)
      BY <3>1
    <3>5. QED
      BY <2>1, <2>3, <3>2, <3>3, <3>4, AgeKeepsUp
  <2>4. QED
    BY <2>2, <2>3
<1>6. CASE (\E v \in VRefs : OperatorVRef(v)) \/ Pose \/ (\E p \in Paths : LanePath(p))
           \/ (\E b \in BOOLEAN : OperatorStart(b)) \/ (\E t \in TeleopTwists : Teleop(t))
           \/ MotorPower
  BY <1>1, <1>6 DEF OperatorVRef, SetVRef, Pose, PoseCb, LanePath, PathCb, OperatorStart,
     SetStart, Teleop, MotorPower, ccVars, latVars, latInputs, counters
<1>7. CASE LatTimer
  BY <1>1, <1>7 DEF LatTimer, LatControlStep, ccVars, latInputs, counters
<1>8. CASE DeliverCurve \/ DeliverLaneCommand
  BY <1>1, <1>8 DEF DeliverCurve, VCurveCb, CurveTaken, DeliverLaneCommand, Command, LatTaken,
     ccVars, latInputs, counters
<1>9. CASE DeliverCruiseCommand \/ DeliverTeleop
  BY <1>9 DEF DeliverCruiseCommand, DeliverTeleop, Unattended, KillInv, OneVoice
<1>10. CASE (\E n \in Crashable : Crash(n)) \/ UNCHANGED leaderVars
  BY <1>1, <1>10 DEF Crash, leaderVars, ccVars, latVars, latInputs, counters
<1>11. QED
  BY <1>2, <1>3, <1>4, <1>5, <1>6, <1>7, <1>8, <1>9, <1>10 DEF LeaderNext, Deliver

LEMMA SilenceEndsStep ==
  ASSUME Unattended, SilenceInv, [LeaderNext]_leaderVars
  PROVE  SilenceEnds'
<1> USE DEF SilenceInv, SilenceEnds, SpeedlessOut
<1>1. ASSUME UNCHANGED <<silence, latOut>>, baseCmd.v = 0 => baseCmd'.v = 0,
             "lat" \in fired' => "lat" \in fired
      PROVE  SilenceEnds'
  BY <1>1
<1>2. ASSUME NEW v \in Speeds, Odometry(v)
      PROVE  SilenceEnds'
  BY <1>2 DEF Odometry
<1>3. CASE (\E v \in VRefs : OperatorVRef(v)) \/ Pose \/ (\E p \in Paths : LanePath(p))
           \/ (\E b \in BOOLEAN : OperatorStart(b)) \/ (\E t \in TeleopTwists : Teleop(t))
  BY <1>1, <1>3 DEF OperatorVRef, Pose, PoseCb, LanePath, PathCb, OperatorStart, Teleop,
     latVars, latInputs, baseVars, counters
<1>4. CASE MotorPower
  BY <1>1, <1>4 DEF MotorPower, MotorPowerOn, MotorPowerOff, latVars, counters
<1>5. CASE CcTimer
  BY <1>1, <1>5 DEF CcTimer, latVars, baseVars, counters
<1>6. CASE LatTimer
  <2>1. UNCHANGED <<silence, baseCmd>>
    BY <1>6 DEF LatTimer, baseVars
  <2>2. NotReady => latOut' = None /\ baseCmd.v = 0
    BY <1>6 DEF LatTimer, LatControlStep, LatIdle, StopOnStaleLong, KeepLane, KillInv, OneVoice,
       BaseStopped
  <2>3. ASSUME silence >= OdomTimeout + LongTimeout + 1, ~NotReady
        PROVE  latOut' # None /\ latOut'.v = 0
    <3>1. silence \in Nat /\ longV # None
      BY <2>3 DEF KillInv, LeaderTypeOK, NotReady
    <3>2. ASSUME Fresh(longAge, LongTimeout)
          PROVE  longV = 0
      <4>1. silence >= OdomTimeout + 1 /\ silence - OdomTimeout >= LongTimeout + 1
        BY <2>3, <3>1
      <4>2. Least(silence - OdomTimeout, LongTimeout + 1) = LongTimeout + 1
        BY <3>1, <4>1 DEF Least
      <4>3. longV \notin {None, 0} => longAge >= LongTimeout + 1
        BY <4>1, <4>2 DEF StaleIsSlow
      <4>4. QED
        BY <3>1, <3>2, <4>3 DEF Fresh
    <3>3. CASE StopOnStaleLong
      BY <3>3, StopIsACommand DEF StopOnStaleLong, StopTwist
    <3>4. CASE KeepLane
      <4>1. latOut' = [v |-> 0, w |-> wCmd']
        BY <3>2, <3>4 DEF KeepLane
      <4>2. wCmd' \in Int
        BY <1>6, LeaderTypeStep DEF KillInv, LeaderTypeOK, LatTypeOK
      <4>3. QED
        BY <4>1, <4>2
    <3>5. QED
      BY <1>6, <2>3, <3>3, <3>4 DEF LatTimer, LatControlStep, LatIdle
  <2>4. QED
    BY <2>1, <2>2, <2>3
<1>7. CASE DeliverLongCmd
  BY <1>1, <1>7 DEF DeliverLongCmd, LongCmdCb, baseVars, counters
<1>8. CASE DeliverCurve
  BY <1>1, <1>8 DEF DeliverCurve, CurveTaken, baseVars, counters
<1>9. CASE DeliverLaneCommand
  <2>1. UNCHANGED <<silence, fired>> /\ latOut' = None
    BY <1>9 DEF DeliverLaneCommand, Command, LatTaken
  <2>2. ASSUME silence >= OdomTimeout + LongTimeout + 1
        PROVE  baseCmd'.v = 0
    <3>1. latOut.v = 0
      BY <1>9, <2>2 DEF DeliverLaneCommand
    <3>2. ~enabled => baseCmd.v = 0
      BY DEF KillInv, OneVoice, BaseStopped
    <3>3. QED
      BY <1>9, <3>1, <3>2 DEF DeliverLaneCommand, Command, VelocityCommand
  <2>3. QED
    BY <2>1, <2>2 DEF KillInv, LeaderTypeOK
<1>10. CASE DeliverCruiseCommand \/ DeliverTeleop
  BY <1>10 DEF DeliverCruiseCommand, DeliverTeleop, Unattended, KillInv, OneVoice
<1>11. CASE (\E n \in Crashable : Crash(n)) \/ UNCHANGED leaderVars
  BY <1>1, <1>11 DEF Crash, leaderVars, latVars, baseVars, counters
<1>12. CASE Tick
  <2>1. latOut = None /\ latOut' = None /\ "lat" \in fired /\ fired' = {} /\ baseCmd' = baseCmd
    BY <1>12 DEF Tick, Delivered, LatElapse, KillInv, OneVoice, baseVars
  <2>2. silence \in Nat /\ silence' \in Nat /\ silence' <= silence + 1
    BY <1>12, SilenceGrows DEF KillInv
  <2>3. silence >= OdomTimeout + LongTimeout + 1 => baseCmd.v = 0
    BY <2>1, <2>2
  <2>4. QED
    BY <2>1, <2>2, <2>3
<1>13. QED
  BY <1>2, <1>3, <1>4, <1>5, <1>6, <1>7, <1>8, <1>9, <1>10, <1>11, <1>12
     DEF LeaderNext, Deliver

\* A cruise control whose odometry stays away brings the robot's speed to zero
\* within the two timeouts and one period, and keeps it there, whatever the
\* operator does with start and whenever the cruise control crashes.
THEOREM OdometrySilenceStops ==
  ASSUME Unattended
  PROVE  LeaderSpec => []SilenceStops
<1>1. LeaderInit => SilenceInv
  BY SilenceInit
<1>2. SilenceInv /\ [LeaderNext]_leaderVars => SilenceInv'
  BY KillStep, OdomAgesStep, StaleIsSlowStep, SilenceEndsStep DEF SilenceInv
<1>3. SilenceInv => SilenceStops
  BY DEF SilenceInv, SilenceEnds, SilenceStops, KillInv, LeaderTypeOK
<1>4. QED
  BY <1>1, <1>2, <1>3, PTL DEF LeaderSpec

----------------------------------------------------------------------------
(***************************************************************************)
(* The projection starts from a point of the path.                         *)
(***************************************************************************)

LEMMA IdxStep ==
  ASSUME LeaderTypeOK, IdxInPath, [LeaderNext]_leaderVars
  PROVE  IdxInPath'
<1> USE DEF IdxInPath
<1>1. ASSUME UNCHANGED <<path, prevPathIdx>>
      PROVE  IdxInPath'
  BY <1>1
<1>2. ASSUME NEW p \in Paths, LanePath(p)
      PROVE  IdxInPath'
  BY <1>2 DEF LanePath, PathCb, IdxAfterPath
<1>3. CASE LatTimer
  <2>1. path' = path
    BY <1>3 DEF LatTimer, LatControlStep, latInputs
  <2>2. CASE KeepLane
    <3>1. path \in Paths
      BY <2>2 DEF LeaderTypeOK, LatTypeOK, KeepLane, NotReady
    <3>2. path.n \in Nat
      BY <3>1
    <3>3. prevPathIdx' \in 0..(path.n - 1)
      BY <2>2, KeepLaneType DEF LeaderTypeOK
    <3>4. QED
      BY <2>1, <3>2, <3>3
  <2>3. CASE LatIdle \/ StopOnStaleLong
    BY <1>1, <2>1, <2>3 DEF LatIdle, StopOnStaleLong
  <2>4. QED
    BY <1>3, <2>2, <2>3 DEF LatTimer, LatControlStep
<1>4. CASE \/ \E v \in Speeds : Odometry(v)
           \/ \E v \in VRefs : OperatorVRef(v)
           \/ \E b \in BOOLEAN : OperatorStart(b)
           \/ \E t \in TeleopTwists : Teleop(t)
           \/ Pose \/ MotorPower \/ CcTimer
           \/ \E n \in Crashable : Crash(n)
           \/ UNCHANGED leaderVars
  BY <1>1, <1>4 DEF Odometry, OperatorVRef, OperatorStart, Teleop, Pose, PoseCb, MotorPower,
     CcTimer, Crash, leaderVars, latVars, latInputs
<1>5. CASE Deliver \/ Tick
  BY <1>1, <1>5 DEF Deliver, DeliverLongCmd, LongCmdCb, DeliverCurve, CurveTaken,
     DeliverLaneCommand, LatTaken, DeliverCruiseCommand, DeliverTeleop, Tick, LatElapse,
     latVars, latInputs
<1>6. QED
  BY <1>2, <1>3, <1>4, <1>5 DEF LeaderNext

\* For every length of the paths, open or closed, and every search window: no
\* step of the lane-keeping node reads the path beyond its end, although a
\* path of another length may have come between two steps.
THEOREM ProjectionStaysOnPath == LeaderSpec => []IdxInPath
<1>1. LeaderInit => IdxInPath
  BY DEF LeaderInit, LatInit, IdxInPath
<1>2. LeaderTypeOK /\ IdxInPath /\ [LeaderNext]_leaderVars => IdxInPath'
  BY IdxStep
<1>3. QED
  BY <1>1, <1>2, LeaderTypeCorrect, PTL DEF LeaderSpec

----------------------------------------------------------------------------
(***************************************************************************)
(* The cruise control does not make the robot jump.                        *)
(***************************************************************************)

\* The speed last published: on its way, arrived, or none yet.
Commanded == IF ccOut # None THEN ccOut ELSE IF longV # None THEN longV ELSE 0

\* While it is started the integrator is at the speed last published, and it
\* publishes none before it has been measured.
Tracks ==
  /\ wasStarted => vCmd = Commanded
  /\ vMeas = None => vCmd = 0 /\ ccOut = None /\ longV = None

LEMMA TracksStep ==
  ASSUME Lateral, LeaderTypeOK, Tracks, [LeaderNext]_leaderVars
  PROVE  Tracks'
<1> USE DEF Tracks, Commanded
<1>1. ASSUME UNCHANGED <<wasStarted, vCmd, vMeas, ccOut, longV>>
      PROVE  Tracks'
  BY <1>1
<1>2. ASSUME NEW v \in Speeds, Odometry(v)
      PROVE  Tracks'
  <2>1. vMeas' # None /\ UNCHANGED <<wasStarted, vCmd, ccOut, longV>>
    BY <1>2 DEF Odometry, OdomCb, latVars, latInputs
  <2>2. QED
    BY <2>1
<1>3. CASE \/ \E v \in VRefs : OperatorVRef(v)
           \/ \E p \in Paths : LanePath(p)
           \/ \E b \in BOOLEAN : OperatorStart(b)
           \/ \E t \in TeleopTwists : Teleop(t)
           \/ Pose \/ MotorPower \/ LatTimer
  BY <1>1, <1>3 DEF OperatorVRef, SetVRef, LanePath, PathCb, OperatorStart, SetStart, Teleop,
     Pose, PoseCb, MotorPower, LatTimer, LatControlStep, ccVars, latVars, latInputs
<1>4. CASE DeliverCurve \/ DeliverLaneCommand \/ DeliverTeleop
  BY <1>1, <1>4 DEF DeliverCurve, VCurveCb, CurveTaken, DeliverLaneCommand, LatTaken,
     DeliverTeleop, ccVars, latVars, latInputs
<1>5. CASE DeliverCruiseCommand
  BY <1>5 DEF DeliverCruiseCommand
<1>6. CASE DeliverLongCmd
  <2>1. /\ ccOut # None /\ longV' = ccOut /\ ccOut' = None
        /\ UNCHANGED <<wasStarted, vCmd, vMeas>>
    BY <1>6 DEF DeliverLongCmd, LongCmdCb, CcTaken
  <2>2. QED
    BY <2>1
<1>7. CASE CcTimer
  <2>1. wasStarted' = start /\ UNCHANGED <<start, vMeas, longV>>
    BY <1>7 DEF CcTimer, CcControlStep, latVars, latInputs
  <2>2. CASE NoOdomYet
    <3>1. vMeas = None /\ ccOut' = None /\ vCmd' = 0
      BY <2>2 DEF NoOdomYet, Seed
    <3>2. QED
      BY <2>1, <3>1
  <2>3. CASE Idle
    BY <2>1, <2>3 DEF Idle
  <2>4. CASE StopOnStaleOdom \/ Drive
    <3>1. vMeas # None /\ ccOut' = vCmd' /\ vCmd' # None
      BY <2>4, DriveType DEF LeaderTypeOK, Commands, StopOnStaleOdom, Drive
    <3>2. QED
      BY <2>1, <3>1
  <2>5. QED
    BY <1>7, <2>2, <2>3, <2>4 DEF CcTimer, CcControlStep
<1>8. CASE (\E n \in Crashable : Crash(n)) \/ Tick \/ UNCHANGED leaderVars
  BY <1>1, <1>8 DEF Crash, Tick, CcElapse, LatElapse, leaderVars, ccVars, latVars, latInputs
<1>9. QED
  BY <1>2, <1>3, <1>4, <1>5, <1>6, <1>7, <1>8 DEF LeaderNext, Deliver

LEMMA SmoothStep ==
  ASSUME Lateral, VCmdMin = 0, LeaderTypeOK, Tracks, [LeaderNext]_leaderVars,
         ccOut = None, ccOut' # None
  PROVE  ccOut' <= Clip(Reference, VCmdMin, VCmdMax) + AMax
<1>1. CcTimer
  BY DEF LeaderNext, Deliver, Odometry, OdomCb, OperatorVRef, SetVRef, LanePath, OperatorStart,
     SetStart, Teleop, Pose, MotorPower, LatTimer, DeliverLongCmd, CcTaken, DeliverCurve,
     VCurveCb, DeliverLaneCommand, DeliverCruiseCommand, DeliverTeleop, Crash, Tick, CcElapse,
     leaderVars, ccVars
<1>2. Reference \in Int
  <2>1. (vMeas # None => vMeas \in Int) /\ (longV # None => longV \in Int)
    BY DEF LeaderTypeOK, LatTypeOK, CcTypeOK
  <2>2. QED
    BY <2>1 DEF Reference
<1>3. VCmdMin <= VCmdMax
  OBVIOUS
<1>4. Clip(Reference, VCmdMin, VCmdMax) \in VCmdMin..VCmdMax
  BY <1>2, <1>3, ClipRange
<1>5. CASE StopOnStaleOdom
  BY <1>4, <1>5 DEF StopOnStaleOdom
<1>6. CASE Drive
  <2>1. Seed = Reference
    BY <1>6 DEF Drive, Seed, Reference, Tracks, Commanded
  <2>2. PICK a \in AMin..AMax : vCmd' = Clip(Seed + a, VCmdMin, VCmdMax)
    BY <1>6 DEF Drive, AccelByMpc
  <2>3. a \in Int /\ a <= AMax /\ 0 <= AMax
    OBVIOUS
  <2>4. Clip(Reference + a, VCmdMin, VCmdMax) <= Clip(Reference, VCmdMin, VCmdMax) + AMax
    BY <1>2, <1>3, <2>3, ClipStep
  <2>5. QED
    BY <1>6, <2>1, <2>2, <2>4 DEF Drive
<1>7. QED
  BY <1>1, <1>5, <1>6 DEF CcTimer, CcControlStep, NoOdomYet, Idle

\* After a start, a stop on stale odometry or a gap in what it hears, the cruise
\* control goes on from the speed commanded last, or from the measured one: of
\* a robot that is never told to reverse, for all limits and timeouts.
THEOREM LeaderIsSmooth ==
  ASSUME Lateral, VCmdMin = 0
  PROVE  LeaderSpec => SmoothSpeed
<1>1. LeaderInit => Tracks
  BY DEF LeaderInit, CcInit, LatInit, Tracks, Commanded
<1>2. LeaderTypeOK /\ Tracks /\ [LeaderNext]_leaderVars => Tracks'
  BY TracksStep
<1>3. LeaderTypeOK /\ Tracks /\ [LeaderNext]_leaderVars
        => [ccOut = None /\ ccOut' # None =>
              ccOut' <= Clip(Reference, VCmdMin, VCmdMax) + AMax]_leaderVars
  BY SmoothStep
<1>4. QED
  BY <1>1, <1>2, <1>3, LeaderTypeCorrect, PTL DEF LeaderSpec, SmoothSpeed

----------------------------------------------------------------------------
(***************************************************************************)
(* The lane-keeping node answers in every period, and the cruise control   *)
(* knows the curve in time.                                                *)
(***************************************************************************)

\* A base that was commanded once is commanded before the period ends.
Beats ==
  cmdAge # None =>
    /\ ~NotReady
    /\ cmdAge <= 1
    /\ "lat" \in fired => latOut # None \/ cmdAge = 0

Begun == IF "lat" \in fired THEN 1 ELSE 0

\* Periods that it has driven to their end are enough.
Driven(n) == laneTicks >= n + Begun

\* A cruise control that runs holds a limit of this or the last period.
LimitKnown ==
  "cc" \in up =>
    /\ Driven(1) => vCurveAge \in {0, 1}
    /\ "lat" \in fired /\ laneTicks >= 1 => curveOut # None \/ vCurveAge = 0

Limited(speed) == \E c \in Curves : speed <= c

\* So the speed that it tracks in its step is below one.
LimitHeld == CurveSlowdown /\ "cc" \in fired /\ Driven(1) => Limited(tracked)

\* A node that is not ready has not driven.
Rested == NotReady => ~wasFresh /\ laneTicks = 0

ServedInv == KillInv /\ Tracks /\ Beats /\ Rested /\ LimitKnown /\ LimitHeld

LEMMA ServedInit ==
  ASSUME Unattended, LeaderInit
  PROVE  ServedInv
<1>1. KillInv
  BY KillInit
<1>2. laneTicks = 0 /\ fired = {} /\ cmdAge = None /\ wasFresh = FALSE
  BY DEF LeaderInit, LatInit
<1>3. ~Driven(1)
  BY <1>2 DEF Driven, Begun
<1>4. Tracks
  BY DEF LeaderInit, CcInit, LatInit, Tracks, Commanded
<1>5. QED
  BY <1>1, <1>2, <1>3, <1>4 DEF ServedInv, Beats, Rested, LimitKnown, LimitHeld

LEMMA BeatsStep ==
  ASSUME Unattended, KillInv, Beats, [LeaderNext]_leaderVars
  PROVE  Beats'
<1> USE DEF KillInv, Beats
<1>1. ASSUME UNCHANGED <<cmdAge, latOut>>, NotReady' => NotReady,
             "lat" \in fired' => "lat" \in fired
      PROVE  Beats'
  BY <1>1
<1>2. CASE \/ \E v \in Speeds : Odometry(v)
           \/ \E v \in VRefs : OperatorVRef(v)
           \/ \E b \in BOOLEAN : OperatorStart(b)
           \/ \E t \in TeleopTwists : Teleop(t)
           \/ MotorPower \/ CcTimer
  BY <1>1, <1>2 DEF Odometry, OperatorVRef, OperatorStart, Teleop, MotorPower, CcTimer,
     latVars, latInputs, counters, NotReady
<1>3. CASE Pose \/ (\E p \in Paths : LanePath(p)) \/ DeliverLongCmd \/ DeliverCurve
  BY <1>1, <1>3 DEF Pose, PoseCb, LanePath, PathCb, DeliverLongCmd, LongCmdCb, DeliverCurve,
     CurveTaken, latInputs, counters, NotReady
<1>4. CASE (\E n \in Crashable : Crash(n)) \/ UNCHANGED leaderVars
  BY <1>1, <1>4 DEF Crash, leaderVars, latVars, latInputs, counters, NotReady
<1>5. CASE LatTimer
  <2>1. UNCHANGED cmdAge /\ NotReady' = NotReady
    BY <1>5 DEF LatTimer, LatControlStep, latInputs, NotReady
  <2>2. ~NotReady => latOut' # None
    <3>1. StopOnStaleLong => latOut' # None
      BY StopIsACommand DEF StopOnStaleLong
    <3>2. ASSUME KeepLane
          PROVE  latOut' # None
      <4>1. longV \in Int /\ wCmd' \in Int /\ latOut' = [v |-> longV, w |-> wCmd']
        BY <3>2, KeepLaneType DEF LeaderTypeOK, LatTypeOK, KeepLane, NotReady
      <4>2. latOut' \in [v : Int, w : Int]
        BY <4>1
      <4>3. QED
        BY <4>2
    <3>3. QED
      BY <1>5, <3>1, <3>2 DEF LatTimer, LatControlStep, LatIdle
  <2>3. QED
    BY <2>1, <2>2
<1>6. CASE DeliverLaneCommand
  <2>1. cmdAge' = 0 /\ NotReady' = NotReady /\ ~NotReady
    BY <1>6 DEF DeliverLaneCommand, Command, LatTaken, latInputs, NotReady, OneVoice
  <2>2. QED
    BY <2>1
<1>7. CASE DeliverCruiseCommand \/ DeliverTeleop
  BY <1>7 DEF DeliverCruiseCommand, DeliverTeleop, Unattended, OneVoice
<1>8. CASE Tick
  <2>1. /\ "lat" \in fired /\ fired' = {} /\ latOut = None /\ NotReady' = NotReady
        /\ cmdAge' = Older(cmdAge, CmdVelTimeout)
    BY <1>8 DEF Tick, Delivered, LatElapse, OneVoice, NotReady
  <2>2. cmdAge # None => cmdAge' = 1
    BY <2>1 DEF Older
  <2>3. cmdAge = None => cmdAge' = None
    BY <2>1 DEF Older
  <2>4. QED
    BY <2>1, <2>2, <2>3
<1>9. QED
  BY <1>2, <1>3, <1>4, <1>5, <1>6, <1>7, <1>8 DEF LeaderNext, Deliver

LEMMA RestedStep ==
  ASSUME Unattended, KillInv, Rested, [LeaderNext]_leaderVars
  PROVE  Rested'
<1> USE DEF Rested
<1>1. ASSUME UNCHANGED <<wasFresh, laneTicks>>, NotReady' => NotReady
      PROVE  Rested'
  BY <1>1
<1>2. CASE \/ \E v \in Speeds : Odometry(v)
           \/ \E v \in VRefs : OperatorVRef(v)
           \/ \E b \in BOOLEAN : OperatorStart(b)
           \/ \E t \in TeleopTwists : Teleop(t)
           \/ MotorPower \/ CcTimer
  BY <1>1, <1>2 DEF Odometry, OperatorVRef, OperatorStart, Teleop, MotorPower, CcTimer,
     latVars, latInputs, counters, NotReady
<1>3. CASE Pose \/ (\E p \in Paths : LanePath(p)) \/ DeliverLongCmd \/ DeliverCurve
  BY <1>1, <1>3 DEF Pose, PoseCb, LanePath, PathCb, DeliverLongCmd, LongCmdCb, DeliverCurve,
     CurveTaken, latInputs, counters, NotReady
<1>4. CASE (\E n \in Crashable : Crash(n)) \/ UNCHANGED leaderVars
  BY <1>1, <1>4 DEF Crash, leaderVars, latVars, latInputs, counters, NotReady
<1>5. CASE DeliverLaneCommand \/ DeliverCruiseCommand \/ DeliverTeleop
  BY <1>1, <1>5 DEF DeliverLaneCommand, LatTaken, Command, DeliverCruiseCommand, DeliverTeleop,
     latVars, latInputs, NotReady
<1>6. CASE LatTimer
  <2>1. NotReady' = NotReady
    BY <1>6 DEF LatTimer, LatControlStep, latInputs, NotReady
  <2>2. NotReady => UNCHANGED wasFresh
    BY <1>6 DEF LatTimer, LatControlStep, LatIdle, StopOnStaleLong, KeepLane
  <2>3. QED
    BY <1>6, <2>1, <2>2 DEF LatTimer
<1>7. CASE Tick
  BY <1>1, <1>7 DEF Tick, LatElapse, NotReady
<1>8. QED
  BY <1>2, <1>3, <1>4, <1>5, <1>6, <1>7 DEF LeaderNext, Deliver

\* The timer of the lane-keeping node begins a period and ends none.
LEMMA TimerDriven ==
  ASSUME LeaderTypeOK, LatTimer
  PROVE  /\ "lat" \notin fired /\ "lat" \in fired'
         /\ laneTicks' \in Nat /\ (Driven(1)' => Driven(1))
<1>1. "lat" \notin fired /\ "lat" \in fired'
  BY DEF LatTimer
<1>2. laneTicks \in 0..2 /\ laneTicks' \in {0, Least(laneTicks + 1, 2)}
  BY DEF LatTimer, LeaderTypeOK
<1>3. laneTicks' \in Nat /\ laneTicks' <= laneTicks + 1
  BY <1>2 DEF Least
<1>4. QED
  BY <1>1, <1>2, <1>3 DEF Driven, Begun

LEMMA LimitKnownStep ==
  ASSUME Unattended, CurveTimeout >= 1, KillInv, Rested, LimitKnown,
         [LeaderNext]_leaderVars
  PROVE  LimitKnown'
<1> USE DEF KillInv, LimitKnown
<1>1. ASSUME UNCHANGED <<laneTicks, vCurveAge, curveOut>>, up' \subseteq up,
             "lat" \in fired' <=> "lat" \in fired
      PROVE  LimitKnown'
  BY <1>1 DEF Driven, Begun
<1>2. CASE \/ \E v \in Speeds : Odometry(v)
           \/ \E v \in VRefs : OperatorVRef(v)
           \/ \E b \in BOOLEAN : OperatorStart(b)
           \/ \E t \in TeleopTwists : Teleop(t)
           \/ MotorPower \/ CcTimer
  BY <1>1, <1>2 DEF Odometry, OdomCb, OperatorVRef, SetVRef, OperatorStart, SetStart, Teleop,
     MotorPower, CcTimer, CcControlStep, ccVars, latVars, counters
<1>3. CASE Pose \/ (\E p \in Paths : LanePath(p)) \/ DeliverLongCmd \/ DeliverLaneCommand
  BY <1>1, <1>3 DEF Pose, PoseCb, LanePath, PathCb, DeliverLongCmd, LongCmdCb, CcTaken,
     DeliverLaneCommand, Command, LatTaken, ccVars, counters
<1>4. CASE DeliverCruiseCommand \/ DeliverTeleop
  BY <1>4 DEF DeliverCruiseCommand, DeliverTeleop, Unattended, OneVoice
<1>5. ASSUME NEW n \in Crashable, Crash(n)
      PROVE  LimitKnown'
  <2>1. n # "lat"
    BY DEF Unattended
  <2>2. QED
    BY <1>1, <1>5, <2>1 DEF Crash, ccVars, latVars, counters
<1>6. CASE LatTimer
  <2>1. UNCHANGED <<vCurveAge, up>>
    BY <1>6 DEF LatTimer, ccVars
  <2>2. "lat" \notin fired /\ "lat" \in fired' /\ laneTicks' \in Nat /\ (Driven(1)' => Driven(1))
    BY <1>6, TimerDriven
  <2>3. laneTicks' >= 1 => curveOut' # None
    <3>1. laneTicks' # 0 => wasFresh'
      BY <1>6 DEF LatTimer
    <3>2. wasFresh' => KeepLane \/ (LatIdle /\ wasFresh)
      BY <1>6 DEF LatTimer, LatControlStep, StopOnStaleLong, LatIdle
    <3>3. KeepLane => curveOut' # None
      BY DEF KeepLane
    <3>4. LatIdle => ~wasFresh
      BY DEF LatIdle, Rested
    <3>5. QED
      BY <2>2, <3>1, <3>2, <3>3, <3>4
  <2>4. QED
    BY <2>1, <2>2, <2>3
<1>7. CASE DeliverCurve
  BY <1>7 DEF DeliverCurve, VCurveCb
<1>8. CASE Tick
  <2>1. /\ "lat" \in fired /\ fired' = {} /\ UNCHANGED <<laneTicks, curveOut, up>>
        /\ vCurveAge' = Older(vCurveAge, CurveTimeout)
        /\ "cc" \in up => curveOut = None
    BY <1>8 DEF Tick, Delivered, CcElapse, LatElapse, OneVoice
  <2>2. Driven(1)' => laneTicks >= 1
    BY <2>1 DEF Driven, Begun
  <2>3. QED
    BY <2>1, <2>2 DEF Older
<1>9. CASE UNCHANGED leaderVars
  BY <1>1, <1>9 DEF leaderVars, ccVars, latVars, counters
<1>10. QED
  BY <1>2, <1>3, <1>4, <1>5, <1>6, <1>7, <1>8, <1>9 DEF LeaderNext, Deliver

\* The reference of a step that has a fresh limit is below it.
LEMMA LimitTaken ==
  ASSUME CurveSlowdown, CurveTimeout >= 1, CcTypeOK, vCurveAge \in {0, 1}
  PROVE  Limited(EffectiveVRef)
<1>1. vCurve \in Curves /\ Fresh(vCurveAge, CurveTimeout)
  BY DEF CcTypeOK, Fresh
<1>2. vRef \in Int /\ vCurve \in Int
  BY <1>1 DEF CcTypeOK
<1>3. EffectiveVRef <= vCurve
  BY <1>1, <1>2 DEF EffectiveVRef, Least
<1>4. QED
  BY <1>1, <1>3 DEF Limited

LEMMA LimitHeldStep ==
  ASSUME Unattended, CurveTimeout >= 1, ServedInv, [LeaderNext]_leaderVars
  PROVE  LimitHeld'
<1> USE DEF ServedInv, LimitHeld
<1>1. ASSUME UNCHANGED <<laneTicks, tracked>>, fired' \subseteq fired,
             "lat" \in fired' <=> "lat" \in fired
      PROVE  LimitHeld'
  BY <1>1 DEF Driven, Begun, Limited
<1>2. CASE \/ \E v \in Speeds : Odometry(v)
           \/ \E v \in VRefs : OperatorVRef(v)
           \/ \E b \in BOOLEAN : OperatorStart(b)
           \/ \E t \in TeleopTwists : Teleop(t)
           \/ Pose \/ MotorPower
           \/ \E p \in Paths : LanePath(p)
  BY <1>1, <1>2 DEF Odometry, OdomCb, OperatorVRef, SetVRef, OperatorStart, SetStart, Teleop,
     Pose, MotorPower, LanePath, ccVars, counters
<1>3. CASE Deliver
  BY <1>1, <1>3 DEF Deliver, DeliverLongCmd, CcTaken, DeliverCurve, VCurveCb,
     DeliverLaneCommand, DeliverCruiseCommand, DeliverTeleop, Command, ccVars, counters
<1>4. ASSUME NEW n \in Crashable, Crash(n)
      PROVE  LimitHeld'
  <2>1. n # "lat"
    BY DEF Unattended
  <2>2. QED
    BY <1>1, <1>4, <2>1 DEF Crash, ccVars, counters
<1>5. CASE CcTimer
  <2>1. /\ UNCHANGED laneTicks /\ "cc" \in up
        /\ "lat" \in fired' <=> "lat" \in fired
    BY <1>5 DEF CcTimer, counters
  <2>2. Driven(1)' = Driven(1)
    BY <2>1 DEF Driven, Begun
  <2>3. ASSUME CurveSlowdown, Driven(1)
        PROVE  Limited(tracked')
    <3>1. longV # None
      BY <2>3 DEF Rested, NotReady, Driven, Begun
    <3>2. vMeas # None
      BY <3>1 DEF Tracks
    <3>3. tracked' = EffectiveVRef
      BY <1>5, <3>2 DEF CcTimer, CcControlStep, NoOdomYet, Idle, StopOnStaleOdom, Drive
    <3>4. vCurveAge \in {0, 1}
      BY <2>1, <2>3 DEF LimitKnown
    <3>5. QED
      BY <2>3, <3>3, <3>4, LimitTaken DEF KillInv, LeaderTypeOK
  <2>4. Limited(tracked)' = Limited(tracked')
    BY DEF Limited
  <2>5. QED
    BY <2>2, <2>3, <2>4
<1>6. CASE LatTimer
  <2>1. UNCHANGED tracked /\ ("cc" \in fired' => "cc" \in fired)
    BY <1>6 DEF LatTimer, ccVars
  <2>2. Driven(1)' => Driven(1)
    BY <1>6, TimerDriven DEF KillInv
  <2>3. Limited(tracked)' = Limited(tracked)
    BY <2>1 DEF Limited
  <2>4. QED
    BY <2>1, <2>2, <2>3
<1>7. CASE Tick
  BY <1>7 DEF Tick
<1>8. CASE UNCHANGED leaderVars
  BY <1>1, <1>8 DEF leaderVars, ccVars, counters
<1>9. QED
  BY <1>2, <1>3, <1>4, <1>5, <1>6, <1>7, <1>8 DEF LeaderNext

\* Once commanded, the base is commanded in every period; and from its second
\* period of driving on, the robot is tracking no speed above the limit of the
\* curve: for every timeout, provided a limit is not stale a period after it
\* came.
THEOREM LeaderLaneServed ==
  ASSUME Unattended, CurveTimeout >= 1
  PROVE  LeaderSpec => []LaneServed
<1>1. LeaderInit => ServedInv
  BY ServedInit
<1>2. ServedInv /\ [LeaderNext]_leaderVars => ServedInv'
  <2> SUFFICES ASSUME ServedInv, [LeaderNext]_leaderVars
               PROVE  ServedInv'
    OBVIOUS
  <2>1. KillInv' /\ Tracks'
    BY KillStep, TracksStep DEF ServedInv, KillInv, Unattended
  <2>2. Beats' /\ Rested' /\ LimitKnown'
    BY BeatsStep, RestedStep, LimitKnownStep DEF ServedInv
  <2>3. QED
    BY <2>1, <2>2, LimitHeldStep DEF ServedInv
<1>3. ServedInv => LaneServed
  <2> SUFFICES ASSUME ServedInv
               PROVE  LaneServed
    OBVIOUS
  <2>1. Heartbeat
    BY DEF ServedInv, Beats, Heartbeat
  <2>2. ASSUME laneTicks = 2, fired = Nodes
        PROVE  ~CurveSlowdown \/ Limited(tracked)
    <3>1. "cc" \in fired /\ Driven(1)
      BY <2>2 DEF Nodes, Unattended, Driven, Begun
    <3>2. QED
      BY <3>1 DEF ServedInv, LimitHeld
  <2>3. LimitTracked
    BY <2>2 DEF LimitTracked, Limited
  <2>4. QED
    BY <2>1, <2>3 DEF LaneServed
<1>4. QED
  BY <1>1, <1>2, <1>3, PTL DEF LeaderSpec

----------------------------------------------------------------------------
(***************************************************************************)
(* Without lateral, nodes that crash or not, and keys that come at any     *)
(* time: a cruise control that is off does not reach for the base.         *)
(***************************************************************************)

\* There is no lane-keeping node, and what is off has nothing on its way.
Withdrawn ==
  /\ "lat" \notin up
  /\ latOut = None
  /\ off >= 1 => ccOut = None /\ (~start \/ "cc" \notin up)

LEMMA WithdrawnStep ==
  ASSUME ~Lateral, LeaderTypeOK, Withdrawn, [LeaderNext]_leaderVars
  PROVE  Withdrawn'
<1> USE DEF Withdrawn
<1>1. ASSUME UNCHANGED <<latOut, start, off>>, ccOut' \in {None, ccOut}, up' \subseteq up
      PROVE  Withdrawn'
  BY <1>1
<1>2. CASE \/ \E v \in Speeds : Odometry(v)
           \/ \E v \in VRefs : OperatorVRef(v)
           \/ \E t \in TeleopTwists : Teleop(t)
           \/ Pose \/ MotorPower
           \/ \E p \in Paths : LanePath(p)
           \/ \E n \in Crashable : Crash(n)
           \/ UNCHANGED leaderVars
  BY <1>1, <1>2 DEF Odometry, OdomCb, OperatorVRef, SetVRef, Teleop, Pose, PoseCb, MotorPower,
     LanePath, PathCb, Crash, leaderVars, ccVars, latVars, counters
<1>3. CASE Deliver
  BY <1>1, <1>3 DEF Deliver, DeliverLongCmd, CcTaken, DeliverCurve, VCurveCb, CurveTaken,
     DeliverLaneCommand, DeliverCruiseCommand, DeliverTeleop, Command, ccVars, latVars, counters
<1>4. ASSUME NEW b \in BOOLEAN, OperatorStart(b)
      PROVE  Withdrawn'
  BY <1>4 DEF OperatorStart, SetStart, latVars
<1>5. CASE CcTimer
  <2>1. UNCHANGED <<latOut, start, off, up>> /\ "cc" \in up
    BY <1>5 DEF CcTimer, CcControlStep, latVars, counters
  <2>2. ~start => ccOut' = None
    BY <1>5 DEF CcTimer, CcControlStep, NoOdomYet, Idle, StopOnStaleOdom, Drive
  <2>3. QED
    BY <2>1, <2>2
<1>6. CASE LatTimer
  BY <1>6 DEF LatTimer
<1>7. CASE Tick
  <2>1. /\ UNCHANGED <<start, up>> /\ latOut' = None /\ ccOut' = None
        /\ off' >= 1 => ~start \/ "cc" \notin up
    BY <1>7 DEF Tick, Delivered, CcElapse, LatElapse
  <2>2. QED
    BY <2>1
<1>8. QED
  BY <1>2, <1>3, <1>4, <1>5, <1>6, <1>7 DEF LeaderNext

\* With lateral off, a cruise control that was stopped, or was lost, a period
\* ago leaves the topic of the base to the keyboard.
THEOREM OffIsSilent ==
  ASSUME ~Lateral
  PROVE  LeaderSpec => TeleopAlone
<1>1. LeaderInit => Withdrawn
  BY DEF LeaderInit, CcInit, LatInit, Withdrawn, Nodes
<1>2. LeaderTypeOK /\ Withdrawn /\ [LeaderNext]_leaderVars => Withdrawn'
  BY WithdrawnStep
<1>3. LeaderTypeOK /\ Withdrawn
        => [off > 0 => ~(DeliverLaneCommand \/ DeliverCruiseCommand)]_leaderVars
  BY DEF LeaderTypeOK, Withdrawn, DeliverLaneCommand, DeliverCruiseCommand
<1>4. QED
  BY <1>1, <1>2, <1>3, LeaderTypeCorrect, PTL DEF LeaderSpec, TeleopAlone

=============================================================================
