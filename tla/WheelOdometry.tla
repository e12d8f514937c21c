--------------------------- MODULE WheelOdometry ---------------------------
(***************************************************************************)
(* From the encoders of the Kobuki to the odometry it publishes.  The      *)
(* thread of the driver turns every packet into a change of the wheel      *)
(* angles (DiffDrive::update, under a mutex) and of the pose (Odometry,    *)
(* under none), then publishes; the ROS thread resets the joint states,    *)
(* the pose and the wheel angles one after the other.  The robot goes      *)
(* straight on: the pose is the sum of the wheels, in ticks.               *)
(*                                                                         *)
(* Encoders count modulo Modulus.  A packet may be lost, and the robot may *)
(* be switched off and on, which starts its encoders at zero.              *)
(***************************************************************************)
EXTENDS Integers, FiniteSetsExt

CONSTANTS
  Wheels,
  Modulus,     \* 2^16
  MaxMove,     \* ticks of a wheel between two packets that were read
  MaxTravel,   \* bound on the ticks of a wheel since the last reset
  MaxResets    \* bound on the resets

ASSUME OdometryAssumption == Modulus \in Nat \ {0} /\ {MaxMove, MaxTravel, MaxResets} \subseteq Nat

VARIABLES
  encoder,      \* the robot's encoders
  core,         \* the encoders in core_sensors.data
  initialised,  \* init_l and init_r
  lastTick, lastRad,
  velocity,     \* ticks of the last packet with a new time stamp
  poseUpdate,   \* pose_update of the packet under way
  joint,        \* joint_states_
  pose,         \* x of Odometry
  poseReg,      \* the sum the driver thread has computed
  odomPc, resetPc,
  resets,       \* history: how often the odometry was reset
  published,    \* the pose published last
  moved,        \* history: ticks since the last packet that was read
  travelled,    \* history: ticks since the last reset, up to that packet
  rebooted,     \* history: no packet was read since the robot started anew
  shifted,      \* history: wheels were not reset since a packet after a start
  jumped        \* history: the packet under way is the first after a start

odometryVars == <<encoder, core, initialised, lastTick, lastRad, velocity,
                  poseUpdate, joint, pose, poseReg, odomPc, resetPc, resets, published,
                  moved, travelled, rebooted, shifted, jumped>>

Zero == [w \in Wheels |-> 0]
Total(f) == MapThenSumSet(LAMBDA w : f[w], Wheels)
AbsTicks(x) == IF x < 0 THEN -x ELSE x

\* (short)((a - b) & 0xffff)
TickDiff(a, b) ==
  LET d == (a - b) % Modulus IN IF 2 * d >= Modulus THEN d - Modulus ELSE d

OdometryInit ==
  /\ encoder = [w \in Wheels |-> Modulus - 1]
  /\ core = Zero /\ initialised = FALSE
  /\ lastTick = Zero /\ lastRad = Zero /\ velocity = Zero
  /\ poseUpdate = 0 /\ joint = Zero /\ pose = 0 /\ poseReg = 0
  /\ odomPc = "idle" /\ resetPc = "idle" /\ resets = 0 /\ published = 0
  /\ moved = Zero /\ travelled = Zero /\ rebooted = FALSE /\ shifted = FALSE
  /\ jumped = FALSE

----------------------------------------------------------------------------
\* The robot.
Roll(w, d) ==
  /\ AbsTicks(moved[w] + d) <= MaxMove /\ AbsTicks(travelled[w] + moved[w] + d) <= MaxTravel
  /\ encoder' = [encoder EXCEPT ![w] = (@ + d) % Modulus]
  /\ moved' = [moved EXCEPT ![w] = @ + d]
  /\ UNCHANGED <<core, initialised, lastTick, lastRad, velocity, poseUpdate, joint,
                 pose, poseReg, odomPc, resetPc, resets, published, travelled, rebooted, shifted, jumped>>

SwitchedOffAndOn ==
  /\ initialised /\ ~rebooted /\ ~shifted
  /\ encoder' = Zero /\ rebooted' = TRUE
  /\ UNCHANGED <<core, initialised, lastTick, lastRad, velocity, poseUpdate, joint,
                 pose, poseReg, odomPc, resetPc, resets, published, moved, travelled, shifted, jumped>>

----------------------------------------------------------------------------
\* The driver thread.  A packet without core sensors repeats the last ones.
Stream(fresh) ==
  /\ odomPc = "idle" /\ odomPc' = "wheels"
  /\ initialised \/ fresh
  /\ core' = IF fresh THEN encoder ELSE core
  /\ moved' = IF fresh THEN Zero ELSE moved
  /\ travelled' = IF fresh /\ initialised
                  THEN [w \in Wheels |-> travelled[w] + moved[w]] ELSE travelled
  /\ rebooted' = (rebooted /\ ~fresh)
  /\ jumped' = (rebooted /\ fresh)
  /\ shifted' = (shifted \/ jumped')
  /\ UNCHANGED <<encoder, initialised, lastTick, lastRad, velocity, poseUpdate, joint,
                 pose, poseReg, resetPc, resets, published>>

\* DiffDrive::update
UpdateWheels ==
  /\ odomPc = "wheels" /\ odomPc' = "joints"
  /\ initialised' = TRUE
  /\ LET diff == [w \in Wheels |-> IF initialised THEN TickDiff(core[w], lastTick[w]) ELSE 0]
     IN /\ lastRad' = [w \in Wheels |-> lastRad[w] + diff[w]]
        /\ velocity' = IF core = lastTick THEN velocity ELSE diff
        /\ poseUpdate' = Total(diff)
  /\ lastTick' = core
  /\ UNCHANGED <<encoder, core, joint, pose, poseReg, resetPc, resets, published, moved,
                 travelled, rebooted, shifted, jumped>>

\* getWheelJointStates
ReadJoints ==
  /\ odomPc = "joints" /\ odomPc' = "extend"
  /\ joint' = lastRad
  /\ UNCHANGED <<encoder, core, initialised, lastTick, lastRad, velocity, poseUpdate,
                 pose, poseReg, resetPc, resets, published, moved, travelled, rebooted, shifted, jumped>>

\* Odometry::update reads the pose and writes it back.
ExtendPose ==
  /\ odomPc = "extend" /\ odomPc' = "store"
  /\ poseReg' = pose + poseUpdate
  /\ UNCHANGED <<encoder, core, initialised, lastTick, lastRad, velocity, poseUpdate,
                 joint, pose, resetPc, resets, published, moved, travelled, rebooted, shifted, jumped>>

StorePose ==
  /\ odomPc = "store" /\ odomPc' = "publish"
  /\ pose' = poseReg
  /\ UNCHANGED <<encoder, core, initialised, lastTick, lastRad, velocity, poseUpdate,
                 joint, poseReg, resetPc, resets, published, moved, travelled, rebooted, shifted, jumped>>

\* getTransform and getOdometry
PublishOdometry ==
  /\ odomPc = "publish" /\ odomPc' = "idle"
  /\ published' = pose /\ poseReg' = 0 /\ poseUpdate' = 0
  /\ UNCHANGED <<encoder, core, initialised, lastTick, lastRad, velocity, joint, pose,
                 resetPc, resets, moved, travelled, rebooted, shifted, jumped>>

----------------------------------------------------------------------------
\* The ROS thread: subscribeResetOdometry.
ResetPose ==
  /\ resetPc = "idle" /\ resetPc' = "wheels"
  /\ resets < MaxResets /\ resets' = resets + 1
  /\ joint' = Zero /\ pose' = 0
  /\ UNCHANGED <<encoder, core, initialised, lastTick, lastRad, velocity, poseUpdate,
                 poseReg, odomPc, published, moved, travelled, rebooted, shifted, jumped>>

\* Mutant: the ticks are forgotten with the angles.
ResetWheelsAndTicks ==
  /\ resetPc = "wheels" /\ resetPc' = "idle"
  /\ lastRad' = Zero /\ velocity' = Zero /\ lastTick' = Zero
  /\ travelled' = IF odomPc = "wheels" /\ initialised
                  THEN [w \in Wheels |-> TickDiff(core[w], lastTick[w])] ELSE Zero
  /\ shifted' = (odomPc = "wheels" /\ shifted)
  /\ UNCHANGED <<encoder, core, initialised, poseUpdate, joint, pose, poseReg,
                 odomPc, resets, published, moved, rebooted, jumped>>

\* DiffDrive::reset keeps the ticks; a packet that is read already and not yet
\* taken over counts from zero.
ResetWheels ==
  /\ resetPc = "wheels" /\ resetPc' = "idle"
  /\ lastRad' = Zero /\ velocity' = Zero
  /\ travelled' = IF odomPc = "wheels" /\ initialised
                  THEN [w \in Wheels |-> TickDiff(core[w], lastTick[w])] ELSE Zero
  /\ shifted' = (odomPc = "wheels" /\ shifted)
  /\ UNCHANGED <<encoder, core, initialised, lastTick, poseUpdate, joint, pose, poseReg,
                 odomPc, resets, published, moved, rebooted, jumped>>

OdometryNext ==
  \/ \E w \in Wheels, d \in {-1, 1} : Roll(w, d)
  \/ SwitchedOffAndOn
  \/ \E fresh \in BOOLEAN : Stream(fresh)
  \/ UpdateWheels \/ ReadJoints \/ ExtendPose \/ StorePose \/ PublishOdometry
  \/ ResetPose \/ ResetWheels

----------------------------------------------------------------------------
OdometryTypeOK ==
  /\ encoder \in [Wheels -> 0 .. Modulus - 1] /\ core \in [Wheels -> 0 .. Modulus - 1]
  /\ lastTick \in [Wheels -> 0 .. Modulus - 1]
  /\ odomPc \in {"idle", "wheels", "joints", "extend", "store", "publish"}
  /\ resetPc \in {"idle", "wheels"}

\* The wheel angles are the ways the wheels went since the reset, across the
\* wrap of the encoders, lost packets and resets at any moment; after a restart
\* of the robot the next reset makes them so again (diff_drive.cpp:66).
WheelsExact ==
  odomPc # "wheels" /\ ~shifted => lastRad = travelled

\* The odometry never jumps: what is published next is a packet's way from
\* what was published last, or from zero after a reset, unless the robot was
\* restarted, whose new encoders are taken for a movement.
PublishedSteps ==
  [][PublishOdometry =>
       \/ jumped
       \/ AbsTicks(published' - published) <= Total([w \in Wheels |-> MaxMove])
       \/ AbsTicks(published') <= Total([w \in Wheels |-> MaxMove])]_odometryVars

=============================================================================
