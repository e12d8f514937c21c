# A formal model of the Sirius platoon: controllers, robots, lidar and the link

The repository drives two Kobuki robots with a lidar each. The leader keeps a
lane at a speed the operator sets; the follower keeps a gap to it, along the
same lane, from telemetry sent over UDP. Between the operator and the motors
there are a dozen processes, each with a timer of its own and timeouts on its
inputs, and no process supervises the others. Whether the robot stops when it
has to is therefore a property of no file: it is a sum of timeouts along a
chain, and it depends on what each node does when it hears nothing.

Around that chain stands what it relies on: the driver of the base with its
threads, a serial line and a robot that may be switched off; the nodes that
live on its events; and, on the side of the sensors, the SDK and driver of the
lidar and the four nodes that turn its points into a pose. These are modelled,
too, as far as they keep state and their order of events matters.

Paths below are relative to `src/workspace/src`.

## 1. Inventory

| Component | Source | State | Operations | Modelled in |
|---|---|---|---|---|
| Cruise control (leader) | `swarm_controller/.../swarm_cc_mpc_node.py` | `start`, `v_ref`; last odometry and curve limit with stamps; `_was_started`; `_v_cmd_published` | two callbacks, two parameters, one timer | `CcNode` |
| Adaptive cruise control (follower) | `.../swarm_acc_mpc_node.py` | the same with the last `Telemetry` for odometry | two callbacks, one parameter, one timer | `AccNode` |
| Lane keeping (both) | `.../swarm_lat_mpc_node.py`, `submodules/frenet.py` | last `long_cmd` with stamp, pose, path, index of the last projection, turn rate | three callbacks, one timer | `LatNode` |
| acc_telemetry (follower) | `.../acc_telemetry.py` | four stamped inputs, own odometry, path | five callbacks, one timer | `AccTelemetry` |
| lane_publisher (leader) | `.../lane_publisher.py` | pose to anchor the lane, timer | one callback, one timer | `LaneFeed` (timer and throttle) |
| v2v_bridge | `v2v_bridge/v2v_bridge/*.py` | throttle stamp, sequence number; fragments of one message per channel | subscription, drain loop, restarts | `V2VBridge` |
| Launch wiring, keyboard | `tvp_launch/.../tvp_core_control.launch.xml`, `teleop/teleop/main.py` | arguments `lateral`, `longitudinal` | | `LeaderStack`, `FollowerStack` |
| Velocity path of the base | `kobuki_node/src/kobuki_ros.cpp`, `kobuki_core/src/driver/kobuki.cpp` | `is_enabled`, the command the driver repeats | velocity command, motor power | `KobukiBase` (as the stacks see it) |
| Kobuki driver: threads | `kobuki.cpp`, `diff_drive.cpp` | port, watchdog, `point_velocity`, speed and radius, requests for version and gains | `spin`, callbacks of the node, cable and power | `KobukiDriver` |
| Kobuki driver: stream | `packet_finder.cpp`, `kobuki.cpp`, `core_sensors.cpp` | state of the search, buffer, bytes left | `update`, loop over sub-payloads, `fixPayload` | `PacketFinder` |
| Kobuki driver: odometry | `diff_drive.cpp`, `kobuki_node/src/odometry.cpp` | last ticks, wheel angles, pose | packets, resets by another thread | `WheelOdometry` |
| Kobuki driver: outputs | `command.cpp`, `acceleration_limiter.hpp` | `gp_out`; velocity sent last | lamps, pins, power sources; limit | `KobukiCore` |
| Auto docking | `kobuki_auto_docking`, `dock_drive*.cpp` | goal handles, `DockDrive`: state, IR history | goal, cancel, a detached thread per goal, sensors, debug modes | `AutoDocking` |
| Kobuki events | `event_manager.cpp`, `battery.cpp` | last core sensors, battery, charger | edges to topics | `RobotEvents` |
| Safety controller | `kobuki_safety_controller` | six flags, extension, enabled | events, enable, disable, reset, timer | `SafetyController` |
| Random walker, bumper cloud, keyboard | `kobuki_random_walker`, `kobuki_bumper2pc`, `kobuki_keyop` | flags and turn; cloud and listeners; velocity and power shared by two threads | events, timers, destructor | `KobukiNodes`, `KeyOp` |
| Preintegration and fusion | `lio_sam/src/imuPreintegration.cpp` | two queues, state, bias, last lidar pose | IMU, lidar odometry, optimizer reset | `LioOdometry` |
| Mapping | `lio_sam/src/mapOptmization.cpp` | key poses, graph, cached submaps, loops, incremental odometry | scan, GPS, loop thread | `LioMapping` |
| Projection and features | `lio_sam/src/imageProjection.cpp`, `featureExtraction.cpp` | three queues; rings and columns | IMU, odometry, cloud | `LioProjection` |
| Lidar: file and sockets | `livox_sdk/.../parse_cfg_file.cpp`, `params_check.cpp`, `device_manager.cpp` | configurations of types and lidars, sockets | init, datagrams of each port | `LidarNetwork` |
| Lidar: IO loop | `livox_sdk/sdk_core/base` | tasks posted, sockets polled, wake-up pipe | post, poll, end | `LidarNetwork` |
| Lidar: commands | `command_handler/*`, `livox_lidar_callback.cpp` | commands awaiting an answer, bits of settings to be answered | detection, answers, timeouts, settings | `LidarLink` |
| Lidar: messages | `build_request.cpp`, `command_impl.cpp`, `parse_lidar_state_info.cpp`, `sdk_protocol.cpp` | sequence number | build, pack, parse | `LidarCodec` |
| Lidar: frames | `livox_ros_driver2/src/{comm/pub_handler,lds,lddc}.cpp` | packets, points, ring of each lidar, semaphore | SDK callback, process thread, poll thread | `LidarFrames` |
| Lidar: upgrade | `upgrade/livox_lidar_upgrader.cpp` | state machine, offset, tries | answers, timeouts | `LidarUpgrade` |
| Lidar: logs | `logger_handler/*.cpp` | queue, files, current file | packets, writer, removal, stop | `LidarLogs` |

Not modelled: see section 6.

### How they interact

```
            parameters start, v_ref            lane_publisher     LIO: pose
                     |                               | path            |
 wheel odometry -> CcNode  -- long_cmd (Twist) -->  LatNode <----------+
                     ^                               |  |
                     +------- v_curve (Float64) -----+  | cmd_vel
                                                        v
 keyboard, safety controller, docking ---> cmd_vel --> kobuki_node -> driver -> base

 leader:   pose, velocity, path --> v2v_sender ))) UDP (((  v2v_receiver
 follower: mirrored topics + own pose + own odometry --> AccTelemetry
           AccTelemetry -- Telemetry --> AccNode -- long_cmd --> LatNode --> base
           AccTelemetry -- path --> LatNode

 base -> PacketFinder -> sub-payloads -> odometry, events -> safety, walker, cloud
 lidar ))) UDP ((( IO loop -> handlers -> commands, logs, points -> frames
       -> projection -> features -> mapping -> preintegration -> pose
```

Nodes talk by messages with a queue of their own, and each Python node runs
its callbacks one at a time, so there an action is one callback. The C++
programs are different: the Kobuki node, the docking node, the keyboard node,
the mapping node, the SDK and the lidar driver each have two or more threads
on shared members, and their actions are the stretches between two accesses
another thread can see, or what is done under one lock.

### What is hard here

* **Ages that add up.** Each node tolerates an input for its own timeout. An
  input may go stale just after a node used it, that node may die just after
  it published, and the next node still takes its message for fresh.
* **Two processes that read each other.** The cruise control reads `v_curve`,
  which lane keeping publishes only while it has a fresh `long_cmd`.
* **Silence as a signal.** With `start` off the cruise control publishes
  nothing; lane keeping turns that silence into a stop. The base has no
  watchdog.
* **Rates chosen in three places**, for the lane.
* **Unreliable links.** Datagrams are lost, repeated and reordered; sender and
  receiver restart independently. A serial byte is damaged or late. Answers of
  a lidar are lost, late, or come before the command they answer is known.
* **Shared members without a lock.** A velocity is two fields, written by one
  thread and read by another; the docking threads and the sensor callback
  drive one state machine; a destructor stops what a thread still drives.
* **Edges for states.** The safety controller and the walker know the sensors
  only from events, through queues that forget the oldest.
* **Corrections of the past.** The optimizer moves what was already used: the
  state the IMU is integrated from, the key poses the map was built of.
* **Work handed from thread to thread**: packets to frames to rings, log
  packets to files, tasks to the IO loop, and the signal that goes with them.

`PROJECT.json` lists the hazards line by line, with the properties that cover
each, or why none does.

### What makes each component correct

* Leader: released or dead, it stands still within a known number of periods
  and stays there; without odometry it does not move along the lane; once
  commanded it is commanded in every period, at no more than the limit of the
  curve, without jumps; with a start that stays on it drives for good.
* Follower: the same for its kill-switch; no input that stays away keeps it
  moving, whichever nodes crash on the way; invalid telemetry stops it.
* Bridge: only whole messages that were sent come out, and those that arrived
  whole do; nothing is made up and the receiver survives when processes restart.
* Base: executes nothing while switched off and nothing old when switched on;
  gets back in step with the stream; its odometry is what the wheels rolled,
  its outputs what was asked for.
* Docking: a goal is told a success only if the robot has docked since; every
  goal ends.
* Event nodes: their picture of the sensors is the last one sent; they fall
  silent, or drive on, when the cause is gone.
* Localization: the motion between corrections is counted once, the map
  follows corrections, odometry is what was matched, and no cloud is published
  without motion that covers it.
* Lidar: samples only after it has answered to the user's settings, and gets
  there; messages are read as they were meant; frames, logs and firmware are
  whole and in order; nothing waits for ever.

## 2. The modules

| Module | What it is |
|---|---|
| `ControlTypes` | ages of inputs, freshness, clipping |
| `CcNode`, `AccNode`, `LatNode`, `AccTelemetry` | one node each: callbacks, timer with each of its outcomes, what it has published |
| `KobukiBase` | the command the driver holds, and motor power |
| `LeaderStack`, `FollowerStack` | the nodes composed: who reads whose messages, timers, delivery, crashes, the operator, counters for the properties |
| `DeadMan` | abstract specification, for the follower: the robot moves only while it is granted to, or within a grace period |
| `LaneFeed` | `AccTelemetry` fed by lane publisher and sender, each at its rate |
| `V2VBridge` | one channel: throttle, fragments, network, Reassembler, restarts |
| `KobukiDriver` | driver thread against ROS callbacks, cable and power |
| `PacketFinder`, `WheelOdometry`, `AutoDocking` | parts of the driver and the docking node that share no state |
| `KobukiCore` | output pins, acceleration limiter, and these parts each by itself |
| `RobotEvents` | edges of sensors to topics to subscribers; battery and charger |
| `SafetyController`, `KeyOp` | one node each |
| `KobukiNodes` | the random walker and the bumper cloud; the controllers composed with the events; the nodes each by itself |
| `LioOdometry`, `LioMapping`, `LioProjection` | the files of `lio_sam`; the last has projection and features |
| `LidarNetwork` (with the IO loop), `LidarLink`, `LidarCodec`, `LidarFrames`, `LidarUpgrade`, `LidarLogs` | the parts of SDK and driver |
| `Perception` | these and `LaneFeed`, each by itself |
| `MC*` | instances for TLC |
| `*_proofs` | theorems |

`KobukiCore`, `KobukiNodes` and `Perception` are not products: the variable
`part` is chosen once, the part it names runs, and the state of the others
stays as it was. So many independent machines are checked in one run, at the
cost of the sum of their states, and a property of one is a property of all.

### State and actions against the code

Variables carry the names of the code without underscores (`_v_cmd_published`
is `vCmd`, `pending_tasks_` is `pendingTasks`); the declaration of each says
which member it is. Actions and operators are named for the functions they
model (`OdomCb`, `WaitForPayloadAndEtx`, `CorrectPoses`, `ParseStateInfo`),
and `PROJECT.json` maps each to its lines.

* **Python nodes.** A callback is an operator of its node. `_control_step` is
  split by its early returns into disjuncts with exclusive guards: `NoOdomYet`,
  `Idle`, `StopOnStaleOdom` and `Drive` in `CcNode`; `Silent`,
  `StopOnBadTelemetry` and `Follow` in `AccNode`; `LatIdle`,
  `StopOnStaleLong` and `KeepLane` in `LatNode`. A stamp is modelled by the
  age of the input in control periods, up to one beyond its timeout.
* **V2VBridge** follows `feed` by its outcomes: `FeedSingle`, `FeedPart`,
  `FeedLast`, and `FeedKeyError`, where the buffer holds as many fragments as
  the message has but not its indexes.
* **LaneFeed** has a timer for the publisher and one for `acc_telemetry`; the
  throttle of the sender is the guard of `LaneSent`. `outage` counts the
  periods since valid `Telemetry` was interrupted.
* **KobukiDriver** has a program counter and registers for each of the two
  threads: `ReadV`, `ReadW`, `EncodeDrive` and `Send` are the same code run by
  either (`sendBaseControlCommand` from `spin` and from `disable`), with the
  other thread in between; `WriteV` and `WriteW` are `setVelocityCommands`.
* **PacketFinder**: one call of `read` and `update` per step, `NumberOfDataToRead`
  and the three states of the search as in the code; then the loop over the
  sub-payloads with the readers of fixed, two-byte and counted headers.
* **AutoDocking** has a program counter per goal thread and one for the
  executor: `RaiseFlags`, `ResetState`, `ReadState`, `CheckEnabled`, `End`,
  `DisableDrive` are the accesses of `execute`; an update goes on when the drive is
  enabled, reads the state of the search in the next step and writes its
  successor in a third, and between any two of these other threads run. The
  search itself (`Scan`, `FindStream`, `GetStream`, `Aligned`,
  `Bumped`) is a function of the state that was read and the signals.
* **RobotEvents** compares packets and puts edges in queues of depth `Depth`;
  `SafetyController` and the walker in `KobukiNodes` take them in any order
  between topics.
* **LioOdometry** counts stamps: a measurement is its time, a preintegration
  the time it holds. **LioMapping** puts poses on a line; what matching finds
  is a choice. The loop thread takes its copies in `LoopCopy` and uses them in
  `LoopDetect` and `LoopAlign`, with scans in between.
* The IO loop in **LidarNetwork** separates putting down a task from waking the loop, and the
  stretches of a turn: poll, take, run. **LidarLink** keeps commands by the
  thread that registers them: a command is first in the air and then known
  (`AddCommand`), so that its answer may come first; a setting that is answered
  is `applied` or `refused`, which the callbacks do not tell apart.
  **LidarCodec** reads a value with the length the code reads it with, which
  may be another than that of its field. **LidarFrames** and
  **LidarLogs** have one action per thread and queue, **LidarUpgrade** one per
  event of the state machine.

### What is abstracted

* **Time in the stacks.** All nodes run at the same period (`ts` = 0.05 s in
  all parameter files). In one tick the timer of each running node fires once,
  in any order, with callbacks anywhere between; a message is delivered in the
  tick it was published in, before or after the reader's timer. A timer that
  drifts over a period boundary is covered only in so far as two firings of
  one node may be nearly no or nearly two periods apart. Queues of length above
  one are not modelled there: with one firing per tick there is at most one
  message per topic.
* **Numbers.** Speeds and turn rates are integers, encoders count modulo a
  small number, a sequence number wraps at a small maximum, poses are points
  on a line, angles and curvature are kinds of points.
* **The MPCs, scan matching, optimizer and loop search** are any choice within
  what the code around them enforces; properties rely on no more.
* **Paths and curvature.** A path is its number of points and whether it is
  closed; its limit is any of `Curves`.
* **Content of messages** over the bridge: a chunk is the pair of its message
  and index. Datagrams of the lidar: keys with their lengths, the length and
  number of the wrapper, and damage that a checksum sees, or may not see: a
  datagram cut short is taken if the memory behind it happens to hold its rest.
  A value that does not fill its field, and fields behind one that is too long,
  count as not known, whatever they hold. Checksums themselves
  are modelled only for the serial stream, where the sum is an XOR that
  damaged packets may meet.
* **Formatting, logging, parameters read once**, and conversions of points to
  the formats of topics are left out.

Each module's header says what else it leaves open.

## 3. The runs

| Run | Asks | Answer | Distinct states |
|---|---|---|---|
| `leader_lane` | with lane keeping and a cruise control that may crash: kill-switch, silence, service of the lane, smoothness, index of the projection over replaced paths; with fairness: does it drive for good, stop for good | holds | 1 585 516 |
| `leader_direct` | without lane keeping: is the keyboard left alone when the cruise control is off? | holds | 33 016 |
| `leader_watchdog` | does the base notice that commands stopped coming? | violated | |
| `lane_feed` | with the shipped rates and timeout: does valid telemetry stay valid on a perfect network? | violated | |
| `follower_safety` | silence of an input, invalid telemetry, curve limit, smoothness and `DeadMan`, with two nodes that may crash | holds | 4 749 780 |
| `v2v_bridge` | loss, repetition, reordering, restarts and numbers that come round: whole messages out, all that are complete, nothing invented, and when does the receiver survive | holds | 1 596 600 |
| `v2v_survives` | the receiver survives messages of different lengths and a restart | violated | |
| `kobuki_driver` | two threads on one velocity while cable and power come and go | holds | 272 274 |
| `kobuki_core` | stream, odometry, outputs, docking and limiter, each by itself | holds | 561 166 |
| `kobuki_docking` | has a goal that succeeded arrived since it was accepted? | violated | |
| `kobuki_nodes` | events through queues to the safety controller and the walker; cloud, power, keyboard | holds | 352 002 |
| `perception` | localization, the lidar with SDK and driver, the lane feed, each by itself | holds | 254 971 |

A property of a run over several parts is a conjunction, one conjunct for each
part it is about:

| Property | Conjuncts | What they say |
|---|---|---|
| `DriverSafety` | types, `AtMostOneStaleSend` | after `disable()` at most one command that the driver thread had copied before |
| `DisabledHoldsZero` | | a disabled driver holds zero, both halves |
| `DriverProgress` | `Settles`, `OfflineReported`, `AnswersArrive` | a command that stays reaches the base as it was set; a lost base is reported; questions are answered |
| `StreamRead` | `CoreTypeOK`, `InStep`, `KnownTaken` | in step again a bounded number of bytes after damage; known sub-payloads are taken whatever stands before them |
| `BaseMirrored` | `WheelsExact`, `OutputsAsWanted` | wheel angles are what the wheels rolled since the last reset, unless the base was restarted; outputs of a base that hears are what was asked for |
| `SucceededDocked` | | a goal succeeds only if contacts ended the search since it was accepted, or an update that overlaps its reset wrote the `DONE` of an earlier search over it: the one way to `kobuki_docking`'s counterexample |
| `CoreSteps` | `PublishedSteps`, `NoOvershoot` | the published pose moves by a packet or goes to zero; the limiter stays between old and asked speed |
| `CoreProgress` | `PayloadEnds`, `GoalsEnd`, `SpeedReached` | loops, goals and ramps end |
| `ControllersFollow` | `FlagsFollow`, `StandsWhileDropped` | flags kept from edges are the sensors as last told |
| `KeyboardStops` | `ExitStops`, `PowerAgrees` | an ended keyboard node leaves the base at rest; it knows the power |
| `SensorsTold` | `NodesTypeOK`, `CloudCurrent`, `PlugTold` | listeners hold the current cloud; the plug is told as it is |
| `EscapesFromSensed` | | the safety controller moves away from what is sensed |
| `NodesProgress` | `FallsSilent`, `DrivesOn`, `BaseFollows` | without a cause silence, without obstacles on, the base follows the last key |
| `MotionCounted` | `OdometryConsistent`, `DeskewCovers`, `FeaturesSound` | motion between corrections counts once; a published cloud has motion all over it; features keep their distance and ring |
| `MapConsistent` | `CacheCurrent`, `PathShowsKeys`, `LoopsJoinKeys` | a scan is matched against the corrected map; the path is that of the key frames; a loop joins two of them, once |
| `LidarObeys` | `SamplingConfigured`, `UpgradeSound` | every setting answered, taken over or refused, before points, and none of another lidar; a firmware is checked, and an upgrade that had begun called a success, only when it is whole |
| `LidarTransports` | `NetworkSound`, `LoopSound`, `MessagesRead`, `FramesWhole`, `LogsInOrder` | right handler, read socket; every key of a message found, with its value if that has the length of its field; frames and files whole and in order |
| `OdometrySteps` | `IncrementIsMatched`, `ScansOnce` | incremental odometry moves by what was matched; scans leave once, in order |
| `LidarProgress` | one for each place that can wait | no socket, lidar, frame, upgrade or log waits for ever |

### Bounds, and why they are enough

* **Timeouts.** One or two periods stand for the ten of the code (0.5 s at
  0.05 s). The code compares an age with a timeout and nothing else, so an age
  is either fresh, fresh for the last time, or stale, and a timeout of two has
  all three with messages under way. The theorems below show that for the
  leader nothing depends on the number.
* **Tightness.** `KillStops`, `SilenceStops` and `InvalidStops` state the
  smallest bound: each fails in TLC with one period less.
* **Speeds.** Commands 0..2, measured speeds 0 and 3: slower than, equal to
  and above every limit. One curve limit, 1, in the middle.
* **Counters** (`off`, `silence`, `invalid`) stop at caps above the value
  their property compares with. They are reset as the code's inputs come and
  feed back into no action. `staleSends` of the driver stops at 2, one more
  than is allowed.
* **Paths** of 1, 4 and 5 points, closed and open, with a window of 1: longer
  and shorter than the window, replaced in any order.
* **Inputs of acc_telemetry.** Two of four: they are treated alike but for
  the path, which is one of the two.
* **Bridge.** Messages of 1, 2 and 3 fragments, three sends, three datagrams in
  flight, restarts of both ends, numbers modulo 2 so that they come round; what
  is said of numbers that do not repeat is checked on the behaviours in which
  they have not yet. `v2v_survives` needs two sends and four datagrams.
* **Driver.** Two twists, straight on and an arc: their halves mixed give two
  commands nobody set. A short of eight bits makes one of them saturate. One
  request stands for version and gains, which are asked for alike.
* **Stream.** Bytes 0..7 with the two of STX among them, three payloads that
  hold bytes of STX, one disturbance at any byte; sub-payloads with a fixed, a
  two-byte and a counted header, of lengths right, wrong and cut short.
* **Odometry** counts modulo 4 and moves at most one tick per packet (or one
  lost packet), so that the counter wraps within the run; one reset.
* **Docking.** Two goals, one after or beside the other; signals of three
  places around the dock; a contact, a debug mode. An update of the drive may
  be held up between any two of its steps while goals end and begin.
* **Events.** Queues of depth 1, the hardest; up to two sensors of a kind,
  all their combinations; voltages around both thresholds.
* **Localization.** Twelve IMU periods with four scans, irregular but a period
  apart at least, as matching is throttled; a reset of the optimizer after two
  keys; four scans with up to four key frames, a loop, a GPS fix, a cache of
  two; clouds of two rings with six columns. The IMU may lose one message in a
  row: a gap wider than the window around a scan would leave its ends bare.
* **Lidar.** Two lidars with ports right or swapped in the file; two sockets
  with room for one in a poll; one lost or late message per command; a ring of
  two frames, firmware of three parts with two tries and three faults; four
  log packets, one of them late or lost, over two files.
* **Messages of the lidar.** Up to three keys of five, one of them not known, a
  setting with a value a byte too long, an address too short or of its length.
* **Lane feed** uses the numbers of the launch files, in `perception` and in
  `lane_feed`: a lane every two periods, a throttle and a timeout of ten.

`CHECK_DEADLOCK FALSE` stands where a part really ends: sends, faults, scans
and packets are bounded, an upgrade, a goal or a shut-down thread is done.

### Fairness

Every run with a liveness property states what it assumes:

* `leader_lane`: weak fairness of both timers and of the clock (a ROS executor
  keeps firing them), of the delivery of each topic (local topics, reliable by
  default), and of odometry, pose and paths (sensors keep publishing). Nothing
  is assumed of the operator: `DrivesForGood` and `StopsForGood` say in their
  premise what the operator does, and `DrivesForGood` that both nodes are up. A
  cruise control that waited for a curve limit before its first command would
  wait for ever, and TLC finds that.
* `kobuki_driver`: weak fairness of the driver thread, of a callback that has
  begun, of the clock, of opening the port, and of the packets of a base that
  is plugged and powered. Strong fairness of a request that arrives and of an
  answer to it: both may be lost, and the driver asks again with every packet.
  Nothing is assumed of cable and power; the properties except their coming
  and going.
* `kobuki_core`: the loop over sub-payloads, each goal's thread, the clock
  and the sends of the limiter. Nothing of the robot in front of the dock:
  `GoalsEnd` speaks of goals whose drive is switched off.
* `kobuki_nodes`: the timers, the executor for each topic, the keyboard thread
  and timer, and the base that takes what was sent. Nothing of the world.
* `perception`: the threads of SDK and driver, the timer of commands, and a
  lidar that answers what reaches it and sends points. How many messages are
  lost is bounded by a constant, as a network that loses all of them allows no
  progress.

The fairness is weak but for the requests named: each of the other actions
stays enabled until it happens or its premise is gone.

## 4. The proofs

`tlapm` checks every step of the following; constants are arbitrary up to the
named assumptions (`CcAssumption`, `LatAssumption`, `DriverAssumption`,
`MappingAssumption`, `LinkAssumption`, `UpgradeAssumption`, ...), which state
types and orders of limits. TLC evaluates them in every run. Each inductive
invariant below was checked by TLC on the instance of its run before it was
proved. Where a theorem asks for more, it says so itself, and the instance of
the run satisfies it; assumptions that are about the world are listed, too:

| Hypothesis | What it means | Asked by |
|---|---|---|
| `Unattended` | the leader with lane keeping, no keyboard; only the cruise control may crash | what is proved of the leader's time limits |
| `Steady` | only `acc_telemetry` and the cruise control of the follower may crash | everything of the follower but its types |
| `VCmdMin = 0` | the robot is not told to reverse, as in all parameter files | `SmoothSpeed`, `SpeedBounded` |
| `CurveTimeout >= 1` | a limit of the curve is not stale one period after it came | `LaneServed`, `SpeedBounded` |
| `OffCap`, `InvalidCap` large enough | the counters of the model reach what the property compares them with | `DeadManSpec`, `SilenceStops` of the follower |
| `InputTimeout # 0` | an input that has just come is not stale | `OutageBounded` |
| `OdometryAssumption` | matched scans are an IMU period apart at least; a scan is matched later than the messages that may still wait in a queue | `MotionBetweenScans` |
| `ProjectionAssumption` | no gap between two IMU messages is wider than the window around a scan | `CloudsAreCovered` |
| `FeaturesAssumption` | there is a margin at the ends of a ring; the code has 5 points | `FeaturesApart` |
| `2 * MaxMove < Modulus` | no wheel moves half the range of its encoder between two packets that are read | `BaseMirrored`, `CoreSteps` |
| `BytesAssumption` | bytes are closed under XOR; the length of a payload fits in one | everything of the stream |
| `NoFalseStart` | the two bytes of STX differ, and stand next to each other only at the start of a packet | `StreamRead` |
| `Bounds` | `Recovery` packets of the least length are longer than what the largest size asks for: 257 bytes for this robot | `StreamRead` |

`NoFalseStart` cannot be dropped: with a payload that holds STX, a finder that
a damaged size left in the middle of packets may take the same wrong start
again and again, and TLC finds `InStep` violated when `<<5, 2, 1>>` is among the
payloads. The documents of the robot do not say that payloads are free of STX,
so the theorem is about streams that are.

That lane keeping itself does not crash is no technicality: the run
`leader_watchdog` shows that nothing holds when it does.

* **`LatNode_proofs`** has no theorem of its own but the lemmas on ages,
  limits and steps of lane keeping that both stacks use.
* **`LeaderStack_proofs`**
  * `LeaderTypeCorrect`, with or without lane keeping and the keyboard, with
    any node crashing; `ProjectionStaysOnPath` (`IdxInPath`) likewise: a path
    that replaces another takes the index of the last projection with it.
  * `KillSwitchStops` (`KillStops`), `OdometrySilenceStops` (`SilenceStops`),
    `LeaderLaneServed` (`LaneServed`), under `Unattended`.
  * `LeaderIsSmooth` (`SmoothSpeed`), with lane keeping, any node crashing.
  * `OffIsSilent` (`TeleopAlone`), without lane keeping.

  `KillStops` is not inductive: it says nothing of commands under way. The
  inductive invariant `KillInv` follows them: `OneVoice` (only lane keeping
  commands the base, and not before it is ready), `LongCmdAges` (a cruise
  control that is off has nothing under way, and the last `long_cmd` is at
  least as old as the time since the release, up to the timeout), and
  `GraceEnds` (in the last period of grace only a stop can be under way, and
  it has been delivered before the period ends).

  For the silence of odometry two ages are followed through two processes:
  `SilenceInv` adds to `KillInv` that the odometry held is as old as the
  silence (`OdomAges`), that from the timeout on no speed is published and the
  last one published ages at lane keeping (`StaleIsSlow`), and that when it is
  stale there too the last command under way has no speed (`SilenceEnds`). The
  base may still turn: lane keeping steers while a `long_cmd` of speed 0 is
  fresh.

  `SmoothSpeed` rests on `Tracks`: while started, the integrator is at the
  speed last published, wherever that is on its way. `ServedInv` adds `Beats`
  (a base once commanded is so before each period ends), `Rested`,
  `LimitKnown` and `LimitHeld` (a cruise control that runs holds a limit of
  this or the last period, so what it tracks is below one).
* **`FollowerStack_proofs`**
  * `FollowerTypeCorrect`, for every set of nodes that may crash.
  * `FollowerIsDeadManAndSmooth` (`StopsDeadStartsSmooth`): the argument of the
    leader with `AccNode` in place of `CcNode`. The steps of the refinement come
    from the same invariant: a tick that ends the grace period finds the base
    stopped.
  * `InvalidTelemetryStops` (`InvalidStops`): `InvalidInv` follows the age of
    the last valid `Telemetry` (`TeleAges`), the last speed published from it
    (`InvalidIsSlow`) and the last command made of that (`InvalidEnds`).
  * `InputSilenceStops` (`SilenceStops`): a chain of one more process.
    `StampInv` ties the stamp of the watched input to its silence, whatever
    node crashes, and shows that the counter `invalid` of the next link lags
    behind `silence` by the timeout of the input. The two links are composed
    by adding the timeouts, which is why the bound is their sum.
  * `FollowerSpeedBounded` (`SpeedBounded`): `CurveInv` counts the periods in
    which the robot keeps its lane. After one the cruise control knows a limit;
    with it, it publishes no speed above (`SlowSoon`); and when the last
    `long_cmd` of a cruise control that died before is stale at lane keeping,
    what the base holds is below, too (`SlowAtLast`). That takes
    `LaneSettled`, which is `LongTimeout + 3` periods.
* **`V2VBridge_proofs`**
  * `TypeCorrect`; `ChannelIntegrity` (`Integrity`): while no number has been
    used twice only whole sent messages are delivered, for every number and
    length of messages. The inductive invariant `BridgeInv` says that a
    datagram in flight, and each fragment kept, belongs to the message sent
    under its number.
  * `CompleteIsReturned` (`Reassembled`): a message whose fragments were all
    fed, with no other long one in between, was delivered. `FedKept` says that
    fragments fed of the current number and not yet returned are kept.
  * `NothingInvented` (`NoInvention`), restarts and wrap included, for
    messages of any length: `SentInv` says that every fragment kept was sent
    at its index, and a message is joined only with the fragment that gave it
    its length.
  * `EitherIsSurvived` (`SurvivesEither`): the receiver ends only if a number
    was used twice and the messages differ in length. With either excluded, as
    many fragments as the count are those with the indexes below it.
* **`KobukiDriver_proofs`**
  * `DriverKeepsSafe`, `DisabledStaysAtRest`: `DriverSafety` and
    `DisabledHoldsZero`, for every set of twists, every bias and width of a
    short, every order of the two threads and every behaviour of cable and
    power. `DriverInv` consists of types and of two parts. `RosInv` follows
    the callback that stops the base: the halves of `point_velocity` it has
    passed are zero, and nobody else writes them while the motors are off.
    `SpinInv` follows the driver thread: once it has sent a command from
    before, what it has read since is zero, half by half, so that the next
    command it encodes is the stop. That the code encodes rest as a stop
    (`EncodeRest`) is a lemma on its division and clipping.
* **`KobukiCore_proofs`**
  * `DockedOrOvertaken` (`SucceededDocked`), for any number of goals with a
    thread each. `DockInv`: while the thread of a goal looks for the end of its
    search, a drive that is done, or about to be by an update that is under way,
    got there since the thread started it or was written over its reset. The
    search may do what it likes but lose its state (`StateKept`).
  * `BaseIsMirrored` (`BaseMirrored`), for any wheels, range of the encoder,
    pins and resets. `WheelInv`: the encoder is ahead of the last packet by
    what the wheel moved since, round the wrap (`EncodersAhead`), and the
    angle plus what a packet that was read will add is the way it rolled
    (`AnglesFollow`). That the difference of ticks is the movement
    (`TickDiffOfMove`) is where the hypothesis on `MaxMove` is needed.
    `WantedInv` reads each output off the word it is kept in, so that setting
    one leaves the others (`ShownBits`).
  * `CoreStepsSmall` (`CoreSteps`), for any finite set of wheels.
    `LimiterStaysBetween`: the speed sent lies between the last one and the
    one asked for (`NoOvershoot`), for every limit and pause. `StepsInv`
    follows the pose through the places of the driver thread: what is computed
    from the last pose is a packet's way from what was published last or, when
    a reset comes between reading and writing back, from zero, or the reset is
    lost. A packet's way is a sum over the wheels, bounded by induction over
    the set of them (`TotalBounded`).
  * `StreamIsRead` (`StreamRead`), for payloads, disturbances and reads of any
    kind and number. `CatchingUp` says where the finder is after k bytes of
    the last packet: it follows the packet (`Following`), it is past its start
    and looks for the next (`Looking`), or it counts bytes because of a wrong
    size (`Counting`). What it still counts, the bytes of this packet and the
    length of those that came since the disturbance stay below the largest
    size, so it cannot count for longer than `Recovery` packets. What it looks
    at then is no STX until the next packet starts.
  * `UndisturbedIsFound`, without these bounds and whatever the payloads hold:
    until the first disturbance every packet is found as it was sent, in reads
    of any length. `InFrame` is the place in the packet that the bytes read so
    far lead to (`AtByte`); that the checksum of a whole packet is zero is by
    induction over its bytes (`CheckSumAppend`).
  * `KnownAreTaken` (`KnownTaken`), for every payload: `PayloadInv` says that
    what is left starts where a sub-payload does, and that the headers so far
    are the known ones at the starts before it.
  * `CoreTypesKept` (`CoreTypeOK`).
* **`KobukiNodes_proofs`**
  * `NodesFollow` (`ControllersFollow`), for queues of any depth. `FollowInv`:
    of a sensor with an event on its way, the last one says what is sensed; of
    one without, the flag does, unless its last event was lost. The lemmas
    before it say what appending edges, forgetting the oldest and taking the
    first do to the last event of a sensor. `StandInv` ties the stop of the
    walker to its flags.
  * `NodesEscape` (`EscapesFromSensed`): the same invariant gives the state
    that the safety controller's escape is computed from.
  * `KeyboardLeavesAtRest` (`KeyboardStops`), for every window and range of
    the keys. `KeyInv` follows what the base will hold of power and velocity
    when all that is under way has arrived (`LastPower`, `VelSettles`) through
    the places of the keyboard thread and of the destructor.
  * `NodesTellSensors` (`SensorsTold`): the types of the nodes, the cloud and
    the plug.
* **`Perception_proofs`**
  * `OdometryMatched` (`OdometrySteps`), for every number of scans, key
    frames, loops and GPS fixes. `ClockInv` (key frames exist only after a
    scan was processed) gives the increment; `QueueInv` (clouds wait in their
    order, at most two and later than what was published) gives the order of
    scans.
  * `MapStaysConsistent` (`MapConsistent`). `PathInv`: the published path is
    the positions of the key frames, and a cached cloud was transformed with
    the pose its key has now, as a correction clears the cache. `LoopsInv`: a
    loop is remembered before it is queued, the copy the loop thread works on
    has no key that the graph lacks, and the pair it aligns has not been
    closed in the meantime.
  * `LidarIsObeyed` (`LidarObeys`), under any loss and order of answers.
    `LinkInv`: a setting whose bit is cleared has been answered, taken over or
    refused. `UpgradeInv`: at most one command can still be answered, that of
    the state (`CommandsInv`), and in each state the lidar has the parts the
    state presumes (`Stage`), so a late answer to a part sent twice does not
    move the upgrader on.
  * `LaneTypeCorrect`, and `OutageIsBounded` (`OutageBounded`): nothing
    interrupts valid telemetry for longer than throttle and publication period
    together exceed the timeout, for all rates and a timeout that is not 0. With
    the shipped numbers these are two periods; if the timeout covers both, none.
    `FeedInv` ties the age of the path at the follower to the time since the
    sender let one pass and to the time until the publisher fires next; the
    worst case is a lane withheld by the throttle at the last moment, which
    costs one more period of the publisher.
  * `FramesAreWhole` (`FramesWhole`, a conjunct of `LidarTransports`): no
    packet is missing, twice or out of order in a frame, and none is longer
    than two intervals, for every number of lidars, interval, size of rings
    and with or without synchronised clocks. `FramesInv`: the packets of a
    lidar in its frame, those among others' in the raw queue and the one that
    comes next follow each other (`InLine`), and an open frame that is long
    enough to end has met no end of an interval since (`Open`).
  * `LidarIsHeard` (`LidarTransports`), from `FramesAreWhole` and one theorem
    for each other conjunct. `NetworkStaysSound`: no lidar has two
    configurations, and there is a socket for each port of those that are kept
    (`NetworkInv`). `LoopStaysSound`: tasks that wait turn the set that is
    polled into the sockets that are wanted, and a loop with tasks before it
    has been woken or is about to be (`LoopInv`). `MessagesAreRead`: by
    induction over the keys, the reader stands where the writer has put the
    next one (`CodecInv`), and each key it knows adds its value if that fills
    its field and takes those that it runs over (`HeldGrows`), with keys of any
    length. `LogsStayInOrder`: packets of a file ascend, and only
    the hidden one is still written (`LogsInv`).
  * `MotionIsCounted` (`MotionCounted`), from one theorem for each conjunct.
    * `MotionBetweenScans`: in `OdometryInv` both queues of the IMU end with
      the newest message the node has handled, none missing (`ImuQueue`); a
      correction has popped what it is newer than and nothing else
      (`CorrectedInv`, `PoppedTo`); and the predicted state is ahead of the
      messages since its correction by at most a period (`PredictedInv`),
      whether corrections are dropped, late or followed by a reset.
    * `CloudsAreCovered`: by `DeskewInv` neighbours in a queue are no farther
      apart than the gaps allow (`Spaced`), although every cloud cuts it. So
      the first message left in a queue that covers the scan is within the
      window before it.
    * `FeaturesApart`: `Split` says that each ring is a stretch of the cloud,
      and that its indices with a curvature lie the margin off its ends. The
      segments are bounded by quotients of products; that they ascend and stay
      in the ring, with the division of C++ that rounds to zero, are the
      lemmas from `PartIs` to `SegmentsApart`. By induction over the segments
      in the order the code takes them (`SegmentsSound`), the surroundings of
      all corners so far are marked, and corners and surface points so far lie
      in segments before, so that none is taken twice.

A step of `KobukiCore`, `KobukiNodes` or `Perception` is a step of one part
and leaves the variables of the others alone (`PartsAlone` and the lemmas
named `...Alone`), so each part is proved by itself.

Only model-checked is all liveness (`DrivesForGood`, `StopsForGood`, and the
properties named `...Progress`): the prover handles neither fairness nor
`ENABLED`.

What a fold computes is proved by induction over the sequence or set it goes
through, with lemmas of this project: a set of naturals has a least element
(`LeastNatural`), so what holds of 0 and passes from k to k + 1 holds up to n
(`UpTo`); and the recursive function behind `FoldLeft` and `MapThenFoldSet`
exists (`FoldExists`, `SeqFoldExists`) and has the value its equation gives.

## 5. Where code and documents disagree

Shown by a run:

* **The receiver can end** (`v2v_survives`). After a restart of the sender a
  number repeats; if the new message has fewer fragments than were kept of the
  old, the count matches without the indexes and the join raises `KeyError`
  (`v2v_bridge/v2v_bridge/udp_common.py:66`). `feed` is called outside the
  `try` of `_drain`, whose comment says that garbage must not bring the node
  down (`v2v_receiver.py:74`).
* **No watchdog on velocity commands** (`leader_watchdog`). The node reports
  its `cmd_vel_timeout_sec` (`kobuki_ros.cpp:217`); the test against it is
  commented out (`kobuki_ros.cpp:325`). When lane keeping dies the base goes
  on with its last command. `LaneServed` shows that the nodes above do not
  cause that by themselves.
* **The lane is throttled beyond the timeout** (`lane_feed`). At most 2 Hz pass
  the bridge, the publisher runs at 10 Hz, so gaps of 0.5 to 0.6 s are normal;
  `input_timeout` is 0.5 s (`acc_telemetry.py:65`). The follower stops now and
  then with nothing lost, although a comment says that 2 Hz are enough for a
  static lane (`channels.yaml:5`). `OutageBounded` says for how long, and gives
  the rule: a timeout of at least throttle plus publication period, 0.6 s here.
* **Success on the search of another goal** (`kobuki_docking`). An update reads
  the state of the search (`dock_drive.cpp:229`) and writes its successor
  (line 257) without a lock; the thread of the next goal resets the state in
  between (line 72). The `DONE` of the last goal is then written over the reset,
  and the next goal succeeds without a contact. `SucceededDocked` says that
  there is no other way to that.

Met while modelling, and kept in the models as the code has it:

* **A stale path is not noticed.** The parameter file says "stop if long_cmd
  or path stale" (`params_swarm_lat.yaml:49`); only the age of `long_cmd` is
  tested. `PathStaleStops` in `LeaderStack` states the comment.
* **Invalid telemetry stops the speed, not the turn.** A speed of 0 on
  `long_cmd` is a fresh command for lane keeping, which adds the turn rate of
  its MPC.
* **Keyboard and lane keeping.** With lane keeping the keyboard cannot move
  the leader for longer than a period while the cruise control is off: lane
  keeping answers the stale `long_cmd` with a stop on every tick. The comment
  on the kill-switch (commands are left to teleop) holds for the wiring
  without lane keeping, which is where `TeleopAlone` is checked.
* **Docking.** The cancel callback declares a goal that is still executing
  canceled (`auto_docking_ros.cpp:117`), which the action library refuses with
  an exception. `GoalsEnd` counts that end of the program as an end of the goal.
  A thread aborts a goal that was reached if another one has disabled the drive,
  or the robot docks, between its look at the state and that at `isEnabled`
  (`auto_docking_ros.cpp:148`). Docking clears `can_run` before the update is
  published (line 211), so the base is not told the velocity of 0 that goes
  with `DONE`. Contacts that are lost before docking is done leave
  `dock_stabilizer` as it is, and in `DOCKED_IN` the drive then stands still
  with no transition out of it.
* **Power events.** When a battery falls from one level to another above `Low`, an
  event is emitted with its kind unset (`event_manager.cpp:247`), while
  `PowerSystemEvent.msg` speaks of transitions to low and critical levels.
* **Localization.** The incremental odometry steps by the difference to the
  guess, so it can step back when a scan is too poor to be matched. The loop
  search compares a time with `timeLaserInfoCur` (`mapOptmization.cpp:630`),
  which the scan callback may have set since the copy; `publishGlobalMap`
  (line 441) and `loopFindNearKeyframes` (line 700) read vectors that the scan
  callback extends.
* **Refused settings.** The callbacks look at the status of an answer, which says
  that it came, and not at its `ret_code`: the bit of a setting is cleared and
  "successfully set data type" printed (`livox_lidar_callback.cpp:137`) though
  the lidar may have refused it, and likewise "successfully change work mode"
  (line 122). A lidar may so sample without a setting of the user, or be taken
  for sampling while it is not. `SamplingConfigured` claims no more than that
  every setting was answered, and `LinkWaits` counts a refused mode as answered.
* **Upgrades told done before they begin.** `IsUpgradeComplete` is true of the
  initial state (`livox_lidar_upgrader.cpp:63`). Each upgrader is copied into a
  vector (`upgrade_manager.cpp:68`), and the destructor of the copy left behind
  prints "upgrade successfully" before anything was sent; so does that of the
  one in the vector if its thread has not run within 100 ms. It then joins the
  thread, whose command outlives the upgrader, and the answer uses freed memory
  (`FreedUpgraderUsed`). `UpgradeSound` is about upgrades that had begun; in the
  outcome "unstarted" of `LidarUpgrade` a success is told with nothing stored.
* **Lengths of values.** `ParseStateInfo` copies as many bytes as a key announces
  into a field of fixed size (`parse_lidar_state_info.cpp:44`): a longer value
  runs over the fields behind, a shorter one leaves part of the old content.
  Addresses are read with their own length whatever is announced (line 280),
  with bytes of the next key if they were shorter. `MessagesRead` says what holds
  in spite of that. `CheckPreamble` does not compare the length in a datagram with
  the bytes received (`sdk_protocol.cpp:109`) and takes the checksum over the
  rest of the buffer, which was never written; `LidarCodec` lets it fit or not.
* **Lidar driver.** A poll thread that waits for its semaphore leaves only
  when a frame comes (`lddc.cpp:128`): the exit joins it, and a lidar that
  fell silent keeps it waiting. With the format of PCL, which the ROS 2 build
  refuses (`lddc.cpp:237`), frames are not taken off the ring and the loop
  over the ring does not end.
* **Logs.** `Write` leaves a packet that is older than the current file at the
  front and goes on with it (`logger_handler.cpp:186`): the thread of the
  logger stays there. `LidarLogs` has this case, and `LidarProgress` names it
  as an exception.

## 6. Not modelled

* Other generations: `pacemaker`, the sliding-mode follower and
  `peer_localization` are started by no launch file.
* Tools: simulator, markers and logs, the conversions for Autoware, Kobuki's
  tutorials, demos and diagnostics, `ricar-launch`. They keep no state that
  control depends on.
* Launch files and the description of the robot are declarative; what wires
  the control stacks is in `LeaderStack` and `FollowerStack`.
* Base: buttons and digital inputs (edges like the others), sounds, gains, the
  heading of the gyroscope, parameters of initialization.
* Localization: the external loop topic, the map saved by a service, clouds
  for display. Nonlinear least squares, search trees and the optimizer itself
  are libraries or numerics: their results are choices.
* Messages of the lidar hold as many bytes as they announce: not modelled are
  values said to be longer than the datagram, values so long that they leave
  `DirectLidarStateInfo`, and a length below that of the wrapper
  (`sdk_protocol.cpp:92` would count below zero).
* Lidar: the list of IMU data (the same way as the points), bag files, the
  view mode, the kqueue, poll and select variants of the IO loop.
* Shapes of lanes: `lane_publisher` is modelled as a source of paths.

### What is left

* The platoon as a whole, leader, bridge and follower composed through abstract
  specifications such as `DeadMan`: the composed stacks are too large for TLC.
* The settings that a lidar has refused: what the driver would have to do with
  `ret_code` for `SamplingConfigured` to hold of `applied` alone.

## 7. Running

```
tlc -config MCLeaderLane.cfg MCLeaderStack
tlapm LeaderStack_proofs.tla
```

Each `MC*.cfg` names its specification and properties. Those of the leader
belong to `MCLeaderStack`, `MCFollowerSafety` to `MCFollowerStack`, `MCV2V*`
to `MCV2VBridge`, `MCKobukiDocking` to `MCKobukiCore`, `MCLaneFeed` to
`LaneFeed`, the others to the module of the same name. The runs marked
violated end with a counterexample, which is their point. Mutants (operators
whose comment starts with "Mutant") are plausible mistakes in the code;
replacing the definition that follows by its mutant violates the property that
`PROJECT.json` names.
