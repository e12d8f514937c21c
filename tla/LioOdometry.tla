----------------------------- MODULE LioOdometry -----------------------------
(***************************************************************************)
(* imuPreintegration.cpp: IMUPreintegration corrects its state with the    *)
(* lidar odometry and extends it with every IMU message in between;        *)
(* TransformFusion composes the last lidar pose with the motion since.     *)
(* Poses are left out.  A measurement is its stamp, a preintegration the   *)
(* sum of the time steps it holds, a predicted odometry the stamp of the   *)
(* state it starts from and the time integrated since.  The optimizer may  *)
(* find a large velocity or bias at every correction.                      *)
(***************************************************************************)
EXTENDS Integers, Sequences, SequencesExt

CONSTANTS
  Period,       \* of the IMU
  DefaultDt,    \* the time step of a first message, 1/500 s in the code
  ScanLag,      \* least age of a scan when its odometry is published
  Behind,       \* IMU messages at most under way to and within the node
  KeyMax,       \* keys of a graph, 100 in the code
  Scans,        \* stamps of the scans that are matched, a bound
  LastImu       \* bound of the clock

ASSUME OdometryAssumption ==
  /\ Period \in Nat \ {0} /\ DefaultDt \in 0 .. Period /\ KeyMax \in Nat \ {0, 1}
  /\ ScanLag \in Nat /\ Behind \in Nat \ {0} /\ Behind * Period < ScanLag
  /\ Scans \subseteq Nat /\ LastImu \in Nat
  \* Scans are matched mappingProcessInterval apart, many periods of the IMU.
  /\ \A a, b \in Scans : a < b => a + Period <= b

VARIABLES
  started,      \* the newest stamp when the node came up
  clock,        \* the newest stamp the IMU has sent
  imuIn, odomIn, lidarIn, fusionIn,    \* messages on their way to the handlers
  imuQueOpt, imuQueImu,
  integOpt, integImu,
  lastImuTOpt, lastImuTImu,            \* -1: none
  initialized, doneFirstOpt, key,
  corrected,    \* stamp of the last key of the graph
  prevOdom,     \* stamp of prevStateOdom
  factor,       \* the last ImuFactor: stamps of its keys and the time between
  published,    \* the last odometry predicted
  lidarOdomTime, imuOdomQueue,
  fused,        \* the last fused odometry: lidar pose, first and last increment
  emptyFront    \* front() of an empty queue was read

preintVars == <<imuQueOpt, imuQueImu, integOpt, integImu, lastImuTOpt, lastImuTImu,
                initialized, doneFirstOpt, key, corrected, prevOdom, factor, published>>
fusionVars == <<lidarOdomTime, imuOdomQueue, fused, emptyFront>>
lioOdomVars == <<started, clock, imuIn, odomIn, lidarIn, fusionIn, preintVars, fusionVars>>

Unset == -1

OdometryInit ==
  /\ started \in {0, 2 * Period} /\ clock = started
  /\ imuIn = <<>> /\ odomIn = Unset /\ lidarIn = Unset /\ fusionIn = <<>>
  /\ imuQueOpt = <<>> /\ imuQueImu = <<>> /\ integOpt = 0 /\ integImu = 0
  /\ lastImuTOpt = -1 /\ lastImuTImu = -1
  /\ initialized = FALSE /\ doneFirstOpt = FALSE /\ key = 1
  /\ corrected = Unset /\ prevOdom = Unset
  /\ factor = <<>> /\ published = <<>>
  /\ lidarOdomTime = -1 /\ imuOdomQueue = <<>> /\ fused = <<>> /\ emptyFront = FALSE

\* The IMU measures; nothing is lost, and what is on its way to a handler is
\* never older than the last Behind messages.
ImuSends ==
  /\ clock + Period <= LastImu
  /\ clock' = clock + Period
  /\ \A t \in Range(imuIn) \union Range(fusionIn) : clock' - t + Period <= Behind * Period
  /\ imuIn' = Append(imuIn, clock')
  /\ UNCHANGED <<started, odomIn, lidarIn, fusionIn, preintVars, fusionVars>>

\* mapOptimization publishes the odometry of a scan, stamped with the start of
\* the scan, on two topics of depth one.  The scan had ended, and imageProjection
\* had seen IMU messages up to its end.
ScanMatched(c) ==
  /\ c + ScanLag <= clock /\ c > odomIn /\ c > corrected /\ c > lidarIn
  /\ c > lidarOdomTime
  /\ odomIn' = c /\ lidarIn' = c
  /\ UNCHANGED <<started, clock, imuIn, fusionIn, preintVars, fusionVars>>

----------------------------------------------------------------------------
\* The time a preintegration gains by messages, each for the time since the one
\* before.
Integrated(stamps, last) ==
  IF stamps = <<>> THEN 0
  ELSE (IF last < 0 THEN DefaultDt ELSE stamps[1] - last) + Last(stamps) - stamps[1]

\* The messages a correction at c pops: those in front of the first that is
\* not older.
Leading(queue, c)   == Max({n \in 0 .. Len(queue) : \A i \in 1 .. n : queue[i] < c})
OlderThan(queue, c) == SubSeq(queue, 1, Leading(queue, c))
NotOlder(queue, c)  == SubSeq(queue, Leading(queue, c) + 1, Len(queue))
LastOf(queue, t)    == IF queue = <<>> THEN t ELSE Last(queue)

ImuHandler ==
  LET t == Head(imuIn)
  IN /\ imuIn # <<>> /\ imuIn' = Tail(imuIn)
     /\ imuQueOpt' = Append(imuQueOpt, t)
     /\ imuQueImu' = Append(imuQueImu, t)
     /\ IF doneFirstOpt
        THEN /\ integImu' = integImu + Integrated(<<t>>, lastImuTImu)
             /\ lastImuTImu' = t
             /\ published' = [stamp |-> t, base |-> prevOdom, time |-> integImu']
             /\ fusionIn' = Append(fusionIn, t)
        ELSE UNCHANGED <<integImu, lastImuTImu, published, fusionIn>>
     /\ UNCHANGED <<started, clock, odomIn, lidarIn, integOpt, lastImuTOpt,
                    initialized, doneFirstOpt, key, corrected, prevOdom, factor, fusionVars>>

\* Mutant: the messages before the correction are integrated again.
RepropagateAll(c) ==
  /\ imuQueImu' = imuQueImu
  /\ integImu' = Integrated(imuQueImu, -1)

\* The predicted state starts anew at the correction.  Without a newer message
\* the preintegration keeps what it holds.
Repropagate(c) ==
  /\ imuQueImu' = NotOlder(imuQueImu, c)
  /\ integImu' = IF imuQueImu' = <<>> THEN integImu
                 ELSE Integrated(imuQueImu', LastOf(OlderThan(imuQueImu, c), -1))

\* No IMU message yet: the correction is dropped.
CorrectionTooEarly ==
  /\ imuQueOpt = <<>>
  /\ UNCHANGED preintVars

\* The first correction sets the state of the graph.
Initialize(c) ==
  /\ imuQueOpt # <<>> /\ ~initialized
  /\ imuQueOpt' = NotOlder(imuQueOpt, c)
  /\ lastImuTOpt' = LastOf(OlderThan(imuQueOpt, c), lastImuTOpt)
  /\ integImu' = 0 /\ integOpt' = 0
  /\ key' = 1 /\ initialized' = TRUE /\ corrected' = c
  /\ UNCHANGED <<imuQueImu, lastImuTImu, doneFirstOpt, prevOdom, factor, published>>

\* A correction adds a key, after a full graph the first of a new one; a large
\* velocity or bias starts everything anew.
Correct(c) ==
  /\ imuQueOpt # <<>> /\ initialized
  /\ imuQueOpt' = NotOlder(imuQueOpt, c)
  /\ lastImuTOpt' = LastOf(OlderThan(imuQueOpt, c), lastImuTOpt)
  /\ factor' = [from |-> corrected, to |-> c,
                time |-> integOpt + Integrated(OlderThan(imuQueOpt, c), lastImuTOpt)]
  /\ integOpt' = 0
  /\ corrected' = c
  /\ LET k == IF key = KeyMax THEN 1 ELSE key
     IN \/ /\ Repropagate(c)
           /\ prevOdom' = c /\ key' = k + 1 /\ doneFirstOpt' = TRUE
           /\ UNCHANGED <<initialized, lastImuTImu>>
        \/ /\ key' = k /\ lastImuTImu' = -1
           /\ doneFirstOpt' = FALSE /\ initialized' = FALSE
           /\ UNCHANGED <<imuQueImu, integImu, prevOdom>>
  /\ UNCHANGED published

OdometryHandler ==
  /\ odomIn # Unset /\ odomIn' = Unset
  /\ CorrectionTooEarly \/ Initialize(odomIn) \/ Correct(odomIn)
  /\ UNCHANGED <<started, clock, imuIn, lidarIn, fusionIn, fusionVars>>

----------------------------------------------------------------------------
LidarOdometryHandler ==
  /\ lidarIn # Unset /\ lidarIn' = Unset
  /\ lidarOdomTime' = lidarIn
  /\ UNCHANGED <<started, clock, imuIn, odomIn, fusionIn, preintVars, imuOdomQueue, fused, emptyFront>>

Since(queue) == NotOlder(queue, lidarOdomTime + 1)

ImuOdometryHandler ==
  LET queue == Append(imuOdomQueue, Head(fusionIn))
  IN /\ fusionIn # <<>> /\ fusionIn' = Tail(fusionIn)
     /\ IF lidarOdomTime = -1
        THEN imuOdomQueue' = queue /\ UNCHANGED <<fused, emptyFront>>
        ELSE /\ imuOdomQueue' = Since(queue)
             /\ IF imuOdomQueue' = <<>>
                THEN emptyFront' = TRUE /\ UNCHANGED fused
                ELSE /\ fused' = [base |-> lidarOdomTime, front |-> imuOdomQueue'[1],
                                  back |-> Last(imuOdomQueue')]
                     /\ UNCHANGED emptyFront
     /\ UNCHANGED <<started, clock, imuIn, odomIn, lidarIn, preintVars, lidarOdomTime>>

LioOdometryNext ==
  \/ ImuSends
  \/ \E c \in Scans : ScanMatched(c)
  \/ ImuHandler \/ OdometryHandler
  \/ LidarOdometryHandler \/ ImuOdometryHandler

----------------------------------------------------------------------------
Within(a, b) == a - b <= Period /\ b - a <= Period

\* The factor between two keys holds the IMU messages between them, each once,
\* across resets, full graphs and dropped corrections; only before the node's
\* first message something is missing (imuPreintegration.cpp:311).
FactorSpansKeys ==
  factor # <<>> /\ factor.from >= started + Period =>
    Within(factor.time, factor.to - factor.from)

\* A predicted odometry extends the last correction by exactly the messages
\* since: no motion twice, none left out (imuPreintegration.cpp:375, :437).
OdometrySpansGap ==
  published # <<>> /\ published.base >= started + Period =>
    Within(published.time, published.stamp - published.base)

\* The queue of increments is never empty when its front is read, and what is
\* fused goes on from the lidar pose (imuPreintegration.cpp:104).
FusedGoesOn ==
  /\ ~emptyFront
  /\ fused # <<>> => fused.base < fused.front /\ fused.front <= fused.back

LioOdometryTypeOK ==
  /\ key \in 1 .. KeyMax
  /\ doneFirstOpt => initialized

OdometryConsistent == LioOdometryTypeOK /\ FactorSpansKeys /\ OdometrySpansGap /\ FusedGoesOn

LioOdometrySpec == OdometryInit /\ [][LioOdometryNext]_lioOdomVars

=============================================================================
