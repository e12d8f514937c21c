---------------------------- MODULE LioProjection ----------------------------
(***************************************************************************)
(* imageProjection.cpp, its clock: a cloud is held back by the two behind  *)
(* it, then joined with the IMU and odometry messages queued by two other  *)
(* callbacks, or dropped.  Messages are their stamps.  A cloud is a scan   *)
(* of Duration; any message may be lost.                                   *)
(***************************************************************************)
EXTENDS Integers, Sequences, SequencesExt, FiniteSets, FiniteSetsExt, Folds

CONSTANTS
  Duration,         \* of a scan
  Window,           \* 0.01 s around a scan
  ImuGaps,          \* between two IMU messages
  OdomGaps,         \* between two odometry messages
  LastStamp         \* bound of all stamps

ASSUME ProjectionAssumption ==
  /\ Duration \in Nat \ {0} /\ LastStamp \in Nat /\ Window \in Nat
  \* The window holds two periods of the IMU: one message in a row may be lost.
  /\ ImuGaps \subseteq 1 .. Window
  /\ OdomGaps \subseteq 1 .. LastStamp /\ OdomGaps # {}

VARIABLES
  imuQueue, odomQueue, cloudQueue,
  imuSent, odomSent, cloudSent,  \* stamps of the last messages that came in
  imuInit,          \* stamp of the IMU behind imu_roll_init, kept between scans
  guessInit,        \* stamp of the odometry behind initial_guess_x
  info              \* cloud_info published last

projectionVars == <<imuQueue, odomQueue, cloudQueue, imuSent, odomSent, cloudSent,
                    imuInit, guessInit, info>>

NoStamp == -1

ProjectionInit ==
  /\ imuQueue = <<>> /\ odomQueue = <<>> /\ cloudQueue = <<>>
  /\ imuSent = NoStamp /\ odomSent = NoStamp /\ cloudSent = NoStamp
  /\ imuInit = NoStamp /\ guessInit = NoStamp /\ info = <<>>

ImuQueued ==
  \E g \in ImuGaps :
    /\ imuSent + g <= LastStamp
    /\ imuSent' = imuSent + g /\ imuQueue' = Append(imuQueue, imuSent + g)
    /\ UNCHANGED <<odomQueue, cloudQueue, odomSent, cloudSent, imuInit, guessInit, info>>

OdomQueued ==
  \E g \in OdomGaps :
    /\ odomSent + g <= LastStamp
    /\ odomSent' = odomSent + g /\ odomQueue' = Append(odomQueue, odomSent + g)
    /\ UNCHANGED <<imuQueue, cloudQueue, imuSent, cloudSent, imuInit, guessInit, info>>

----------------------------------------------------------------------------
ScanEnd(scan) == scan + Duration

\* Messages older than the window before the scan go.
FromScan(queue, scan) == SelectInSeq(queue, LAMBDA t : t >= scan - Window)

\* Mutant: also the last message before the scan goes.
PoppedEager(queue, scan) ==
  LET first == SelectInSeq(queue, LAMBDA t : t > scan)
  IN IF first = 0 THEN <<>> ELSE SubSeq(queue, first, Len(queue))

Popped(queue, scan) ==
  LET first == FromScan(queue, scan)
  IN IF first = 0 THEN <<>> ELSE SubSeq(queue, first, Len(queue))

\* The messages in front up to the first that is later.
NotAfter(queue, bound) ==
  LET first == SelectInSeq(queue, LAMBDA t : t > bound)
  IN IF first = 0 THEN queue ELSE SubSeq(queue, 1, first - 1)

\* The rotation over the scan: stamps of the IMU messages integrated, up to the
\* window behind it, and the one that gives the attitude at its start.
ImuDeskewInfo(queue, scan) ==
  LET used  == NotAfter(queue, ScanEnd(scan) + Window)
      start == NotAfter(queue, scan)
  IN [times     |-> used,
      available |-> Len(used) > 1,
      init      |-> IF start = <<>> THEN imuInit ELSE Last(start)]

\* The first guess is the odometry at the start of the scan: the first message
\* not before it, or else the last one.  The guess of an earlier scan stays when
\* there is none, marked as not available.
OdomDeskewInfo(queue, scan) ==
  IF queue = <<>> \/ Head(queue) > scan
  THEN [available |-> FALSE, init |-> guessInit]
  ELSE LET from == SelectInSeq(queue, LAMBDA t : t >= scan)
       IN [available |-> TRUE,
           init |-> IF from = 0 THEN Last(queue) ELSE queue[from]]

\* Mutant: the start of the scan is not looked at.
ImuCoversEnd(queue, scan) ==
  /\ queue # <<>> /\ Last(queue) >= ScanEnd(scan)

\* The IMU messages must reach over the whole scan.
ImuCovers(queue, scan) ==
  /\ queue # <<>> /\ Head(queue) <= scan /\ Last(queue) >= ScanEnd(scan)

\* A third cloud lets go the first one, which is published with its IMU, or is
\* dropped for good if they do not cover it yet.
CloudHandler ==
  \E scan \in {s \in cloudSent + 1 .. LastStamp : s % Duration = 0} :
    /\ cloudSent' = scan
    /\ IF Len(cloudQueue) < 2
       THEN /\ cloudQueue' = Append(cloudQueue, scan)
            /\ UNCHANGED <<imuQueue, odomQueue, imuInit, guessInit, info>>
       ELSE LET cur == Head(cloudQueue) IN
            /\ cloudQueue' = Append(Tail(cloudQueue), scan)
            /\ IF ImuCovers(imuQueue, cur)
               THEN LET imus  == Popped(imuQueue, cur)
                        odoms == Popped(odomQueue, cur)
                        imu   == ImuDeskewInfo(imus, cur)
                        odom  == OdomDeskewInfo(odoms, cur)
                    IN /\ imuQueue' = imus /\ odomQueue' = odoms
                       /\ imuInit' = imu.init /\ guessInit' = odom.init
                       /\ info' = [scan |-> cur, imuTimes |-> imu.times,
                                   imuAvailable |-> imu.available, roll |-> imu.init,
                                   odomAvailable |-> odom.available, guess |-> odom.init]
               ELSE UNCHANGED <<imuQueue, odomQueue, imuInit, guessInit, info>>
    /\ UNCHANGED <<imuSent, odomSent>>

ProjectionNext == ImuQueued \/ OdomQueued \/ CloudHandler

----------------------------------------------------------------------------
\* While no IMU message is farther from the next than the window, each published
\* cloud has a rotation from before its start to its end, its attitude comes from
\* the window before the start, and its guess, if it has one, from around it.
DeskewCovers ==
  info # <<>> =>
    LET scan == info.scan IN
    /\ info.imuAvailable
    /\ info.imuTimes[1] <= scan /\ ScanEnd(scan) <= Last(info.imuTimes)
    /\ info.roll \in scan - Window .. scan
    /\ info.odomAvailable => info.guess \in scan - Window .. scan + Max(OdomGaps)

\* Clouds are published in the order they came in, each once.
ScansOnce ==
  [][info' # info /\ info # <<>> => info'.scan > info.scan]_projectionVars

----------------------------------------------------------------------------
(***************************************************************************)
(* The points of a cloud: imageProjection.cpp sorts them into rings and    *)
(* columns, featureExtraction.cpp picks edges and flat points from         *)
(* segments of each ring.  A point is its kind: an edge (large curvature), *)
(* flat, or marked as occluded.  Indices count from 0 as in the code.      *)
(***************************************************************************)

CONSTANTS
  NScan,            \* N_SCAN, rings
  Horizon,          \* Horizon_SCAN, points kept of a ring
  Margin,           \* 5 points on either side of a curvature
  Segments,         \* 6 segments of a ring
  EdgeMax,          \* 20 edges of a segment
  Rings,            \* ring numbers a point may come with
  CloudSize         \* points of a cloud

ASSUME FeaturesAssumption ==
  /\ NScan \in Nat /\ Horizon \in Nat /\ EdgeMax \in Nat /\ CloudSize \in Nat
  /\ Margin \in Nat \ {0} /\ Segments \in Nat \ {0}

VARIABLES
  features          \* the features sent for the last cloud

NoFeatures == [cloud |-> <<>>]

FeaturesInit == features = NoFeatures

PointKinds == {"edge", "flat", "marked"}

\* projectPointCloud: the points near enough to have a range, of a ring that
\* exists, in columns numbered in the order they come, until the ring is full.
ProjectPoint(image, p) ==
  IF p.inRange /\ p.ring \in DOMAIN image /\ Len(image[p.ring]) < Horizon
  THEN [image EXCEPT ![p.ring] = Append(@, p)] ELSE image

ProjectPointCloud(points) ==
  FoldLeft(ProjectPoint, [r \in 0 .. NScan - 1 |-> <<>>], points)

\* cloudExtraction: the rings one after the other, and the indices between which
\* the points of each have a curvature.
ExtractRing(image, cloud, r) ==
  LET points == cloud.points \o image[r]
  IN [points |-> points,
      start  |-> [cloud.start EXCEPT ![r] = Len(cloud.points) - 1 + Margin],
      end    |-> [cloud.end EXCEPT ![r] = Len(points) - 1 - Margin]]

CloudExtraction(image) ==
  LET zeros == [r \in 0 .. NScan - 1 |-> 0]
  IN FoldLeft(LAMBDA cloud, r : ExtractRing(image, cloud, r),
              [points |-> <<>>, start |-> zeros, end |-> zeros],
              [i \in 1 .. NScan |-> i - 1])

----------------------------------------------------------------------------
\* Division of C++ rounds to zero.
Quotient(a, b) == IF a >= 0 THEN a \div b ELSE -((-a) \div b)

SegmentStart(cloud, r, j) ==
  Quotient(cloud.start[r] * (Segments - j) + cloud.end[r] * j, Segments)

\* Mutant: each segment takes the first point of the next one.
SegmentEndWide(cloud, r, j) ==
  Quotient(cloud.start[r] * (Segments - 1 - j) + cloud.end[r] * (j + 1), Segments)

SegmentEnd(cloud, r, j) ==
  Quotient(cloud.start[r] * (Segments - 1 - j) + cloud.end[r] * (j + 1), Segments) - 1

Kind(cloud, i) == cloud.points[i + 1].kind

\* Indices one after the other.
Listed(S) == MapThenFoldSet(LAMBDA i, q : Append(q, i), <<>>, LAMBDA i : i,
                            LAMBDA s : Max(s), S)

\* cloudSmoothness of [from, to] after [from, to) has been sorted: flat points
\* first, edges last.
Sorted(cloud, from, to) ==
  LET Of(kind) == Listed({i \in from .. to - 1 : Kind(cloud, i) = kind})
  IN Of("flat") \o Of("marked") \o Of("edge") \o <<to>>

\* A point that is picked and those up to the margin on either side of it, no
\* farther than a gap between columns, where the cloud has none.
Around(cloud, i) ==
  {k \in 0 .. Len(cloud.points) - 1 :
     /\ k - i \in -Margin .. Margin
     /\ \A m \in 1 .. Len(cloud.points) - 1 :
          (m \in i + 1 .. k \/ m \in k + 1 .. i) => ~cloud.points[m + 1].gap}

\* Mutant: the points around a corner are not marked.
PickCornerNear(cloud, acc, i) ==
  IF i \in acc.marked \/ Kind(cloud, i) # "edge" \/ acc.full THEN acc
  ELSE IF Cardinality(acc.corners) = EdgeMax THEN [acc EXCEPT !.full = TRUE]
  ELSE [acc EXCEPT !.corners = @ \cup {i}, !.marked = @ \cup {i}]

\* An edge that is not marked, and its surroundings, unless there are too many.
PickCorner(cloud, acc, i) ==
  IF i \in acc.marked \/ Kind(cloud, i) # "edge" \/ acc.full THEN acc
  ELSE IF Cardinality(acc.corners) = EdgeMax THEN [acc EXCEPT !.full = TRUE]
  ELSE [acc EXCEPT !.corners = @ \cup {i}, !.marked = @ \cup Around(cloud, i)]

\* From the sharpest to the flattest.
PickCorners(cloud, order, marked) ==
  FoldLeft(LAMBDA acc, i : PickCorner(cloud, acc, i),
           [corners |-> {}, marked |-> marked, full |-> FALSE], Reverse(order))

MarkFlat(cloud, order, marked) ==
  FoldLeft(LAMBDA acc, i : IF i \in acc \/ Kind(cloud, i) # "flat" THEN acc
                           ELSE acc \cup Around(cloud, i),
           marked, order)

\* One segment: its corners, its marks, and those of its points that are no
\* corners.
ExtractSegment(cloud, acc, r, j) ==
  LET sp == SegmentStart(cloud, r, j)
      ep == SegmentEnd(cloud, r, j)
  IN IF sp >= ep THEN acc
     ELSE LET order == Sorted(cloud, sp, ep)
              edges == PickCorners(cloud, order, acc.marked)
              rest  == Listed((sp .. ep) \ edges.corners)
          IN [corners |-> Append(acc.corners, [ring |-> r, of |-> edges.corners]),
              marked  |-> MarkFlat(cloud, order, edges.marked),
              surface |-> acc.surface \o [i \in DOMAIN rest |-> [ring |-> r, of |-> rest[i]]]]

\* One segment after the other.
ExtractFeatures(cloud) ==
  LET all == FoldLeft(LAMBDA acc, n : ExtractSegment(cloud, acc, n \div Segments, n % Segments),
                      [corners |-> <<>>, surface |-> <<>>,
                       marked |-> {i \in 0 .. Len(cloud.points) - 1 :
                                     Kind(cloud, i) = "marked"}],
                      [i \in 1 .. NScan * Segments |-> i - 1])
  IN [cloud |-> cloud.points, corners |-> all.corners, surface |-> all.surface]

\* One cloud through both nodes.  Index Margin - 1 of the first ring has no
\* curvature: the code reads one of an earlier cloud there; here the point
\* itself decides.
CloudFeatures ==
  /\ features = NoFeatures
  /\ \E kinds \in [1 .. CloudSize -> PointKinds], cut \in 1 .. CloudSize, far \in BOOLEAN,
        split \in 0 .. CloudSize, other \in Rings :
       features' = ExtractFeatures(CloudExtraction(ProjectPointCloud(
         [i \in 1 .. CloudSize |-> [kind |-> kinds[i], ring |-> IF i <= split THEN 0 ELSE other,
                            gap |-> i = cut, inRange |-> ~(far /\ i = cut)]])))

----------------------------------------------------------------------------
\* Corners are edges nothing marks, never within the margin of one another
\* without a gap; corners and surface points of a ring are points of that ring;
\* no surface point is a corner or is taken twice.
FeaturesSound ==
  features # NoFeatures =>
    LET cloud == [points |-> features.cloud]
        OwnRing(r, i) == features.cloud[i + 1].ring = r
        corners == UNION {s.of : s \in Range(features.corners)}
    IN /\ \A s \in Range(features.corners) : \A i \in s.of :
            OwnRing(s.ring, i) /\ Kind(cloud, i) = "edge"
       /\ \A i, k \in corners : i # k => k \notin Around(cloud, i)
       /\ \A p \in Range(features.surface) : OwnRing(p.ring, p.of) /\ p.of \notin corners
       /\ \A m, k \in DOMAIN features.surface :
            m # k => features.surface[m] # features.surface[k]
==============================================================================
