----------------------------- MODULE LioMapping -----------------------------
(***************************************************************************)
(* mapOptmization.cpp: scans are matched against the key frames around,    *)
(* key frames are added to a graph, loops are closed by a second thread.   *)
(* A pose is a position on a line.  What matching finds, what the guess    *)
(* adds, which clouds align and how a closed loop or a GPS position shifts *)
(* the key frames is left open.                                            *)
(***************************************************************************)
EXTENDS Integers, Sequences, SequencesExt, FiniteSets

CONSTANTS
  Steps,            \* displacements of the robot between two scans
  Shifts,           \* of key poses by a closed loop
  Interval,         \* mappingProcessInterval
  KeyAge,           \* age of the last key frame that calls for a new one, 1 s
  KeyDistance,      \* surroundingkeyframeAddingDistThreshold
  HistoryDiff,      \* historyKeyframeSearchTimeDiff
  CacheMax,         \* clouds in the map cache, 1000 in the code
  GpsWindow,        \* 0.2 s
  GpsStamps,        \* of the GPS messages
  LastScan          \* bound of the time of scans

ASSUME MappingAssumption ==
  Steps \cup Shifts \subseteq Int /\ LastScan \in Nat

VARIABLES
  timeLaserInfoCur, timeLastProcessing,
  mapped,           \* transformTobeMapped
  back,             \* incrementalOdometryAffineBack, <<>> before it is written
  incremental,      \* the incremental odometry published last
  keyPoses,         \* sequence of [pos, time]
  path,             \* globalPath
  mapCache,         \* laserCloudMapContainer: key :> where its cloud was placed
  gpsQueue,
  loopQueue,        \* loopIndexQueue
  factors,          \* the loop factors of the graph
  copy,             \* copy_cloudKeyPoses6D
  loopPc, loopPair, \* loop thread
  loopContainer     \* keys of loopIndexContainer

poseVars    == <<timeLaserInfoCur, timeLastProcessing, mapped, back, incremental>>
graphVars   == <<keyPoses, path, mapCache, gpsQueue, factors>>
threadVars  == <<copy, loopPc, loopPair, loopContainer>>
mappingVars == <<poseVars, graphVars, loopQueue, threadVars>>

Never == -9         \* before the first scan

MappingInit ==
  /\ timeLaserInfoCur = 0 /\ timeLastProcessing = Never
  /\ mapped = 0 /\ back = <<>> /\ incremental = 0
  /\ keyPoses = <<>> /\ path = <<>> /\ mapCache = <<>> /\ gpsQueue = <<>>
  /\ loopQueue = <<>> /\ factors = {}
  /\ copy = <<>> /\ loopPc = "sleep" /\ loopPair = <<>> /\ loopContainer = {}

Distance(a, b) == IF a < b THEN b - a ELSE a - b

----------------------------------------------------------------------------
\* Where updateInitialGuess may move the pose, by the IMU or by its odometry.
Guesses == Steps

\* cornerOptimization, surfOptimization: do enough features of the scan find their
\* lines and planes in the map?
Counterparts == BOOLEAN

\* LMOptimization: what is found is far from the guess or near it; with too few
\* counterparts the guess stays.
Matches(guess) == UNION {IF enough THEN Steps ELSE {guess} : enough \in Counterparts}

\* extractCloud: the clouds of the near key frames go into the cache, as they lie
\* now; a cache that is too large is cleared.
CacheWith(near) ==
  LET all == [k \in DOMAIN mapCache \cup near |->
                IF k \in DOMAIN mapCache THEN mapCache[k] ELSE keyPoses[k].pos]
  IN IF Cardinality(DOMAIN all) > CacheMax THEN <<>> ELSE all

\* extractNearby: near key frames and the newest.
NearKeys == {near \in SUBSET DOMAIN keyPoses : keyPoses # <<>> => Len(keyPoses) \in near}

\* A key frame is due: the first one, after a second, or after a distance.
SaveFrame(time, pos) ==
  \/ keyPoses = <<>>
  \/ time - Last(keyPoses).time > KeyAge
  \/ Distance(pos, Last(keyPoses).pos) >= KeyDistance

\* What is left of the GPS queue, and whether a position became a factor.
\* Messages too old go, one too new stays; one that fits is taken, and used
\* unless it is noisy or near the last one used.
GpsChoices(time) ==
  LET due == SelectSeq(gpsQueue, LAMBDA g : g >= time - GpsWindow)
      Fit(i) == \A j \in 1 .. i : due[j] <= time + GpsWindow
  IN {[queue |-> gpsQueue, used |-> FALSE]}
     \cup IF Len(keyPoses) < 2 THEN {}
          ELSE {[queue |-> SubSeq(due, i + 1, Len(due)), used |-> TRUE]
                 : i \in {i \in 1 .. Len(due) : Fit(i)}}
               \cup {[queue |-> SelectSeq(due, LAMBDA g : g > time + GpsWindow),
                      used |-> FALSE]}

\* Mutant: the cache outlives the correction.
CorrectPosesCached(poses, closed, cache) ==
  /\ keyPoses' = poses
  /\ path' = IF closed THEN [i \in DOMAIN poses |-> poses[i].pos]
             ELSE Append(path, Last(poses).pos)
  /\ mapCache' = cache

\* A closed loop moves all key poses to the new estimates, draws the path again
\* and clears the cache.
CorrectPoses(poses, closed, cache) ==
  /\ keyPoses' = poses
  /\ path' = IF closed THEN [i \in DOMAIN poses |-> poses[i].pos]
             ELSE Append(path, Last(poses).pos)
  /\ mapCache' = IF closed THEN <<>> ELSE cache

\* The graph takes the pose at pos, a GPS position and the loops found so far;
\* loops and GPS shift the estimates from some key on.
SaveKeyFrame(time, pos, cache) ==
  \E gps \in GpsChoices(time) :
    LET poses  == Append(keyPoses, [pos |-> pos, time |-> time])
        closed == gps.used \/ loopQueue # <<>>
    IN \E shift \in (IF closed THEN Shifts ELSE {0}), from \in DOMAIN poses :
         /\ shift = 0 => from = 1
         /\ LET moved == [i \in DOMAIN poses |->
                            [poses[i] EXCEPT !.pos = IF i >= from THEN @ + shift ELSE @]]
            IN CorrectPoses(moved, closed, cache) /\ mapped' = Last(moved).pos
         /\ gpsQueue' = gps.queue
         /\ factors' = factors \cup Range(loopQueue) /\ loopQueue' = <<>>

\* Mutant: the increment is taken from the corrected pose.
PublishOdometryCorrected(front) ==
  IF timeLastProcessing = Never THEN incremental' = mapped'
  ELSE incremental' = incremental + mapped' - front

\* The increment is what matching made of the pose before the guess.  It knows
\* neither the guess nor a correction; a scan with too few features repeats the
\* last result, or reads it before it was ever written.
PublishOdometry(front) ==
  IF timeLastProcessing = Never THEN incremental' = mapped'
  ELSE \E b \in (IF back' = <<>> THEN Steps ELSE {back'[1]}) :
         incremental' = incremental + b - front

ScanDue(time) ==
  /\ time > timeLaserInfoCur
  /\ timeLastProcessing = Never \/ time - timeLastProcessing >= Interval

\* A scan that is processed: the guess moves the pose, matching replaces it if
\* there are features enough, then a key frame is saved if it is due.
ProcessScan(time, step, rich) ==
  /\ ScanDue(time)
  /\ timeLaserInfoCur' = time /\ timeLastProcessing' = time
  /\ \E near \in NearKeys :
       LET first == keyPoses = <<>>
           pos   == IF first THEN mapped ELSE mapped + step
           cache == IF first THEN mapCache ELSE CacheWith(near)
       IN /\ back' = IF first \/ ~rich THEN back ELSE <<pos>>
          /\ IF SaveFrame(time, pos) THEN SaveKeyFrame(time, pos, cache)
             ELSE /\ mapped' = pos /\ mapCache' = cache
                  /\ UNCHANGED <<keyPoses, path, gpsQueue, loopQueue, factors>>
  /\ PublishOdometry(mapped)
  /\ UNCHANGED threadVars

\* A scan that comes too early only moves the time.
SkipScan(time) ==
  /\ time > timeLaserInfoCur /\ ~ScanDue(time)
  /\ timeLaserInfoCur' = time
  /\ UNCHANGED <<timeLastProcessing, mapped, back, incremental, graphVars, loopQueue,
                 threadVars>>

LaserCloudInfoHandler ==
  \E time \in timeLaserInfoCur + 1 .. LastScan :
    \/ SkipScan(time)
    \/ \E guess \in Guesses :
         \/ ProcessScan(time, guess, FALSE)
         \/ \E step \in Matches(guess) : ProcessScan(time, step, TRUE)

GpsHandler ==
  \E stamp \in GpsStamps :
    /\ \A i \in DOMAIN gpsQueue : gpsQueue[i] < stamp
    /\ timeLaserInfoCur <= stamp
    /\ gpsQueue' = Append(gpsQueue, stamp)
    /\ UNCHANGED <<poseVars, keyPoses, path, mapCache, factors, loopQueue, threadVars>>

----------------------------------------------------------------------------
\* The loop thread works on a copy taken under the lock.
LoopCopy ==
  /\ loopPc = "sleep" /\ keyPoses # <<>>
  /\ copy' = keyPoses /\ loopPc' = "detect"
  /\ UNCHANGED <<poseVars, graphVars, loopQueue, loopPair, loopContainer>>

\* A loop to the newest key of the copy that has none yet: a near key frame
\* that is old by the time of the scan being handled now.
LoopDetect ==
  /\ loopPc = "detect"
  /\ LET cur  == Len(copy)
         olds == {k \in DOMAIN copy \ {cur} :
                    Distance(copy[k].time, timeLaserInfoCur) > HistoryDiff}
     IN \/ /\ cur \notin loopContainer
           /\ \E pre \in olds : loopPair' = <<cur, pre>>
           /\ loopPc' = "align" /\ UNCHANGED copy
        \/ loopPc' = "sleep" /\ copy' = <<>> /\ UNCHANGED loopPair
  /\ UNCHANGED <<poseVars, graphVars, loopQueue, loopContainer>>

\* Mutant: closed loops are not remembered.
LoopRememberNot(pair) == UNCHANGED loopContainer

LoopRemember(pair) == loopContainer' = loopContainer \cup {pair[1]}

\* The clouds align or they do not.
LoopAlign ==
  /\ loopPc = "align"
  /\ \/ loopQueue' = Append(loopQueue, loopPair) /\ LoopRemember(loopPair)
     \/ UNCHANGED <<loopQueue, loopContainer>>
  /\ loopPc' = "sleep" /\ loopPair' = <<>> /\ copy' = <<>>
  /\ UNCHANGED <<poseVars, graphVars>>

MappingNext == LaserCloudInfoHandler \/ GpsHandler \/ LoopCopy \/ LoopDetect \/ LoopAlign

----------------------------------------------------------------------------
\* Every cached cloud lies where its key frame is now: no scan is matched
\* against a map from before a correction.
CacheCurrent == \A k \in DOMAIN mapCache : mapCache[k] = keyPoses[k].pos

\* The path shows the key poses, also after a correction.
PathShowsKeys == path = [i \in DOMAIN keyPoses |-> keyPoses[i].pos]

\* A loop joins two key frames of the graph, at most one per newer key.
LoopsJoinKeys ==
  LET loops == factors \cup Range(loopQueue)
  IN /\ \A l \in loops : l[2] < l[1] /\ l[1] <= Len(keyPoses) /\ l[2] > 0
     /\ \A l, m \in loops : l[1] = m[1] => l = m
     /\ Len(loopQueue) = Cardinality(Range(loopQueue))

MapConsistent == CacheCurrent /\ PathShowsKeys /\ LoopsJoinKeys

\* A scan with features enough moves the incremental odometry by what was
\* matched, whatever the guess was and whatever a loop did to the key poses.
IncrementIsMatched ==
  [][back' # back => incremental' = incremental + back'[1] - mapped]_mappingVars
=============================================================================
