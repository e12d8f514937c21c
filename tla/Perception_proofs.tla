-------------------------- MODULE Perception_proofs --------------------------
(***************************************************************************)
(* What the inputs of the controllers keep to, for any number of scans,    *)
(* lidars' answers and parts of a firmware: the lane stays valid, the      *)
(* incremental odometry moves by what was matched, the map agrees with its *)
(* key frames, motion between scans is counted once, clouds are covered by *)
(* their motion and their features apart.  A lidar samples only as it was  *)
(* told to, and is told that its firmware is complete only when it is; it  *)
(* is found, its sockets read and its messages understood, and its frames  *)
(* and logs are whole and in order.                                        *)
(***************************************************************************)
EXTENDS Perception, SequenceTheorems, FiniteSetTheorems, WellFoundedInduction, TLAPS

USE TypesAssumption, TelemetryAssumption, LaneAssumption, MappingAssumption

----------------------------------------------------------------------------
(* Each part moves its own variables and leaves the others. *)

LEMMA MappingAlone ==
  ASSUME [PerceptionNext]_perceptionVars
  PROVE  [MappingNext]_mappingVars
<1>1. CASE PerceptionNext
  BY <1>1 DEF PerceptionNext, Others
<1>2. CASE UNCHANGED perceptionVars
  BY <1>2 DEF perceptionVars
<1>3. QED
  BY <1>1, <1>2

LEMMA ProjectionAlone ==
  ASSUME [PerceptionNext]_perceptionVars
  PROVE  [ProjectionNext]_projectionVars
<1>1. CASE PerceptionNext
  BY <1>1 DEF PerceptionNext, Others
<1>2. CASE UNCHANGED perceptionVars
  BY <1>2 DEF perceptionVars
<1>3. QED
  BY <1>1, <1>2

----------------------------------------------------------------------------
(* Mapping. *)

\* There are key frames only after a scan was processed.
ClockInv ==
  /\ timeLaserInfoCur \in Nat
  /\ keyPoses # <<>> => timeLastProcessing # Never

LEMMA ClockKept ==
  ASSUME ClockInv, [MappingNext]_mappingVars
  PROVE  ClockInv'
<1>1. ASSUME NEW time \in timeLaserInfoCur + 1 .. LastScan, NEW step, NEW rich,
             ProcessScan(time, step, rich)
      PROVE  ClockInv'
  <2>1. timeLaserInfoCur' = time /\ timeLastProcessing' = time
    BY <1>1 DEF ProcessScan
  <2>2. time \in Nat
    BY DEF ClockInv
  <2>3. QED
    BY <2>1, <2>2 DEF ClockInv, Never
<1>2. ASSUME NEW time \in timeLaserInfoCur + 1 .. LastScan, SkipScan(time)
      PROVE  ClockInv'
  <2>1. time \in Nat
    BY DEF ClockInv
  <2>2. QED
    BY <1>2, <2>1 DEF SkipScan, ClockInv, graphVars
<1>3. CASE GpsHandler \/ LoopCopy \/ LoopDetect \/ LoopAlign \/ UNCHANGED mappingVars
  BY <1>3 DEF GpsHandler, LoopCopy, LoopDetect, LoopAlign, ClockInv, mappingVars,
              poseVars, graphVars
<1>4. QED
  BY <1>1, <1>2, <1>3 DEF MappingNext, LaserCloudInfoHandler

\* The one step that writes back.
LEMMA MatchedStep ==
  ASSUME ClockInv, NEW time, NEW step, NEW rich, ProcessScan(time, step, rich),
         back' # back
  PROVE  incremental' = incremental + back'[1] - mapped
<1>1. PICK pos : keyPoses # <<>> /\ back' = <<pos>>
  BY DEF ProcessScan
<1>2. timeLastProcessing # Never
  BY <1>1 DEF ClockInv
<1>3. \E b \in {back'[1]} : incremental' = incremental + b - mapped
  BY <1>1, <1>2 DEF ProcessScan, PublishOdometry
<1>4. QED
  BY <1>3

LEMMA IncrementStep ==
  ASSUME ClockInv, [MappingNext]_mappingVars, back' # back
  PROVE  incremental' = incremental + back'[1] - mapped
<1>1. ~UNCHANGED back
  OBVIOUS
<1>2. PICK time, step, rich : ProcessScan(time, step, rich)
  BY <1>1 DEF MappingNext, LaserCloudInfoHandler, SkipScan, GpsHandler, LoopCopy,
              LoopDetect, LoopAlign, mappingVars, poseVars
<1>3. QED
  BY <1>2, MatchedStep

----------------------------------------------------------------------------
(* Projection. *)

\* Later than the cloud that was published last.
AfterInfo(scan) == info # <<>> => info.scan < scan

\* Clouds wait in their order, all of them later than what was published.
QueueInv ==
  /\ cloudSent \in Int
  /\ info # <<>> => info.scan \in Int /\ info.scan < cloudSent
  /\ \/ cloudQueue = <<>>
     \/ \E a \in Int : cloudQueue = <<a>> /\ a <= cloudSent /\ AfterInfo(a)
     \/ \E a, b \in Int :
          cloudQueue = <<a, b>> /\ a < b /\ b <= cloudSent /\ AfterInfo(a)

LEMMA SecondInQueue ==
  ASSUME NEW a \in Int, NEW b \in Int
  PROVE  Append(<<a>>, b) = <<a, b>>
<1>1. <<a>> \in Seq(Int) /\ Len(<<a>>) = 1 /\ <<a>>[1] = a
  OBVIOUS
<1>2. 1 + 1 = 2
  OBVIOUS
<1>3. /\ Append(<<a>>, b) \in Seq(Int) /\ Len(Append(<<a>>, b)) = 2
      /\ Append(<<a>>, b)[1] = a /\ Append(<<a>>, b)[2] = b
  <2>1. /\ Append(<<a>>, b) \in Seq(Int) /\ Len(Append(<<a>>, b)) = 1 + 1
        /\ Append(<<a>>, b)[1] = a /\ Append(<<a>>, b)[1 + 1] = b
    BY <1>1, AppendProperties
  <2>2. QED
    BY <1>2, <2>1, Zenon
<1>4. <<a, b>> \in Seq(Int) /\ Len(<<a, b>>) = 2 /\ <<a, b>>[1] = a /\ <<a, b>>[2] = b
  OBVIOUS
<1>5. \A i \in 1 .. 2 : i = 1 \/ i = 2
  OBVIOUS
<1>6. \A i \in 1 .. Len(Append(<<a>>, b)) : Append(<<a>>, b)[i] = <<a, b>>[i]
  BY <1>3, <1>4, <1>5, Zenon
<1>7. QED
  BY <1>3, <1>4, <1>6, SeqEqual, Zenon

LEMMA FullQueue ==
  ASSUME NEW a \in Int, NEW b \in Int, NEW scan \in Int
  PROVE  Head(<<a, b>>) = a /\ Append(Tail(<<a, b>>), scan) = <<b, scan>>
<1>1. Head(<<a, b>>) = a /\ Tail(<<a, b>>) = <<b>>
  OBVIOUS
<1>2. QED
  BY <1>1, SecondInQueue

\* The cloud that leaves the queue is before the one behind it and the new one.
LEMMA CloudStep ==
  ASSUME QueueInv, CloudHandler
  PROVE  QueueInv' /\ (info' # info /\ info # <<>> => info'.scan > info.scan)
<1>1. PICK scan \in {s \in cloudSent + 1 .. LastStamp : s % Duration = 0} :
        /\ cloudSent' = scan
        /\ \/ /\ Len(cloudQueue) < 2
              /\ cloudQueue' = Append(cloudQueue, scan) /\ UNCHANGED info
           \/ /\ Len(cloudQueue) >= 2
              /\ cloudQueue' = Append(Tail(cloudQueue), scan)
              /\ \/ UNCHANGED info
                 \/ info' # <<>> /\ info'.scan = Head(cloudQueue)
  BY DEF CloudHandler
<1>2. scan \in Int /\ scan > cloudSent /\ cloudSent \in Int
  BY DEF QueueInv
<1>3. CASE cloudQueue = <<>>
  <2>1. Len(cloudQueue) = 0 /\ Append(cloudQueue, scan) = <<scan>>
    BY <1>3
  <2>2. cloudQueue' = <<scan>> /\ UNCHANGED info
    BY <1>1, <2>1
  <2>3. QED
    BY <1>1, <1>2, <2>2 DEF QueueInv, AfterInfo
<1>4. ASSUME NEW a \in Int, cloudQueue = <<a>>, a <= cloudSent, AfterInfo(a)
      PROVE  QueueInv' /\ UNCHANGED info
  <2>1. Len(cloudQueue) = 1 /\ Append(cloudQueue, scan) = <<a, scan>>
    BY <1>2, <1>4, SecondInQueue
  <2>2. cloudQueue' = <<a, scan>> /\ UNCHANGED info
    BY <1>1, <2>1
  <2>3. QED
    BY <1>1, <1>2, <1>4, <2>2 DEF QueueInv, AfterInfo
<1>5. ASSUME NEW a \in Int, NEW b \in Int, cloudQueue = <<a, b>>, a < b,
             b <= cloudSent, AfterInfo(a)
      PROVE  QueueInv' /\ (info' # info /\ info # <<>> => info'.scan > info.scan)
  <2>1. Len(cloudQueue) = 2
    BY <1>5
  <2>2. /\ cloudQueue' = <<b, scan>>
        /\ \/ UNCHANGED info
           \/ info' # <<>> /\ info'.scan = a
    BY <1>1, <1>2, <1>5, <2>1, FullQueue
  <2>3. CASE UNCHANGED info
    BY <1>1, <1>2, <1>5, <2>2, <2>3 DEF QueueInv, AfterInfo
  <2>4. CASE info' # <<>> /\ info'.scan = a
    BY <1>1, <1>2, <1>5, <2>2, <2>4 DEF QueueInv, AfterInfo
  <2>5. QED
    BY <2>2, <2>3, <2>4
<1>6. QED
  BY <1>3, <1>4, <1>5 DEF QueueInv

LEMMA QueueKept ==
  ASSUME QueueInv, [ProjectionNext]_projectionVars
  PROVE  QueueInv'
<1>1. CASE CloudHandler
  BY <1>1, CloudStep
<1>2. CASE ImuQueued \/ OdomQueued \/ UNCHANGED projectionVars
  BY <1>2 DEF ImuQueued, OdomQueued, QueueInv, AfterInfo, projectionVars
<1>3. QED
  BY <1>1, <1>2 DEF ProjectionNext

LEMMA ScanStep ==
  ASSUME QueueInv, [ProjectionNext]_projectionVars, info' # info, info # <<>>
  PROVE  info'.scan > info.scan
<1>1. CloudHandler
  BY DEF ProjectionNext, ImuQueued, OdomQueued, projectionVars
<1>2. QED
  BY <1>1, CloudStep

----------------------------------------------------------------------------
LEMMA OdometryInvariant == PerceptionSpec => [](ClockInv /\ QueueInv)
<1>1. PerceptionInit => ClockInv /\ QueueInv
  BY DEF PerceptionInit, MappingInit, ProjectionInit, ClockInv, QueueInv, NoStamp
<1>2. ClockInv /\ QueueInv /\ [PerceptionNext]_perceptionVars => (ClockInv /\ QueueInv)'
  BY MappingAlone, ProjectionAlone, ClockKept, QueueKept
<1>3. QED
  BY <1>1, <1>2, PTL DEF PerceptionSpec

\* A scan with features enough moves the incremental odometry by what was
\* matched, whatever the guess was and whatever a loop did to the key poses, and
\* scans are published in their order, each once (mapOptmization.cpp:1655,
\* imageProjection.cpp:343).
THEOREM OdometryMatched == PerceptionSpec => OdometrySteps
<1>1. /\ ClockInv /\ QueueInv /\ [PerceptionNext]_perceptionVars
      => [back' # back => incremental' = incremental + back'[1] - mapped]_mappingVars
  BY MappingAlone, IncrementStep
<1>2. /\ ClockInv /\ QueueInv /\ [PerceptionNext]_perceptionVars
      => [info' # info /\ info # <<>> => info'.scan > info.scan]_projectionVars
  BY ProjectionAlone, ScanStep
<1>3. QED
  BY <1>1, <1>2, OdometryInvariant, PTL
  DEF PerceptionSpec, OdometrySteps, IncrementIsMatched, ScansOnce

----------------------------------------------------------------------------
(* The lane of the leader on its way to the follower. *)

LEMMA LaneAlone ==
  ASSUME [PerceptionNext]_perceptionVars
  PROVE  [LaneNext]_feedVars
<1>1. CASE PerceptionNext
  BY <1>1 DEF PerceptionNext, Others
<1>2. CASE UNCHANGED perceptionVars
  BY <1>2 DEF perceptionVars
<1>3. QED
  BY <1>1, <1>2

\* An age that may grow is still one the timeout distinguishes.
LEMMA OlderAge ==
  ASSUME NEW t \in Nat, NEW age \in Ages(t)
  PROVE  /\ Older(age, t) \in Ages(t)
         /\ Older(age, t) = None <=> age = None
BY DEF Older, Ages

LEMMA LaneTypeStep == LaneTypeOK /\ [LaneNext]_feedVars => LaneTypeOK'
<1> SUFFICES ASSUME LaneTypeOK, [LaneNext]_feedVars
             PROVE  LaneTypeOK'
  OBVIOUS
<1> USE DEF LaneTypeOK, TeleTypeOK, teleVars, laneVars, feedVars
<1>1. CASE LanePose
  BY <1>1 DEF LanePose
<1>2. ASSUME NEW i \in Stamped, InputCb(i), UNCHANGED laneVars
      PROVE  LaneTypeOK'
  BY <1>2 DEF InputCb, Ages
<1>3. ASSUME NEW v \in OwnSpeeds, SelfOdomCb(v), UNCHANGED laneVars
      PROVE  LaneTypeOK'
  BY <1>3 DEF SelfOdomCb
<1>4. CASE LaneNotAnchored
  BY <1>4 DEF LaneNotAnchored
<1>5. CASE LaneSent
  BY <1>5 DEF LaneSent, LeaderPathCb, Ages
<1>6. CASE LaneThrottled
  BY <1>6 DEF LaneThrottled
<1>7. CASE TeleTimer
  <2>1. selfV # None => selfV \in OwnSpeeds
    OBVIOUS
  <2>2. teleOut' \in Telemetry
    BY <1>7, <2>1 DEF TeleTimer, TelemetryStep, HaveInputs, Telemetry
  <2>3. outage' \in Nat \cup {None}
    BY <1>7 DEF TeleTimer
  <2>4. QED
    BY <1>7, <2>2, <2>3 DEF TeleTimer, TelemetryStep
<1>8. CASE NextPeriod
  <2>1. stampAge' \in [Stamped -> Ages(InputTimeout)]
    BY <1>8, OlderAge DEF NextPeriod, TeleElapse
  <2>2. wait' \in 0..LanePeriod
    BY <1>8 DEF NextPeriod
  <2>3. sentAge' \in Nat \cup {None}
    BY <1>8 DEF NextPeriod
  <2>4. TeleTypeOK'
    BY <1>8, <2>1 DEF NextPeriod, TeleElapse
  <2>5. lanePose' \in BOOLEAN /\ teleFired' \in BOOLEAN /\ UNCHANGED outage
    BY <1>8 DEF NextPeriod
  <2>6. QED
    BY <2>2, <2>3, <2>4, <2>5
<1>9. CASE UNCHANGED feedVars
  BY <1>9
<1>10. QED
  BY <1>1, <1>2, <1>3, <1>4, <1>5, <1>6, <1>7, <1>8, <1>9 DEF LaneNext, OtherInput

LEMMA LaneTypeInit == LaneInit => LaneTypeOK
<1> SUFFICES ASSUME LaneInit
             PROVE  LaneTypeOK
  OBVIOUS
<1>1. TeleTypeOK
  BY DEF LaneInit, TeleInit, TeleTypeOK, Ages
<1>2. wait \in 0..LanePeriod
  BY DEF LaneInit
<1>3. QED
  BY <1>1, <1>2 DEF LaneInit, LaneTypeOK

\* The path the follower holds is as old as the last one sent, and that is
\* never older than the throttle and one publication period together, of
\* which the periods until the next publication are still to come.
LaneOnTime ==
  /\ sentAge # None =>
       /\ lanePose
       /\ stampAge["path"] = Least(sentAge, InputTimeout + 1)
       /\ sentAge + wait <= MinDt + LanePeriod

\* The other inputs are at most one period old; what valid Telemetry needed
\* once is never lost.
InputsKept ==
  /\ \A i \in Stamped \ {"path"} : stampAge[i] # None => stampAge[i] <= 1
  /\ stampAge["path"] # None => sentAge # None
  /\ outage # None => /\ pathUsable
                      /\ selfV # None
                      /\ \A i \in Stamped : stampAge[i] # None

\* How long ago the lane was sent when the timer of acc_telemetry last fired.
AgeTold == IF teleFired THEN sentAge ELSE sentAge - 1

\* An outage has been as long as the lane was too old when it was looked at.
OutageAged == outage # None /\ outage > 0 /\ AgeTold >= 1 => outage + InputTimeout <= AgeTold

FeedInv == LaneTypeOK /\ LaneOnTime /\ InputsKept /\ OutageAged /\ OutageBounded

LEMMA FeedInvInit == LaneInit => FeedInv
BY LaneTypeInit
DEF LaneInit, TeleInit, FeedInv, LaneOnTime, InputsKept, OutageAged, OutageBounded

\* _tick finds every input but the lane fresh.
LEMMA OnlyLaneStale ==
  ASSUME InputTimeout # 0, FeedInv, outage # None
  PROVE  HaveInputs <=> sentAge <= InputTimeout
<1> USE DEF FeedInv, LaneTypeOK, TeleTypeOK, LaneOnTime, InputsKept
<1>1. \A i \in Stamped \ {"path"} : stampAge[i] \in 0..InputTimeout
  BY DEF Ages
<1>2. stampAge["path"] \in 0..InputTimeout <=> sentAge <= InputTimeout
  BY DEF Least
<1>3. QED
  BY <1>1, <1>2 DEF HaveInputs, Fresh

LEMMA TeleTimerStep ==
  ASSUME InputTimeout # 0, FeedInv, LaneTypeOK', TeleTimer
  PROVE  FeedInv'
<1> USE DEF FeedInv, LaneTypeOK, TeleTypeOK
<1>1. /\ ~teleFired /\ teleFired'
      /\ UNCHANGED <<stampAge, pathUsable, selfV, lanePose, wait, sentAge>>
      /\ teleOut' = IF HaveInputs THEN [is_valid |-> TRUE, v |-> selfV]
                                  ELSE [is_valid |-> FALSE, v |-> 0]
  BY DEF TeleTimer, TelemetryStep
<1>2. outage' = IF HaveInputs THEN 0 ELSE IF outage = None THEN None ELSE outage + 1
  <2>1. teleOut'.is_valid <=> HaveInputs
    BY <1>1
  <2>2. QED
    BY <2>1 DEF TeleTimer
<1>3. LaneOnTime'
  BY <1>1 DEF LaneOnTime
<1>4. InputsKept'
  <2>1. HaveInputs => /\ pathUsable /\ selfV # None
                      /\ \A i \in Stamped : stampAge[i] # None
    BY DEF HaveInputs, Fresh
  <2>2. QED
    BY <1>1, <1>2, <2>1 DEF InputsKept
<1>5. CASE outage = None
  BY <1>1, <1>2, <1>3, <1>4, <1>5 DEF OutageAged, OutageBounded
<1>6. CASE outage # None
  <2>1. sentAge \in Nat /\ sentAge + wait <= MinDt + LanePeriod
    BY <1>6 DEF InputsKept, LaneOnTime
  <2>2. HaveInputs <=> sentAge <= InputTimeout
    BY <1>6, OnlyLaneStale
  <2>3. outage > 0 /\ sentAge - 1 >= 1 => outage + InputTimeout <= sentAge - 1
    BY <1>1, <1>6 DEF OutageAged, AgeTold
  <2>4. outage' # None /\ outage' > 0 => outage' + InputTimeout <= sentAge
    BY <1>2, <1>6, <2>1, <2>2, <2>3
  <2>5. OutageAged'
    BY <1>1, <2>4 DEF OutageAged, AgeTold
  <2>6. outage' # None /\ outage' > 0 => outage' + InputTimeout <= MinDt + LanePeriod
    <3>1. wait \in Nat /\ MinDt \in Nat /\ LanePeriod \in Nat /\ InputTimeout \in Nat
      BY LaneAssumption, TelemetryAssumption
    <3>2. outage' # None => outage' \in Int
      OBVIOUS
    <3> HIDE DEF FeedInv, LaneTypeOK, TeleTypeOK
    <3>3. QED
      BY <2>1, <2>4, <3>1, <3>2
  <2>7. OutageBounded'
    BY <2>6 DEF OutageBounded
  <2>8. QED
    BY <1>3, <1>4, <2>5, <2>7
<1>7. QED
  BY <1>5, <1>6

LEMMA FeedInvStep ==
  ASSUME InputTimeout # 0, FeedInv, [LaneNext]_feedVars
  PROVE  FeedInv'
<1>1. LaneTypeOK'
  BY LaneTypeStep DEF FeedInv
<1> USE DEF FeedInv, LaneTypeOK, TeleTypeOK, LaneOnTime, InputsKept, OutageAged,
            OutageBounded, AgeTold, teleVars, laneVars, feedVars
<1>2. CASE LanePose
  BY <1>1, <1>2 DEF LanePose
<1>3. ASSUME NEW i \in Stamped, InputCb(i), UNCHANGED laneVars
      PROVE  FeedInv'
  BY <1>1, <1>3 DEF InputCb
<1>4. ASSUME NEW v \in OwnSpeeds, SelfOdomCb(v), UNCHANGED laneVars
      PROVE  FeedInv'
  BY <1>1, <1>4 DEF SelfOdomCb
<1>5. CASE LaneNotAnchored
  BY <1>1, <1>5 DEF LaneNotAnchored
<1>6. CASE LaneSent
  <2>1. /\ sentAge' = 0 /\ wait' = LanePeriod
        /\ stampAge' = [stampAge EXCEPT !["path"] = 0]
        /\ UNCHANGED <<selfV, teleFired, outage>>
        /\ lanePose /\ UNCHANGED lanePose
    BY <1>6 DEF LaneSent, LeaderPathCb
  <2>2. pathUsable' = (2 >= 2)
    BY <1>6 DEF LaneSent, LeaderPathCb
  <2>3. pathUsable' /\ 0 # None
    BY <2>2
  <2>4. stampAge'["path"] = 0
    BY <2>1
  <2>5. \A i \in Stamped \ {"path"} : stampAge'[i] = stampAge[i]
    BY <2>1
  <2>6. LaneOnTime'
    BY <2>1, <2>4 DEF Least
  <2>7. InputsKept'
    BY <2>1, <2>3, <2>4, <2>5
  <2>8. OutageAged' /\ OutageBounded'
    BY <2>1
  <2>9. QED
    BY <1>1, <2>6, <2>7, <2>8
<1>7. CASE LaneThrottled
  BY <1>1, <1>7 DEF LaneThrottled
<1>8. CASE TeleTimer
  BY <1>1, <1>8, TeleTimerStep
<1>9. CASE NextPeriod
  <2>1. \A i \in Stamped : stampAge'[i] = Older(stampAge[i], InputTimeout)
    BY <1>9 DEF NextPeriod, TeleElapse
  <2>2. LaneOnTime'
    BY <1>9, <2>1 DEF NextPeriod, Older, Least
  <2>3. \A i \in Stamped \ {"path"} : stampAge'[i] <= 1
    BY <1>9, <2>1 DEF NextPeriod, Older
  <2>4. \A i \in Stamped : stampAge'[i] = None <=> stampAge[i] = None
    BY <2>1, OlderAge
  <2>5. InputsKept'
    BY <1>9, <2>3, <2>4 DEF NextPeriod, TeleElapse
  <2>6. OutageAged' /\ OutageBounded'
    BY <1>9 DEF NextPeriod
  <2>7. QED
    BY <1>1, <2>2, <2>5, <2>6
<1>10. CASE UNCHANGED feedVars
  BY <1>1, <1>10
<1>11. QED
  BY <1>2, <1>3, <1>4, <1>5, <1>6, <1>7, <1>8, <1>9, <1>10 DEF LaneNext, OtherInput

\* The variables of the lane feed keep their types: ages stop one period
\* beyond the timeout, the timer counts down from its period.
THEOREM LaneTypeCorrect == PerceptionSpec => []LaneTypeOK
<1>1. PerceptionInit => LaneTypeOK
  BY LaneTypeInit DEF PerceptionInit
<1>2. LaneTypeOK /\ [PerceptionNext]_perceptionVars => LaneTypeOK'
  BY LaneAlone, LaneTypeStep
<1>3. QED
  BY <1>1, <1>2, PTL DEF PerceptionSpec

\* On a perfect network valid Telemetry is interrupted for at most as many
\* periods as throttle and publication together exceed the timeout, whatever the
\* rates, as long as the timeout is not zero: 2 with the values in the repository
\* (0.5 s and 0.1 s against 0.5 s), none if input_timeout covers both.
THEOREM OutageIsBounded ==
  ASSUME InputTimeout # 0
  PROVE  PerceptionSpec => []OutageBounded
<1>1. PerceptionInit => FeedInv
  BY FeedInvInit DEF PerceptionInit
<1>2. FeedInv /\ [PerceptionNext]_perceptionVars => FeedInv'
  BY LaneAlone, FeedInvStep
<1>3. FeedInv => OutageBounded
  BY DEF FeedInv
<1>4. QED
  BY <1>1, <1>2, <1>3, PTL DEF PerceptionSpec

----------------------------------------------------------------------------
(* The map, its path and its loops. *)

Key == [pos : Int, time : Int]
Positions(keys) == [i \in DOMAIN keys |-> keys[i].pos]

\* The key poses with a new one, as a correction leaves them.
Moved(pos, time, shift, from) ==
  LET poses == Append(keyPoses, [pos |-> pos, time |-> time])
  IN [i \in DOMAIN poses |-> [poses[i] EXCEPT !.pos = IF i >= from THEN @ + shift ELSE @]]

LEMMA MovedKeys ==
  ASSUME keyPoses \in Seq(Key), NEW pos \in Int, NEW time \in Int, NEW shift \in Int,
         NEW from \in Int
  PROVE  /\ Moved(pos, time, shift, from) \in Seq(Key)
         /\ Len(Moved(pos, time, shift, from)) = Len(keyPoses) + 1
         /\ Last(Moved(pos, time, shift, from)).pos \in Int
<1> DEFINE new == [pos |-> pos, time |-> time]
           poses == Append(keyPoses, new)
           moved == Moved(pos, time, shift, from)
           n == Len(keyPoses)
<1>1. new \in Key
  BY DEF Key
<1>2. n \in Nat /\ DOMAIN keyPoses = 1 .. n
  OBVIOUS
<1> HIDE DEF new
<1>3. /\ poses \in Seq(Key) /\ Len(poses) = n + 1 /\ DOMAIN poses = 1 .. n + 1
      /\ \A i \in 1 .. n : poses[i] = keyPoses[i]
  BY <1>1
<1>4. moved = [i \in 1 .. n + 1 |-> [poses[i] EXCEPT !.pos = IF i >= from THEN @ + shift ELSE @]]
  BY <1>3 DEF Moved, new
<1> HIDE DEF poses, moved, n
<1>5. ASSUME NEW i \in 1 .. n + 1
      PROVE  /\ moved[i] \in Key
             /\ moved[i].pos = IF i >= from THEN poses[i].pos + shift ELSE poses[i].pos
  <2>1. poses[i] \in Key
    BY <1>3
  <2>2. /\ poses[i] = [pos |-> poses[i].pos, time |-> poses[i].time]
        /\ poses[i].pos \in Int /\ poses[i].time \in Int
    BY <2>1 DEF Key
  <2>3. moved[i] = [poses[i] EXCEPT !.pos = IF i >= from THEN @ + shift ELSE @]
    BY <1>4
  <2>4. CASE i >= from
    <3>1. moved[i] = [poses[i] EXCEPT !.pos = @ + shift]
      BY <2>3, <2>4
    <3>2. moved[i] = [pos |-> poses[i].pos + shift, time |-> poses[i].time]
      BY <2>2, <3>1
    <3>3. shift \in Int /\ poses[i].pos + shift \in Int
      BY <2>2
    <3>4. QED
      BY <2>2, <2>4, <3>2, <3>3 DEF Key
  <2>5. CASE ~(i >= from)
    <3>1. moved[i] = [poses[i] EXCEPT !.pos = @]
      BY <2>3, <2>5
    <3>2. QED
      BY <2>2, <2>5, <3>1 DEF Key
  <2>6. QED
    BY <2>4, <2>5
<1>6. moved \in [1 .. n + 1 -> Key]
  BY <1>4, <1>5
<1>7. moved \in Seq(Key) /\ Len(moved) = n + 1
  BY <1>2, <1>6
<1>8. Last(moved).pos \in Int
  <2>1. n + 1 \in 1 .. n + 1
    BY <1>2
  <2>2. moved[n + 1] \in Key
    BY <1>5, <2>1
  <2>3. Last(moved) = moved[n + 1]
    BY <1>7 DEF Last
  <2>4. QED
    BY <2>2, <2>3 DEF Key
<1>9. QED
  BY <1>7, <1>8 DEF moved, n

\* A cloud enters the cache where its key frame lies.
CacheInv(cache) ==
  /\ DOMAIN cache \subseteq DOMAIN keyPoses
  /\ \A k \in DOMAIN cache : cache[k] = keyPoses[k].pos

LEMMA CacheKept ==
  ASSUME CacheInv(mapCache), NEW near \in NearKeys
  PROVE  CacheInv(CacheWith(near))
<1> DEFINE all == [k \in DOMAIN mapCache \cup near |->
                     IF k \in DOMAIN mapCache THEN mapCache[k] ELSE keyPoses[k].pos]
<1>1. near \subseteq DOMAIN keyPoses
  BY DEF NearKeys
<1>2. CacheInv(all)
  BY <1>1 DEF CacheInv
<1>3. CacheInv(<<>>)
  BY DEF CacheInv
<1>4. CacheWith(near) = all \/ CacheWith(near) = <<>>
  BY DEF CacheWith
<1>5. QED
  BY <1>2, <1>3, <1>4

LEMMA MovedByNothing ==
  ASSUME keyPoses \in Seq(Key), NEW pos \in Int, NEW time \in Int, NEW from \in Int,
         NEW i \in DOMAIN keyPoses
  PROVE  Moved(pos, time, 0, from)[i].pos = keyPoses[i].pos
<1> DEFINE new == [pos |-> pos, time |-> time]
           poses == Append(keyPoses, new)
<1>1. new \in Key
  BY DEF Key
<1> HIDE DEF new
<1>2. i \in DOMAIN poses /\ poses[i] = keyPoses[i]
  BY <1>1
<1>3. keyPoses[i] \in Key
  BY ElementOfSeq
<1> HIDE DEF poses
<1>4. Moved(pos, time, 0, from)[i]
      = [poses[i] EXCEPT !.pos = IF i >= from THEN @ + 0 ELSE @]
  BY <1>2 DEF Moved, poses, new
<1>5. Moved(pos, time, 0, from)[i].pos = IF i >= from THEN keyPoses[i].pos + 0
                                         ELSE keyPoses[i].pos
  BY <1>2, <1>3, <1>4 DEF Key
<1>6. keyPoses[i].pos \in Int
  BY <1>3 DEF Key
<1>7. QED
  BY <1>5, <1>6

LEMMA KeyPositions ==
  ASSUME NEW keys \in Seq(Key)
  PROVE  \A i \in DOMAIN keys : keys[i].pos \in Int /\ keys[i].time \in Int
<1> TAKE i \in DOMAIN keys
<1>1. keys[i] \in Key
  BY ElementOfSeq
<1>2. QED
  BY <1>1 DEF Key

LEMMA PositionsAfter ==
  ASSUME keyPoses \in Seq(Key), NEW moved \in Seq(Key), Len(moved) = Len(keyPoses) + 1,
         \A i \in DOMAIN keyPoses : moved[i].pos = keyPoses[i].pos
  PROVE  Append(Positions(keyPoses), Last(moved).pos) = Positions(moved)
<1> DEFINE n == Len(keyPoses)
           old == Positions(keyPoses)
           newest == moved[n + 1].pos
           longer == Append(old, newest)
<1>1. n \in Nat /\ DOMAIN keyPoses = 1 .. n /\ DOMAIN moved = 1 .. n + 1
  OBVIOUS
<1>2. Last(moved).pos = newest
  BY DEF Last
<1>3. \A i \in 1 .. n : keyPoses[i].pos \in Int
  BY <1>1, KeyPositions
<1>4. \A i \in 1 .. n + 1 : moved[i].pos \in Int
  BY <1>1, KeyPositions
<1>5. n + 1 \in 1 .. n + 1
  BY <1>1
<1>6. newest \in Int
  BY <1>4, <1>5
<1>7. old = [i \in 1 .. n |-> keyPoses[i].pos]
  BY <1>1 DEF Positions
<1>8. old \in Seq(Int) /\ Len(old) = n /\ \A i \in 1 .. n : old[i] = keyPoses[i].pos
  <2>1. old \in [1 .. n -> Int]
    BY <1>3, <1>7
  <2>2. QED
    BY <1>1, <1>7, <2>1
<1> HIDE DEF old, newest, n
<1>9. /\ longer \in Seq(Int) /\ Len(longer) = n + 1
      /\ \A i \in 1 .. n : longer[i] = old[i]
      /\ longer[n + 1] = newest
  BY <1>6, <1>8, AppendProperties
<1> HIDE DEF longer
<1>10. Positions(moved) = [i \in 1 .. n + 1 |-> moved[i].pos]
  BY <1>1 DEF Positions
<1>11. Positions(moved) \in Seq(Int) /\ Len(Positions(moved)) = n + 1
  <2>1. Positions(moved) \in [1 .. n + 1 -> Int]
    BY <1>4, <1>10
  <2>2. QED
    BY <1>1, <2>1
<1>12. ASSUME NEW i \in 1 .. n + 1
       PROVE  longer[i] = Positions(moved)[i]
  <2>1. Positions(moved)[i] = moved[i].pos
    BY <1>10
  <2>2. CASE i = n + 1
    BY <1>9, <2>1, <2>2 DEF newest
  <2>3. CASE i # n + 1
    <3>1. i \in 1 .. n
      BY <1>1, <2>3
    <3>2. longer[i] = keyPoses[i].pos
      BY <1>8, <1>9, <3>1
    <3>3. QED
      BY <1>1, <2>1, <3>1, <3>2
  <2>4. QED
    BY <2>2, <2>3
<1>13. longer = Positions(moved)
  BY <1>9, <1>11, <1>12, SeqEqual, Zenon
<1>14. QED
  BY <1>2, <1>13 DEF longer, old

\* What a key frame leaves of keys, path and cache, and of the loops that were found.
LEMMA SaveStep ==
  ASSUME keyPoses \in Seq(Key), path = Positions(keyPoses),
         NEW time \in Int, NEW pos \in Int, NEW cache, CacheInv(cache),
         SaveKeyFrame(time, pos, cache)
  PROVE  /\ keyPoses' \in Seq(Key) /\ Len(keyPoses') = Len(keyPoses) + 1
         /\ mapped' \in Int
         /\ CacheInv(mapCache)'
         /\ path' = Positions(keyPoses')
         /\ factors' = factors \cup Range(loopQueue) /\ loopQueue' = <<>>
<1>1. PICK gps \in GpsChoices(time) :
        LET poses  == Append(keyPoses, [pos |-> pos, time |-> time])
            closed == gps.used \/ loopQueue # <<>>
        IN \E shift \in (IF closed THEN Shifts ELSE {0}), from \in DOMAIN poses :
             /\ shift = 0 => from = 1
             /\ CorrectPoses(Moved(pos, time, shift, from), closed, cache)
             /\ mapped' = Last(Moved(pos, time, shift, from)).pos
             /\ factors' = factors \cup Range(loopQueue) /\ loopQueue' = <<>>
  BY DEF SaveKeyFrame, Moved
<1> DEFINE closed == gps.used \/ loopQueue # <<>>
           poses == Append(keyPoses, [pos |-> pos, time |-> time])
<1>2. PICK shift \in (IF closed THEN Shifts ELSE {0}), from \in DOMAIN poses :
        /\ CorrectPoses(Moved(pos, time, shift, from), closed, cache)
        /\ mapped' = Last(Moved(pos, time, shift, from)).pos
        /\ factors' = factors \cup Range(loopQueue) /\ loopQueue' = <<>>
  BY <1>1
<1>3. shift \in Int /\ (~closed => shift = 0)
  OBVIOUS
<1>4. from \in Int
  <2>1. [pos |-> pos, time |-> time] \in Key
    BY DEF Key
  <2>2. poses \in Seq(Key)
    BY <2>1
  <2>3. DOMAIN poses = 1 .. Len(poses) /\ Len(poses) \in Nat
    BY <2>2
  <2>4. QED
    BY <2>3
<1> HIDE DEF closed, poses
<1> DEFINE moved == Moved(pos, time, shift, from)
<1>5. /\ moved \in Seq(Key) /\ Len(moved) = Len(keyPoses) + 1 /\ Last(moved).pos \in Int
      /\ shift = 0 => \A i \in DOMAIN keyPoses : moved[i].pos = keyPoses[i].pos
  <2>1. shift \in Int
    BY <1>3
  <2>2. keyPoses \in Seq(Key) /\ pos \in Int /\ time \in Int
    OBVIOUS
  <2>3. moved \in Seq(Key) /\ Len(moved) = Len(keyPoses) + 1 /\ Last(moved).pos \in Int
    BY <1>4, <2>1, <2>2, MovedKeys
  <2>4. ASSUME shift = 0, NEW i \in DOMAIN keyPoses
        PROVE  moved[i].pos = keyPoses[i].pos
    <3>1. moved = Moved(pos, time, 0, from)
      BY <2>4
    <3>2. Moved(pos, time, 0, from)[i].pos = keyPoses[i].pos
      BY <1>4, <2>2, MovedByNothing
    <3>3. QED
      BY <3>1, <3>2
  <2>5. QED
    BY <2>3, <2>4
<1> HIDE DEF moved
<1>6. /\ keyPoses' = moved
      /\ path' = IF closed THEN Positions(moved) ELSE Append(path, Last(moved).pos)
      /\ mapCache' = IF closed THEN <<>> ELSE cache
  BY <1>2 DEF CorrectPoses, Positions, moved
<1>7. CASE closed
  <2>1. mapCache' = <<>> /\ path' = Positions(moved)
    BY <1>6, <1>7
  <2>2. CacheInv(mapCache)'
    BY <2>1 DEF CacheInv
  <2>3. QED
    BY <1>2, <1>5, <1>6, <2>1, <2>2 DEF moved
<1>8. CASE ~closed
  <2>1. \A i \in DOMAIN keyPoses : moved[i].pos = keyPoses[i].pos
    BY <1>3, <1>5, <1>8
  <2>2. path' = Positions(moved)
    BY <1>5, <1>6, <1>8, <2>1, PositionsAfter
  <2>3. DOMAIN keyPoses \subseteq DOMAIN moved
    BY <1>5
  <2>4. CacheInv(mapCache)'
    BY <1>6, <1>8, <2>1, <2>3 DEF CacheInv
  <2>5. QED
    BY <1>2, <1>5, <1>6, <2>2, <2>4 DEF moved
<1>9. QED
  BY <1>7, <1>8

\* Key poses, path and cache agree.
PathInv ==
  /\ ClockInv
  /\ keyPoses \in Seq(Key) /\ mapped \in Int
  /\ CacheInv(mapCache) /\ path = Positions(keyPoses)

\* l joins two of the keys, and its newer one is remembered.
Joins(l) == 0 < l[2] /\ l[2] < l[1] /\ l[1] <= Len(keyPoses) /\ l[1] \in loopContainer

\* Loops are remembered before they are queued; the loop thread sees no key that
\* the graph does not have.
LoopsInv ==
  /\ loopQueue \in Seq(Int \X Int) /\ factors \subseteq Int \X Int
  /\ \A l \in factors \cup Range(loopQueue) : Joins(l)
  /\ \A l, m \in factors \cup Range(loopQueue) : l[1] = m[1] => l = m
  /\ IsFiniteSet(Range(loopQueue)) /\ Len(loopQueue) = Cardinality(Range(loopQueue))
  /\ copy \in Seq(Key) /\ Len(copy) <= Len(keyPoses)
  /\ loopPc = "align" =>
       \E cur, pre \in Int :
         /\ loopPair = <<cur, pre>>
         /\ 0 < pre /\ pre < cur /\ cur <= Len(keyPoses) /\ cur \notin loopContainer

MapInv == PathInv /\ LoopsInv

LEMMA AppendRange ==
  ASSUME NEW S, NEW q \in Seq(S), NEW e \in S
  PROVE  Range(Append(q, e)) = Range(q) \cup {e}
<1> DEFINE longer == Append(q, e)
           n == Len(q)
<1>1. /\ longer \in Seq(S) /\ Len(longer) = n + 1 /\ longer[n + 1] = e
      /\ \A i \in 1 .. n : longer[i] = q[i]
  BY AppendProperties
<1>2. n \in Nat /\ DOMAIN q = 1 .. n /\ DOMAIN longer = 1 .. n + 1
  BY <1>1
<1> HIDE DEF longer, n
<1>3. ASSUME NEW x \in Range(longer)
      PROVE  x \in Range(q) \cup {e}
  <2>1. PICK i \in 1 .. n + 1 : x = longer[i]
    BY <1>2 DEF Range
  <2>2. CASE i = n + 1
    BY <1>1, <2>1, <2>2
  <2>3. CASE i # n + 1
    <3>1. i \in 1 .. n
      BY <1>2, <2>3
    <3>2. QED
      BY <1>1, <1>2, <2>1, <3>1 DEF Range
  <2>4. QED
    BY <2>2, <2>3
<1>4. ASSUME NEW x \in Range(q) \cup {e}
      PROVE  x \in Range(longer)
  <2>1. CASE x = e
    <3>1. n + 1 \in 1 .. n + 1
      BY <1>2
    <3>2. QED
      BY <1>1, <1>2, <2>1, <3>1 DEF Range
  <2>2. CASE x # e
    <3>1. PICK i \in 1 .. n : x = q[i]
      BY <1>2, <2>2 DEF Range
    <3>2. i \in 1 .. n + 1 /\ x = longer[i]
      BY <1>1, <1>2, <3>1
    <3>3. QED
      BY <1>2, <3>2 DEF Range
  <2>3. QED
    BY <2>1, <2>2
<1>5. QED
  BY <1>3, <1>4 DEF longer

LEMMA EmptyRange == Range(<<>>) = {}
BY DEF Range

\* Loops stay what they are while keys are added and found loops become factors.
LEMMA LoopsGrow ==
  ASSUME PathInv, LoopsInv, PathInv', Len(keyPoses') >= Len(keyPoses), UNCHANGED threadVars,
         \/ UNCHANGED <<loopQueue, factors>>
         \/ factors' = factors \cup Range(loopQueue) /\ loopQueue' = <<>>
  PROVE  LoopsInv'
<1>1. /\ Len(keyPoses) \in Nat /\ Len(keyPoses') \in Nat /\ Len(copy) \in Nat
  BY DEF PathInv, LoopsInv
<1>2. factors' \cup Range(loopQueue') = factors \cup Range(loopQueue)
  BY EmptyRange
<1>3. factors \cup Range(loopQueue) \subseteq Int \X Int
  BY DEF LoopsInv, Range
<1>4. \A l \in factors \cup Range(loopQueue) : Joins(l)'
  <2> SUFFICES ASSUME NEW l \in factors \cup Range(loopQueue)
               PROVE  Joins(l)'
    OBVIOUS
  <2>1. Joins(l) /\ l[1] \in Int
    BY <1>3 DEF LoopsInv
  <2>2. QED
    BY <1>1, <2>1 DEF Joins, threadVars
<1>5. /\ loopQueue' \in Seq(Int \X Int) /\ factors' \subseteq Int \X Int
  <2>1. <<>> \in Seq(Int \X Int)
    OBVIOUS
  <2>2. loopQueue' \in Seq(Int \X Int)
    BY <2>1 DEF LoopsInv
  <2>3. factors' \subseteq Int \X Int
    BY <1>3 DEF LoopsInv
  <2>4. QED
    BY <2>2, <2>3
<1>6. IsFiniteSet(Range(loopQueue')) /\ Len(loopQueue') = Cardinality(Range(loopQueue'))
  <2>1. CASE UNCHANGED loopQueue
    BY <2>1 DEF LoopsInv
  <2>2. CASE loopQueue' = <<>>
    <3>1. Range(loopQueue') = {} /\ Len(loopQueue') = 0
      BY <2>2, EmptyRange
    <3>2. QED
      BY <3>1, FS_EmptySet
  <2>3. QED
    BY <2>1, <2>2
<1>7. copy' \in Seq(Key) /\ Len(copy') <= Len(keyPoses')
  BY <1>1 DEF LoopsInv, threadVars
<1>8. ASSUME loopPc' = "align"
      PROVE  \E cur, pre \in Int :
               /\ loopPair' = <<cur, pre>>
               /\ 0 < pre /\ pre < cur /\ cur <= Len(keyPoses') /\ cur \notin loopContainer'
  <2>1. PICK cur \in Int, pre \in Int :
          /\ loopPair = <<cur, pre>>
          /\ 0 < pre /\ pre < cur /\ cur <= Len(keyPoses) /\ cur \notin loopContainer
    BY <1>8 DEF LoopsInv, threadVars
  <2>2. cur <= Len(keyPoses')
    BY <1>1, <2>1
  <2>3. loopPair' = <<cur, pre>> /\ cur \notin loopContainer'
    BY <2>1 DEF threadVars
  <2>4. QED
    BY <2>1, <2>2, <2>3
<1>9. \A l, m \in factors' \cup Range(loopQueue') : l[1] = m[1] => l = m
  BY <1>2 DEF LoopsInv
<1>10. QED
  BY <1>2, <1>4, <1>5, <1>6, <1>7, <1>8, <1>9 DEF LoopsInv

LEMMA ScanKeepsMap ==
  ASSUME MapInv, NEW time \in timeLaserInfoCur + 1 .. LastScan, NEW step \in Int, NEW rich,
         ProcessScan(time, step, rich), ClockInv'
  PROVE  MapInv'
<1>1. PICK near \in NearKeys :
        LET first == keyPoses = <<>>
            pos   == IF first THEN mapped ELSE mapped + step
            cache == IF first THEN mapCache ELSE CacheWith(near)
        IN IF SaveFrame(time, pos) THEN SaveKeyFrame(time, pos, cache)
           ELSE /\ mapped' = pos /\ mapCache' = cache
                /\ UNCHANGED <<keyPoses, path, gpsQueue, loopQueue, factors>>
  BY DEF ProcessScan
<1>2. PICK pos, cache :
        /\ pos = IF keyPoses = <<>> THEN mapped ELSE mapped + step
        /\ cache = IF keyPoses = <<>> THEN mapCache ELSE CacheWith(near)
        /\ IF SaveFrame(time, pos) THEN SaveKeyFrame(time, pos, cache)
           ELSE /\ mapped' = pos /\ mapCache' = cache
                /\ UNCHANGED <<keyPoses, path, gpsQueue, loopQueue, factors>>
  BY <1>1
<1>3. time \in Int /\ mapped \in Int
  BY DEF MapInv, PathInv
<1>4. pos \in Int
  BY <1>2, <1>3
<1>5. CacheInv(cache)
  BY <1>2, CacheKept DEF MapInv, PathInv
<1>6. UNCHANGED threadVars
  BY DEF ProcessScan
<1>7. CASE SaveFrame(time, pos)
  <2>1. SaveKeyFrame(time, pos, cache)
    BY <1>2, <1>7
  <2>2. /\ keyPoses' \in Seq(Key) /\ Len(keyPoses') = Len(keyPoses) + 1
        /\ mapped' \in Int /\ CacheInv(mapCache)' /\ path' = Positions(keyPoses')
        /\ factors' = factors \cup Range(loopQueue) /\ loopQueue' = <<>>
    BY <1>3, <1>4, <1>5, <2>1, SaveStep DEF MapInv, PathInv
  <2>3. PathInv'
    BY <2>2 DEF PathInv
  <2>4. Len(keyPoses) \in Nat
    BY DEF MapInv, PathInv
  <2>5. Len(keyPoses') >= Len(keyPoses)
    BY <2>2, <2>4
  <2>6. LoopsInv'
    BY <1>6, <2>2, <2>3, <2>5, LoopsGrow DEF MapInv
  <2>7. QED
    BY <2>3, <2>6 DEF MapInv
<1>8. CASE ~SaveFrame(time, pos)
  <2>1. mapped' = pos /\ mapCache' = cache /\ UNCHANGED <<keyPoses, path, loopQueue, factors>>
    BY <1>2, <1>8
  <2>2. CacheInv(mapCache)'
    BY <1>5, <2>1 DEF CacheInv
  <2>3. PathInv'
    BY <1>4, <2>1, <2>2 DEF MapInv, PathInv, Positions
  <2>4. Len(keyPoses) \in Nat /\ Len(keyPoses') >= Len(keyPoses)
    BY <2>1 DEF MapInv, PathInv
  <2>5. LoopsInv'
    BY <1>6, <2>1, <2>3, <2>4, LoopsGrow DEF MapInv
  <2>6. QED
    BY <2>3, <2>5 DEF MapInv
<1>9. QED
  BY <1>7, <1>8

\* The thread: the copy is taken from the keys, the pair from the copy, and a key
\* is remembered when its loop is queued.
LEMMA DetectKeepsLoops ==
  ASSUME PathInv, LoopsInv, LoopDetect
  PROVE  LoopsInv'
<1>1. UNCHANGED <<keyPoses, factors, loopQueue, loopContainer>>
  BY DEF LoopDetect, poseVars, graphVars
<1>2. CASE loopPc' = "sleep" /\ copy' = <<>>
  <2>1. copy' \in Seq(Key) /\ Len(copy') = 0 /\ Len(keyPoses) \in Nat
    BY <1>2 DEF PathInv
  <2>2. QED
    BY <1>1, <1>2, <2>1 DEF LoopsInv, Joins
<1>3. CASE ~(loopPc' = "sleep" /\ copy' = <<>>)
  <2>1. PICK pre \in DOMAIN copy \ {Len(copy)} :
          /\ Len(copy) \notin loopContainer /\ loopPair' = <<Len(copy), pre>>
          /\ loopPc' = "align" /\ UNCHANGED copy
    BY <1>3 DEF LoopDetect
  <2>2. /\ Len(copy) \in Int /\ pre \in Int /\ 0 < pre /\ pre < Len(copy)
        /\ Len(copy) <= Len(keyPoses)
    BY DEF LoopsInv
  <2>3. QED
    BY <1>1, <2>1, <2>2 DEF LoopsInv, Joins
<1>4. QED
  BY <1>2, <1>3

LEMMA AlignKeepsLoops ==
  ASSUME PathInv, LoopsInv, LoopAlign
  PROVE  LoopsInv'
<1>1. UNCHANGED <<keyPoses, factors>> /\ loopPc' = "sleep" /\ copy' = <<>>
  BY DEF LoopAlign, poseVars, graphVars
<1>2. copy' \in Seq(Key) /\ Len(copy') = 0 /\ Len(keyPoses) \in Nat
  BY <1>1 DEF PathInv
<1>3. CASE UNCHANGED <<loopQueue, loopContainer>>
  BY <1>1, <1>2, <1>3 DEF LoopsInv, Joins
<1>4. CASE loopQueue' = Append(loopQueue, loopPair) /\ LoopRemember(loopPair)
  <2>1. PICK cur \in Int, pre \in Int :
          /\ loopPair = <<cur, pre>>
          /\ 0 < pre /\ pre < cur /\ cur <= Len(keyPoses) /\ cur \notin loopContainer
    BY DEF LoopsInv, LoopAlign
  <2> DEFINE old == factors \cup Range(loopQueue)
  <2>2. loopPair \in Int \X Int /\ loopPair[1] = cur /\ loopPair[2] = pre
    BY <2>1
  <2>3. loopContainer' = loopContainer \cup {cur}
    BY <1>4, <2>2 DEF LoopRemember
  <2>4. Range(loopQueue') = Range(loopQueue) \cup {loopPair}
    BY <1>4, <2>2, AppendRange DEF LoopsInv
  <2>5. loopPair \notin old
    BY <2>1, <2>2 DEF LoopsInv, Joins
  <2>6. \A l \in old \cup {loopPair} : Joins(l)'
    <3> SUFFICES ASSUME NEW l \in old \cup {loopPair}
                 PROVE  Joins(l)'
      OBVIOUS
    <3>1. CASE l = loopPair
      <4>1. l[1] = cur /\ l[2] = pre
        BY <2>2, <3>1
      <4>2. l[1] \in loopContainer'
        BY <2>3, <4>1
      <4>3. QED
        BY <1>1, <2>1, <4>1, <4>2 DEF Joins
    <3>2. CASE l # loopPair
      <4>1. Joins(l)
        BY <3>2 DEF LoopsInv
      <4>2. l[1] \in loopContainer'
        BY <2>3, <4>1 DEF Joins
      <4>3. QED
        BY <1>1, <4>1, <4>2 DEF Joins
    <3>3. QED
      BY <3>1, <3>2
  <2>7. \A l \in old : l[1] # cur
    BY <2>1 DEF LoopsInv, Joins
  <2>8. \A l, m \in old \cup {loopPair} : l[1] = m[1] => l = m
    BY <2>2, <2>7 DEF LoopsInv
  <2>9. /\ IsFiniteSet(Range(loopQueue'))
        /\ Cardinality(Range(loopQueue')) = Cardinality(Range(loopQueue)) + 1
    BY <2>4, <2>5, FS_AddElement DEF LoopsInv
  <2>10. loopQueue' \in Seq(Int \X Int) /\ Len(loopQueue') = Len(loopQueue) + 1
    BY <1>4, <2>2, AppendProperties DEF LoopsInv
  <2>11. factors' \cup Range(loopQueue') = old \cup {loopPair}
    BY <1>1, <2>4
  <2>12. Len(loopQueue') = Cardinality(Range(loopQueue'))
    BY <2>9, <2>10 DEF LoopsInv
  <2>13. factors' \subseteq Int \X Int
    BY <1>1 DEF LoopsInv
  <2> HIDE DEF old
  <2>14. Len(copy') <= Len(keyPoses')
    BY <1>1, <1>2
  <2>15. QED
    BY <1>1, <1>2, <2>6, <2>8, <2>9, <2>10, <2>11, <2>12, <2>13, <2>14 DEF LoopsInv
<1>5. QED
  BY <1>3, <1>4 DEF LoopAlign

LEMMA MapStep ==
  ASSUME MapInv, [MappingNext]_mappingVars
  PROVE  MapInv'
<1>1. ClockInv'
  BY ClockKept DEF MapInv, PathInv
<1>2. ASSUME NEW time \in timeLaserInfoCur + 1 .. LastScan, SkipScan(time)
      PROVE  MapInv'
  BY <1>1, <1>2 DEF SkipScan, MapInv, PathInv, LoopsInv, Joins, CacheInv, graphVars, threadVars
<1>3. ASSUME NEW time \in timeLaserInfoCur + 1 .. LastScan, NEW guess \in Guesses,
             \/ ProcessScan(time, guess, FALSE)
             \/ \E step \in Matches(guess) : ProcessScan(time, step, TRUE)
      PROVE  MapInv'
  <2>1. guess \in Int /\ \A step \in Matches(guess) : step \in Int
    BY DEF Guesses, Matches
  <2>2. QED
    BY <1>1, <1>3, <2>1, ScanKeepsMap
<1>4. CASE GpsHandler
  BY <1>1, <1>4 DEF GpsHandler, MapInv, PathInv, LoopsInv, Joins, CacheInv, poseVars, threadVars
<1>5. CASE LoopCopy
  <2>1. PathInv'
    BY <1>1, <1>5 DEF LoopCopy, MapInv, PathInv, CacheInv, poseVars, graphVars
  <2>2. /\ copy' = keyPoses /\ loopPc' = "detect"
        /\ UNCHANGED <<keyPoses, factors, loopQueue, loopContainer>>
    BY <1>5 DEF LoopCopy, poseVars, graphVars
  <2>3. copy' \in Seq(Key) /\ Len(copy') <= Len(keyPoses')
    <3>1. Len(keyPoses) \in Nat
      BY DEF MapInv, PathInv
    <3>2. QED
      BY <2>2, <3>1 DEF MapInv, PathInv
  <2>4. LoopsInv'
    BY <2>2, <2>3 DEF MapInv, LoopsInv, Joins
  <2>5. QED
    BY <2>1, <2>4 DEF MapInv
<1>6. CASE LoopDetect
  <2>1. PathInv'
    BY <1>1, <1>6 DEF LoopDetect, MapInv, PathInv, CacheInv, poseVars, graphVars
  <2>2. QED
    BY <1>6, <2>1, DetectKeepsLoops DEF MapInv
<1>7. CASE LoopAlign
  <2>1. PathInv'
    BY <1>1, <1>7 DEF LoopAlign, MapInv, PathInv, CacheInv, poseVars, graphVars
  <2>2. QED
    BY <1>7, <2>1, AlignKeepsLoops DEF MapInv
<1>8. CASE UNCHANGED mappingVars
  BY <1>1, <1>8 DEF MapInv, PathInv, LoopsInv, Joins, CacheInv, mappingVars, poseVars,
                    graphVars, threadVars
<1>9. QED
  BY <1>2, <1>3, <1>4, <1>5, <1>6, <1>7, <1>8 DEF MappingNext, LaserCloudInfoHandler

LEMMA MapInit == MappingInit => MapInv
<1> SUFFICES ASSUME MappingInit
             PROVE  MapInv
  OBVIOUS
<1>1. PathInv
  BY DEF MappingInit, PathInv, ClockInv, CacheInv, Positions
<1>2. IsFiniteSet(Range(loopQueue)) /\ Len(loopQueue) = Cardinality(Range(loopQueue))
  BY EmptyRange, FS_EmptySet DEF MappingInit
<1>3. factors \cup Range(loopQueue) = {}
  BY EmptyRange DEF MappingInit
<1>4. copy \in Seq(Key) /\ Len(copy) <= Len(keyPoses) /\ loopPc # "align"
  BY DEF MappingInit
<1>5. loopQueue \in Seq(Int \X Int) /\ factors \subseteq Int \X Int
  BY DEF MappingInit
<1>6. LoopsInv
  BY <1>2, <1>3, <1>4, <1>5 DEF LoopsInv
<1>7. QED
  BY <1>1, <1>6 DEF MapInv

\* Whatever matching finds and however loops and GPS shift the key frames: every
\* cloud of the cache and every point of the path lies where its key frame is
\* now, and every loop of the graph joins two key frames, one loop at most for
\* the newer of them, although the loop thread works on a copy
\* (mapOptmization.cpp:1593, 1595, 608).
THEOREM MapStaysConsistent == PerceptionSpec => []MapConsistent
<1>1. PerceptionInit => MapInv
  BY MapInit DEF PerceptionInit
<1>2. MapInv /\ [PerceptionNext]_perceptionVars => MapInv'
  BY MappingAlone, MapStep
<1>3. MapInv => MapConsistent
  BY DEF MapInv, PathInv, LoopsInv, Joins, CacheInv, Positions, MapConsistent,
         CacheCurrent, PathShowsKeys, LoopsJoinKeys
<1>4. QED
  BY <1>1, <1>2, <1>3, PTL DEF PerceptionSpec

----------------------------------------------------------------------------
(* The settings of a lidar. *)

LEMMA LinkAlone ==
  ASSUME [PerceptionNext]_perceptionVars
  PROVE  [LinkNext]_linkVars
<1>1. CASE PerceptionNext
  BY <1>1 DEF PerceptionNext, Others
<1>2. CASE UNCHANGED perceptionVars
  BY <1>2 DEF perceptionVars
<1>3. QED
  BY <1>1, <1>2

\* Settings are for a lidar of the configuration that the driver was told of.
Allowed(k) == k \in Settings => inCfg /\ sdk.called

\* What the lidar has taken over or refused.
Answered == applied \cup refused

\* What was answered was taken over or refused.
AirInv == \A a \in air : Allowed(a.of[1]) /\ (a.dir # "request" => a.of[1] \in Answered)

\* A setting whose bit is cleared was answered.
BitsInv ==
  /\ inCfg /\ sdk.called => Settings \ device.bits \subseteq Answered
  /\ device.sampling => inCfg /\ sdk.called /\ Settings \subseteq Answered

LinkInv ==
  /\ "called" \in DOMAIN sdk /\ {"bits", "sampling"} \subseteq DOMAIN device
  /\ \A m \in commands \cup adding : Allowed(m[1])
  /\ AirInv
  /\ \A k \in Answered : Allowed(k)
  /\ BitsInv

LEMMA PutKinds ==
  ASSUME NEW ks, NEW flying, Put(ks, flying)
  PROVE  \A a \in air' : a \in flying \/ (a.dir = "request" /\ a.of[1] \in ks)
BY DEF Put, Message

\* What a step that answers nothing has to show: new messages are allowed ones, and
\* the bits still say what was answered.
LEMMA LinkSends ==
  ASSUME LinkInv, UNCHANGED <<inCfg, Answered>>,
         "called" \in DOMAIN sdk' /\ {"bits", "sampling"} \subseteq DOMAIN device',
         sdk.called => sdk'.called,
         \A m \in commands' \cup adding' : m \in commands \cup adding \/ Allowed(m[1])',
         \A a \in air' : a \in air \/ (a.dir = "request" /\ Allowed(a.of[1])'),
         BitsInv'
  PROVE  LinkInv'
<1>1. ASSUME NEW k, Allowed(k)
      PROVE  Allowed(k)'
  BY <1>1 DEF Allowed
<1>2. \A m \in commands' \cup adding' : Allowed(m[1])'
  BY <1>1 DEF LinkInv
<1>3. AirInv'
  BY <1>1 DEF LinkInv, AirInv
<1>4. \A k \in Answered' : Allowed(k)'
  BY <1>1 DEF LinkInv
<1>5. QED
  BY <1>2, <1>3, <1>4 DEF LinkInv

LEMMA Elsewhere ==
  ASSUME NEW ks, NEW rest, NEW flying, SendElsewhere(ks, rest, flying)
  PROVE  /\ \A m \in commands' \cup adding' : m \in rest \cup adding \/ m[1] \in ks
         /\ \A a \in air' : a \in flying \/ (a.dir = "request" /\ a.of[1] \in ks)
<1>1. \A k \in ks : Message(k)[1] = k
  BY DEF Message
<1>2. QED
  BY <1>1, PutKinds DEF SendElsewhere

\* Telling the driver, once: a lidar of the configuration gets the bits of all its
\* settings and, with them, may be sent these.
LEMMA InfoChange ==
  ASSUME LinkInv, UNCHANGED <<inCfg, Answered>>, NEW taken, LivoxLidarInfoChange(taken)
  PROVE  /\ "called" \in DOMAIN sdk' /\ {"bits", "sampling"} \subseteq DOMAIN device'
         /\ sdk'.called /\ BitsInv'
         /\ \A k \in InfoChangeSends : Allowed(k)'
<1>1. "called" \in DOMAIN sdk' /\ sdk'.called
  BY DEF LivoxLidarInfoChange, LinkInv
<1>2. \A k \in InfoChangeSends : Allowed(k)'
  BY <1>1, LinkAssumption DEF InfoChangeSends, InfoChangeKinds, Allowed
<1>3. CASE sdk.called
  <2>1. UNCHANGED device
    BY <1>3 DEF LivoxLidarInfoChange
  <2>2. BitsInv'
    BY <1>1, <1>3, <2>1 DEF LinkInv, BitsInv
  <2>3. QED
    BY <1>1, <1>2, <2>1, <2>2 DEF LinkInv
<1>4. CASE ~sdk.called
  <2>1. IF inCfg THEN device' = [device EXCEPT !.bits = Settings] ELSE UNCHANGED device
    BY <1>4 DEF LivoxLidarInfoChange, LidarInfoChangeCallback, SettingBits
  <2>2. ~device.sampling
    BY <1>4 DEF LinkInv, BitsInv
  <2>3. DOMAIN device' = DOMAIN device /\ ~device'.sampling
    BY <2>1, <2>2 DEF LinkInv
  <2>4. inCfg => device'.bits = Settings
    BY <2>1 DEF LinkInv
  <2>5. BitsInv'
    BY <2>3, <2>4 DEF BitsInv
  <2>6. QED
    BY <1>1, <1>2, <2>3, <2>5 DEF LinkInv
<1>5. QED
  BY <1>3, <1>4

\* The kinds that are not settings are allowed at any time.
LEMMA OthersAllowed == \A k : k \notin Settings => Allowed(k)
BY DEF Allowed

LEMMA DetectionKeeps ==
  ASSUME LinkInv, HandleDetectionData
  PROVE  LinkInv'
<1>1. UNCHANGED <<inCfg, Answered>>
  BY DEF HandleDetectionData, lidarVars, Answered
<1>2. {"query", "cfg"} \cap Settings = {}
  BY LinkAssumption
<1>3. CASE ConfigureByType
  <2>1. UNCHANGED <<commands, adding, air, device>> /\ sdk' = [sdk EXCEPT !.configured = TRUE]
    BY <1>3 DEF ConfigureByType
  <2>2. "called" \in DOMAIN sdk' /\ sdk'.called = sdk.called
    BY <2>1 DEF LinkInv
  <2>3. BitsInv'
    BY <1>1, <2>1, <2>2 DEF LinkInv, BitsInv
  <2>4. {"bits", "sampling"} \subseteq DOMAIN device'
    BY <2>1 DEF LinkInv
  <2>5. QED
    BY <1>1, <2>1, <2>2, <2>3, <2>4, LinkSends
<1>4. CASE sdk' = [sdk EXCEPT !.known = TRUE] /\ QueryFwType(commands, air) /\ UNCHANGED device
  <2>1. "called" \in DOMAIN sdk' /\ sdk'.called = sdk.called
    BY <1>4 DEF LinkInv
  <2>2. BitsInv'
    BY <1>1, <1>4, <2>1 DEF LinkInv, BitsInv
  <2>3. /\ \A m \in commands' \cup adding' : m \in commands \cup adding \/ m[1] \in {"query"}
        /\ \A a \in air' : a \in air \/ (a.dir = "request" /\ a.of[1] \in {"query"})
    BY <1>4, Elsewhere DEF QueryFwType
  <2>4. Allowed("query")'
    BY <1>2 DEF Allowed
  <2>5. {"bits", "sampling"} \subseteq DOMAIN device'
    BY <1>4 DEF LinkInv
  <2>6. QED
    BY <1>1, <2>1, <2>2, <2>3, <2>4, <2>5, LinkSends
<1>5. CASE SetCustomLidar /\ UNCHANGED <<sdk, adding, device>>
  <2>1. \A a \in air' : a \in air \/ (a.dir = "request" /\ a.of[1] \in {"cfg"})
    BY <1>5, PutKinds DEF SetCustomLidar
  <2>2. \A m \in commands' \cup adding' : m \in commands \cup adding \/ m[1] = "cfg"
    BY <1>5 DEF SetCustomLidar, Message
  <2>3. BitsInv'
    BY <1>1, <1>5 DEF LinkInv, BitsInv
  <2>4. Allowed("cfg")'
    BY <1>2 DEF Allowed
  <2>5. /\ "called" \in DOMAIN sdk' /\ {"bits", "sampling"} \subseteq DOMAIN device'
        /\ sdk'.called = sdk.called
    BY <1>5 DEF LinkInv
  <2>6. QED
    BY <1>1, <2>1, <2>2, <2>3, <2>4, <2>5, LinkSends
<1>6. CASE LivoxLidarInfoChange(FALSE) /\ SendElsewhere(InfoChangeSends, commands, air)
  <2>1. /\ "called" \in DOMAIN sdk' /\ {"bits", "sampling"} \subseteq DOMAIN device'
        /\ sdk'.called /\ BitsInv'
        /\ \A k \in InfoChangeSends : Allowed(k)'
    BY <1>1, <1>6, InfoChange
  <2>2. /\ \A m \in commands' \cup adding' : m \in commands \cup adding \/ m[1] \in InfoChangeSends
        /\ \A a \in air' : a \in air \/ (a.dir = "request" /\ a.of[1] \in InfoChangeSends)
    BY <1>6, Elsewhere
  <2>3. QED
    BY <1>1, <2>1, <2>2, LinkSends
<1>7. QED
  BY <1>3, <1>4, <1>5, <1>6 DEF HandleDetectionData, DetectionData

\* The callback of the query, after an answer or none: known is what it was called for.
LEMMA QueryKeeps ==
  ASSUME LinkInv, UNCHANGED <<inCfg, Answered>>, NEW ok, NEW rest, NEW flying,
         rest \subseteq commands, flying \subseteq air,
         QueryFwTypeCallback(ok, rest, flying)
  PROVE  LinkInv'
<1>1. "query" \notin Settings
  BY LinkAssumption
<1>2. CASE /\ sdk' = [sdk EXCEPT !.asked = TRUE, !.loader = loader /\ count <= QueryMax]
           /\ commands' = rest /\ air' = flying /\ UNCHANGED <<adding, device>>
  <2>1. "called" \in DOMAIN sdk' /\ sdk'.called = sdk.called
    BY <1>2 DEF LinkInv
  <2>2. BitsInv'
    BY <1>2, <2>1 DEF LinkInv, BitsInv
  <2>3. {"bits", "sampling"} \subseteq DOMAIN device'
    BY <1>2 DEF LinkInv
  <2>4. /\ \A m \in commands' \cup adding' : m \in commands \cup adding
        /\ \A a \in air' : a \in air
    BY <1>2
  <2>5. QED
    BY <2>1, <2>2, <2>3, <2>4, LinkSends
<1>3. CASE QueryFwType(rest, flying) /\ UNCHANGED <<sdk, device>>
  <2>1. /\ \A m \in commands' \cup adding' : m \in rest \cup adding \/ m[1] \in {"query"}
        /\ \A a \in air' : a \in flying \/ (a.dir = "request" /\ a.of[1] \in {"query"})
    BY <1>3, Elsewhere DEF QueryFwType
  <2>2. BitsInv'
    BY <1>3 DEF LinkInv, BitsInv
  <2>3. Allowed("query")'
    BY <1>1 DEF Allowed
  <2>4. /\ "called" \in DOMAIN sdk' /\ {"bits", "sampling"} \subseteq DOMAIN device'
        /\ sdk'.called = sdk.called
    BY <1>3 DEF LinkInv
  <2>5. /\ \A m \in commands' \cup adding' : m \in commands \cup adding \/ Allowed(m[1])'
        /\ \A a \in air' : a \in air \/ (a.dir = "request" /\ Allowed(a.of[1])')
    BY <2>1, <2>3
  <2>6. QED
    BY <2>2, <2>4, <2>5, LinkSends
<1>4. QED
  BY <1>2, <1>3 DEF QueryFwTypeCallback

LEMMA CfgKeeps ==
  ASSUME LinkInv, UNCHANGED <<inCfg, Answered>>, NEW ok, NEW rest, NEW flying,
         rest \subseteq commands, flying \subseteq air,
         UpdateLidarCallback(ok, rest, flying)
  PROVE  LinkInv'
<1>1. CASE /\ LivoxLidarInfoChange(ok) /\ Put(InfoChangeSends, flying)
           /\ commands' = rest \cup {Message(k) : k \in InfoChangeSends} /\ UNCHANGED adding
  <2>1. /\ "called" \in DOMAIN sdk' /\ {"bits", "sampling"} \subseteq DOMAIN device'
        /\ sdk'.called /\ BitsInv'
        /\ \A k \in InfoChangeSends : Allowed(k)'
    BY <1>1, InfoChange
  <2>2. \A a \in air' : a \in air \/ (a.dir = "request" /\ a.of[1] \in InfoChangeSends)
    BY <1>1, PutKinds
  <2>3. \A m \in commands' \cup adding' : m \in commands \cup adding \/ m[1] \in InfoChangeSends
    BY <1>1 DEF Message
  <2>4. QED
    BY <2>1, <2>2, <2>3, LinkSends
<1>2. CASE commands' = rest /\ air' = flying /\ UNCHANGED <<sdk, adding, device>>
  <2>1. BitsInv'
    BY <1>2 DEF LinkInv, BitsInv
  <2>2. /\ "called" \in DOMAIN sdk' /\ {"bits", "sampling"} \subseteq DOMAIN device'
        /\ sdk'.called = sdk.called
    BY <1>2 DEF LinkInv
  <2>3. QED
    BY <1>2, <2>1, <2>2, LinkSends
<1>3. QED
  BY <1>1, <1>2 DEF UpdateLidarCallback

\* The bit of an answered setting is cleared; with the last one the lidar samples.
LEMMA SettingKeeps ==
  ASSUME LinkInv, UNCHANGED <<inCfg, Answered>>, NEW k \in Settings, k \in Answered,
         NEW rest, NEW flying, rest \subseteq commands, flying \subseteq air,
         SettingAnswered(k, rest, flying)
  PROVE  LinkInv'
<1>1. inCfg /\ sdk.called /\ Settings \ device.bits \subseteq Answered
  BY DEF LinkInv, Allowed, BitsInv
<1>2. /\ device' = [bits |-> device.bits \ {k},
                    sampling |-> device.sampling \/ device.bits \subseteq {k}]
      /\ commands' = rest /\ air' = flying /\ UNCHANGED <<sdk, adding>>
  BY DEF SettingAnswered
<1>3. device'.bits = device.bits \ {k} /\ {"bits", "sampling"} \subseteq DOMAIN device'
  BY <1>2
<1>4. Settings \ device'.bits \subseteq Answered'
  BY <1>1, <1>3
<1>5. device'.sampling => Settings \subseteq Answered'
  <2>1. device'.sampling => device.sampling \/ device.bits \subseteq {k}
    BY <1>2, Zenon
  <2>2. device.sampling => Settings \subseteq Answered
    BY DEF LinkInv, BitsInv
  <2>3. device.bits \subseteq {k} => Settings \subseteq Answered
    BY <1>1
  <2>4. QED
    BY <2>1, <2>2, <2>3
<1>6. sdk'.called = sdk.called /\ "called" \in DOMAIN sdk'
  BY <1>2 DEF LinkInv
<1>7. BitsInv'
  BY <1>1, <1>4, <1>5, <1>6 DEF BitsInv
<1>8. \A m \in commands' \cup adding' : m \in commands \cup adding
  BY <1>2
<1>9. \A a \in air' : a \in air
  BY <1>2
<1>10. QED
  BY <1>3, <1>6, <1>7, <1>8, <1>9, LinkSends

\* The lidar answers what reached it, and that was allowed.
LEMMA AnswersKeep ==
  ASSUME LinkInv, LidarAnswers
  PROVE  LinkInv'
<1>1. PICK m \in air, dir \in {"done", "refused"} :
        /\ air' = (air \ {m}) \cup {[of |-> m.of, dir |-> dir]}
        /\ Answered' = Answered \cup {m.of[1]}
        /\ UNCHANGED <<inCfg, sdk, commands, adding, device>>
  BY DEF LidarAnswers, lidarVars, Answered
<1>2. \A k : Allowed(k)' <=> Allowed(k)
  BY <1>1 DEF Allowed
<1>3. \A k \in Answered' : Allowed(k)
  BY <1>1 DEF LinkInv, AirInv
<1>4. AirInv'
  BY <1>1, <1>2 DEF LinkInv, AirInv
<1>5. BitsInv'
  BY <1>1 DEF LinkInv, BitsInv
<1>6. QED
  BY <1>1, <1>2, <1>3, <1>4, <1>5 DEF LinkInv

\* Nothing new is sent and nothing else changes.
LEMMA FewerKeeps ==
  ASSUME LinkInv, UNCHANGED <<inCfg, Answered, sdk, device>>,
         commands' \cup adding' \subseteq commands \cup adding, air' \subseteq air
  PROVE  LinkInv'
<1>1. BitsInv'
  BY DEF LinkInv, BitsInv
<1>2. /\ "called" \in DOMAIN sdk' /\ {"bits", "sampling"} \subseteq DOMAIN device'
      /\ sdk'.called = sdk.called
  BY DEF LinkInv
<1>3. QED
  BY <1>1, <1>2, LinkSends

LEMMA HandlerKeeps ==
  ASSUME LinkInv, Handler
  PROVE  LinkInv'
<1>1. UNCHANGED <<inCfg, Answered>>
  BY DEF Handler, lidarVars, Answered
<1>2. PICK m \in air :
        /\ m.dir # "request"
        /\ \/ OnlyLogged(commands, air \ {m})
           \/ QueryFwTypeCallback(m.dir = "done", commands \ {m.of}, air \ {m})
           \/ UpdateLidarCallback(m.dir = "done", commands \ {m.of}, air \ {m})
           \/ m.of[1] \in Settings /\ SettingAnswered(m.of[1], commands \ {m.of}, air \ {m})
           \/ OnlyLogged(commands \ {m.of}, air \ {m})
  BY DEF Handler
<1>3. m.of[1] \in Answered
  BY <1>2 DEF LinkInv, AirInv
<1>4. CASE OnlyLogged(commands, air \ {m}) \/ OnlyLogged(commands \ {m.of}, air \ {m})
  BY <1>1, <1>4, FewerKeeps DEF OnlyLogged
<1>5. commands \ {m.of} \subseteq commands /\ air \ {m} \subseteq air
  OBVIOUS
<1>6. CASE QueryFwTypeCallback(m.dir = "done", commands \ {m.of}, air \ {m})
  <2>1. PICK ok : QueryFwTypeCallback(ok, commands \ {m.of}, air \ {m})
    BY <1>6, Zenon
  <2>2. QED
    BY <1>1, <1>5, <2>1, QueryKeeps
<1>7. CASE UpdateLidarCallback(m.dir = "done", commands \ {m.of}, air \ {m})
  <2>1. PICK ok : UpdateLidarCallback(ok, commands \ {m.of}, air \ {m})
    BY <1>7, Zenon
  <2>2. QED
    BY <1>1, <1>5, <2>1, CfgKeeps
<1>8. CASE m.of[1] \in Settings /\ SettingAnswered(m.of[1], commands \ {m.of}, air \ {m})
  BY <1>1, <1>3, <1>5, <1>8, SettingKeeps
<1>9. QED
  BY <1>2, <1>4, <1>6, <1>7, <1>8

LEMMA TimeoutKeeps ==
  ASSUME LinkInv, Timeout
  PROVE  LinkInv'
<1>1. UNCHANGED <<inCfg, Answered>>
  BY DEF Timeout, lidarVars, Answered
<1>2. PICK m \in commands \ adding :
        \/ QueryFwTypeCallback(FALSE, commands \ {m}, air)
        \/ SendElsewhere({m[1]}, commands \ {m}, air) /\ UNCHANGED <<sdk, device>>
        \/ OnlyLogged(commands \ {m}, air)
  BY DEF Timeout
<1>3. CASE QueryFwTypeCallback(FALSE, commands \ {m}, air)
  BY <1>1, <1>3, QueryKeeps
<1>4. CASE SendElsewhere({m[1]}, commands \ {m}, air) /\ UNCHANGED <<sdk, device>>
  <2>1. /\ \A c \in commands' \cup adding' : c \in commands \cup adding \/ c[1] = m[1]
        /\ \A a \in air' : a \in air \/ (a.dir = "request" /\ a.of[1] = m[1])
    BY <1>4, Elsewhere
  <2>2. Allowed(m[1]) /\ m[1] = m[1]
    BY DEF LinkInv
  <2>3. \A k : Allowed(k)' <=> Allowed(k)
    BY <1>1, <1>4 DEF Allowed
  <2>4. /\ \A c \in commands' \cup adding' : c \in commands \cup adding \/ Allowed(c[1])'
        /\ \A a \in air' : a \in air \/ (a.dir = "request" /\ Allowed(a.of[1])')
    BY <2>1, <2>2, <2>3
  <2>5. BitsInv'
    BY <1>1, <1>4 DEF LinkInv, BitsInv
  <2>6. /\ "called" \in DOMAIN sdk' /\ {"bits", "sampling"} \subseteq DOMAIN device'
        /\ sdk'.called = sdk.called
    BY <1>4 DEF LinkInv
  <2>7. QED
    BY <1>1, <2>4, <2>5, <2>6, LinkSends
<1>5. CASE OnlyLogged(commands \ {m}, air)
  BY <1>1, <1>5, FewerKeeps DEF OnlyLogged
<1>6. QED
  BY <1>2, <1>3, <1>4, <1>5

LEMMA LinkStep ==
  ASSUME LinkInv, [LinkNext]_linkVars
  PROVE  LinkInv'
<1>1. CASE Lose
  <2>1. air' \subseteq air
    BY <1>1 DEF Lose
  <2>2. QED
    BY <1>1, <2>1, FewerKeeps DEF Lose, lidarVars, Answered
<1>2. CASE SendFails \/ UNCHANGED linkVars
  BY <1>2, FewerKeeps DEF SendFails, lidarVars, linkVars, Answered
<1>3. CASE AddCommand
  BY <1>3, FewerKeeps DEF AddCommand, lidarVars, Answered
<1>4. QED
  BY <1>1, <1>2, <1>3, DetectionKeeps, AnswersKeep, HandlerKeeps, TimeoutKeeps DEF LinkNext

LEMMA LinkStart == LinkInit => LinkInv
<1> SUFFICES ASSUME LinkInit
             PROVE  LinkInv
  OBVIOUS
<1>1. "called" \in DOMAIN sdk /\ ~sdk.called
  BY DEF LinkInit
<1>2. {"bits", "sampling"} \subseteq DOMAIN device /\ ~device.sampling
  BY DEF LinkInit
<1>3. QED
  BY <1>1, <1>2 DEF LinkInit, LinkInv, AirInv, BitsInv, Answered
----------------------------------------------------------------------------
(* The upgrade of a lidar. *)

LEMMA UpgradeAlone ==
  ASSUME [PerceptionNext]_perceptionVars
  PROVE  [UpgradeNext]_upgradeVars
<1>1. CASE PerceptionNext
  BY <1>1 DEF PerceptionNext, Others
<1>2. CASE UNCHANGED perceptionVars
  BY <1>2 DEF perceptionVars
<1>3. QED
  BY <1>1, <1>2

Firmware == 0 .. Chunks - 1

Commands ==
  [n : Int, event : Working, offset : Int, known : {"yes", "soon", "no"},
   at : {"request", "ok", "busy", "refused", "lost"}]

\* What the lidar has while the upgrader is in a state.
Stage(state, offset) ==
  /\ state = "xfer" => offset \in Firmware /\ 0 .. offset - 1 \subseteq stored
  /\ state \in {"check", "progress", "reboot", "idle"} => stored = Firmware

\* An answer may still find one command at most, that of the state; the lidar gets
\* no other.
CommandsInv ==
  /\ sent \subseteq Commands
  /\ \A c \in sent :
       IF c.known = "no" THEN c.at # "request"
       ELSE /\ fsm.state = c.event /\ fsm.offset = c.offset /\ sends # 0 /\ ~Ended
            /\ c.event = "xfer" /\ c.at = "ok" => c.offset \in stored
  /\ \A c, d \in sent : c.known # "no" /\ d.known # "no" => c = d

UpgradeInv ==
  /\ fsm \in [state : Working \cup {"idle", "error"}, offset : Int, tries : Int]
  /\ sends \in Nat /\ stored \subseteq Firmware
  /\ sends = 0 => sent = {} /\ ~Ended /\ fsm.state = "idle" /\ fsm.offset = 0
  /\ sends # 0 => Stage(fsm.state, fsm.offset)
  /\ outcome = "successfully" => stored = Firmware
  /\ CommandsInv

LEMMA WorkingStates == Working = {"request", "xfer", "check", "progress", "reboot"}
BY DEF Working, NextState

\* An event that the table has for the state, or an error, moves the upgrader on; the
\* commands left are ones that no answer finds.
LEMMA EventHandled ==
  ASSUME UpgradeInv, sends # 0, ~Ended, fsm.state \in Working,
         NEW event \in Working \cup {"idle", "error"}, event = "error" \/ Fits(event),
         NEW offset \in Int, NEW again \in Int, NEW others, NEW elsewhere,
         others \subseteq Commands, \A c \in others : c.known = "no" /\ c.at # "request",
         FsmEventHandler(event, offset, again, others, elsewhere),
         UNCHANGED <<stored, outcome>>, Stage(event, offset)
  PROVE  UpgradeInv'
<1>1. event \notin {"idle", "error"} <=> event \in Working
  BY WorkingStates
<1>2. fsm'.state = event /\ fsm'.offset = offset
      /\ fsm' \in [state : Working \cup {"idle", "error"}, offset : Int, tries : Int]
  <2>1. CASE event \in Working
    <3>1. Fits(event)
      BY <1>1, <2>1
    <3>2. fsm' = [fsm EXCEPT !.state = event, !.offset = offset, !.tries = again]
      BY <2>1, <3>1 DEF FsmEventHandler
    <3>3. QED
      BY <3>2 DEF UpgradeInv
  <2>2. CASE event \notin Working
    <3>1. fsm' = [fsm EXCEPT !.offset = offset, !.tries = again,
                             !.state = IF event = "error" THEN "error"
                                       ELSE IF Fits(event) THEN event ELSE @]
      BY <2>2 DEF FsmEventHandler
    <3>2. fsm' = [fsm EXCEPT !.offset = offset, !.tries = again, !.state = event]
      BY <3>1
    <3>3. QED
      BY <3>2 DEF UpgradeInv
  <2>3. QED
    BY <2>1, <2>2
<1>3. Stage(fsm.state, fsm.offset)'
  BY <1>2 DEF Stage
<1>4. CASE event \in Working
  <2>1. Fits(event)
    BY <1>1, <1>4
  <2>2. PICK known \in {"yes", "soon"} :
          sent' = others \cup {[n |-> sends, event |-> event, offset |-> offset,
                                at |-> "request", known |-> known]}
    BY <1>4, <2>1 DEF FsmEventHandler, Command
  <2> DEFINE new == [n |-> sends, event |-> event, offset |-> offset,
                     at |-> "request", known |-> known]
  <2>3. new \in Commands /\ new.known # "no" /\ new.event = event /\ new.offset = offset
        /\ new.at = "request"
    BY <1>4 DEF Commands, UpgradeInv
  <2>4. sends' = sends + 1 /\ sends' \in Nat /\ sends' # 0
    BY <1>4, <2>1 DEF FsmEventHandler, UpgradeInv
  <2> HIDE DEF new
  <2>5. sent' = others \cup {new}
    BY <2>2 DEF new
  <2>6. CommandsInv'
    BY <1>2, <2>3, <2>4, <2>5 DEF CommandsInv, Ended
  <2>7. QED
    BY <1>2, <1>3, <2>4, <2>6 DEF UpgradeInv
<1>5. CASE event \notin Working
  <2>1. sent' = others /\ sends' = sends
    BY <1>5 DEF FsmEventHandler
  <2>2. CommandsInv'
    BY <2>1 DEF CommandsInv
  <2>3. QED
    BY <1>2, <1>3, <2>1, <2>2 DEF UpgradeInv
<1>6. QED
  BY <1>4, <1>5

\* A command of which c is an answer is the live one: it is of the state.
LEMMA LiveCommand ==
  ASSUME UpgradeInv, NEW c \in sent, c.known # "no"
  PROVE  /\ c \in Commands /\ fsm.state = c.event /\ fsm.offset = c.offset
         /\ c.event \in Working /\ fsm.offset \in Int
         /\ sends # 0 /\ ~Ended /\ Stage(c.event, fsm.offset)
         /\ \A d \in sent \ {c} : d \in Commands /\ d.known = "no" /\ d.at # "request"
<1>1. CommandsInv /\ fsm.offset \in Int
  BY DEF UpgradeInv
<1>2. c \in Commands /\ fsm.state = c.event /\ fsm.offset = c.offset /\ sends # 0 /\ ~Ended
  BY <1>1 DEF CommandsInv
<1>3. Stage(c.event, fsm.offset)
  BY <1>2 DEF UpgradeInv
<1>4. \A d \in sent \ {c} : d \in Commands /\ d.known = "no" /\ d.at # "request"
  BY <1>1 DEF CommandsInv
<1>5. c.event \in Working
  BY <1>2 DEF Commands
<1>6. QED
  BY <1>1, <1>2, <1>3, <1>4, <1>5

LEMMA ResponseKeeps ==
  ASSUME UpgradeInv, ResponseHandler
  PROVE  UpgradeInv'
<1>1. PICK c \in sent :
        /\ c.at \notin {"request", "lost"}
        /\ IF c.known = "yes"
           THEN FsmEventHandler(EventAfter(c), OffsetAfter(c), 0, sent \ {c}, FALSE)
           ELSE /\ sent' = (sent \ {c}) \cup {[c EXCEPT !.at = "lost"]}
                /\ UNCHANGED <<fsm, sends>>
  BY DEF ResponseHandler
<1>2. UNCHANGED <<stored, outcome>>
  BY DEF ResponseHandler
<1>3. c \in Commands
  BY DEF UpgradeInv, CommandsInv
<1>4. CASE c.known = "yes"
  <2>1. /\ fsm.state = c.event /\ fsm.offset = c.offset
        /\ c.event \in Working /\ fsm.offset \in Int
        /\ sends # 0 /\ ~Ended /\ Stage(c.event, fsm.offset)
        /\ \A d \in sent \ {c} : d \in Commands /\ d.known = "no" /\ d.at # "request"
    BY <1>4, LiveCommand
  <2>2. c.event = "xfer" /\ c.at = "ok" => fsm.offset \in stored
    BY <1>4, <2>1 DEF UpgradeInv, CommandsInv
  <2>3. OffsetAfter(c) \in Int
    BY <2>1 DEF OffsetAfter
  <2>4. /\ EventAfter(c) \in Working \cup {"idle", "error"}
        /\ EventAfter(c) = "error" \/ Fits(EventAfter(c))
    BY <2>1, WorkingStates DEF EventAfter, Fits, NextState
  <2>5. Stage(EventAfter(c), OffsetAfter(c))
    <3>1. CASE c.at = "refused"
      BY <3>1 DEF EventAfter, Stage
    <3>2. CASE c.event = "request" /\ c.at # "refused"
      <4>1. EventAfter(c) \in {"request", "xfer"} /\ OffsetAfter(c) = 0
        BY <3>2 DEF EventAfter, OffsetAfter, NextState
      <4>2. 0 \in Firmware /\ 0 .. 0 - 1 = {}
        BY UpgradeAssumption DEF Firmware
      <4>3. QED
        BY <4>1, <4>2 DEF Stage
    <3>3. CASE c.event = "xfer" /\ c.at # "refused"
      <4>1. fsm.offset \in Firmware /\ 0 .. fsm.offset - 1 \subseteq stored
        BY <2>1, <3>3 DEF Stage
      <4>2. CASE c.at = "busy"
        <5>1. EventAfter(c) = "xfer" /\ OffsetAfter(c) = fsm.offset
          BY <3>3, <4>2 DEF EventAfter, OffsetAfter
        <5>2. QED
          BY <4>1, <5>1 DEF Stage
      <4>3. CASE c.at # "busy"
        <5>1. c.at = "ok"
          BY <1>1, <1>3, <3>3, <4>3 DEF Commands
        <5>2. 0 .. fsm.offset \subseteq stored
          <6>1. \A i \in 0 .. fsm.offset : i = fsm.offset \/ i \in 0 .. fsm.offset - 1
            BY <2>1
          <6>2. QED
            BY <2>2, <3>3, <4>1, <5>1, <6>1
        <5>3. OffsetAfter(c) = fsm.offset + 1
          BY <3>3, <5>1 DEF OffsetAfter
        <5>4. CASE fsm.offset + 1 < Chunks
          <6>1. EventAfter(c) = "xfer"
            BY <3>3, <5>4 DEF EventAfter
          <6>2. fsm.offset + 1 \in Firmware /\ (fsm.offset + 1) - 1 = fsm.offset
            BY <2>1, <4>1, <5>4, UpgradeAssumption DEF Firmware
          <6>3. QED
            BY <5>2, <5>3, <6>1, <6>2 DEF Stage
        <5>5. CASE ~(fsm.offset + 1 < Chunks)
          <6>1. EventAfter(c) = "check"
            BY <3>3, <4>3, <5>5 DEF EventAfter, NextState
          <6>2. fsm.offset = Chunks - 1
            BY <2>1, <4>1, <5>5, UpgradeAssumption DEF Firmware
          <6>3. stored = Firmware
            BY <5>2, <6>2 DEF Firmware, UpgradeInv
          <6>4. QED
            BY <6>1, <6>3 DEF Stage
        <5>6. QED
          BY <5>4, <5>5
      <4>4. QED
        BY <4>2, <4>3
    <3>4. CASE c.event \in {"check", "progress", "reboot"} /\ c.at # "refused"
      <4>1. stored = Firmware
        BY <2>1, <3>4 DEF Stage
      <4>2. EventAfter(c) \in {"check", "progress", "reboot", "idle"}
        BY <3>4 DEF EventAfter, NextState
      <4>3. QED
        BY <4>1, <4>2 DEF Stage
    <3>5. QED
      BY <2>1, <3>1, <3>2, <3>3, <3>4, WorkingStates
  <2>6. sent \ {c} \subseteq Commands /\ fsm.state \in Working
    BY <2>1
  <2>7. PICK again, elsewhere :
          /\ again = 0
          /\ FsmEventHandler(EventAfter(c), OffsetAfter(c), again, sent \ {c}, elsewhere)
    BY <1>1, <1>4, Zenon
  <2>8. again \in Int /\ (\A d \in sent \ {c} : d.known = "no" /\ d.at # "request")
    BY <2>1, <2>7
  <2>9. QED
    BY <1>2, <2>1, <2>3, <2>4, <2>5, <2>6, <2>7, <2>8, EventHandled
<1>5. CASE c.known # "yes"
  <2> DEFINE lost == [c EXCEPT !.at = "lost"]
  <2>1. sent' = (sent \ {c}) \cup {lost} /\ UNCHANGED <<fsm, sends, stored, outcome>>
    BY <1>1, <1>2, <1>5
  <2>2. /\ lost \in Commands /\ lost.known = c.known /\ lost.event = c.event
        /\ lost.offset = c.offset /\ lost.at = "lost"
    BY <1>3 DEF Commands
  <2> HIDE DEF lost
  <2>3. CommandsInv'
    BY <2>1, <2>2 DEF UpgradeInv, CommandsInv, Ended
  <2>4. QED
    BY <2>1, <2>3 DEF UpgradeInv, Stage
<1>6. QED
  BY <1>4, <1>5

LEMMA TimeoutsKeep ==
  ASSUME UpgradeInv, TimeoutHandler
  PROVE  UpgradeInv'
<1>1. PICK c \in sent :
        /\ c.known = "yes"
        /\ LET kept == IF c.at \in {"request", "lost"} THEN {} ELSE {[c EXCEPT !.known = "no"]}
           IN FsmEventHandler(EventOnTimeout(c), OffsetOnTimeout(c),
                              IF fsm.tries + 1 < TryLimit THEN fsm.tries + 1 ELSE 0,
                              (sent \ {c}) \cup kept, TRUE)
  BY DEF TimeoutHandler
<1>2. UNCHANGED <<stored, outcome>>
  BY DEF TimeoutHandler
<1>3. PICK again, others, elsewhere :
        /\ again = IF fsm.tries + 1 < TryLimit THEN fsm.tries + 1 ELSE 0
        /\ others = (sent \ {c}) \cup
             (IF c.at \in {"request", "lost"} THEN {} ELSE {[c EXCEPT !.known = "no"]})
        /\ FsmEventHandler(EventOnTimeout(c), OffsetOnTimeout(c), again, others, elsewhere)
  BY <1>1, Zenon
<1>4. /\ c \in Commands /\ fsm.state = c.event
      /\ c.event \in Working /\ fsm.offset \in Int
      /\ sends # 0 /\ ~Ended /\ Stage(c.event, fsm.offset)
      /\ \A d \in sent \ {c} : d \in Commands /\ d.known = "no" /\ d.at # "request"
  BY <1>1, LiveCommand
<1>5. again \in Int
  BY <1>3 DEF UpgradeInv
<1>6. others \subseteq Commands /\ \A d \in others : d.known = "no" /\ d.at # "request"
  <2> DEFINE kept == [c EXCEPT !.known = "no"]
  <2>1. kept \in Commands /\ kept.known = "no" /\ kept.at = c.at
    BY <1>4 DEF Commands
  <2> HIDE DEF kept
  <2>2. others = (sent \ {c}) \cup (IF c.at \in {"request", "lost"} THEN {} ELSE {kept})
    BY <1>3 DEF kept
  <2>3. QED
    BY <1>4, <2>1, <2>2
<1>7. /\ EventOnTimeout(c) \in Working \cup {"idle", "error"}
      /\ EventOnTimeout(c) = "error" \/ Fits(EventOnTimeout(c))
  BY <1>4, WorkingStates DEF EventOnTimeout, Fits, NextState
<1>8. OffsetOnTimeout(c) = fsm.offset
  BY DEF OffsetOnTimeout
<1>9. Stage(EventOnTimeout(c), OffsetOnTimeout(c))
  <2>1. CASE EventOnTimeout(c) = c.event
    BY <1>4, <1>8, <2>1
  <2>2. CASE EventOnTimeout(c) # c.event
    <3>1. EventOnTimeout(c) = "error" \/ (EventOnTimeout(c) = "idle" /\ c.event = "reboot")
      BY <2>2 DEF EventOnTimeout
    <3>2. QED
      BY <1>4, <3>1 DEF Stage
  <2>3. QED
    BY <2>1, <2>2
<1>10. fsm.state \in Working /\ OffsetOnTimeout(c) \in Int
  BY <1>4, <1>8
<1>11. QED
  BY <1>2, <1>3, <1>4, <1>5, <1>6, <1>7, <1>9, <1>10, EventHandled

\* The lidar does what the live command says; the parts it has are of the firmware.
LEMMA LidarKeeps ==
  ASSUME UpgradeInv, LidarDoes
  PROVE  UpgradeInv'
<1>1. PICK c \in sent, code \in {"ok", "busy", "refused"} :
        /\ c.at = "request"
        /\ sent' = (sent \ {c}) \cup {[c EXCEPT !.at = code]}
        /\ stored' = IF code # "ok" THEN stored
                     ELSE IF c.event = "request" THEN {}
                     ELSE IF c.event = "xfer" THEN stored \cup {c.offset} ELSE stored
        /\ UNCHANGED <<fsm, sends, outcome>>
  BY DEF LidarDoes, Codes
<1>2. c.known # "no"
  BY <1>1 DEF UpgradeInv, CommandsInv
<1>3. /\ c \in Commands /\ fsm.state = c.event /\ fsm.offset = c.offset
      /\ c.event \in Working /\ fsm.offset \in Int
      /\ sends # 0 /\ ~Ended /\ Stage(c.event, fsm.offset)
      /\ \A d \in sent \ {c} : d \in Commands /\ d.known = "no" /\ d.at # "request"
  BY <1>2, LiveCommand
<1>4. Ended' = Ended
  BY <1>1 DEF Ended
<1> DEFINE answer == [c EXCEPT !.at = code]
<1>5. /\ answer \in Commands /\ answer.known = c.known /\ answer.event = c.event
      /\ answer.offset = c.offset /\ answer.at = code
  BY <1>3 DEF Commands
<1> HIDE DEF answer
<1>6. sent' = (sent \ {c}) \cup {answer}
  BY <1>1 DEF answer
<1>7. c.event = "xfer" => c.offset \in Firmware
  BY <1>3 DEF Stage
<1>8. stored' \subseteq Firmware
  BY <1>1, <1>7 DEF UpgradeInv
<1>9. c.event = "xfer" /\ code = "ok" => c.offset \in stored'
  BY <1>1
<1>10. CommandsInv'
  <2>1. sent' \subseteq Commands
    BY <1>3, <1>5, <1>6
  <2>2. ASSUME NEW d \in sent'
        PROVE  IF d.known = "no" THEN d.at # "request"
               ELSE /\ fsm'.state = d.event /\ fsm'.offset = d.offset /\ sends' # 0
                    /\ ~Ended'
                    /\ d.event = "xfer" /\ d.at = "ok" => d.offset \in stored'
    <3>1. CASE d = answer
      BY <1>1, <1>2, <1>3, <1>4, <1>5, <1>9, <3>1
    <3>2. CASE d # answer
      <4>1. d \in sent \ {c}
        BY <1>6, <3>2
      <4>2. QED
        BY <1>3, <4>1
    <3>3. QED
      BY <3>1, <3>2
  <2>3. \A d \in sent' : d.known # "no" => d = answer
    BY <1>3, <1>6
  <2>4. QED
    BY <2>1, <2>2, <2>3 DEF CommandsInv
<1>11. Stage(fsm.state, fsm.offset)'
  <2>1. CASE c.event = "request"
    BY <1>1, <1>3, <2>1 DEF Stage
  <2>2. CASE c.event = "xfer"
    <3>1. stored \subseteq stored' /\ fsm.offset \in Firmware
          /\ 0 .. fsm.offset - 1 \subseteq stored /\ UNCHANGED fsm
      BY <1>1, <1>3, <2>2 DEF Stage
    <3>2. fsm'.state = "xfer" /\ fsm'.offset = fsm.offset
      BY <1>3, <2>2, <3>1
    <3>3. QED
      BY <3>1, <3>2 DEF Stage
  <2>3. CASE c.event \notin {"request", "xfer"}
    <3>1. UNCHANGED <<stored, fsm>>
      BY <1>1, <2>3
    <3>2. QED
      BY <1>3, <3>1 DEF Stage
  <2>4. QED
    BY <2>1, <2>2, <2>3
<1>12. outcome' # "successfully"
  BY <1>1, <1>3 DEF Ended
<1>13. QED
  BY <1>1, <1>3, <1>4, <1>8, <1>10, <1>11, <1>12 DEF UpgradeInv

LEMMA UpgradeStep ==
  ASSUME UpgradeInv, [UpgradeNext]_upgradeVars
  PROVE  UpgradeInv'
<1>1. CASE StartUpgradeLivoxLidar
  <2>1. /\ fsm' = [fsm EXCEPT !.state = "request"] /\ sends' = 1
        /\ sent' = {Command("request", 0, FALSE)} /\ UNCHANGED <<stored, outcome>>
        /\ ~Ended /\ sends = 0
    BY <1>1 DEF StartUpgradeLivoxLidar, UpgradeInv
  <2> DEFINE first == Command("request", 0, FALSE)
  <2>2. /\ first.event = "request" /\ first.offset = 0 /\ first.at = "request"
        /\ first.known = "soon" /\ first \in Commands
    BY <2>1, WorkingStates DEF Command, Commands
  <2> HIDE DEF first
  <2>3. fsm.offset = 0
    BY <2>1 DEF UpgradeInv
  <2>4. /\ fsm'.state = "request" /\ fsm'.offset = 0 /\ sent' = {first}
        /\ fsm' \in [state : Working \cup {"idle", "error"}, offset : Int, tries : Int]
    BY <2>1, <2>3, WorkingStates DEF UpgradeInv, first
  <2>5. CommandsInv'
    <3>1. sent' \subseteq Commands /\ \A c, d \in sent' : c = d
      BY <2>2, <2>4
    <3>2. \A c \in sent' :
            /\ c.known # "no" /\ fsm'.state = c.event /\ fsm'.offset = c.offset
            /\ c.at # "ok"
      BY <2>2, <2>4
    <3>3. sends' # 0 /\ ~Ended'
      BY <2>1 DEF Ended
    <3>4. QED
      BY <3>1, <3>2, <3>3 DEF CommandsInv
  <2>6. Stage(fsm.state, fsm.offset)'
    BY <2>4 DEF Stage
  <2>7. QED
    BY <2>1, <2>4, <2>5, <2>6 DEF UpgradeInv
<1>2. CASE RegisterCommand
  <2>1. PICK c \in sent :
          /\ c.known = "soon"
          /\ sent' = (sent \ {c}) \cup {[c EXCEPT !.known = "yes"]}
          /\ UNCHANGED <<fsm, sends, stored, outcome>>
    BY <1>2 DEF RegisterCommand
  <2>2. /\ c \in Commands /\ fsm.state = c.event /\ fsm.offset = c.offset
        /\ sends # 0 /\ ~Ended
        /\ \A d \in sent \ {c} : d \in Commands /\ d.known = "no" /\ d.at # "request"
    BY <2>1, LiveCommand
  <2> DEFINE known == [c EXCEPT !.known = "yes"]
  <2>3. /\ known \in Commands /\ known.known = "yes" /\ known.event = c.event
        /\ known.offset = c.offset /\ known.at = c.at
    BY <2>2 DEF Commands
  <2>4. c.event = "xfer" /\ c.at = "ok" => c.offset \in stored
    BY <2>1 DEF UpgradeInv, CommandsInv
  <2> HIDE DEF known
  <2>5. sent' = (sent \ {c}) \cup {known}
    BY <2>1 DEF known
  <2>6. CommandsInv'
    BY <2>1, <2>2, <2>3, <2>4, <2>5 DEF CommandsInv, Ended
  <2>7. QED
    BY <2>1, <2>2, <2>6 DEF UpgradeInv, Stage
<1>3. CASE LoseMessage
  <2>1. PICK c \in sent :
          /\ sent' = (sent \ {c}) \cup {[c EXCEPT !.at = "lost"]}
          /\ UNCHANGED <<fsm, sends, stored, outcome>>
    BY <1>3 DEF LoseMessage
  <2> DEFINE lost == [c EXCEPT !.at = "lost"]
  <2>2. /\ lost \in Commands /\ lost.known = c.known /\ lost.event = c.event
        /\ lost.offset = c.offset /\ lost.at = "lost"
    BY DEF Commands, UpgradeInv, CommandsInv
  <2> HIDE DEF lost
  <2>3. sent' = (sent \ {c}) \cup {lost}
    BY <2>1 DEF lost
  <2>4. CommandsInv'
    BY <2>1, <2>2, <2>3 DEF UpgradeInv, CommandsInv, Ended
  <2>5. sends' # 0
    BY <2>1 DEF UpgradeInv
  <2>6. QED
    BY <2>1, <2>4, <2>5 DEF UpgradeInv, Stage
<1>4. CASE UpgraderDestructor
  <2>1. /\ UNCHANGED <<fsm, sent, sends, stored>>
        /\ outcome' = IF fsm.state = "error" THEN "error"
                      ELSE IF sends = 0 THEN "unstarted" ELSE "successfully"
        /\ fsm.state \in {"idle", "error"}
    BY <1>4 DEF UpgraderDestructor
  <2>2. \A c \in sent : c.known = "no"
    BY <2>1, WorkingStates DEF UpgradeInv, CommandsInv, Commands
  <2>3. CommandsInv'
    BY <2>1, <2>2 DEF UpgradeInv, CommandsInv
  <2>4. outcome' = "successfully" => stored' = Firmware
    BY <2>1 DEF UpgradeInv, Stage
  <2>5. sends = 0 => ~Ended'
    BY <2>1 DEF UpgradeInv, Ended
  <2>6. QED
    BY <2>1, <2>3, <2>4, <2>5 DEF UpgradeInv, Stage
<1>5. CASE FreedUpgraderUsed
  <2>1. UNCHANGED <<fsm, sent, sends, stored>> /\ outcome' = "crashed" /\ ~Ended'
    BY <1>5 DEF FreedUpgraderUsed, Ended
  <2>2. CommandsInv'
    BY <2>1 DEF UpgradeInv, CommandsInv
  <2>3. QED
    BY <2>1, <2>2 DEF UpgradeInv, Stage
<1>6. CASE UNCHANGED upgradeVars
  BY <1>6 DEF upgradeVars, UpgradeInv, CommandsInv, Stage, Ended
<1>7. QED
  BY <1>1, <1>2, <1>3, <1>4, <1>5, <1>6, LidarKeeps, ResponseKeeps, TimeoutsKeep DEF UpgradeNext

LEMMA UpgradeStart == UpgradeInit => UpgradeInv
BY UpgradeAssumption DEF UpgradeInit, UpgradeInv, CommandsInv, Stage, Firmware, Ended

LEMMA UpgradeInvSound == UpgradeInv => UpgradeSound
<1> SUFFICES ASSUME UpgradeInv
             PROVE  UpgradeSound
  OBVIOUS
<1>1. fsm.state \in {"check", "progress", "reboot"} => stored = Firmware
  BY DEF UpgradeInv, Stage
<1>2. Ended => \A c \in sent : c.known = "no"
  BY DEF UpgradeInv, CommandsInv
<1>3. QED
  BY <1>1, <1>2 DEF UpgradeInv, UpgradeSound, Firmware

\* Whatever answers are lost, late, refused or come before their command is known: a
\* lidar samples only after it has answered to every setting of the user that it took
\* it over or refuses it, no lidar gets settings that are not its own, and the
\* firmware is checked, and an upgrade that had begun before its upgrader was
\* destroyed told to be a success, only with every part of it stored
\* (livox_lidar_callback.cpp:126, livox_lidar_upgrader.cpp:242).
THEOREM LidarIsObeyed == PerceptionSpec => []LidarObeys
<1>1. PerceptionInit => LinkInv /\ UpgradeInv
  BY LinkStart, UpgradeStart DEF PerceptionInit
<1>2. LinkInv /\ UpgradeInv /\ [PerceptionNext]_perceptionVars => (LinkInv /\ UpgradeInv)'
  BY LinkAlone, LinkStep, UpgradeAlone, UpgradeStep
<1>3. LinkInv => SamplingConfigured
  BY DEF LinkInv, BitsInv, Allowed, SamplingConfigured, Answered
<1>4. LinkInv /\ UpgradeInv => LidarObeys
  BY <1>3, UpgradeInvSound DEF LidarObeys
<1>5. QED
  BY <1>1, <1>2, <1>4, PTL DEF PerceptionSpec


----------------------------------------------------------------------------
(* The frames of the lidars. *)

LEMMA FramesAlone ==
  ASSUME [PerceptionNext]_perceptionVars
  PROVE  [FramesNext]_frameVars
<1>1. CASE PerceptionNext
  BY <1>1 DEF PerceptionNext, Others
<1>2. CASE UNCHANGED perceptionVars
  BY <1>2 DEF perceptionVars
<1>3. QED
  BY <1>1, <1>2

Times  == 0 .. Cycle - 1
Packet == [lidar : Lidars, time : Times]

After(t) == (t + 1) % Cycle

\* Two packets of l in the queue with none of l between them are one after the
\* other.
InOrder(l, queue) ==
  \A i, j \in DOMAIN queue :
    /\ i < j /\ queue[i].lidar = l /\ queue[j].lidar = l
    /\ \A k \in DOMAIN queue : i < k /\ k < j => queue[k].lidar # l
    => queue[j].time = After(queue[i].time)

\* The next packet of l comes after the last one in the queue.
NextInOrder(l, queue, next) ==
  \A i \in DOMAIN queue :
    queue[i].lidar = l /\ (\A k \in DOMAIN queue : i < k => queue[k].lidar # l)
      => next = After(queue[i].time)

\* The first packet of l in the queue comes after those of its frame.
FrameInOrder(l, frame, queue, next) ==
  frame # <<>> =>
    /\ \A i \in DOMAIN queue :
         queue[i].lidar = l /\ (\A k \in DOMAIN queue : k < i => queue[k].lidar # l)
           => queue[i].time = After(frame[Len(frame)])
    /\ (\A k \in DOMAIN queue : queue[k].lidar # l) => next = After(frame[Len(frame)])

\* The packets of l are one after the other: those of its frame, those in the
\* queue, whatever packets of other lidars are among them, and the next one.
InLine(l, frame, queue, next) ==
  InOrder(l, queue) /\ NextInOrder(l, queue, next) /\ FrameInOrder(l, frame, queue, next)

\* A frame of which no packet is missing, and that has met no end of an interval
\* since it is long enough to end there.
Open(frame) ==
  /\ Whole(frame)
  /\ frame # <<>> =>
       /\ frame[Len(frame)] \in {frame[1] + Len(frame) - 1, frame[1] + Len(frame) - 1 - Cycle}
       /\ Len(frame) >= FrameMs => Len(frame) - FrameMs + 1 <= frame[Len(frame)] % FrameMs

RingsWhole ==
  \A l \in Lidars : \A i \in DOMAIN ring[l] :
    Whole(ring[l][i]) /\ Len(ring[l][i]) < 2 * FrameMs

FramesInv ==
  /\ packetTime \in [Lidars -> Times] /\ rawPackets \in Seq(Packet)
  /\ points \in [Lidars -> Seq(Times)] /\ ring \in [Lidars -> Seq(Seq(Times))]
  /\ \A l \in Lidars : InLine(l, points[l], rawPackets, packetTime[l]) /\ Open(points[l])
  /\ RingsWhole

\* A packet that arrives is put at the end of its line and of no other.
LEMMA PacketQueued ==
  ASSUME NEW l, NEW frame, NEW queue \in Seq(Packet), NEW p \in Packet, NEW next,
         InLine(l, frame, queue, next)
  PROVE  /\ p.lidar # l => InLine(l, frame, Append(queue, p), next)
         /\ p.lidar = l /\ p.time = next => InLine(l, frame, Append(queue, p), After(next))
<1> DEFINE n == Len(queue)
           longer == Append(queue, p)
<1>1. n \in Nat /\ DOMAIN queue = 1 .. n
  OBVIOUS
<1>2. /\ DOMAIN longer = 1 .. n + 1 /\ longer[n + 1] = p
      /\ \A i \in 1 .. n : longer[i] = queue[i]
  BY <1>1, AppendProperties
<1> HIDE DEF n, longer
<1>3. ASSUME NEW i \in 1 .. n + 1
      PROVE  i \in 1 .. n \/ i = n + 1
  BY <1>1
<1>4. \A i \in 1 .. n : i \in 1 .. n + 1 /\ i < n + 1
  BY <1>1
<1>5. n + 1 \in 1 .. n + 1 /\ (\A i \in 1 .. n + 1 : ~(n + 1 < i)) /\ n + 1 \notin 1 .. n
  BY <1>1
<1>6. ASSUME p.lidar # l
      PROVE  InLine(l, frame, longer, next)
  <2>1. InOrder(l, longer)
    BY <1>1, <1>2, <1>3, <1>4, <1>6 DEF InLine, InOrder
  <2>2. NextInOrder(l, longer, next)
    BY <1>1, <1>2, <1>3, <1>4, <1>6 DEF InLine, NextInOrder
  <2>3. FrameInOrder(l, frame, longer, next)
    BY <1>1, <1>2, <1>3, <1>4, <1>6 DEF InLine, FrameInOrder
  <2>4. QED
    BY <2>1, <2>2, <2>3 DEF InLine
<1>7. ASSUME p.lidar = l, p.time = next
      PROVE  InLine(l, frame, longer, After(next))
  <2>1. InOrder(l, longer)
    BY <1>1, <1>2, <1>3, <1>4, <1>5, <1>7 DEF InLine, InOrder, NextInOrder
  <2>2. NextInOrder(l, longer, After(next))
    BY <1>1, <1>2, <1>3, <1>4, <1>5, <1>7 DEF NextInOrder
  <2>3. FrameInOrder(l, frame, longer, After(next))
    BY <1>1, <1>2, <1>3, <1>4, <1>5, <1>7 DEF InLine, FrameInOrder
  <2>4. QED
    BY <2>1, <2>2, <2>3 DEF InLine
<1>8. QED
  BY <1>6, <1>7 DEF longer

\* A packet that is taken goes to the end of the frame of its lidar.
LEMMA PacketTaken ==
  ASSUME NEW l, NEW frame, NEW queue \in Seq(Packet), queue # <<>>, NEW next,
         InLine(l, frame, queue, next)
  PROVE  /\ Head(queue).lidar # l => InLine(l, frame, Tail(queue), next)
         /\ Head(queue).lidar = l =>
              /\ frame # <<>> => Head(queue).time = After(frame[Len(frame)])
              /\ \A longer : longer[Len(longer)] = Head(queue).time
                               => InLine(l, longer, Tail(queue), next)
<1> DEFINE n == Len(queue)
           rest == Tail(queue)
<1>1. n \in Nat \ {0} /\ DOMAIN queue = 1 .. n /\ Head(queue) = queue[1]
  OBVIOUS
<1>2. DOMAIN rest = 1 .. n - 1 /\ \A i \in 1 .. n - 1 : rest[i] = queue[i + 1]
  BY <1>1, HeadTailProperties
<1> HIDE DEF n, rest
<1>3. \A i \in 1 .. n : i = 1 \/ (i > 1 /\ i - 1 \in 1 .. n - 1 /\ queue[i] = rest[i - 1])
  BY <1>1, <1>2
<1>4. 1 \in 1 .. n /\ \A i \in 1 .. n - 1 : i + 1 \in 1 .. n /\ 1 < i + 1
  BY <1>1
<1>5. InOrder(l, rest)
  <2> SUFFICES ASSUME NEW i \in DOMAIN rest, NEW j \in DOMAIN rest,
                      i < j, rest[i].lidar = l, rest[j].lidar = l,
                      \A k \in DOMAIN rest : i < k /\ k < j => rest[k].lidar # l
               PROVE  rest[j].time = After(rest[i].time)
    BY DEF InOrder
  <2>1. i + 1 \in DOMAIN queue /\ j + 1 \in DOMAIN queue /\ i + 1 < j + 1
    <3>1. i \in 1 .. n - 1 /\ j \in 1 .. n - 1
      BY <1>2
    <3>2. QED
      BY <1>1, <1>4, <3>1
  <2>2. ASSUME NEW k \in DOMAIN queue, i + 1 < k, k < j + 1
        PROVE  queue[k].lidar # l
    <3>1. k - 1 \in 1 .. n - 1 /\ queue[k] = rest[k - 1]
      <4>1. k \in 1 .. n /\ i \in 1 .. n - 1
        BY <1>1, <1>2
      <4>2. k # 1
        BY <2>2, <4>1
      <4>3. QED
        BY <4>1, <4>2, <1>3
    <3>2. i < k - 1 /\ k - 1 < j
      BY <1>1, <1>2, <2>2
    <3>3. QED
      BY <1>2, <3>1, <3>2
  <2>3. queue[i + 1].lidar = l /\ queue[j + 1].lidar = l
    BY <1>2
  <2>4. queue[j + 1].time = After(queue[i + 1].time)
    BY <2>1, <2>2, <2>3 DEF InLine, InOrder
  <2>5. QED
    BY <1>2, <2>4
<1>6. NextInOrder(l, rest, next)
  <2> SUFFICES ASSUME NEW i \in DOMAIN rest, rest[i].lidar = l,
                      \A k \in DOMAIN rest : i < k => rest[k].lidar # l
               PROVE  next = After(rest[i].time)
    BY DEF NextInOrder
  <2>1. i + 1 \in DOMAIN queue /\ queue[i + 1] = rest[i]
    BY <1>1, <1>2, <1>4
  <2>2. ASSUME NEW k \in DOMAIN queue, i + 1 < k
        PROVE  queue[k].lidar # l
    <3>1. k - 1 \in 1 .. n - 1 /\ queue[k] = rest[k - 1] /\ i < k - 1
      BY <1>1, <1>2, <1>3, <2>2
    <3>2. QED
      BY <1>2, <3>1
  <2>3. QED
    BY <2>1, <2>2 DEF InLine, NextInOrder
<1>7. ASSUME Head(queue).lidar # l
      PROVE  FrameInOrder(l, frame, rest, next)
  <2>1. ASSUME frame # <<>>, NEW i \in DOMAIN rest, rest[i].lidar = l,
               \A k \in DOMAIN rest : k < i => rest[k].lidar # l
        PROVE  rest[i].time = After(frame[Len(frame)])
    <3>1. i + 1 \in DOMAIN queue /\ queue[i + 1] = rest[i]
      BY <1>1, <1>2, <1>4
    <3>2. ASSUME NEW k \in DOMAIN queue, k < i + 1
          PROVE  queue[k].lidar # l
      <4>1. CASE k = 1
        BY <1>1, <1>7, <4>1
      <4>2. CASE k # 1
        <5>1. k - 1 \in 1 .. n - 1 /\ queue[k] = rest[k - 1] /\ k - 1 < i
          BY <1>1, <1>2, <1>3, <3>2, <4>2
        <5>2. QED
          BY <1>2, <2>1, <5>1
      <4>3. QED
        BY <4>1, <4>2
    <3>3. QED
      BY <2>1, <3>1, <3>2 DEF InLine, FrameInOrder
  <2>2. ASSUME frame # <<>>, \A k \in DOMAIN rest : rest[k].lidar # l
        PROVE  next = After(frame[Len(frame)])
    <3>1. \A k \in DOMAIN queue : queue[k].lidar # l
      BY <1>1, <1>2, <1>3, <1>7, <2>2
    <3>2. QED
      BY <2>2, <3>1 DEF InLine, FrameInOrder
  <2>3. QED
    BY <2>1, <2>2 DEF FrameInOrder
<1>8. ASSUME Head(queue).lidar = l
      PROVE  /\ frame # <<>> => Head(queue).time = After(frame[Len(frame)])
             /\ \A longer : longer[Len(longer)] = Head(queue).time
                              => FrameInOrder(l, longer, rest, next)
  <2>1. frame # <<>> => Head(queue).time = After(frame[Len(frame)])
    BY <1>1, <1>4, <1>8 DEF InLine, FrameInOrder
  <2>2. ASSUME NEW longer, longer[Len(longer)] = Head(queue).time
        PROVE  FrameInOrder(l, longer, rest, next)
    <3>1. ASSUME NEW i \in DOMAIN rest, rest[i].lidar = l,
                 \A k \in DOMAIN rest : k < i => rest[k].lidar # l
          PROVE  rest[i].time = After(queue[1].time)
      <4>1. i + 1 \in DOMAIN queue /\ queue[i + 1] = rest[i] /\ 1 < i + 1
        BY <1>1, <1>2, <1>4
      <4>2. ASSUME NEW k \in DOMAIN queue, 1 < k, k < i + 1
            PROVE  queue[k].lidar # l
        <5>1. k - 1 \in 1 .. n - 1 /\ queue[k] = rest[k - 1] /\ k - 1 < i
          BY <1>1, <1>2, <1>3, <4>2
        <5>2. QED
          BY <1>2, <3>1, <5>1
      <4>3. QED
        BY <1>1, <1>4, <1>8, <3>1, <4>1, <4>2 DEF InLine, InOrder
    <3>2. ASSUME \A k \in DOMAIN rest : rest[k].lidar # l
          PROVE  next = After(queue[1].time)
      <4>1. \A k \in DOMAIN queue : 1 < k => queue[k].lidar # l
        BY <1>1, <1>2, <1>3, <3>2
      <4>2. QED
        BY <1>1, <1>4, <1>8, <4>1 DEF InLine, NextInOrder
    <3>3. QED
      BY <1>1, <2>2, <3>1, <3>2 DEF FrameInOrder
  <2>3. QED
    BY <2>1, <2>2
<1>9. QED
  BY <1>5, <1>6, <1>7, <1>8 DEF InLine, rest

LEMMA NoFrameInLine ==
  ASSUME NEW l, NEW frame, NEW queue, NEW next, InLine(l, frame, queue, next)
  PROVE  InLine(l, <<>>, queue, next)
BY DEF InLine, FrameInOrder

LEMMA AfterTime ==
  ASSUME NEW t \in Times
  PROVE  After(t) \in Times /\ After(t) \in {t + 1, t + 1 - Cycle}
<1>1. /\ Cycle \in Nat \ {0} /\ t \in Nat /\ t < Cycle
  BY FramesAssumption DEF Times
<1>2. (t + 1) % Cycle = IF t + 1 = Cycle THEN 0 ELSE t + 1
  BY <1>1, Z3
<1>3. QED
  BY <1>1, <1>2 DEF Times, After

LEMMA ShortDistance ==
  ASSUME NEW d \in Int, 0 <= d, d < Cycle, NEW x \in {d, d - Cycle}
  PROVE  x % Cycle = d
<1>1. Cycle \in Nat \ {0}
  BY FramesAssumption
<1>2. QED
  BY <1>1, Z3

\* From one millisecond to the next the time in the interval grows by one, or an
\* interval begins.
LEMMA NextResidue ==
  ASSUME NEW t \in Nat
  PROVE  /\ t % FrameMs \in Nat /\ t % FrameMs < FrameMs
         /\ (t + 1) % FrameMs = 0 \/ (t + 1) % FrameMs = (t % FrameMs) + 1
<1>1. FrameMs \in Nat \ {0}
  BY FramesAssumption
<1>2. /\ t % FrameMs \in 0 .. FrameMs - 1
      /\ (t + 1) % FrameMs = 0 \/ (t + 1) % FrameMs = (t % FrameMs) + 1
  BY ONLY <1>1, t \in Nat, SMTT(60)
<1>3. QED
  BY <1>1, <1>2

\* A frame that takes the next packet of its lidar is whole; if it does not end with
\* it, it stays open.
LEMMA FrameGrows ==
  ASSUME NEW frame \in Seq(Times), Open(frame), NEW t \in Times,
         frame # <<>> => t = After(frame[Len(frame)])
  PROVE  /\ Append(frame, t) \in Seq(Times) /\ Append(frame, t) # <<>>
         /\ Append(frame, t)[Len(Append(frame, t))] = t
         /\ Whole(Append(frame, t)) /\ Len(Append(frame, t)) < 2 * FrameMs
         /\ Len(Append(frame, t)) < FrameMs \/ ~FrameComplete(Append(frame, t))
              => Open(Append(frame, t))
<1> DEFINE n == Len(frame)
           longer == Append(frame, t)
<1>1. /\ FrameMs \in Nat \ {0} /\ Cycle \in Int /\ Cycle > 2 * FrameMs - 1
      /\ n \in Nat /\ (frame # <<>> <=> n # 0) /\ t \in Nat
  BY FramesAssumption DEF Times
<1>2. /\ longer \in Seq(Times) /\ longer # <<>> /\ Len(longer) = n + 1 /\ longer[n + 1] = t
      /\ \A i \in 1 .. n : longer[i] = frame[i]
  BY AppendProperties
<1> HIDE DEF longer, n
<1>3. CASE n = 0
  <2>1. Whole(longer) /\ Len(longer) < 2 * FrameMs
    BY <1>1, <1>2, <1>3 DEF Whole
  <2>2. Len(longer) >= FrameMs => FrameMs = 1
    BY <1>1, <1>2, <1>3
  <2>3. Len(longer) < FrameMs \/ ~FrameComplete(longer) => Open(longer)
    <3>1. longer[Len(longer)] = t /\ longer[1] = t /\ Len(longer) = 1
      BY <1>2, <1>3
    <3>2. t \in {longer[1] + Len(longer) - 1, longer[1] + Len(longer) - 1 - Cycle}
      BY <1>1, <3>1
    <3>3. FrameMs = 1 => FrameComplete(longer)
      <4>1. t - t = 0 /\ 0 % Cycle = 0
        BY <1>1, Z3
      <4>2. FrameMs = 1 => t % FrameMs = 0
        BY <1>1, Z3
      <4>3. QED
        BY <1>2, <3>1, <4>1, <4>2 DEF FrameComplete, Last
    <3>4. QED
      BY <1>1, <2>1, <2>2, <3>1, <3>2, <3>3 DEF Open
  <2>4. QED
    BY <1>2, <1>3, <2>1, <2>3 DEF longer
<1>4. CASE n # 0
  <2> DEFINE newest == frame[n]
  <2>1. newest \in Times /\ newest \in Nat /\ frame[1] \in Int /\ 1 \in 1 .. n /\ n \in 1 .. n
    <3>1. 1 \in 1 .. n /\ n \in 1 .. n
      BY <1>1, <1>4
    <3>2. frame[1] \in Times /\ newest \in Times
      BY <3>1, ElementOfSeq DEF n
    <3>3. QED
      BY <1>1, <3>1, <3>2 DEF Times
  <2>2. /\ newest \in {frame[1] + n - 1, frame[1] + n - 1 - Cycle}
        /\ n >= FrameMs => n - FrameMs + 1 <= newest % FrameMs
    BY <1>1, <1>4 DEF Open, n
  <2>3. t = After(newest)
    BY <1>1, <1>4 DEF n
  <2> HIDE DEF newest
  <2>4. t \in {newest + 1, newest + 1 - Cycle} /\ t \in Times
    BY <2>1, <2>3, AfterTime
  <2>5. /\ newest % FrameMs \in Nat /\ newest % FrameMs < FrameMs
        /\ (newest + 1) % FrameMs = 0 \/ (newest + 1) % FrameMs = (newest % FrameMs) + 1
    BY <2>1, NextResidue
  <2>6. n + 1 < 2 * FrameMs
    BY <1>1, <2>2, <2>5
  <2>7. Whole(longer)
    <3> SUFFICES ASSUME NEW i \in 1 .. n
                 PROVE  longer[i + 1] = (longer[i] + 1) % Cycle
      BY <1>1, <1>2 DEF Whole
    <3>1. CASE i = n
      BY <1>1, <1>2, <2>1, <2>3, <3>1 DEF After, newest
    <3>2. CASE i # n
      <4>1. i \in 1 .. n - 1 /\ i + 1 \in 1 .. n
        BY <1>1, <3>2
      <4>2. frame[i + 1] = (frame[i] + 1) % Cycle
        BY <4>1 DEF Open, Whole, n
      <4>3. QED
        BY <1>2, <4>1, <4>2
    <3>3. QED
      BY <3>1, <3>2
  <2>8. t \in {longer[1] + n, longer[1] + n - Cycle}
    <3>1. longer[1] = frame[1]
      BY <1>2, <2>1
    <3>2. frame[1] \in Times
      BY <2>1, ElementOfSeq DEF n
    <3>3. frame[1] >= 0 /\ frame[1] < Cycle /\ t >= 0 /\ t < Cycle
      BY <1>1, <3>2 DEF Times
    <3>4. QED
      BY <1>1, <2>1, <2>2, <2>4, <2>6, <3>1, <3>3
  <2>9. (t - longer[1]) % Cycle = n
    <3>1. longer[1] \in Int
      BY <1>2, <2>1
    <3>2. t - longer[1] \in {n, n - Cycle}
      BY <1>1, <2>8, <3>1
    <3>3. n \in Int /\ 0 <= n /\ n < Cycle
      BY <1>1, <2>6
    <3>4. QED
      BY <3>2, <3>3, ShortDistance
  <2>10. ASSUME n + 1 >= FrameMs, ~FrameComplete(longer)
         PROVE  n + 1 - FrameMs + 1 <= t % FrameMs
    <3>1. t % FrameMs # 0
      <4>1. n >= FrameMs - 1
        BY <1>1, <2>10
      <4>2. QED
        BY <1>2, <2>9, <2>10, <4>1 DEF FrameComplete, Last
    <3>2. t = newest + 1
      <4>1. t = newest + 1 - Cycle => t = 0
        BY <1>1, <2>1, <2>4 DEF Times
      <4>2. 0 % FrameMs = 0
        BY <1>1, Z3
      <4>3. QED
        BY <2>4, <3>1, <4>1, <4>2
    <3>3. t % FrameMs = (newest % FrameMs) + 1
      BY <2>5, <3>1, <3>2
    <3>4. CASE n >= FrameMs
      BY <1>1, <2>2, <2>5, <3>3, <3>4
    <3>5. CASE n < FrameMs
      BY <1>1, <2>5, <2>10, <3>3, <3>5
    <3>6. QED
      BY <1>1, <3>4, <3>5
  <2>11. ASSUME Len(longer) < FrameMs \/ ~FrameComplete(longer)
         PROVE  Open(longer)
    <3>1. Len(longer) >= FrameMs => Len(longer) - FrameMs + 1 <= longer[Len(longer)] % FrameMs
      BY <1>1, <1>2, <2>10, <2>11
    <3>2. longer[Len(longer)] \in {longer[1] + Len(longer) - 1, longer[1] + Len(longer) - 1 - Cycle}
      <4>1. /\ longer[1] + Len(longer) - 1 = longer[1] + n
            /\ longer[1] + Len(longer) - 1 - Cycle = longer[1] + n - Cycle
        BY <1>1, <1>2, <2>1
      <4>2. longer[Len(longer)] = t
        BY <1>2
      <4>3. QED
        BY <2>8, <4>1, <4>2, Zenon
    <3>3. QED
      BY <2>7, <3>1, <3>2 DEF Open
  <2>12. QED
    BY <1>2, <2>6, <2>7, <2>11 DEF longer
<1>5. QED
  BY <1>3, <1>4 DEF longer

LEMMA OpenIsShort ==
  ASSUME NEW frame \in Seq(Times), Open(frame)
  PROVE  Len(frame) < 2 * FrameMs
<1> DEFINE n == Len(frame)
           newest == frame[n]
<1>1. FrameMs \in Nat \ {0} /\ n \in Nat /\ (frame # <<>> <=> n # 0)
  BY FramesAssumption
<1>2. CASE n # 0
  <2>1. n \in 1 .. n
    BY <1>1, <1>2
  <2>2. newest \in Nat
    <3>1. newest \in Times
      BY <2>1, ElementOfSeq DEF n
    <3>2. QED
      BY <3>1, FramesAssumption DEF Times
  <2>3. n >= FrameMs => n - FrameMs + 1 <= newest % FrameMs
    BY <1>1, <1>2 DEF Open
  <2> HIDE DEF n, newest
  <2>4. newest % FrameMs \in Nat /\ newest % FrameMs < FrameMs
    BY <2>2, NextResidue
  <2>5. QED
    BY <1>1, <2>3, <2>4 DEF n
<1>3. QED
  BY <1>1, <1>2

\* What moves none of the packets.
LEMMA NoPacketMoves ==
  ASSUME FramesInv, UNCHANGED <<packetTime, rawPackets, points, ring>>
  PROVE  FramesInv'
BY DEF FramesInv, RingsWhole

LEMMA ArrivalKeeps ==
  ASSUME FramesInv, NEW m \in Lidars, OnLivoxLidarPointCloud(m)
  PROVE  FramesInv'
<1> DEFINE p == [lidar |-> m, time |-> packetTime[m]]
<1>1. /\ rawPackets' = Append(rawPackets, p)
      /\ packetTime' = [packetTime EXCEPT ![m] = After(packetTime[m])]
      /\ UNCHANGED <<points, ring>>
  BY DEF OnLivoxLidarPointCloud, After
<1>2. packetTime[m] \in Times /\ p \in Packet /\ p.lidar = m /\ p.time = packetTime[m]
  BY DEF FramesInv, Packet
<1> HIDE DEF p
<1>3. packetTime' \in [Lidars -> Times]
  <2>1. After(packetTime[m]) \in Times
    BY <1>2, AfterTime
  <2>2. QED
    BY <1>1, <2>1 DEF FramesInv
<1>4. rawPackets' \in Seq(Packet)
  BY <1>1, <1>2, AppendProperties DEF FramesInv
<1>5. ASSUME NEW l \in Lidars
      PROVE  InLine(l, points[l], Append(rawPackets, p), packetTime'[l])
  <2>1. InLine(l, points[l], rawPackets, packetTime[l]) /\ rawPackets \in Seq(Packet)
    BY DEF FramesInv
  <2>2. /\ p.lidar # l => InLine(l, points[l], Append(rawPackets, p), packetTime[l])
        /\ p.lidar = l /\ p.time = packetTime[l]
             => InLine(l, points[l], Append(rawPackets, p), After(packetTime[l]))
    BY <1>2, <2>1, PacketQueued
  <2>3. packetTime'[l] = IF l = m THEN After(packetTime[m]) ELSE packetTime[l]
    BY <1>1 DEF FramesInv
  <2>4. QED
    BY <1>2, <2>2, <2>3
<1>6. \A l \in Lidars : InLine(l, points'[l], rawPackets', packetTime'[l]) /\ Open(points'[l])
  BY <1>1, <1>5 DEF FramesInv
<1>7. QED
  BY <1>1, <1>3, <1>4, <1>6 DEF FramesInv, RingsWhole

\* Only the frame that a packet came to may be long enough to end, and those that do
\* not are open still.
LEMMA ProcessKeeps ==
  ASSUME FramesInv, RawDataProcess
  PROVE  FramesInv'
<1> DEFINE m == Head(rawPackets).lidar
           t == Head(rawPackets).time
           pts == [points EXCEPT ![m] = Append(points[m], t)]
<1>1. PICK ended \in Published(m, pts) :
        /\ rawPackets # <<>> /\ rawPackets' = Tail(rawPackets) /\ UNCHANGED packetTime
        /\ points' = [l \in Lidars |-> IF l \in ended THEN <<>> ELSE pts[l]]
        /\ ring' = [l \in Lidars |->
             IF l \in ended \cap Indexed /\ ~QueueIsFull(ring[l])
             THEN Append(ring[l], pts[l]) ELSE ring[l]]
  BY DEF RawDataProcess, PointCloudProcess, Collected, PushLidarData, QueuePushAny, sourceVars
<1>2. Head(rawPackets) \in Packet /\ rawPackets' \in Seq(Packet)
  BY <1>1, HeadTailProperties DEF FramesInv
<1>3. m \in Lidars /\ t \in Times /\ points[m] \in Seq(Times) /\ Open(points[m])
  BY <1>2 DEF FramesInv, Packet
<1>4. ASSUME NEW l \in Lidars
      PROVE  /\ l # m => InLine(l, points[l], Tail(rawPackets), packetTime[l])
             /\ l = m =>
                  /\ points[l] # <<>> => t = After(points[l][Len(points[l])])
                  /\ \A longer : longer[Len(longer)] = t
                                   => InLine(l, longer, Tail(rawPackets), packetTime[l])
  <2>1. rawPackets \in Seq(Packet) /\ InLine(l, points[l], rawPackets, packetTime[l])
    BY DEF FramesInv
  <2>2. QED
    BY <1>1, <2>1, PacketTaken
<1>5. \A l \in Lidars : pts[l] = IF l = m THEN Append(points[m], t) ELSE points[l]
  BY DEF FramesInv
<1> HIDE DEF m, t
<1>6. /\ Append(points[m], t) \in Seq(Times) /\ Append(points[m], t) # <<>>
      /\ Append(points[m], t)[Len(Append(points[m], t))] = t
      /\ Whole(Append(points[m], t)) /\ Len(Append(points[m], t)) < 2 * FrameMs
      /\ Len(Append(points[m], t)) < FrameMs \/ ~FrameComplete(Append(points[m], t))
           => Open(Append(points[m], t))
  BY <1>3, <1>4, FrameGrows
<1>7. ASSUME m \notin ended
      PROVE  Open(Append(points[m], t))
  <2>1. pts[m] = Append(points[m], t)
    BY <1>3, <1>5
  <2>2. CASE isTimestampSync
    <3>1. ended = IF FrameComplete(pts[m]) THEN {m} ELSE {}
      BY <1>1, <2>2 DEF Published
    <3>2. ~FrameComplete(pts[m])
      BY <1>7, <3>1
    <3>3. QED
      BY <1>6, <2>1, <3>2
  <2>3. CASE ~isTimestampSync
    <3>1. ended \in IF Len(pts[m]) >= FrameMs THEN {{l \in Lidars : pts[l] # <<>>}}
                    ELSE {{}, {l \in Lidars : pts[l] # <<>>}}
      BY <1>1, <2>3 DEF Published
    <3>2. m \in {l \in Lidars : pts[l] # <<>>}
      BY <1>3, <1>6, <2>1
    <3>3. ~(Len(pts[m]) >= FrameMs)
      BY <1>7, <3>1, <3>2
    <3>4. Len(pts[m]) \in Nat /\ FrameMs \in Nat
      BY <1>6, <2>1, FramesAssumption
    <3>5. Len(pts[m]) < FrameMs
      BY <3>3, <3>4
    <3>6. QED
      BY <1>6, <2>1, <3>5
  <2>4. QED
    BY <2>2, <2>3
<1>8. ASSUME NEW l \in Lidars
      PROVE  /\ pts[l] \in Seq(Times) /\ Whole(pts[l]) /\ Len(pts[l]) < 2 * FrameMs
             /\ InLine(l, pts[l], Tail(rawPackets), packetTime[l])
             /\ l \notin ended => Open(pts[l])
  <2>1. CASE l = m
    BY <1>4, <1>5, <1>6, <1>7, <2>1
  <2>2. CASE l # m
    <3>1. pts[l] = points[l] /\ points[l] \in Seq(Times) /\ Open(points[l])
      BY <1>5, <2>2 DEF FramesInv
    <3>2. Len(points[l]) < 2 * FrameMs
      BY <3>1, OpenIsShort
    <3>3. QED
      BY <1>4, <2>2, <3>1, <3>2 DEF Open
  <2>3. QED
    BY <2>1, <2>2
<1> HIDE DEF pts
<1>9. ASSUME NEW l \in Lidars
      PROVE  /\ points'[l] \in Seq(Times) /\ Open(points'[l])
             /\ InLine(l, points'[l], rawPackets', packetTime'[l])
  <2>1. CASE l \in ended
    <3>1. points'[l] = <<>> /\ <<>> \in Seq(Times)
      BY <1>1, <2>1
    <3>2. Open(<<>>)
      BY DEF Open, Whole
    <3>3. InLine(l, <<>>, rawPackets', packetTime'[l])
      BY <1>1, <1>8, NoFrameInLine
    <3>4. QED
      BY <3>1, <3>2, <3>3
  <2>2. CASE l \notin ended
    <3>1. points'[l] = pts[l]
      BY <1>1, <2>2
    <3>2. QED
      BY <1>1, <1>8, <2>2, <3>1
  <2>3. QED
    BY <2>1, <2>2
<1>10. ASSUME NEW l \in Lidars
       PROVE  /\ ring'[l] \in Seq(Seq(Times))
              /\ \A i \in DOMAIN ring'[l] : Whole(ring'[l][i]) /\ Len(ring'[l][i]) < 2 * FrameMs
  <2>1. /\ ring[l] \in Seq(Seq(Times))
        /\ \A i \in DOMAIN ring[l] : Whole(ring[l][i]) /\ Len(ring[l][i]) < 2 * FrameMs
    BY DEF FramesInv, RingsWhole
  <2>2. CASE ring'[l] = ring[l]
    BY <2>1, <2>2
  <2>3. CASE ring'[l] = Append(ring[l], pts[l])
    <3> DEFINE old == ring[l]
               new == Append(old, pts[l])
    <3>1. old \in Seq(Seq(Times)) /\ Len(old) \in Nat /\ DOMAIN old = 1 .. Len(old)
      BY <2>1
    <3>2. /\ new \in Seq(Seq(Times)) /\ DOMAIN new = 1 .. Len(old) + 1
          /\ new[Len(old) + 1] = pts[l] /\ \A i \in 1 .. Len(old) : new[i] = old[i]
      BY <1>8, <3>1, AppendProperties
    <3> HIDE DEF new
    <3>3. ASSUME NEW i \in DOMAIN new
          PROVE  Whole(new[i]) /\ Len(new[i]) < 2 * FrameMs
      <4>1. CASE i = Len(old) + 1
        <5>1. new[i] = pts[l]
          BY <3>2, <4>1
        <5>2. QED
          BY <1>8, <5>1
      <4>2. CASE i # Len(old) + 1
        <5>1. i \in 1 .. Len(old) /\ new[i] = old[i]
          BY SMTT(30), <3>1, <3>2, <4>2
        <5>2. QED
          BY <2>1, <3>1, <5>1
      <4>3. QED
        BY <4>1, <4>2
    <3>4. QED
      BY <2>3, <3>2, <3>3 DEF new
  <2>4. QED
    BY <1>1, <2>2, <2>3
<1>11. points' \in [Lidars -> Seq(Times)]
  <2>1. points' = [l \in Lidars |-> points'[l]]
    BY <1>1
  <2>2. QED
    BY <1>9, <2>1
<1>12. ring' \in [Lidars -> Seq(Seq(Times))]
  <2>1. ring' = [l \in Lidars |-> ring'[l]]
    BY <1>1
  <2>2. QED
    BY <1>10, <2>1
<1>13. packetTime' \in [Lidars -> Times]
  BY <1>1 DEF FramesInv
<1>14. RingsWhole'
  BY <1>10 DEF RingsWhole
<1>15. QED
  BY <1>2, <1>9, <1>11, <1>12, <1>13, <1>14 DEF FramesInv

\* Taking a frame off a ring changes none of the others.
LEMMA PollKeeps ==
  ASSUME FramesInv, PollingLidarPointCloudData
  PROVE  FramesInv'
<1>1. CASE UNCHANGED ring
  BY <1>1, NoPacketMoves DEF PollingLidarPointCloudData, sourceVars
<1>2. CASE /\ pollAt \in Lidars /\ ring[pollAt] # <<>>
           /\ ring' = [ring EXCEPT ![pollAt] = Tail(@)]
  <2> DEFINE old == ring[pollAt]
             new == Tail(old)
  <2>1. /\ old \in Seq(Seq(Times)) /\ old # <<>> /\ Len(old) \in Nat /\ DOMAIN old = 1 .. Len(old)
        /\ \A i \in DOMAIN old : Whole(old[i]) /\ Len(old[i]) < 2 * FrameMs
    BY <1>2 DEF FramesInv, RingsWhole
  <2>2. /\ new \in Seq(Seq(Times)) /\ DOMAIN new = 1 .. Len(old) - 1
        /\ \A i \in DOMAIN new : new[i] = old[i + 1]
    BY <2>1, HeadTailProperties
  <2> HIDE DEF old, new
  <2>3. ASSUME NEW i \in DOMAIN new
        PROVE  Whole(new[i]) /\ Len(new[i]) < 2 * FrameMs
    <3>1. i + 1 \in DOMAIN old
      BY <2>1, <2>2
    <3>2. QED
      BY <2>1, <2>2, <3>1
  <2>4. ring' \in [Lidars -> Seq(Seq(Times))]
        /\ \A l \in Lidars : ring'[l] = IF l = pollAt THEN new ELSE ring[l]
    BY <1>2, <2>2 DEF FramesInv, new, old
  <2>5. RingsWhole'
    <3> SUFFICES ASSUME NEW l \in Lidars, NEW i \in DOMAIN ring'[l]
                 PROVE  Whole(ring'[l][i]) /\ Len(ring'[l][i]) < 2 * FrameMs
      BY DEF RingsWhole
    <3>1. CASE l = pollAt
      BY <2>3, <2>4, <3>1
    <3>2. CASE l # pollAt
      BY <2>4, <3>2 DEF FramesInv, RingsWhole
    <3>3. QED
      BY <3>1, <3>2
  <2>6. UNCHANGED <<packetTime, rawPackets, points>>
    BY DEF PollingLidarPointCloudData, sourceVars
  <2>7. QED
    BY <2>4, <2>5, <2>6 DEF FramesInv
<1>3. QED
  BY <1>1, <1>2 DEF PollingLidarPointCloudData, QueuePop

LEMMA FramesStep ==
  ASSUME FramesInv, [FramesNext]_frameVars
  PROVE  FramesInv'
<1>1. CASE \/ \E l \in Lidars : Connect(l)
           \/ PollThreadChecks \/ PollThreadWakes \/ RequestExit
           \/ UNCHANGED frameVars
  BY <1>1, NoPacketMoves
     DEF Connect, PollThreadChecks, PollThreadWakes, RequestExit, frameVars, sourceVars
<1>2. QED
  BY <1>1, ArrivalKeeps, ProcessKeeps, PollKeeps DEF FramesNext, PollStep

LEMMA FramesStart == FramesInit => FramesInv
<1> SUFFICES ASSUME FramesInit
             PROVE  FramesInv
  OBVIOUS
<1>1. 1 \in Times
  BY FramesAssumption DEF Times
<1>2. /\ packetTime \in [Lidars -> Times] /\ rawPackets = <<>> /\ rawPackets \in Seq(Packet)
      /\ points \in [Lidars -> Seq(Times)] /\ ring \in [Lidars -> Seq(Seq(Times))]
      /\ \A l \in Lidars : points[l] = <<>> /\ ring[l] = <<>>
  BY <1>1 DEF FramesInit
<1>3. ASSUME NEW l, NEW next
      PROVE  InLine(l, <<>>, <<>>, next)
  BY DEF InLine, InOrder, NextInOrder, FrameInOrder
<1>4. Open(<<>>)
  BY DEF Open, Whole
<1>5. QED
  BY <1>2, <1>3, <1>4 DEF FramesInv, RingsWhole

\* The packets of each lidar reach their frames and the frames their ring without a
\* gap, a repetition or a change of order, and no frame is longer than two intervals:
\* for every number of lidars, length of the interval and size of the rings, whether
\* the clocks are synchronised or not, and although frames are lost when a ring is
\* full (pub_handler.cpp:164, lds.cpp:185).
THEOREM FramesAreWhole == PerceptionSpec => []FramesWhole
<1>1. PerceptionInit => FramesInv
  BY FramesStart DEF PerceptionInit
<1>2. FramesInv /\ [PerceptionNext]_perceptionVars => FramesInv'
  BY FramesAlone, FramesStep
<1>3. FramesInv => FramesWhole
  <2> SUFFICES ASSUME FramesInv, NEW l \in Lidars, NEW frame \in Range(ring[l]) \cup {points[l]}
               PROVE  Whole(frame) /\ Len(frame) < 2 * FrameMs
    BY DEF FramesWhole
  <2>1. CASE frame = points[l]
    BY <2>1, OpenIsShort DEF FramesInv, Open
  <2>2. CASE frame \in Range(ring[l])
    <3>1. PICK i \in DOMAIN ring[l] : frame = ring[l][i]
      BY <2>2 DEF Range
    <3>2. QED
      BY <3>1 DEF FramesInv, RingsWhole
  <2>3. QED
    BY <2>1, <2>2
<1>4. QED
  BY <1>1, <1>2, <1>3, PTL DEF PerceptionSpec

----------------------------------------------------------------------------
(* Induction and recursion without operators for parameters. *)

\* Of some subsets of a finite set one holds no other.
LEMMA LeastSet ==
  ASSUME NEW S, IsFiniteSet(S), NEW B, B \subseteq SUBSET S, B # {}
  PROVE  \E T \in B : \A U \in B : ~(U \subseteq T /\ U # T)
<1>1. FiniteSubsetsOf(S) = SUBSET S
  BY FS_FiniteSubsetsOfFinite
<1>2. IsWellFoundedOn(StrictSubsetOrdering(S), SUBSET S)
  BY <1>1, FS_StrictSubsetOrderingWellFounded
<1>3. \E T \in B : \A U \in B : ~(<<U, T>> \in StrictSubsetOrdering(S))
  BY <1>2, WFMin
<1>4. PICK T \in B : \A U \in B : ~(<<U, T>> \in StrictSubsetOrdering(S))
  BY <1>3
<1>5. ASSUME NEW U \in B PROVE ~(U \subseteq T /\ U # T)
  <2>1. U \in SUBSET S /\ T \in SUBSET S /\ ~(<<U, T>> \in StrictSubsetOrdering(S))
    BY <1>4
  <2>2. QED
    BY ONLY <2>1, ZenonT(30) DEF StrictSubsetOrdering
<1>6. QED
  BY <1>5

\* What a fold is made of: pick chooses an element of a set, step a value for
\* that element and the value of the others.
Picks(pick, D)       == \A s \in SUBSET D : s # {} => pick[s] \in s
FoldSteps(step, D, Acc)  == \A x \in D, a \in Acc : step[x][a] \in Acc

\* A fold, with a value for every subset.
IsFold(g, D, Acc, base, pick, step) ==
  /\ g \in [SUBSET D -> Acc] /\ g[{}] = base
  /\ \A s \in SUBSET D : s # {} => g[s] = step[pick[s]][g[s \ {pick[s]}]]

LEMMA FoldExists ==
  ASSUME NEW D, IsFiniteSet(D), NEW Acc, NEW base \in Acc,
         NEW pick, Picks(pick, D), NEW step, FoldSteps(step, D, Acc)
  PROVE  \E g : IsFold(g, D, Acc, base, pick, step)
<1> USE DEF Picks, FoldSteps
<1> DEFINE Value(g, u) == IF u = {} THEN base ELSE step[pick[u]][g[u \ {pick[u]}]]
           Sol(s) == {g \in [SUBSET s -> Acc] : \A u \in SUBSET s : g[u] = Value(g, u)}
           Bad == {s \in SUBSET D : ~\E g : Sol(s) = {g}}
\* A fold of a set gives one of each subset.
<1>1. ASSUME NEW s \in SUBSET D, NEW g \in Sol(s), NEW u \in SUBSET s
      PROVE  [w \in SUBSET u |-> g[w]] \in Sol(u)
  <2> DEFINE r == [w \in SUBSET u |-> g[w]]
  <2>1. g \in [SUBSET s -> Acc] /\ \A w \in SUBSET s : g[w] = Value(g, w)
    OBVIOUS
  <2>2. r \in [SUBSET u -> Acc] /\ \A w \in SUBSET u : r[w] = g[w]
    BY <2>1
  <2>3. \A w \in SUBSET u : Value(r, w) = Value(g, w)
    BY <2>2
  <2>4. QED
    BY <2>1, <2>2, <2>3
<1>2. SUFFICES ASSUME Bad # {} PROVE FALSE
  <2>1. ASSUME Bad = {} PROVE \E g : g \in Sol(D)
    <3> HIDE DEF Sol
    <3>1. D \in SUBSET D /\ D \notin Bad
      BY <2>1
    <3>2. \E g : Sol(D) = {g}
      BY <3>1
    <3>3. QED
      BY <3>2
  <2>2. \A g \in Sol(D) : IsFold(g, D, Acc, base, pick, step)
    BY DEF IsFold
  <2> HIDE DEF Sol, Bad
  <2>3. QED
    BY <2>1, <2>2
<1>3. PICK s \in Bad : \A u \in Bad : ~(u \subseteq s /\ u # s)
  <2> HIDE DEF Sol
  <2>1. Bad \subseteq SUBSET D
    OBVIOUS
  <2> HIDE DEF Bad
  <2>2. QED
    BY <1>2, <2>1, LeastSet
<1>4. s \in SUBSET D
  OBVIOUS
<1> DEFINE G(u) == CHOOSE g : Sol(u) = {g}
<1>5. ASSUME NEW u \in SUBSET s, u # s PROVE Sol(u) = {G(u)}
  <2> HIDE DEF Sol
  <2>1. \E g : Sol(u) = {g}
    BY <1>3, <1>4, <1>5
  <2>2. QED
    BY <2>1
<1>6. ASSUME NEW u \in SUBSET s, u # s, NEW w \in SUBSET u PROVE G(u)[w] = G(w)[w]
  <2> HIDE DEF G, Sol
  <2>1. w \in SUBSET s /\ w # s /\ u \in SUBSET D /\ G(u) \in Sol(u)
    BY <1>4, <1>5, <1>6
  <2>2. [v \in SUBSET w |-> G(u)[v]] \in Sol(w)
    BY <2>1, <1>1
  <2>3. Sol(w) = {G(w)}
    BY <2>1, <1>5
  <2>4. G(w) = [v \in SUBSET w |-> G(u)[v]]
    BY <2>2, <2>3
  <2>5. QED
    BY <2>4
<1>7. ASSUME NEW u \in SUBSET s, u # s
      PROVE  G(u)[u] \in Acc /\ G(u)[u] = Value(G(u), u)
  <2> HIDE DEF G
  <2>1. G(u) \in Sol(u)
    BY <1>5, <1>7
  <2>2. QED
    BY <2>1
<1> DEFINE top == IF s = {} THEN base ELSE step[pick[s]][G(s \ {pick[s]})[s \ {pick[s]}]]
           h == [u \in SUBSET s |-> IF u = s THEN top ELSE G(u)[u]]
<1>8. \A u \in SUBSET s : u # {} => /\ pick[u] \in u /\ u \ {pick[u]} \in SUBSET u
                                    /\ u \ {pick[u]} \in SUBSET s /\ u \ {pick[u]} # s
                                    /\ pick[u] \in D
  <2>1. ASSUME NEW u \in SUBSET s, u # {} PROVE pick[u] \in u
    BY <1>4, <2>1
  <2>2. QED
    BY <1>4, <2>1
<1> HIDE DEF G
<1>9. top \in Acc
  <2>1. CASE s = {}
    BY <2>1
  <2>2. CASE s # {}
    <3>1. G(s \ {pick[s]})[s \ {pick[s]}] \in Acc /\ pick[s] \in D
      BY <2>2, <1>7, <1>8
    <3>2. QED
      BY <2>2, <3>1
  <2>3. QED
    BY <2>1, <2>2
<1> HIDE DEF top
<1>10. h \in [SUBSET s -> Acc]
  BY <1>7, <1>9
<1>11. \A u \in SUBSET s : h[u] = IF u = s THEN top ELSE G(u)[u]
  OBVIOUS
<1> HIDE DEF h
<1>12. ASSUME NEW u \in SUBSET s PROVE h[u] = Value(h, u)
  <2>1. CASE u = s
    <3>1. CASE s = {}
      BY <2>1, <3>1, <1>11 DEF top
    <3>2. CASE s # {}
      <4>1. h[s \ {pick[s]}] = G(s \ {pick[s]})[s \ {pick[s]}]
        BY <3>2, <1>8, <1>11
      <4>2. QED
        BY <2>1, <3>2, <4>1, <1>11 DEF top
    <3>3. QED
      BY <3>1, <3>2
  <2>2. CASE u # s
    <3>1. h[u] = Value(G(u), u)
      BY <2>2, <1>7, <1>11
    <3>2. CASE u = {}
      BY <3>1, <3>2
    <3>3. CASE u # {}
      <4>1. h[u \ {pick[u]}] = G(u \ {pick[u]})[u \ {pick[u]}]
        BY <3>3, <1>8, <1>11
      <4>2. G(u)[u \ {pick[u]}] = G(u \ {pick[u]})[u \ {pick[u]}]
        BY <2>2, <3>3, <1>6, <1>8
      <4>3. QED
        BY <3>1, <3>3, <4>1, <4>2
    <3>4. QED
      BY <3>2, <3>3
  <2>3. QED
    BY <2>1, <2>2
<1>13. h \in Sol(s)
  BY <1>10, <1>12
\* And there is one only.
<1>14. ASSUME NEW g \in Sol(s) PROVE g = h
  <2>1. ASSUME NEW u \in SUBSET s, u # s PROVE g[u] = h[u]
    <3> HIDE DEF Sol
    <3>1. [v \in SUBSET u |-> g[v]] \in Sol(u)
      BY <1>1, <1>4, <1>14
    <3>2. [v \in SUBSET u |-> g[v]] = G(u)
      BY <3>1, <2>1, <1>5
    <3>3. G(u)[u] = g[u]
      BY <3>2
    <3>4. QED
      BY <3>3, <2>1, <1>11
  <2>2. g[s] = h[s]
    <3>1. g[s] = Value(g, s) /\ h[s] = Value(h, s)
      BY <1>12
    <3>2. CASE s = {}
      BY <3>1, <3>2
    <3>3. CASE s # {}
      <4>1. g[s \ {pick[s]}] = h[s \ {pick[s]}]
        BY <2>1, <3>3, <1>8
      <4>2. QED
        BY <3>1, <3>3, <4>1
    <3>4. QED
      BY <3>2, <3>3
  <2>3. \A u \in SUBSET s : g[u] = h[u]
    BY <2>1, <2>2
  <2>4. g \in [SUBSET s -> Acc]
    OBVIOUS
  <2>5. QED
    BY <2>3, <2>4, <1>10
<1>15. Sol(s) = {h}
  <2> HIDE DEF Sol
  <2>1. QED
    BY <1>13, <1>14
<1>16. QED
  <2> HIDE DEF Sol
  <2>1. s \in Bad /\ \E g : Sol(s) = {g}
    BY <1>15
  <2>2. QED
    BY <2>1
\* A set of natural numbers has a least one: of the intervals below its elements
\* one holds no other.
LEMMA LeastNatural ==
  ASSUME NEW S, S \subseteq Nat, S # {}
  PROVE  \E m \in S : \A k \in S : m <= k
<1>1. PICK n \in S : TRUE
  OBVIOUS
<1> DEFINE Below(k) == IF k = 0 THEN {} ELSE 0 .. k - 1
           B == {Below(k) : k \in {k \in S : k <= n}}
<1>2. IsFiniteSet(0 .. n - 1)
  BY FS_Interval
<1>3. B \subseteq SUBSET (0 .. n - 1) /\ B # {}
  <2>1. n \in {k \in S : k <= n}
    BY <1>1
  <2>2. \A k \in Nat : k <= n => Below(k) \subseteq 0 .. n - 1
    BY <1>1
  <2>3. QED
    BY <2>1, <2>2
<1>4. \E T \in B : \A U \in B : ~(U \subseteq T /\ U # T)
  <2> DEFINE whole == 0 .. n - 1
  <2>1. IsFiniteSet(whole) /\ B \subseteq SUBSET whole /\ B # {}
    BY <1>2, <1>3
  <2> HIDE DEF B, whole
  <2>2. QED
    BY <2>1, LeastSet
<1>5. PICK m \in S : m <= n /\ \A U \in B : ~(U \subseteq Below(m) /\ U # Below(m))
  BY <1>4
<1>6. ASSUME NEW k \in S, k < m PROVE FALSE
  <2>1. k \in Nat /\ m \in Nat /\ n \in Nat /\ k <= n
    BY <1>1, <1>5, <1>6
  <2>2. Below(k) \in B /\ Below(k) \subseteq Below(m) /\ k \in Below(m) /\ k \notin Below(k)
    BY <1>6, <2>1
  <2>3. QED
    BY <1>5, <2>2
<1>7. QED
  BY <1>5, <1>6

\* What is bounded has a greatest element.
LEMMA GreatestNatural ==
  ASSUME NEW S, S \subseteq Nat, S # {}, NEW b \in Nat, \A k \in S : k <= b
  PROVE  Max(S) \in S /\ \A k \in S : k <= Max(S)
<1> DEFINE Bounds == {c \in Nat : \A k \in S : k <= c}
<1>1. Bounds \subseteq Nat /\ Bounds # {}
  OBVIOUS
<1>2. PICK c \in Bounds : \A d \in Bounds : c <= d
  <2> HIDE DEF Bounds
  <2>1. QED
    BY <1>1, LeastNatural
<1>3. c \in S
  <2>1. SUFFICES ASSUME c \notin S PROVE FALSE
    OBVIOUS
  <2>2. PICK k \in S : TRUE
    OBVIOUS
  <2>3. k <= c /\ k # c /\ k \in Nat
    BY <2>1, <2>2
  <2>4. c - 1 \in Nat /\ \A j \in S : j <= c - 1
    BY <2>1, <2>3
  <2>5. QED
    BY <1>2, <2>4
<1>4. \E x \in S : \A k \in S : x >= k
  BY <1>3
<1>5. QED
  BY <1>4 DEF Max


\* Induction up to a number, over a set.
LEMMA UpTo ==
  ASSUME NEW n \in Nat, NEW P, 0 \in P, \A k \in 0 .. n - 1 : k \in P => k + 1 \in P
  PROVE  \A k \in 0 .. n : k \in P
<1> DEFINE S == {k \in 0 .. n : k \notin P}
<1>1. SUFFICES ASSUME S # {} PROVE FALSE
  OBVIOUS
<1>2. PICK m \in S : \A k \in S : m <= k
  <2>1. S \subseteq Nat
    OBVIOUS
  <2> HIDE DEF S
  <2>2. QED
    BY <1>1, <2>1, LeastNatural
<1>3. m # 0 /\ m - 1 \in 0 .. n - 1 /\ m - 1 + 1 = m
  OBVIOUS
<1>4. m - 1 \in P
  BY <1>2, <1>3
<1>5. QED
  BY <1>3, <1>4

LEMMA MaxOfInterval ==
  ASSUME NEW n \in Nat, NEW s \in SUBSET (1 .. n), s # {}
  PROVE  Max(s) \in s /\ \A k \in s : k <= Max(s)
<1>1. s \subseteq Nat /\ \A k \in s : k <= n
  OBVIOUS
<1>2. QED
  BY <1>1, GreatestNatural

LEMMA LastOfInterval ==
  ASSUME NEW k \in Nat \ {0}
  PROVE  Max(1 .. k) = k /\ (1 .. k) \ {k} = 1 .. k - 1 /\ 1 .. k # {}
<1>1. 1 .. k \in SUBSET (1 .. k) /\ 1 .. k # {} /\ k \in 1 .. k
  OBVIOUS
<1>2. Max(1 .. k) \in 1 .. k /\ k <= Max(1 .. k)
  BY <1>1, MaxOfInterval
<1>3. QED
  BY <1>2

LEMMA NextOfInterval ==
  ASSUME NEW k \in Nat
  PROVE  Max(1 .. k + 1) = k + 1 /\ (1 .. k + 1) \ {k + 1} = 1 .. k /\ 1 .. k + 1 # {}
<1>1. k + 1 \in Nat \ {0} /\ k + 1 - 1 = k
  OBVIOUS
<1>2. QED
  BY <1>1, LastOfInterval

\* The same for a fold over a sequence, whose last element is picked first.
Lasts(n) == [s \in SUBSET (1 .. n) |-> Max(s)]

LEMMA SeqFoldExists ==
  ASSUME NEW n \in Nat, NEW Acc, NEW base \in Acc,
         NEW step, FoldSteps(step, 1 .. n, Acc)
  PROVE  \E g : IsFold(g, 1 .. n, Acc, base, Lasts(n), step)
<1>1. Picks(Lasts(n), 1 .. n)
  BY MaxOfInterval DEF Picks, Lasts
<1>2. IsFiniteSet(1 .. n)
  BY FS_Interval
<1>3. QED
  BY <1>1, <1>2, FoldExists

----------------------------------------------------------------------------
(* The network. *)

LEMMA NetworkAlone ==
  ASSUME [PerceptionNext]_perceptionVars
  PROVE  [NetworkNext]_networkVars
<1>1. CASE PerceptionNext
  BY <1>1 DEF PerceptionNext, Others
<1>2. CASE UNCHANGED perceptionVars
  BY <1>2 DEF perceptionVars
<1>3. QED
  BY <1>1, <1>2

FixedPorts == [k \in PortKinds |-> k]

NetCfgs ==
  [lidar : {0} \cup NetLidars \cup UNION Addresses, type : AllTypes,
   ports : FilePorts \cup {FixedPorts}, host : HostPorts]

\* What the file says of the ports of a Mid360 is gone.
AsFixed(cfg) == cfg.type \in FixedTypes => cfg.ports = FixedPorts

\* Ports of the host whose sockets are read.
PortsRead(cfg) == {cfg.host["points"], cfg.host["push"]} \ {"off"}

NetworkInv ==
  /\ phase # "running" => commandPorts = {} /\ delivered = NoDatagram
  /\ phase = "running" =>
       /\ customs \in Seq(NetCfgs) /\ \A i \in 1 .. Len(customs) : AsFixed(customs[i])
       /\ \A i, k \in 1 .. Len(customs) : customs[i].lidar = customs[k].lidar => i = k
       /\ typeCfg \in [DOMAIN typeCfg -> NetCfgs] /\ \A t \in DOMAIN typeCfg : AsFixed(typeCfg[t])
       /\ channels = [p \in DOMAIN channels |-> channels[p]]
       /\ commandPorts \cup {"detection"} \subseteq DOMAIN channels
       /\ \A i \in 1 .. Len(customs) : PortsRead(customs[i]) \subseteq DOMAIN channels
       /\ delivered # NoDatagram =>
            /\ CfgsOf(delivered.lidar) # {}
            /\ delivered.port \in PortKinds \cup {"detection"}
            /\ delivered.handler = Receiver(CfgOf(delivered.lidar), delivered.port)

LEMMA SetAsSeq ==
  ASSUME NEW S, IsFiniteSet(S)
  PROVE  SetToSeq(S) \in Seq(S)
<1> DEFINE n == Cardinality(S)
<1>1. n \in Nat /\ ExistsBijection(1 .. n, S)
  BY FS_CardinalityType
<1>2. \E f \in [1 .. n -> S] : IsInjective(f)
  BY <1>1 DEF ExistsBijection, Bijection, Injection, IsInjective
<1>3. SetToSeq(S) = CHOOSE f \in [1 .. n -> S] : IsInjective(f)
  BY DEF SetToSeq
<1> HIDE DEF n
<1>4. SetToSeq(S) \in [1 .. n -> S]
  BY <1>2, <1>3
<1>5. QED
  BY <1>1, <1>4

LEMMA CfgOfEntry ==
  ASSUME NEW e \in Entries, NEW l \in {0} \cup e.lidars
  PROVE  TypeLidarCfg(e, l) \in NetCfgs
BY DEF Entries, TypeLidarCfg, NetCfgs

LEMMA PortsChecked ==
  ASSUME NEW cfg \in NetCfgs
  PROVE  /\ CheckPort(cfg) \in NetCfgs /\ AsFixed(CheckPort(cfg))
         /\ CheckPort(cfg).lidar = cfg.lidar
BY DEF NetCfgs, CheckPort, AsFixed, FixedPorts

LEMMA CfgAdopted ==
  ASSUME NEW cfg \in NetCfgs, AsFixed(cfg), NEW l \in NetLidars
  PROVE  /\ Adopted(cfg, l) \in NetCfgs /\ AsFixed(Adopted(cfg, l))
         /\ Adopted(cfg, l).lidar = l
BY DEF NetCfgs, Adopted, AsFixed

LEMMA TypesParsed ==
  ASSUME NEW n \in Nat, NEW entries \in [1 .. n -> Entries]
  PROVE  ParseNewLidarCfg(entries).types \in Seq(NetCfgs)
<1> DEFINE Acc == Seq(NetCfgs)
           step == [x \in 1 .. n |-> [a \in Acc |-> NewTypes(a, entries[x])]]
<1>1. ASSUME NEW a \in Acc, NEW x \in 1 .. n PROVE NewTypes(a, entries[x]) \in Acc
  <2>1. TypeLidarCfg(entries[x], 0) \in NetCfgs
    BY CfgOfEntry
  <2>2. QED
    BY <2>1 DEF NewTypes
<1>2. <<>> \in Acc
  OBVIOUS
<1> HIDE DEF Acc
<1>3. /\ \A x \in 1 .. n, a \in Acc : step[x][a] = NewTypes(a, entries[x])
      /\ FoldSteps(step, 1 .. n, Acc)
  BY <1>1 DEF FoldSteps
<1> HIDE DEF step
<1>4. PICK f : IsFold(f, 1 .. n, Acc, <<>>, Lasts(n), step)
  BY <1>2, <1>3, SeqFoldExists
<1>5. DOMAIN entries = 1 .. n
  OBVIOUS
<1>6. f = [s \in SUBSET (DOMAIN entries) |->
             IF s = {} THEN <<>>
             ELSE LET x == Max(s) IN NewTypes(f[s \ {x}], entries[x])]
  <2>1. ASSUME NEW s \in SUBSET (1 .. n), s # {}
        PROVE  f[s] = NewTypes(f[s \ {Max(s)}], entries[Max(s)])
    <3>1. Max(s) \in 1 .. n /\ f[s \ {Max(s)}] \in Acc
      BY <1>4, <2>1, MaxOfInterval DEF IsFold
    <3>2. f[s] = step[Max(s)][f[s \ {Max(s)}]]
      BY <1>4, <2>1 DEF IsFold, Lasts
    <3>3. QED
      BY <3>1, <3>2, <1>3
  <2>2. f \in [SUBSET (1 .. n) -> Acc] /\ f[{}] = <<>>
    BY <1>4 DEF IsFold
  <2>3. QED
    BY <1>5, <2>1, <2>2
<1> DEFINE g == CHOOSE g : g = [s \in SUBSET (DOMAIN entries) |->
                                  IF s = {} THEN <<>>
                                  ELSE LET x == Max(s) IN NewTypes(g[s \ {x}], entries[x])]
<1>7. g = [s \in SUBSET (DOMAIN entries) |->
             IF s = {} THEN <<>>
             ELSE LET x == Max(s) IN NewTypes(g[s \ {x}], entries[x])]
  BY <1>6
<1>8. ParseNewLidarCfg(entries).types = g[DOMAIN entries]
  BY DEF ParseNewLidarCfg, FoldLeft, MapThenFoldSet
<1> HIDE DEF g
<1> DEFINE P == {k \in 0 .. n : g[1 .. k] \in Acc}
<1>9. 0 \in P
  <2>1. 1 .. 0 = {} /\ g[{}] = <<>> /\ 0 \in 0 .. n
    BY <1>7
  <2>2. QED
    BY <2>1, <1>2
<1>10. ASSUME NEW k \in 0 .. n - 1, k \in P PROVE k + 1 \in P
  <2>1. /\ k + 1 \in Nat \ {0} /\ k + 1 \in 0 .. n /\ 1 .. k + 1 \in SUBSET (1 .. n)
        /\ k \in Nat /\ k + 1 \in 1 .. n
    OBVIOUS
  <2>2. /\ Max(1 .. k + 1) = k + 1 /\ (1 .. k + 1) \ {k + 1} = 1 .. k
        /\ 1 .. k + 1 # {}
    BY <2>1, NextOfInterval
  <2>3. g[1 .. k + 1] = NewTypes(g[(1 .. k + 1) \ {Max(1 .. k + 1)}], entries[Max(1 .. k + 1)])
    BY <2>1, <2>2, <1>5, <1>7
  <2>4. g[1 .. k] \in Acc
    BY <1>10
  <2>5. g[1 .. k + 1] \in Acc
    BY <2>1, <2>2, <2>3, <2>4, <1>1
  <2>6. QED
    BY <2>1, <2>5
<1>11. n \in P
  <2>1. n \in 0 .. n
    OBVIOUS
  <2> HIDE DEF P
  <2>2. QED
    BY <2>1, <1>9, <1>10, UpTo
<1>12. QED
  BY <1>5, <1>8, <1>11 DEF Acc

LEMMA CustomsParsed ==
  ASSUME NEW n \in Nat, NEW entries \in [1 .. n -> Entries]
  PROVE  ParseNewLidarCfg(entries).customs \in Seq(NetCfgs)
<1> DEFINE Acc == Seq(NetCfgs)
           step == [x \in 1 .. n |-> [a \in Acc |-> NewCustoms(a, entries[x])]]
<1>1. ASSUME NEW a \in Acc, NEW x \in 1 .. n PROVE NewCustoms(a, entries[x]) \in Acc
  <2> DEFINE e == entries[x]
             lidars == SetToSeq(e.lidars)
             more == [i \in 1 .. Len(lidars) |-> TypeLidarCfg(e, lidars[i])]
  <2>1. e \in Entries
    OBVIOUS
  <2> HIDE DEF e
  <2>2. IsFiniteSet(e.lidars)
    BY <2>1, NetworkAssumption DEF Entries
  <2>3. lidars \in Seq(e.lidars)
    BY <2>2, SetAsSeq
  <2> HIDE DEF lidars
  <2>4. \A i \in 1 .. Len(lidars) : TypeLidarCfg(e, lidars[i]) \in NetCfgs
    <3>1. \A i \in 1 .. Len(lidars) : lidars[i] \in {0} \cup e.lidars
      BY <2>3
    <3>2. QED
      BY <2>1, <3>1, CfgOfEntry
  <2>5. more \in Seq(NetCfgs)
    BY <2>3, <2>4
  <2> HIDE DEF more
  <2>6. NewCustoms(a, e) = a \o more
    BY DEF NewCustoms, lidars, more
  <2>7. NewCustoms(a, e) \in Acc
    BY <2>5, <2>6
  <2>8. QED
    BY <2>7 DEF e
<1>2. <<>> \in Acc
  OBVIOUS
<1> HIDE DEF Acc
<1>3. /\ \A x \in 1 .. n, a \in Acc : step[x][a] = NewCustoms(a, entries[x])
      /\ FoldSteps(step, 1 .. n, Acc)
  BY <1>1 DEF FoldSteps
<1> HIDE DEF step
<1>4. PICK f : IsFold(f, 1 .. n, Acc, <<>>, Lasts(n), step)
  BY <1>2, <1>3, SeqFoldExists
<1>5. DOMAIN entries = 1 .. n
  OBVIOUS
<1>6. f = [s \in SUBSET (DOMAIN entries) |->
             IF s = {} THEN <<>>
             ELSE LET x == Max(s) IN NewCustoms(f[s \ {x}], entries[x])]
  <2>1. ASSUME NEW s \in SUBSET (1 .. n), s # {}
        PROVE  f[s] = NewCustoms(f[s \ {Max(s)}], entries[Max(s)])
    <3>1. Max(s) \in 1 .. n /\ f[s \ {Max(s)}] \in Acc
      BY <1>4, <2>1, MaxOfInterval DEF IsFold
    <3>2. f[s] = step[Max(s)][f[s \ {Max(s)}]]
      BY <1>4, <2>1 DEF IsFold, Lasts
    <3>3. QED
      BY <3>1, <3>2, <1>3
  <2>2. f \in [SUBSET (1 .. n) -> Acc] /\ f[{}] = <<>>
    BY <1>4 DEF IsFold
  <2>3. QED
    BY <1>5, <2>1, <2>2
<1> DEFINE g == CHOOSE g : g = [s \in SUBSET (DOMAIN entries) |->
                                  IF s = {} THEN <<>>
                                  ELSE LET x == Max(s) IN NewCustoms(g[s \ {x}], entries[x])]
<1>7. g = [s \in SUBSET (DOMAIN entries) |->
             IF s = {} THEN <<>>
             ELSE LET x == Max(s) IN NewCustoms(g[s \ {x}], entries[x])]
  BY <1>6
<1>8. ParseNewLidarCfg(entries).customs = g[DOMAIN entries]
  BY DEF ParseNewLidarCfg, FoldLeft, MapThenFoldSet
<1> HIDE DEF g
<1> DEFINE P == {k \in 0 .. n : g[1 .. k] \in Acc}
<1>9. 0 \in P
  <2>1. 1 .. 0 = {} /\ g[{}] = <<>> /\ 0 \in 0 .. n
    BY <1>7
  <2>2. QED
    BY <2>1, <1>2
<1>10. ASSUME NEW k \in 0 .. n - 1, k \in P PROVE k + 1 \in P
  <2>1. /\ k + 1 \in Nat \ {0} /\ k + 1 \in 0 .. n /\ 1 .. k + 1 \in SUBSET (1 .. n)
        /\ k \in Nat /\ k + 1 \in 1 .. n
    OBVIOUS
  <2>2. /\ Max(1 .. k + 1) = k + 1 /\ (1 .. k + 1) \ {k + 1} = 1 .. k
        /\ 1 .. k + 1 # {}
    BY <2>1, NextOfInterval
  <2>3. g[1 .. k + 1] = NewCustoms(g[(1 .. k + 1) \ {Max(1 .. k + 1)}], entries[Max(1 .. k + 1)])
    BY <2>1, <2>2, <1>5, <1>7
  <2>4. g[1 .. k] \in Acc
    BY <1>10
  <2>5. g[1 .. k + 1] \in Acc
    BY <2>1, <2>2, <2>3, <2>4, <1>1
  <2>6. QED
    BY <2>1, <2>5
<1>11. n \in P
  <2>1. n \in 0 .. n
    OBVIOUS
  <2> HIDE DEF P
  <2>2. QED
    BY <2>1, <1>9, <1>10, UpTo
<1>12. QED
  BY <1>5, <1>8, <1>11 DEF Acc

\* A socket for every port a configuration wants read, and those there were.
LEMMA ChannelsMade ==
  ASSUME NEW S, NEW cfgs \in Seq(S), NEW chs, chs = [p \in DOMAIN chs |-> chs[p]]
  PROVE  /\ CreateChannels(cfgs, chs) = [p \in DOMAIN CreateChannels(cfgs, chs) |->
                                           CreateChannels(cfgs, chs)[p]]
         /\ DOMAIN chs \subseteq DOMAIN CreateChannels(cfgs, chs)
         /\ \A i \in 1 .. Len(cfgs) :
              PortsRead(cfgs[i]) \cup CommandChannelPorts(cfgs[i])
                \subseteq DOMAIN CreateChannels(cfgs, chs)
<1> DEFINE n == Len(cfgs)
           DataPorts(cfg) == {cfg.host["points"], cfg.host["imu"], "debug"} \ {"off"}
           Ports == DOMAIN chs \cup UNION {DataPorts(cfgs[i]) \cup CommandChannelPorts(cfgs[i]) :
                                             i \in 1 .. n}
           Threads == {chs[p] : p \in DOMAIN chs} \cup {"data", "command"}
           Acc == UNION {[D -> Threads] : D \in SUBSET Ports}
           step == [x \in 1 .. n |-> [a \in Acc |-> CreateChannel(a, cfgs[x])]]
<1>1. n \in Nat /\ DOMAIN cfgs = 1 .. n
  OBVIOUS
<1>2. ASSUME NEW a \in Acc, NEW x \in 1 .. n
      PROVE  /\ CreateChannel(a, cfgs[x]) \in Acc
             /\ DOMAIN CreateChannel(a, cfgs[x])
                  = DOMAIN a \cup DataPorts(cfgs[x]) \cup CommandChannelPorts(cfgs[x])
  <2> DEFINE data == DataPorts(cfgs[x])
             more == CommandChannelPorts(cfgs[x])
  <2>1. data \subseteq Ports /\ more \subseteq Ports
    OBVIOUS
  <2>2. CreateChannel(a, cfgs[x]) = Opened(Opened(a, data, "data"), more, "command")
    BY DEF CreateChannel, CreateDataChannel
  <2>3. {"data", "command"} \subseteq Threads
    OBVIOUS
  <2> HIDE DEF data, more, Ports, Threads
  <2>4. PICK D \in SUBSET Ports : a \in [D -> Threads]
    OBVIOUS
  <2>5. Opened(a, data, "data") \in [D \cup data -> Threads]
    BY <2>3, <2>4 DEF Opened
  <2>6. Opened(Opened(a, data, "data"), more, "command") \in [D \cup data \cup more -> Threads]
    BY <2>3, <2>5 DEF Opened
  <2>7. D \cup data \cup more \in SUBSET Ports
    BY <2>1
  <2>8. QED
    BY <2>2, <2>4, <2>6, <2>7 DEF data, more
<1>3. chs \in Acc
  <2>1. chs \in [DOMAIN chs -> Threads] /\ DOMAIN chs \in SUBSET Ports
    OBVIOUS
  <2> HIDE DEF Ports, Threads
  <2>2. QED
    BY <2>1
<1>4. \A i \in 1 .. n : PortsRead(cfgs[i]) \subseteq DataPorts(cfgs[i]) \cup CommandChannelPorts(cfgs[i])
  BY DEF PortsRead, CommandChannelPorts
<1>5. \A a \in Acc : a = [p \in DOMAIN a |-> a[p]]
  <2> HIDE DEF Ports, Threads
  <2>1. QED
    OBVIOUS
<1> HIDE DEF Acc, Ports, Threads, DataPorts
<1>6. /\ \A x \in 1 .. n, a \in Acc : step[x][a] = CreateChannel(a, cfgs[x])
      /\ FoldSteps(step, 1 .. n, Acc)
  BY <1>2 DEF FoldSteps
<1> HIDE DEF step
<1>7. PICK f : IsFold(f, 1 .. n, Acc, chs, Lasts(n), step)
  <2> HIDE DEF n
  <2>1. QED
    BY <1>1, <1>3, <1>6, SeqFoldExists
<1>8. f = [s \in SUBSET (DOMAIN cfgs) |->
             IF s = {} THEN chs
             ELSE LET x == Max(s) IN CreateChannel(f[s \ {x}], cfgs[x])]
  <2>1. ASSUME NEW s \in SUBSET (1 .. n), s # {}
        PROVE  f[s] = CreateChannel(f[s \ {Max(s)}], cfgs[Max(s)])
    <3>1. Max(s) \in 1 .. n /\ f[s \ {Max(s)}] \in Acc
      BY <1>1, <1>7, <2>1, MaxOfInterval DEF IsFold
    <3>2. f[s] = step[Max(s)][f[s \ {Max(s)}]]
      BY <1>7, <2>1 DEF IsFold, Lasts
    <3>3. QED
      BY <3>1, <3>2, <1>6
  <2>2. f \in [SUBSET (1 .. n) -> Acc] /\ f[{}] = chs
    BY <1>7 DEF IsFold
  <2>3. QED
    BY <1>1, <2>1, <2>2
<1> DEFINE g == CHOOSE g : g = [s \in SUBSET (DOMAIN cfgs) |->
                                  IF s = {} THEN chs
                                  ELSE LET x == Max(s) IN CreateChannel(g[s \ {x}], cfgs[x])]
<1>9. g = [s \in SUBSET (DOMAIN cfgs) |->
             IF s = {} THEN chs
             ELSE LET x == Max(s) IN CreateChannel(g[s \ {x}], cfgs[x])]
  BY <1>8
<1>10. CreateChannels(cfgs, chs) = g[DOMAIN cfgs]
  BY DEF CreateChannels, FoldLeft, MapThenFoldSet
<1> HIDE DEF g
<1> DEFINE Held(k) == /\ g[1 .. k] \in Acc /\ DOMAIN chs \subseteq DOMAIN g[1 .. k]
                      /\ \A i \in 1 .. k : DataPorts(cfgs[i]) \cup CommandChannelPorts(cfgs[i])
                                             \subseteq DOMAIN g[1 .. k]
           P == {k \in 0 .. n : Held(k)}
<1>11. 0 \in P
  <2>1. 1 .. 0 = {} /\ g[{}] = chs /\ 0 \in 0 .. n
    BY <1>1, <1>9
  <2>2. QED
    BY <2>1, <1>3
<1>12. ASSUME NEW k \in 0 .. n - 1, k \in P PROVE k + 1 \in P
  <2>1. /\ k \in Nat /\ k + 1 \in 0 .. n /\ 1 .. k + 1 \in SUBSET (1 .. n) /\ k + 1 \in 1 .. n
        /\ 1 .. k + 1 = (1 .. k) \cup {k + 1}
    BY <1>1
  <2>2. /\ Max(1 .. k + 1) = k + 1 /\ (1 .. k + 1) \ {k + 1} = 1 .. k
        /\ 1 .. k + 1 # {}
    BY <2>1, NextOfInterval
  <2>3. g[1 .. k + 1] = CreateChannel(g[(1 .. k + 1) \ {Max(1 .. k + 1)}], cfgs[Max(1 .. k + 1)])
    BY <2>1, <2>2, <1>1, <1>9
  <2>4. Held(k)
    BY <1>12
  <2>5. g[1 .. k + 1] = CreateChannel(g[1 .. k], cfgs[k + 1])
    BY <2>2, <2>3
  <2>6. /\ g[1 .. k + 1] \in Acc
        /\ DOMAIN g[1 .. k + 1] = DOMAIN g[1 .. k] \cup DataPorts(cfgs[k + 1])
                                    \cup CommandChannelPorts(cfgs[k + 1])
    <3>1. g[1 .. k] \in Acc /\ k + 1 \in 1 .. n
      BY <2>1, <2>4
    <3> DEFINE a == g[1 .. k]
               x == k + 1
    <3> HIDE DEF a, x, n
    <3>2. a \in Acc /\ x \in 1 .. n
      BY <3>1 DEF a, x
    <3>3. /\ CreateChannel(a, cfgs[x]) \in Acc
          /\ DOMAIN CreateChannel(a, cfgs[x])
               = DOMAIN a \cup DataPorts(cfgs[x]) \cup CommandChannelPorts(cfgs[x])
      BY <3>2, <1>2
    <3>4. QED
      BY <2>5, <3>3 DEF a, x
  <2>7. Held(k + 1)
    BY <2>1, <2>4, <2>6
  <2> HIDE DEF Held
  <2>8. QED
    BY <2>1, <2>7
<1>13. Held(n)
  <2>1. n \in 0 .. n
    BY <1>1
  <2> HIDE DEF P, n
  <2>2. n \in P
    BY <2>1, <1>1, <1>11, <1>12, UpTo
  <2>3. QED
    BY <2>2 DEF P
<1>14. CreateChannels(cfgs, chs) \in Acc
  BY <1>1, <1>10, <1>13
<1>15. QED
  BY <1>1, <1>4, <1>5, <1>10, <1>13, <1>14

LEMMA FirstCfg ==
  ASSUME NEW lidar, CfgsOf(lidar) # {}, \A i, k \in CfgsOf(lidar) : i = k,
         customs \in Seq(NetCfgs)
  PROVE  \E i \in CfgsOf(lidar) : CfgOf(lidar) = customs[i]
<1>1. PICK i \in CfgsOf(lidar) : TRUE
  OBVIOUS
<1>2. i \in 1 .. Len(customs)
  BY DEF CfgsOf
<1>3. \A k \in CfgsOf(lidar) : i <= k
  BY <1>2
<1>4. (CHOOSE j \in CfgsOf(lidar) : \A k \in CfgsOf(lidar) : j <= k) \in CfgsOf(lidar)
  BY <1>3
<1>5. QED
  BY <1>4 DEF CfgOf

LEMMA NetworkStart == NetworkInit => NetworkInv
BY DEF NetworkInit, NetworkInv

\* Of each type the last configuration.
LEMMA TypesKept ==
  ASSUME NEW types \in Seq(NetCfgs), \A i \in 1 .. Len(types) : AsFixed(types[i]),
         NEW kinds, kinds = {cfg.type : cfg \in Range(types)},
         NEW lasting, lasting = [t \in kinds |-> types[Max({i \in 1 .. Len(types) : types[i].type = t})]]
  PROVE  lasting \in [kinds -> NetCfgs] /\ \A t \in kinds : AsFixed(lasting[t])
<1>1. ASSUME NEW t \in kinds
      PROVE  Max({i \in 1 .. Len(types) : types[i].type = t}) \in 1 .. Len(types)
  <2> DEFINE Of == {i \in 1 .. Len(types) : types[i].type = t}
  <2>1. PICK i \in 1 .. Len(types) : types[i].type = t
    BY DEF Range
  <2>2. Len(types) \in Nat /\ Of \in SUBSET (1 .. Len(types)) /\ Of # {}
    BY <2>1
  <2> HIDE DEF Of
  <2>3. Max(Of) \in Of
    BY <2>2, MaxOfInterval
  <2>4. QED
    BY <2>2, <2>3 DEF Of
<1> DEFINE of(t) == Max({i \in 1 .. Len(types) : types[i].type = t})
<1>2. lasting = [t \in kinds |-> types[of(t)]] /\ \A t \in kinds : of(t) \in 1 .. Len(types)
  BY <1>1
<1> HIDE DEF of
<1>3. \A t \in kinds : types[of(t)] \in NetCfgs /\ AsFixed(types[of(t)])
  BY <1>2
<1>4. QED
  BY <1>2, <1>3

LEMMA NetworkInitStep ==
  ASSUME NetworkInv, LivoxLidarSdkInit
  PROVE  NetworkInv'
<1>0. PICK n \in 1 .. 2 : \E entries \in [1 .. n -> Entries] :
        LET cfgs   == ParseNewLidarCfg(entries)
            types  == [i \in 1 .. Len(cfgs.types) |-> CheckPort(cfgs.types[i])]
            named  == [i \in 1 .. Len(cfgs.customs) |-> CheckPort(cfgs.customs[i])]
        IN IF ~ParamsCheck(cfgs)
           THEN phase' = "refused"
                /\ UNCHANGED <<typeCfg, customs, channels, commandPorts, broadcasts>>
           ELSE DeviceManagerInit(types, named)
  BY DEF LivoxLidarSdkInit
<1>1. PICK entries \in [1 .. n -> Entries] :
        LET cfgs   == ParseNewLidarCfg(entries)
            types  == [i \in 1 .. Len(cfgs.types) |-> CheckPort(cfgs.types[i])]
            named  == [i \in 1 .. Len(cfgs.customs) |-> CheckPort(cfgs.customs[i])]
        IN IF ~ParamsCheck(cfgs)
           THEN phase' = "refused"
                /\ UNCHANGED <<typeCfg, customs, channels, commandPorts, broadcasts>>
           ELSE DeviceManagerInit(types, named)
  BY <1>0
<1> DEFINE cfgs  == ParseNewLidarCfg(entries)
           types == [i \in 1 .. Len(cfgs.types) |-> CheckPort(cfgs.types[i])]
           named == [i \in 1 .. Len(cfgs.customs) |-> CheckPort(cfgs.customs[i])]
<1>2. phase = "read" /\ UNCHANGED <<master, logOn, delivered>>
  BY DEF LivoxLidarSdkInit
<1>3. commandPorts = {} /\ delivered = NoDatagram
  BY <1>2 DEF NetworkInv
<1>4. cfgs.types \in Seq(NetCfgs) /\ cfgs.customs \in Seq(NetCfgs)
  BY TypesParsed, CustomsParsed
<1>5. \/ phase' = "refused" /\ commandPorts' = commandPorts
      \/ ParamsCheck(cfgs) /\ DeviceManagerInit(types, named)
  BY <1>1
<1> HIDE DEF cfgs
<1>6. /\ types \in Seq(NetCfgs) /\ \A i \in 1 .. Len(types) : AsFixed(types[i])
  BY <1>4, PortsChecked
<1>7. /\ named \in Seq(NetCfgs) /\ Len(named) = Len(cfgs.customs)
      /\ \A i \in 1 .. Len(named) : AsFixed(named[i]) /\ named[i].lidar = cfgs.customs[i].lidar
  BY <1>4, PortsChecked
<1> HIDE DEF types, named
<1>8. CASE phase' = "refused" /\ commandPorts' = commandPorts
  BY <1>2, <1>3, <1>8 DEF NetworkInv, NoDatagram
<1>9. CASE ParamsCheck(cfgs) /\ DeviceManagerInit(types, named)
  <2> DEFINE first == [p \in {"detection"} |-> "detection"]
  <2>1. /\ phase' = "running" /\ customs' = named /\ Channels(named, first)
        /\ typeCfg' = [t \in {cfg.type : cfg \in Range(types)} |->
                         types[Max({i \in 1 .. Len(types) : types[i].type = t})]]
    BY <1>9 DEF DeviceManagerInit
  <2>2. \A i, k \in 1 .. Len(named) : named[i].lidar = named[k].lidar => i = k
    BY <1>7, <1>9 DEF ParamsCheck, CheckLidarIp
  <2>3. typeCfg' \in [DOMAIN typeCfg' -> NetCfgs] /\ \A t \in DOMAIN typeCfg' : AsFixed(typeCfg'[t])
    <3> DEFINE kinds == {cfg.type : cfg \in Range(types)}
               lasting == [t \in kinds |-> types[Max({i \in 1 .. Len(types) : types[i].type = t})]]
    <3>1. lasting \in [kinds -> NetCfgs] /\ \A t \in kinds : AsFixed(lasting[t])
      <4> HIDE DEF kinds
      <4>1. lasting = [t \in kinds |-> types[Max({i \in 1 .. Len(types) : types[i].type = t})]]
        OBVIOUS
      <4> HIDE DEF lasting
      <4>2. kinds = {cfg.type : cfg \in Range(types)}
        BY DEF kinds
      <4>3. QED
        BY <1>6, <4>1, <4>2, TypesKept
    <3>2. typeCfg' = lasting
      BY <2>1
    <3> HIDE DEF lasting, kinds
    <3>3. QED
      BY <3>1, <3>2
  <2> DEFINE all == CreateChannels(named, first)
  <2>4. /\ channels' = all
        /\ commandPorts' = {"detection"} \cup UNION {CommandChannelPorts(cfg) : cfg \in Range(named)}
    BY <1>3, <2>1 DEF Channels
  <2>5. /\ all = [p \in DOMAIN all |-> all[p]] /\ "detection" \in DOMAIN all
        /\ \A i \in 1 .. Len(named) :
             PortsRead(named[i]) \cup CommandChannelPorts(named[i]) \subseteq DOMAIN all
    <3>1. first = [p \in DOMAIN first |-> first[p]] /\ "detection" \in DOMAIN first
      OBVIOUS
    <3> HIDE DEF first
    <3>2. QED
      BY <1>7, <3>1, ChannelsMade
  <2> HIDE DEF all
  <2>6. commandPorts' \cup {"detection"} \subseteq DOMAIN all
    BY <1>7, <2>4, <2>5 DEF Range
  <2>7. delivered' = NoDatagram
    BY <1>2, <1>3
  <2>8. /\ customs' \in Seq(NetCfgs) /\ \A i \in 1 .. Len(customs') : AsFixed(customs'[i])
        /\ \A i, k \in 1 .. Len(customs') : customs'[i].lidar = customs'[k].lidar => i = k
    BY <1>7, <2>1, <2>2
  <2>9. /\ channels' = [p \in DOMAIN channels' |-> channels'[p]]
        /\ commandPorts' \cup {"detection"} \subseteq DOMAIN channels'
        /\ \A i \in 1 .. Len(customs') : PortsRead(customs'[i]) \subseteq DOMAIN channels'
    BY <2>1, <2>4, <2>5, <2>6
  <2>10. QED
    BY <2>1, <2>3, <2>7, <2>8, <2>9 DEF NetworkInv, NoDatagram, AsFixed, PortsRead
<1>10. QED
  BY <1>5, <1>8, <1>9

LEMMA AdoptStep ==
  ASSUME NetworkInv, phase = "running", UNCHANGED phase, NEW lidar \in NetLidars,
         CfgsOf(lidar) = {}, delivered' = NoDatagram, AdoptLidar(lidar)
  PROVE  NetworkInv'
<1> DEFINE type == TypeOf[lidar]
<1>1. /\ customs \in Seq(NetCfgs) /\ \A i \in 1 .. Len(customs) : AsFixed(customs[i])
      /\ \A i, k \in 1 .. Len(customs) : customs[i].lidar = customs[k].lidar => i = k
      /\ typeCfg \in [DOMAIN typeCfg -> NetCfgs] /\ \A t \in DOMAIN typeCfg : AsFixed(typeCfg[t])
      /\ channels = [p \in DOMAIN channels |-> channels[p]]
      /\ commandPorts \cup {"detection"} \subseteq DOMAIN channels
      /\ \A i \in 1 .. Len(customs) : PortsRead(customs[i]) \subseteq DOMAIN channels
  BY DEF NetworkInv
<1>2. CASE type \notin DOMAIN typeCfg
  <2>1. UNCHANGED <<typeCfg, customs, channels, commandPorts>>
    BY <1>2 DEF AdoptLidar
  <2>2. QED
    BY <1>1, <2>1 DEF NetworkInv, NoDatagram, AsFixed, PortsRead
<1>3. CASE type \in DOMAIN typeCfg
  <2> DEFINE new == Adopted(typeCfg[type], lidar)
             cfgs == Append(customs, new)
             all == CreateChannels(cfgs, channels)
  <2>1. /\ typeCfg' = [typeCfg EXCEPT ![type] = new] /\ customs' = cfgs
        /\ channels' = CreateChannels(customs', channels)
        /\ commandPorts' = commandPorts \cup {"detection"} \cup
                             UNION {CommandChannelPorts(cfg) : cfg \in Range(customs')}
    BY <1>3 DEF AdoptLidar, Channels
  <2>2. new \in NetCfgs /\ AsFixed(new) /\ new.lidar = lidar
    BY <1>1, <1>3, CfgAdopted
  <2>3. channels' = all
    BY <2>1
  <2>4. commandPorts' = commandPorts \cup {"detection"} \cup
                          UNION {CommandChannelPorts(cfg) : cfg \in Range(cfgs)}
    BY <2>1
  <2> HIDE DEF new
  <2>5. /\ cfgs \in Seq(NetCfgs) /\ Len(cfgs) = Len(customs) + 1
        /\ \A i \in 1 .. Len(customs) : cfgs[i] = customs[i]
        /\ cfgs[Len(customs) + 1] = new
    BY <1>1, <2>2
  <2> HIDE DEF cfgs
  <2>6. \A i \in 1 .. Len(cfgs) : AsFixed(cfgs[i])
    BY <1>1, <2>2, <2>5
  <2>7. \A i \in 1 .. Len(customs) : customs[i].lidar # lidar
    BY DEF CfgsOf
  <2>8. ASSUME NEW i \in 1 .. Len(cfgs), NEW k \in 1 .. Len(cfgs), cfgs[i].lidar = cfgs[k].lidar
        PROVE  i = k
    <3>1. /\ i \in 1 .. Len(customs) \/ i = Len(customs) + 1
          /\ k \in 1 .. Len(customs) \/ k = Len(customs) + 1
      BY <1>1, <2>5
    <3>2. QED
      BY <1>1, <2>2, <2>5, <2>7, <2>8, <3>1
  <2>9. /\ all = [p \in DOMAIN all |-> all[p]] /\ DOMAIN channels \subseteq DOMAIN all
        /\ \A i \in 1 .. Len(cfgs) :
             PortsRead(cfgs[i]) \cup CommandChannelPorts(cfgs[i]) \subseteq DOMAIN all
    BY <1>1, <2>5, ChannelsMade
  <2> HIDE DEF all
  <2>10. commandPorts' \cup {"detection"} \subseteq DOMAIN all
    BY <1>1, <2>4, <2>5, <2>9 DEF Range
  <2>11. typeCfg' \in [DOMAIN typeCfg' -> NetCfgs] /\ \A t \in DOMAIN typeCfg' : AsFixed(typeCfg'[t])
    <3>1. DOMAIN typeCfg' = DOMAIN typeCfg
      BY <1>1, <2>1
    <3>2. QED
      BY <1>1, <2>1, <2>2, <3>1
  <2>12. QED
    BY <2>1, <2>3, <2>5, <2>6, <2>8, <2>9, <2>10, <2>11 DEF NetworkInv, NoDatagram, AsFixed, PortsRead
<1>4. QED
  BY <1>2, <1>3

LEMMA NetworkStep ==
  ASSUME NetworkInv, [NetworkNext]_networkVars
  PROVE  NetworkInv'
<1>1. CASE ReadFile
  BY <1>1 DEF ReadFile, NetworkInv, NoDatagram
<1>2. CASE LivoxLidarSdkInit
  BY <1>2, NetworkInitStep
<1>3. CASE Destroy
  BY <1>3 DEF Destroy, NetworkInv, NoDatagram
<1>4. ASSUME NEW lidar \in NetLidars, NEW port \in PortKinds \cup {"detection"}, OnData(lidar, port)
      PROVE  NetworkInv'
  <2>1. phase = "running" /\ UNCHANGED <<phase, master, logOn>>
    BY <1>4 DEF OnData
  <2>2. CASE CfgsOf(lidar) # {}
    <3>1. /\ delivered' = [lidar |-> lidar, port |-> port, handler |-> Receiver(CfgOf(lidar), port)]
          /\ UNCHANGED <<typeCfg, customs, channels, commandPorts, broadcasts>>
      BY <1>4, <2>2 DEF OnData
    <3>2. CfgsOf(lidar)' = CfgsOf(lidar) /\ CfgOf(lidar)' = CfgOf(lidar)
      BY <3>1 DEF CfgsOf, CfgOf
    <3>3. /\ CfgsOf(delivered.lidar)' = CfgsOf(lidar) /\ CfgOf(delivered.lidar)' = CfgOf(lidar)
          /\ delivered'.port = port /\ delivered'.handler = Receiver(CfgOf(lidar), port)
      BY <3>1, <3>2 DEF CfgsOf, CfgOf
    <3>4. QED
      BY <2>1, <2>2, <3>1, <3>3 DEF NetworkInv, AsFixed, PortsRead
  <2>3. CASE CfgsOf(lidar) = {}
    <3>1. delivered' = NoDatagram
          /\ \/ AdoptLidar(lidar)
             \/ UNCHANGED <<typeCfg, customs, channels, commandPorts, broadcasts>>
      BY <1>4, <2>3 DEF OnData
    <3>2. CASE AdoptLidar(lidar)
      BY <2>1, <2>3, <3>1, <3>2, AdoptStep
    <3>3. CASE UNCHANGED <<typeCfg, customs, channels, commandPorts, broadcasts>>
      BY <2>1, <3>1, <3>3 DEF NetworkInv, NoDatagram, AsFixed, PortsRead
    <3>4. QED
      BY <3>1, <3>2, <3>3
  <2>4. QED
    BY <2>2, <2>3
<1>5. CASE UNCHANGED networkVars
  BY ZenonT(30), <1>5 DEF networkVars, NetworkInv, NoDatagram, AsFixed, PortsRead, CfgsOf, CfgOf, Receiver, DataHandle
<1>6. QED
  BY <1>1, <1>2, <1>3, <1>4, <1>5 DEF NetworkNext

LEMMA NetworkInvSound == NetworkInv => NetworkSound
<1> SUFFICES ASSUME NetworkInv, phase = "running" PROVE NetworkSound
  BY DEF NetworkSound
<1>1. \A lidar : \A i, k \in CfgsOf(lidar) : i = k
  BY DEF NetworkInv, CfgsOf
<1>2. customs \in Seq(NetCfgs)
  BY DEF NetworkInv
<1>3. ASSUME delivered # NoDatagram, CfgOf(delivered.lidar).type \in FixedTypes
      PROVE  delivered.handler = IF delivered.port \in {"points", "imu"}
                                 THEN delivered.port ELSE "command"
  <2>1. /\ CfgsOf(delivered.lidar) # {}
        /\ delivered.port \in PortKinds \cup {"detection"}
        /\ delivered.handler = Receiver(CfgOf(delivered.lidar), delivered.port)
    BY <1>3 DEF NetworkInv
  <2>2. PICK i \in CfgsOf(delivered.lidar) : CfgOf(delivered.lidar) = customs[i]
    BY <1>1, <1>2, <2>1, FirstCfg
  <2>3. AsFixed(CfgOf(delivered.lidar))
    BY <2>2 DEF NetworkInv, CfgsOf
  <2>4. CfgOf(delivered.lidar).ports = FixedPorts
    BY <1>3, <2>3 DEF AsFixed
  <2>5. QED
    BY <2>1, <2>4 DEF Receiver, DataHandle, FixedPorts, PortKinds
<1>4. ASSUME NEW lidar \in NetLidars
      PROVE  /\ CmdChannel(lidar) \in DOMAIN channels
             /\ \A i \in CfgsOf(lidar) :
                  {customs[i].host["points"], customs[i].host["push"]} \ {"off"} \subseteq DOMAIN channels
  BY DEF NetworkInv, CmdChannel, CfgsOf, PortsRead
<1>5. QED
  BY <1>1, <1>3, <1>4 DEF NetworkSound

----------------------------------------------------------------------------
(* The IO loop. *)

LEMMA LoopAlone ==
  ASSUME [PerceptionNext]_perceptionVars
  PROVE  [LoopNext]_loopVars
<1>1. CASE PerceptionNext
  BY <1>1 DEF PerceptionNext, Others
<1>2. CASE UNCHANGED perceptionVars
  BY <1>2 DEF perceptionVars
<1>3. QED
  BY <1>1, <1>2

Task == [adds : BOOLEAN, socket : Sockets]

\* PolledAfter, of any descriptors and tasks.
Polled(set, tasks, n) ==
  {s \in Sockets :
     \/ s \in set /\ \A i \in 1 .. n : tasks[i].socket # s
     \/ \E i \in 1 .. n : /\ tasks[i].socket = s /\ tasks[i].adds
                         /\ \A k \in i + 1 .. n : tasks[k].socket # s}

\* A socket is added once and removed once, in this order.
TasksInOrder(state, set, tasks) ==
  /\ \A i, k \in 1 .. Len(tasks) :
       i < k /\ tasks[i].socket = tasks[k].socket => tasks[i].adds /\ ~tasks[k].adds
  /\ \A i \in 1 .. Len(tasks) :
       /\ state[tasks[i].socket] # "new"
       /\ tasks[i].adds => tasks[i].socket \notin set
       /\ ~tasks[i].adds => state[tasks[i].socket] # "wanted"
       /\ tasks[i].adds /\ state[tasks[i].socket] # "wanted" =>
            \E k \in i + 1 .. Len(tasks) : tasks[k].socket = tasks[i].socket
  /\ \A s \in set : /\ state[s] # "new"
                    /\ state[s] # "wanted" => \E i \in 1 .. Len(tasks) : tasks[i].socket = s

\* A socket that is wanted is polled or to be polled, and there is room for it.
TasksFit(state, set, tasks) ==
  /\ \A s \in Sockets :
       state[s] = "wanted" => s \in set \/ \E i \in 1 .. Len(tasks) : tasks[i].socket = s
  /\ \A i \in 1 .. Len(tasks) : tasks[i].adds => Cardinality(Polled(set, tasks, i - 1)) < PollMax

SockStates == {"new", "wanted", "left", "closed"}

LoopInv ==
  /\ sock \in [Sockets -> SockStates] /\ descriptors \subseteq Sockets
  /\ pendingTasks \in Seq(Task) /\ turnTasks \in Seq(Task) /\ waking \in Nat
  /\ turn \in {"poll", "take", "run", "ended"}
  /\ turn # "run" => turnTasks = <<>>
  /\ pendingTasks # <<>> => woken \/ waking > 0 \/ turn = "take"
  /\ TasksInOrder(sock, descriptors, Tasks)
  /\ ~overfull => TasksFit(sock, descriptors, Tasks)

LEMMA AllPolled ==
  ASSUME NEW state \in [Sockets -> SockStates], NEW set \in SUBSET Sockets,
         NEW tasks \in Seq(Task),
         TasksInOrder(state, set, tasks), TasksFit(state, set, tasks)
  PROVE  Polled(set, tasks, Len(tasks)) = {s \in Sockets : state[s] = "wanted"}
<1>1. Len(tasks) \in Nat /\ \A i \in 1 .. Len(tasks) : tasks[i] \in Task
  OBVIOUS
<1>2. ASSUME NEW s \in Polled(set, tasks, Len(tasks)) PROVE state[s] = "wanted"
  BY <1>1, <1>2 DEF Polled, TasksInOrder, Task
<1>3. ASSUME NEW s \in Sockets, state[s] = "wanted"
      PROVE  s \in Polled(set, tasks, Len(tasks))
  <2>1. CASE \A i \in 1 .. Len(tasks) : tasks[i].socket # s
    BY <1>3, <2>1 DEF Polled, TasksFit
  <2>2. CASE \E i \in 1 .. Len(tasks) : tasks[i].socket = s
    <3>1. PICK i \in 1 .. Len(tasks) : tasks[i].socket = s
      BY <2>2
    <3>2. tasks[i].adds
      BY <1>3, <3>1 DEF TasksInOrder
    <3>3. \A k \in i + 1 .. Len(tasks) : tasks[k].socket # s
      <4>1. SUFFICES ASSUME NEW k \in i + 1 .. Len(tasks), tasks[k].socket = s PROVE FALSE
        OBVIOUS
      <4>2. k \in 1 .. Len(tasks) /\ i < k
        BY <1>1
      <4>3. QED
        BY <4>1, <4>2, <3>1, <1>3 DEF TasksInOrder
    <3>4. QED
      BY <3>1, <3>2, <3>3, <1>3 DEF Polled
  <2>3. QED
    BY <2>1, <2>2
<1>4. QED
  BY <1>2, <1>3 DEF Polled

LEMMA TasksAre ==
  ASSUME NEW first \in Seq(Task), NEW second \in Seq(Task), NEW t \in Task
  PROVE  /\ first \o second \in Seq(Task)
         /\ first \o Append(second, t) = Append(first \o second, t)
         /\ <<>> \o second = second
         /\ first # <<>> => /\ Tail(first) \o second = Tail(first \o second)
                            /\ Head(first) = Head(first \o second)
                            /\ first \o second # <<>>
<1>1. first \o second \in Seq(Task) /\ <<>> \o second = second
  OBVIOUS
<1>2. first \o Append(second, t) = Append(first \o second, t)
  OBVIOUS
<1>3. ASSUME first # <<>>
      PROVE /\ Tail(first) \o second = Tail(first \o second)
            /\ Head(first) = Head(first \o second) /\ first \o second # <<>>
  BY <1>3
<1>4. QED
  BY <1>1, <1>2, <1>3

\* A task that is posted changes nothing of what is polled after those before it.
LEMMA PolledBefore ==
  ASSUME NEW set, NEW tasks \in Seq(Task), NEW t \in Task, NEW n \in 0 .. Len(tasks)
  PROVE  Polled(set, Append(tasks, t), n) = Polled(set, tasks, n)
<1>1. \A i \in 1 .. n : Append(tasks, t)[i] = tasks[i]
  OBVIOUS
<1>2. QED
  BY <1>1 DEF Polled

LEMMA AddingKeeps ==
  ASSUME NEW state \in [Sockets -> SockStates], NEW set \in SUBSET Sockets,
         NEW tasks \in Seq(Task), NEW s \in Sockets, state[s] = "new",
         TasksInOrder(state, set, tasks)
  PROVE  LET posted == Append(tasks, [adds |-> TRUE, socket |-> s])
             after  == [state EXCEPT ![s] = "wanted"]
         IN /\ TasksInOrder(after, set, posted)
            /\ TasksFit(state, set, tasks) /\ Cardinality({x \in Sockets : state[x] = "wanted"}) < PollMax
                 => TasksFit(after, set, posted)
<1> DEFINE t == [adds |-> TRUE, socket |-> s]
           posted == Append(tasks, t)
           after == [state EXCEPT ![s] = "wanted"]
<1>1. t \in Task /\ posted \in Seq(Task) /\ Len(posted) = Len(tasks) + 1 /\ Len(tasks) \in Nat
  BY DEF Task
<1>2. /\ \A i \in 1 .. Len(tasks) : posted[i] = tasks[i] /\ tasks[i] \in Task
      /\ posted[Len(tasks) + 1] = t
  BY <1>1
<1>3. /\ \A i \in 1 .. Len(tasks) : tasks[i].socket # s /\ after[tasks[i].socket] = state[tasks[i].socket]
      /\ s \notin set /\ \A x \in set : after[x] = state[x]
  BY <1>2 DEF TasksInOrder, Task
<1> HIDE DEF posted, after
<1>4. \A i \in 1 .. Len(posted) : i \in 1 .. Len(tasks) \/ i = Len(tasks) + 1
  BY <1>1
<1>4a. /\ t.socket = s /\ t.adds
       /\ after \in [Sockets -> SockStates] /\ after[s] = "wanted"
       /\ \A x \in Sockets : x # s => after[x] = state[x]
  BY DEF after, SockStates
<1> HIDE DEF t
<1>5. TasksInOrder(after, set, posted)
  <2>1. ASSUME NEW i \in 1 .. Len(posted), NEW k \in 1 .. Len(posted), i < k,
               posted[i].socket = posted[k].socket
        PROVE  posted[i].adds /\ ~posted[k].adds
    <3>1. i \in 1 .. Len(tasks)
      BY <2>1, <1>1
    <3>2. CASE k \in 1 .. Len(tasks)
      BY <2>1, <3>1, <3>2, <1>2 DEF TasksInOrder
    <3>3. CASE k = Len(tasks) + 1
      BY <2>1, <3>1, <3>3, <1>2, <1>3, <1>4a
    <3>4. QED
      BY <3>2, <3>3, <1>4
  <2>2. ASSUME NEW i \in 1 .. Len(posted)
        PROVE  /\ after[posted[i].socket] # "new"
               /\ posted[i].adds => posted[i].socket \notin set
               /\ ~posted[i].adds => after[posted[i].socket] # "wanted"
               /\ posted[i].adds /\ after[posted[i].socket] # "wanted" =>
                    \E k \in i + 1 .. Len(posted) : posted[k].socket = posted[i].socket
    <3>1. CASE i \in 1 .. Len(tasks)
      <4>1. posted[i].adds /\ after[posted[i].socket] # "wanted" =>
              \E k \in i + 1 .. Len(tasks) : tasks[k].socket = tasks[i].socket
        BY <3>1, <1>2, <1>3 DEF TasksInOrder
      <4>2. \A k \in i + 1 .. Len(tasks) : k \in 1 .. Len(tasks) /\ k \in i + 1 .. Len(posted)
        BY <1>1, <3>1
      <4>3. /\ posted[i] = tasks[i]
            /\ state[tasks[i].socket] # "new"
            /\ tasks[i].adds => tasks[i].socket \notin set
            /\ ~tasks[i].adds => state[tasks[i].socket] # "wanted"
        BY <3>1, <1>2, <1>3 DEF TasksInOrder
      <4>4. QED
        BY SMTT(30), <3>1, <4>1, <4>2, <4>3, <1>2, <1>3
    <3>2. CASE i = Len(tasks) + 1
      BY <3>2, <1>2, <1>3, <1>4a
    <3>3. QED
      BY <3>1, <3>2, <1>4
  <2>3. ASSUME NEW x \in set
        PROVE /\ after[x] # "new"
              /\ after[x] # "wanted" => \E i \in 1 .. Len(posted) : posted[i].socket = x
    BY <1>1, <1>2, <1>3 DEF TasksInOrder
  <2>4. QED
    BY <2>1, <2>2, <2>3 DEF TasksInOrder
<1>6. ASSUME TasksFit(state, set, tasks), Cardinality({x \in Sockets : state[x] = "wanted"}) < PollMax
      PROVE  TasksFit(after, set, posted)
  <2>1. ASSUME NEW x \in Sockets, after[x] = "wanted"
        PROVE  x \in set \/ \E i \in 1 .. Len(posted) : posted[i].socket = x
    <3>1. CASE x = s
      BY <3>1, <1>1, <1>2, <1>4a
    <3>2. CASE x # s
      <4>1. x \in set \/ \E i \in 1 .. Len(tasks) : tasks[i].socket = x
        BY <3>2, <1>6, <2>1, <1>4a DEF TasksFit
      <4>2. QED
        BY <4>1, <1>1, <1>2
    <3>3. QED
      BY <3>1, <3>2
  <2>2. ASSUME NEW i \in 1 .. Len(posted), posted[i].adds
        PROVE  Cardinality(Polled(set, posted, i - 1)) < PollMax
    <3>1. i - 1 \in 0 .. Len(tasks)
      BY <1>1
    <3>2. Polled(set, posted, i - 1) = Polled(set, tasks, i - 1)
      BY <3>1, <1>1, PolledBefore DEF posted
    <3>3. CASE i \in 1 .. Len(tasks)
      BY <2>2, <3>2, <3>3, <1>2, <1>6 DEF TasksFit
    <3>4. CASE i = Len(tasks) + 1
      <4>1. Polled(set, tasks, Len(tasks)) = {x \in Sockets : state[x] = "wanted"}
        BY <1>6, AllPolled
      <4>2. i - 1 = Len(tasks)
        BY <3>4, <1>1
      <4>3. QED
        BY <4>1, <4>2, <3>2, <1>6
    <3>5. QED
      BY <3>3, <3>4, <1>4
  <2>3. QED
    BY <2>1, <2>2 DEF TasksFit
<1>7. QED
  BY <1>5, <1>6 DEF t, posted, after

LEMMA RemovingKeeps ==
  ASSUME NEW state \in [Sockets -> SockStates], NEW set \in SUBSET Sockets,
         NEW tasks \in Seq(Task), NEW s \in Sockets, state[s] = "wanted",
         TasksInOrder(state, set, tasks)
  PROVE  LET posted == Append(tasks, [adds |-> FALSE, socket |-> s])
             after  == [state EXCEPT ![s] = "left"]
         IN TasksInOrder(after, set, posted) /\ (TasksFit(state, set, tasks) => TasksFit(after, set, posted))
<1> DEFINE t == [adds |-> FALSE, socket |-> s]
           posted == Append(tasks, t)
           after == [state EXCEPT ![s] = "left"]
<1>1. t \in Task /\ posted \in Seq(Task) /\ Len(posted) = Len(tasks) + 1 /\ Len(tasks) \in Nat
  BY DEF Task
<1>2. /\ \A i \in 1 .. Len(tasks) : posted[i] = tasks[i] /\ tasks[i] \in Task
      /\ posted[Len(tasks) + 1] = t
  BY <1>1
<1> HIDE DEF posted, after
<1>3. \A i \in 1 .. Len(posted) : i \in 1 .. Len(tasks) \/ i = Len(tasks) + 1
  BY <1>1
<1>4. /\ t.socket = s /\ ~t.adds
      /\ after \in [Sockets -> SockStates] /\ after[s] = "left"
      /\ \A x \in Sockets : x # s => after[x] = state[x]
  BY DEF after, SockStates
<1> HIDE DEF t
<1>5. \A i \in 1 .. Len(tasks) : tasks[i].socket \in Sockets /\ (tasks[i].socket = s => tasks[i].adds)
  BY <1>2 DEF TasksInOrder, Task
<1>6. TasksInOrder(after, set, posted)
  <2>1. ASSUME NEW i \in 1 .. Len(posted), NEW k \in 1 .. Len(posted), i < k,
               posted[i].socket = posted[k].socket
        PROVE  posted[i].adds /\ ~posted[k].adds
    <3>1. i \in 1 .. Len(tasks)
      BY <2>1, <1>1
    <3>2. CASE k \in 1 .. Len(tasks)
      BY <2>1, <3>1, <3>2, <1>2 DEF TasksInOrder
    <3>3. CASE k = Len(tasks) + 1
      BY <2>1, <3>1, <3>3, <1>2, <1>4, <1>5
    <3>4. QED
      BY <3>2, <3>3, <1>3
  <2>2. ASSUME NEW i \in 1 .. Len(posted)
        PROVE  /\ after[posted[i].socket] # "new"
               /\ posted[i].adds => posted[i].socket \notin set
               /\ ~posted[i].adds => after[posted[i].socket] # "wanted"
               /\ posted[i].adds /\ after[posted[i].socket] # "wanted" =>
                    \E k \in i + 1 .. Len(posted) : posted[k].socket = posted[i].socket
    <3>1. CASE i \in 1 .. Len(tasks) /\ tasks[i].socket = s
      <4>1. Len(tasks) + 1 \in i + 1 .. Len(posted)
        BY <3>1, <1>1
      <4>2. posted[i].adds /\ posted[i].socket = s /\ s \notin set
        BY <3>1, <1>2, <1>5 DEF TasksInOrder
      <4>3. QED
        BY <4>1, <4>2, <1>2, <1>4
    <3>2. CASE i \in 1 .. Len(tasks) /\ tasks[i].socket # s
      <4>1. posted[i].adds /\ after[posted[i].socket] # "wanted" =>
              \E k \in i + 1 .. Len(tasks) : tasks[k].socket = tasks[i].socket
        BY <3>2, <1>2, <1>4, <1>5 DEF TasksInOrder
      <4>2. \A k \in i + 1 .. Len(tasks) : k \in 1 .. Len(tasks) /\ k \in i + 1 .. Len(posted)
        BY <1>1, <3>2
      <4>3. QED
        BY <3>2, <4>1, <4>2, <1>2, <1>4, <1>5 DEF TasksInOrder
    <3>3. CASE i = Len(tasks) + 1
      BY <3>3, <1>2, <1>4
    <3>4. QED
      BY <3>1, <3>2, <3>3, <1>3
  <2>3. ASSUME NEW x \in set
        PROVE /\ after[x] # "new"
              /\ after[x] # "wanted" => \E i \in 1 .. Len(posted) : posted[i].socket = x
    <3>1. CASE x = s
      <4>1. Len(tasks) + 1 \in 1 .. Len(posted)
        BY <1>1
      <4>2. QED
        BY <3>1, <4>1, <1>2, <1>4
    <3>2. CASE x # s
      BY <3>2, <1>1, <1>2, <1>4 DEF TasksInOrder
    <3>3. QED
      BY <3>1, <3>2
  <2>4. QED
    BY <2>1, <2>2, <2>3 DEF TasksInOrder
<1>7. ASSUME TasksFit(state, set, tasks) PROVE TasksFit(after, set, posted)
  <2>1. ASSUME NEW x \in Sockets, after[x] = "wanted"
        PROVE  x \in set \/ \E i \in 1 .. Len(posted) : posted[i].socket = x
    <3>1. x \in set \/ \E i \in 1 .. Len(tasks) : tasks[i].socket = x
      BY <1>7, <2>1, <1>4 DEF TasksFit
    <3>2. QED
      BY <3>1, <1>1, <1>2
  <2>2. ASSUME NEW i \in 1 .. Len(posted), posted[i].adds
        PROVE  Cardinality(Polled(set, posted, i - 1)) < PollMax
    <3>1. i \in 1 .. Len(tasks)
      BY <2>2, <1>2, <1>3, <1>4
    <3>2. i - 1 \in 0 .. Len(tasks)
      BY <3>1, <1>1
    <3>3. Polled(set, posted, i - 1) = Polled(set, tasks, i - 1)
      BY <3>2, <1>1, PolledBefore DEF posted
    <3>4. QED
      BY <2>2, <3>1, <3>3, <1>2, <1>7 DEF TasksFit
  <2>3. QED
    BY <2>1, <2>2 DEF TasksFit
<1>8. QED
  BY <1>6, <1>7 DEF t, posted, after

\* What was not removed yet can be closed.
LEMMA ClosingKeeps ==
  ASSUME NEW state \in [Sockets -> SockStates], NEW set \in SUBSET Sockets,
         NEW tasks \in Seq(Task), NEW s \in Sockets, state[s] = "left",
         TasksInOrder(state, set, tasks)
  PROVE  LET after == [state EXCEPT ![s] = "closed"]
         IN TasksInOrder(after, set, tasks) /\ (TasksFit(state, set, tasks) => TasksFit(after, set, tasks))
<1> DEFINE after == [state EXCEPT ![s] = "closed"]
<1>1. \A x \in Sockets : /\ after[x] = "new" <=> state[x] = "new"
                         /\ after[x] = "wanted" <=> state[x] = "wanted"
  BY DEF SockStates
<1>2. \A i \in 1 .. Len(tasks) : tasks[i] \in Task
  OBVIOUS
<1>2a. \A i \in 1 .. Len(tasks) : tasks[i].socket \in Sockets
  BY <1>2 DEF Task
<1> HIDE DEF after
<1>3. TasksInOrder(after, set, tasks)
  BY <1>1, <1>2a DEF TasksInOrder
<1>4. TasksFit(state, set, tasks) => TasksFit(after, set, tasks)
  BY <1>1, <1>2a DEF TasksFit
<1>5. QED
  BY <1>3, <1>4 DEF after

\* A task that is run makes of the descriptors what was foreseen, or leaves one out.
LEMMA PolledLater ==
  ASSUME NEW set \in SUBSET Sockets, NEW after \in SUBSET Sockets,
         NEW tasks \in Seq(Task), tasks # <<>>,
         after \subseteq IF Head(tasks).adds THEN set \cup {Head(tasks).socket}
                         ELSE set \ {Head(tasks).socket},
         NEW n \in 0 .. Len(tasks) - 1
  PROVE  Polled(after, Tail(tasks), n) \subseteq Polled(set, tasks, n + 1)
<1>1. Len(tasks) \in Nat \ {0} /\ Head(tasks) = tasks[1] /\ 1 \in 1 .. n + 1
  OBVIOUS
<1>2. \A i \in 1 .. n : Tail(tasks)[i] = tasks[i + 1] /\ i + 1 \in 1 .. n + 1
  BY <1>1
<1>3. \A i \in 1 .. n + 1 : i # 1 => i - 1 \in 1 .. n /\ tasks[i] = Tail(tasks)[i - 1]
  BY <1>1
<1>4. SUFFICES ASSUME NEW s \in Polled(after, Tail(tasks), n)
               PROVE  s \in Polled(set, tasks, n + 1)
  OBVIOUS
<1>5. CASE s \in after /\ \A i \in 1 .. n : Tail(tasks)[i].socket # s
  <2>1. ASSUME NEW i \in 1 .. n + 1, i # 1 PROVE tasks[i].socket # s
    <3>1. i - 1 \in 1 .. n /\ tasks[i] = Tail(tasks)[i - 1]
      BY <2>1, <1>3
    <3>2. QED
      BY <3>1, <1>5
  <2>2. CASE tasks[1].socket = s
    <3>1. tasks[1].adds
      BY <1>5, <2>2, <1>1
    <3>2. \A k \in 1 + 1 .. n + 1 : k \in 1 .. n + 1 /\ k # 1
      OBVIOUS
    <3>3. QED
      BY <1>4, <2>1, <2>2, <3>1, <3>2, <1>1 DEF Polled
  <2>3. CASE tasks[1].socket # s
    <3>1. s \in set
      BY <1>5, <2>3, <1>1
    <3>2. \A i \in 1 .. n + 1 : tasks[i].socket # s
      BY <2>1, <2>3
    <3>3. QED
      BY <1>4, <3>1, <3>2 DEF Polled
  <2>4. QED
    BY <2>2, <2>3
<1>6. CASE \E i \in 1 .. n : /\ Tail(tasks)[i].socket = s /\ Tail(tasks)[i].adds
                            /\ \A k \in i + 1 .. n : Tail(tasks)[k].socket # s
  <2>1. PICK i \in 1 .. n : /\ Tail(tasks)[i].socket = s /\ Tail(tasks)[i].adds
                            /\ \A k \in i + 1 .. n : Tail(tasks)[k].socket # s
    BY <1>6
  <2>2. i + 1 \in 1 .. n + 1 /\ tasks[i + 1].socket = s /\ tasks[i + 1].adds
    BY <2>1, <1>2
  <2>3. \A k \in i + 1 + 1 .. n + 1 : k - 1 \in i + 1 .. n /\ tasks[k] = Tail(tasks)[k - 1]
    BY <1>3
  <2>4. \A k \in i + 1 + 1 .. n + 1 : tasks[k].socket # s
    BY <2>1, <2>3
  <2>5. QED
    BY <1>4, <2>2, <2>4 DEF Polled
<1>7. QED
  BY <1>4, <1>5, <1>6 DEF Polled

LEMMA RunningKeeps ==
  ASSUME NEW state \in [Sockets -> SockStates], NEW set \in SUBSET Sockets,
         NEW after \in SUBSET Sockets, NEW tasks \in Seq(Task), tasks # <<>>,
         after \subseteq set \cup {Head(tasks).socket},
         \A x \in set : x # Head(tasks).socket => x \in after,
         ~Head(tasks).adds => Head(tasks).socket \notin after,
         Head(tasks).adds /\ ~(Cardinality(set) >= PollMax)
           /\ state[Head(tasks).socket] # "closed" => Head(tasks).socket \in after,
         TasksInOrder(state, set, tasks)
  PROVE  /\ TasksInOrder(state, after, Tail(tasks))
         /\ TasksFit(state, set, tasks) => TasksFit(state, after, Tail(tasks))
<1> DEFINE t == Head(tasks)
           rest == Tail(tasks)
<1>1. /\ Len(tasks) \in Nat \ {0} /\ t = tasks[1] /\ 1 \in 1 .. Len(tasks)
      /\ rest \in Seq(Task) /\ Len(rest) = Len(tasks) - 1
      /\ \A i \in 1 .. Len(tasks) : tasks[i] \in Task
  OBVIOUS
<1>2. /\ \A i \in 1 .. Len(rest) : rest[i] = tasks[i + 1] /\ i + 1 \in 1 .. Len(tasks)
      /\ \A i \in 1 .. Len(tasks) : i # 1 => i - 1 \in 1 .. Len(rest) /\ rest[i - 1] = tasks[i]
  BY <1>1
<1>3. t.socket \in Sockets /\ t.adds \in BOOLEAN
      /\ \A i \in 1 .. Len(tasks) : tasks[i].socket \in Sockets
  BY <1>1 DEF Task
<1> HIDE DEF rest, t
<1>4. /\ after \subseteq set \cup {t.socket}
      /\ ~t.adds => t.socket \notin after
      /\ t.adds /\ ~(Cardinality(set) >= PollMax) /\ state[t.socket] # "closed" => t.socket \in after
      /\ after \subseteq IF t.adds THEN set \cup {t.socket} ELSE set \ {t.socket}
  BY DEF t
<1>5. \A x \in Sockets : x # t.socket /\ x \in set => x \in after
  BY DEF t
\* The tasks behind the first that are about its socket.
<1>6. ASSUME NEW x \in after, state[x] # "wanted"
      PROVE  \E i \in 1 .. Len(rest) : rest[i].socket = x
  <2>1. CASE x = t.socket
    <3>1. t.adds
      BY <1>4, <1>6, <2>1
    <3>2. \E k \in 1 + 1 .. Len(tasks) : tasks[k].socket = x
      BY <1>1, <1>6, <2>1, <3>1 DEF TasksInOrder
    <3>3. PICK k \in 1 + 1 .. Len(tasks) : tasks[k].socket = x
      BY <3>2
    <3>4. k \in 1 .. Len(tasks) /\ k # 1
      BY <1>1
    <3>5. QED
      BY <3>3, <3>4, <1>2
  <2>2. CASE x # t.socket
    <3>1. x \in set
      BY <1>4, <1>6, <2>2
    <3>2. PICK i \in 1 .. Len(tasks) : tasks[i].socket = x
      BY <3>1, <1>6 DEF TasksInOrder
    <3>3. i # 1
      BY <1>1, <2>2, <3>2
    <3>4. QED
      BY <3>2, <3>3, <1>2
  <2>3. QED
    BY <2>1, <2>2
<1>7. TasksInOrder(state, after, rest)
  <2>1. ASSUME NEW i \in 1 .. Len(rest), NEW k \in 1 .. Len(rest), i < k,
               rest[i].socket = rest[k].socket
        PROVE  rest[i].adds /\ ~rest[k].adds
    <3>1. /\ i + 1 \in 1 .. Len(tasks) /\ k + 1 \in 1 .. Len(tasks) /\ i + 1 < k + 1
          /\ rest[i] = tasks[i + 1] /\ rest[k] = tasks[k + 1]
      BY <1>1, <1>2, <2>1
    <3>2. QED
      BY <2>1, <3>1 DEF TasksInOrder
  <2>2. ASSUME NEW i \in 1 .. Len(rest)
        PROVE  /\ state[rest[i].socket] # "new"
               /\ rest[i].adds => rest[i].socket \notin after
               /\ ~rest[i].adds => state[rest[i].socket] # "wanted"
               /\ rest[i].adds /\ state[rest[i].socket] # "wanted" =>
                    \E k \in i + 1 .. Len(rest) : rest[k].socket = rest[i].socket
    <3>1. /\ i + 1 \in 1 .. Len(tasks) /\ 1 < i + 1 /\ rest[i] = tasks[i + 1]
      BY <1>1, <1>2
    <3>2. rest[i].adds => rest[i].socket # t.socket
      BY <3>1, <1>1 DEF TasksInOrder
    <3>3. rest[i].adds => rest[i].socket \notin after
      BY <3>1, <3>2, <1>4 DEF TasksInOrder
    <3>4. ASSUME rest[i].adds, state[rest[i].socket] # "wanted"
          PROVE  \E k \in i + 1 .. Len(rest) : rest[k].socket = rest[i].socket
      <4>1. PICK k \in i + 1 + 1 .. Len(tasks) : tasks[k].socket = rest[i].socket
        BY <3>1, <3>4 DEF TasksInOrder
      <4>2. k \in 1 .. Len(tasks) /\ k # 1 /\ k - 1 \in i + 1 .. Len(rest)
        BY <1>1
      <4>3. QED
        BY <4>1, <4>2, <1>2
    <3>5. QED
      BY <3>1, <3>3, <3>4 DEF TasksInOrder
  <2>3. \A x \in after : state[x] # "new"
    <3>1. state[t.socket] # "new"
      BY <1>1 DEF TasksInOrder
    <3>2. QED
      BY <3>1, <1>4 DEF TasksInOrder
  <2>4. QED
    BY <2>1, <2>2, <2>3, <1>6 DEF TasksInOrder
<1>8. ASSUME TasksFit(state, set, tasks) PROVE TasksFit(state, after, rest)
  <2>1. ASSUME NEW x \in Sockets, state[x] = "wanted"
        PROVE  x \in after \/ \E i \in 1 .. Len(rest) : rest[i].socket = x
    <3>1. CASE x = t.socket
      <4>1. t.adds
        BY <1>1, <2>1, <3>1 DEF TasksInOrder
      <4>2. Polled(set, tasks, 1 - 1) = set
        BY DEF Polled
      <4>3. Cardinality(set) < PollMax
        BY <1>1, <1>8, <4>1, <4>2 DEF TasksFit
      <4>4. Cardinality(set) \in Nat
        BY LoopAssumption, FS_Subset, FS_CardinalityType
      <4>5. QED
        BY <2>1, <3>1, <4>1, <4>3, <4>4, <1>4, LoopAssumption
    <3>2. CASE x # t.socket
      <4>1. CASE x \in set
        BY <4>1, <3>2, <1>5
      <4>2. CASE x \notin set
        <5>1. PICK i \in 1 .. Len(tasks) : tasks[i].socket = x
          BY <1>8, <2>1, <4>2 DEF TasksFit
        <5>2. i # 1
          BY <5>1, <3>2, <1>1
        <5>3. QED
          BY <5>1, <5>2, <1>2
      <4>3. QED
        BY <4>1, <4>2
    <3>3. QED
      BY <3>1, <3>2
  <2>2. ASSUME NEW i \in 1 .. Len(rest), rest[i].adds
        PROVE  Cardinality(Polled(after, rest, i - 1)) < PollMax
    <3>1. /\ i + 1 \in 1 .. Len(tasks) /\ rest[i] = tasks[i + 1] /\ i + 1 - 1 = i
          /\ i - 1 \in 0 .. Len(tasks) - 1 /\ i - 1 + 1 = i
      BY <1>1, <1>2
    <3>2. Cardinality(Polled(set, tasks, i)) < PollMax
      BY <1>8, <2>2, <3>1 DEF TasksFit
    <3>3. Polled(after, rest, i - 1) \subseteq Polled(set, tasks, i)
      BY <1>4, <3>1, PolledLater DEF rest, t
    <3>4. IsFiniteSet(Polled(set, tasks, i))
      BY LoopAssumption, FS_Subset DEF Polled
    <3>5. /\ Cardinality(Polled(after, rest, i - 1)) <= Cardinality(Polled(set, tasks, i))
          /\ Cardinality(Polled(after, rest, i - 1)) \in Nat
          /\ Cardinality(Polled(set, tasks, i)) \in Nat
      BY <3>3, <3>4, FS_Subset, FS_CardinalityType
    <3>6. QED
      BY <3>2, <3>5, LoopAssumption
  <2>3. QED
    BY <2>1, <2>2 DEF TasksFit
<1>9. QED
  BY <1>4, <1>7, <1>8 DEF rest

LEMMA LoopStart == LoopInit => LoopInv
<1> SUFFICES ASSUME LoopInit PROVE LoopInv
  OBVIOUS
<1>1. Tasks = <<>> /\ Len(Tasks) = 0
  BY DEF LoopInit, Tasks
<1>2. TasksInOrder(sock, descriptors, Tasks)
  BY <1>1 DEF LoopInit, TasksInOrder
<1>3. TasksFit(sock, descriptors, Tasks)
  BY <1>1 DEF LoopInit, TasksFit
<1>4. QED
  BY <1>2, <1>3 DEF LoopInit, LoopInv, SockStates

LEMMA LoopStep ==
  ASSUME LoopInv, [LoopNext]_loopVars
  PROVE  LoopInv'
<1> USE DEF LoopInv
<1>0. Tasks \in Seq(Task)
  BY TasksAre DEF Tasks
<1>1. ASSUME NEW s \in Sockets, AddDelegate(s) PROVE LoopInv'
  <2> DEFINE t == [adds |-> TRUE, socket |-> s]
  <2>1. t \in Task
    BY DEF Task
  <2>2. /\ pendingTasks' = Append(pendingTasks, t) /\ waking' = waking + 1
        /\ UNCHANGED <<turnTasks, woken, descriptors, turn>>
        /\ sock' = [sock EXCEPT ![s] = "wanted"] /\ sock[s] = "new"
        /\ overfull' = (overfull \/ Cardinality(WantedSockets) >= PollMax)
    BY <1>1 DEF AddDelegate, PostTask
  <2> HIDE DEF t
  <2>3. Tasks' = Append(Tasks, t) /\ pendingTasks' \in Seq(Task)
    BY <2>1, <2>2, TasksAre DEF Tasks
  <2>4. Cardinality(WantedSockets) \in Nat
    BY LoopAssumption, FS_Subset, FS_CardinalityType DEF WantedSockets
  <2>5. ~overfull' => ~overfull /\ Cardinality(WantedSockets) < PollMax
    <3>1. ASSUME ~overfull' PROVE ~overfull /\ ~(Cardinality(WantedSockets) >= PollMax)
      BY <2>2, <3>1
    <3>2. QED
      BY <3>1, <2>4, LoopAssumption
  <2>6. TasksInOrder(sock', descriptors', Tasks') /\ (~overfull' => TasksFit(sock', descriptors', Tasks'))
    BY <1>0, <2>2, <2>3, <2>5, AddingKeeps DEF t, WantedSockets
  <2>7. sock' \in [Sockets -> SockStates]
    BY <2>2 DEF SockStates
  <2>8. waking' \in Nat /\ waking' > 0
    BY <2>2
  <2>9. QED
    BY <2>2, <2>3, <2>6, <2>7, <2>8
<1>2. ASSUME NEW s \in Sockets, RemoveDelegate(s) PROVE LoopInv'
  <2> DEFINE t == [adds |-> FALSE, socket |-> s]
  <2>1. t \in Task
    BY DEF Task
  <2>2. /\ pendingTasks' = Append(pendingTasks, t) /\ waking' = waking + 1
        /\ UNCHANGED <<turnTasks, woken, descriptors, turn, overfull>>
        /\ sock' = [sock EXCEPT ![s] = "left"] /\ sock[s] = "wanted"
    BY <1>2 DEF RemoveDelegate, PostTask
  <2> HIDE DEF t
  <2>3. Tasks' = Append(Tasks, t) /\ pendingTasks' \in Seq(Task)
    BY <2>1, <2>2, TasksAre DEF Tasks
  <2>6. TasksInOrder(sock', descriptors', Tasks') /\ (~overfull' => TasksFit(sock', descriptors', Tasks'))
    BY <1>0, <2>2, <2>3, RemovingKeeps DEF t
  <2>7. sock' \in [Sockets -> SockStates]
    BY <2>2 DEF SockStates
  <2>8. waking' \in Nat /\ waking' > 0
    BY <2>2
  <2>9. QED
    BY <2>2, <2>3, <2>6, <2>7, <2>8
<1>3. ASSUME NEW s \in Sockets, CloseSock(s) PROVE LoopInv'
  <2>2. /\ UNCHANGED <<pendingTasks, turnTasks, waking, woken, descriptors, turn, overfull>>
        /\ sock' = [sock EXCEPT ![s] = "closed"] /\ sock[s] = "left"
    BY <1>3 DEF CloseSock
  <2>3. Tasks' = Tasks
    BY <2>2 DEF Tasks
  <2>6. TasksInOrder(sock', descriptors', Tasks') /\ (~overfull' => TasksFit(sock', descriptors', Tasks'))
    BY <1>0, <2>2, <2>3, ClosingKeeps
  <2>7. sock' \in [Sockets -> SockStates]
    BY <2>2 DEF SockStates
  <2>9. QED
    BY <2>2, <2>3, <2>6, <2>7
<1>4. ASSUME RunTask PROVE LoopInv'
  <2>1. /\ turn = "run" /\ turnTasks # <<>> /\ turnTasks' = Tail(turnTasks)
        /\ descriptors' = IF Head(turnTasks).adds THEN PollSetAdd(Head(turnTasks).socket)
                          ELSE PollSetRemove(Head(turnTasks).socket)
        /\ UNCHANGED <<sock, pendingTasks, waking, woken, turn, overfull>>
    BY <1>4 DEF RunTask
  <2>2. Head(turnTasks) \in Task
    BY <2>1
  <2>3. Tasks' = Tail(Tasks) /\ Head(turnTasks) = Head(Tasks) /\ Tasks # <<>>
    BY <2>1, <2>2, TasksAre DEF Tasks
  <2>4. turnTasks' \in Seq(Task)
    BY <2>1
  <2>5. descriptors' = IF Head(Tasks).adds
                 THEN IF Cardinality(descriptors) >= PollMax \/ sock[Head(Tasks).socket] = "closed"
                      THEN descriptors ELSE descriptors \cup {Head(Tasks).socket}
                 ELSE descriptors \ {Head(Tasks).socket}
    BY <2>1, <2>3 DEF PollSetAdd, PollSetRemove
  <2>6. /\ TasksInOrder(sock, descriptors', Tail(Tasks)) /\ descriptors' \subseteq Sockets
        /\ (~overfull => TasksFit(sock, descriptors', Tail(Tasks)))
    <3>1. /\ sock \in [Sockets -> SockStates] /\ descriptors \in SUBSET Sockets
          /\ TasksInOrder(sock, descriptors, Tasks) /\ (~overfull => TasksFit(sock, descriptors, Tasks))
      OBVIOUS
    <3> HIDE DEF LoopInv
    <3>2. Head(Tasks) \in Task
      BY <1>0, <2>3
    <3>3. /\ descriptors' \in SUBSET Sockets
          /\ descriptors' \subseteq descriptors \cup {Head(Tasks).socket}
          /\ \A x \in descriptors : x # Head(Tasks).socket => x \in descriptors'
          /\ ~Head(Tasks).adds => Head(Tasks).socket \notin descriptors'
          /\ Head(Tasks).adds /\ ~(Cardinality(descriptors) >= PollMax)
             /\ sock[Head(Tasks).socket] # "closed" => Head(Tasks).socket \in descriptors'
      BY <2>5, <3>1, <3>2 DEF Task
    <3>4. /\ TasksInOrder(sock, descriptors', Tail(Tasks))
          /\ TasksFit(sock, descriptors, Tasks) => TasksFit(sock, descriptors', Tail(Tasks))
      BY <1>0, <2>3, <3>1, <3>3, RunningKeeps
    <3>5. QED
      BY <3>1, <3>3, <3>4
  <2>7. QED
    BY <2>1, <2>3, <2>4, <2>6
<1>5. CASE TakeTasks
  <2>1. /\ turn = "take" /\ turn' = "run" /\ turnTasks' = pendingTasks /\ pendingTasks' = <<>>
        /\ UNCHANGED <<sock, waking, woken, descriptors, overfull>>
    BY <1>5 DEF TakeTasks
  <2>2. Tasks' = Tasks
    BY <2>1 DEF Tasks
  <2>3. QED
    BY <2>1, <2>2
<1>6. CASE TurnEnds \/ PollOnce \/ EndLoop \/ WakeUp \/ JoinLoop \/ \E s \in Sockets : Arrives(s)
  <2>1. UNCHANGED <<sock, descriptors, pendingTasks, turnTasks, overfull>>
    BY <1>6 DEF TurnEnds, PollOnce, EndLoop, WakeUp, JoinLoop, Arrives
  <2>2. Tasks' = Tasks
    BY <2>1 DEF Tasks
  <2>3. /\ waking' \in Nat /\ turn' \in {"poll", "take", "run", "ended"}
        /\ turn' # "run" => turnTasks' = <<>>
        /\ pendingTasks' # <<>> => woken' \/ waking' > 0 \/ turn' = "take"
    BY <1>6 DEF TurnEnds, PollOnce, EndLoop, WakeUp, JoinLoop, Arrives
  <2>4. QED
    BY <2>1, <2>2, <2>3
<1>7. CASE UNCHANGED loopVars
  BY <1>7 DEF loopVars, Tasks
<1>8. QED
  BY <1>1, <1>2, <1>3, <1>4, <1>5, <1>6, <1>7 DEF LoopNext

LEMMA LoopInvSound == LoopInv => LoopSound
<1> SUFFICES ASSUME LoopInv PROVE LoopSound
  OBVIOUS
<1>1. Tasks \in Seq(Task)
  BY TasksAre DEF Tasks, LoopInv
<1>2. PolledAfter(Len(Tasks)) = Polled(descriptors, Tasks, Len(Tasks))
  BY DEF PolledAfter, Polled
<1>3. ~overfull => PolledAfter(Len(Tasks)) = WantedSockets
  BY <1>1, <1>2, AllPolled DEF LoopInv, WantedSockets
<1>4. QED
  BY <1>3 DEF LoopInv, LoopSound

----------------------------------------------------------------------------
(* The messages. *)

\* The lengths of the keys before one are summed up.
LEMMA OffsetFold ==
  ASSUME NEW S, \A kv \in S : kv.len \in Nat \ {0}, NEW kvs \in Seq(S)
  PROVE  \E g : /\ DataLen(kvs) = g[1 .. Len(kvs)] /\ g[{}] = HeaderSize
                /\ \A k \in 1 .. Len(kvs) : g[1 .. k] = g[1 .. k - 1] + HeaderSize + kvs[k].len
<1> DEFINE n == Len(kvs)
           step == [x \in 1 .. n |-> [a \in Int |-> a + HeaderSize + kvs[x].len]]
<1>1. n \in Nat /\ DOMAIN kvs = 1 .. n /\ \A x \in 1 .. n : kvs[x].len \in Nat
  OBVIOUS
<1>2. /\ HeaderSize \in Int
      /\ \A x \in 1 .. n, a \in Int : step[x][a] = a + HeaderSize + kvs[x].len /\ step[x][a] \in Int
  BY <1>1 DEF HeaderSize
<1> HIDE DEF step
<1>3. PICK f : IsFold(f, 1 .. n, Int, HeaderSize, Lasts(n), step)
  <2>1. FoldSteps(step, 1 .. n, Int)
    BY <1>2 DEF FoldSteps
  <2> HIDE DEF n
  <2>2. QED
    BY <1>1, <1>2, <2>1, SeqFoldExists
<1>4. f = [s \in SUBSET (DOMAIN kvs) |->
             IF s = {} THEN HeaderSize
             ELSE LET x == Max(s) IN f[s \ {x}] + HeaderSize + kvs[x].len]
  <2>1. ASSUME NEW s \in SUBSET (1 .. n), s # {}
        PROVE  f[s] = f[s \ {Max(s)}] + HeaderSize + kvs[Max(s)].len
    <3>1. Max(s) \in 1 .. n /\ f[s \ {Max(s)}] \in Int
      BY <1>1, <1>3, <2>1, MaxOfInterval DEF IsFold
    <3>2. f[s] = step[Max(s)][f[s \ {Max(s)}]]
      BY <1>3, <2>1 DEF IsFold, Lasts
    <3>3. QED
      BY <3>1, <3>2, <1>2
  <2>2. f \in [SUBSET (1 .. n) -> Int] /\ f[{}] = HeaderSize
    BY <1>3 DEF IsFold
  <2>3. QED
    BY <1>1, <2>1, <2>2
<1> DEFINE g == CHOOSE g : g = [s \in SUBSET (DOMAIN kvs) |->
                                  IF s = {} THEN HeaderSize
                                  ELSE LET x == Max(s) IN g[s \ {x}] + HeaderSize + kvs[x].len]
<1>5. g = [s \in SUBSET (DOMAIN kvs) |->
             IF s = {} THEN HeaderSize
             ELSE LET x == Max(s) IN g[s \ {x}] + HeaderSize + kvs[x].len]
  BY <1>4
<1>6. DataLen(kvs) = g[DOMAIN kvs]
  BY DEF DataLen, FoldLeft, MapThenFoldSet
<1> HIDE DEF g
<1>7. g[{}] = HeaderSize
  BY <1>5
<1>8. ASSUME NEW k \in 1 .. n PROVE g[1 .. k] = g[1 .. k - 1] + HeaderSize + kvs[k].len
  <2>1. 1 .. k \in SUBSET (DOMAIN kvs) /\ k \in Nat \ {0}
    BY <1>1
  <2>2. /\ Max(1 .. k) = k /\ (1 .. k) \ {k} = 1 .. k - 1 /\ 1 .. k # {}
    BY <2>1, LastOfInterval
  <2>3. g[1 .. k] = g[(1 .. k) \ {Max(1 .. k)}] + HeaderSize + kvs[Max(1 .. k)].len
    BY <2>1, <2>2, <1>5
  <2>4. QED
    BY <2>2, <2>3
<1>9. QED
  BY <1>1, <1>6, <1>7, <1>8

\* The keys of a message, with their lengths.
KeysOf(S) == \A kv \in S : kv.len \in Nat \ {0}

LEMMA SubSeqFirst ==
  ASSUME NEW S, NEW kvs \in Seq(S), NEW i \in 0 .. Len(kvs)
  PROVE  /\ SubSeq(kvs, 1, i) \in Seq(S) /\ Len(SubSeq(kvs, 1, i)) = i
         /\ \A k \in 1 .. i : SubSeq(kvs, 1, i)[k] = kvs[k]
  OBVIOUS

\* Each key begins where the one before it ends.
LEMMA OffsetGrows ==
  ASSUME NEW S, KeysOf(S), NEW kvs \in Seq(S)
  PROVE  /\ Offset(kvs, 1) = HeaderSize
         /\ \A i \in 1 .. Len(kvs) : Offset(kvs, i + 1) = Offset(kvs, i) + HeaderSize + kvs[i].len
         /\ Offset(kvs, Len(kvs) + 1) = DataLen(kvs)
<1>1. Len(kvs) \in Nat
  OBVIOUS
<1> DEFINE Folds(i, g) ==
             /\ Offset(kvs, i + 1) = g[1 .. i] /\ g[{}] = HeaderSize
             /\ \A k \in 1 .. i : g[1 .. k] = g[1 .. k - 1] + HeaderSize + kvs[k].len
<1>2. ASSUME NEW i \in 0 .. Len(kvs) PROVE \E g : Folds(i, g)
  <2> DEFINE ks == SubSeq(kvs, 1, i)
  <2>1. /\ ks \in Seq(S) /\ Len(ks) = i
        /\ \A k \in 1 .. i : ks[k] = kvs[k]
    BY SubSeqFirst
  <2>2. Offset(kvs, i + 1) = DataLen(ks)
    <3>1. i + 1 - 1 = i
      BY <1>1
    <3>2. QED
      BY <3>1 DEF Offset
  <2> HIDE DEF ks
  <2>3. PICK g : /\ DataLen(ks) = g[1 .. Len(ks)] /\ g[{}] = HeaderSize
                 /\ \A k \in 1 .. Len(ks) : g[1 .. k] = g[1 .. k - 1] + HeaderSize + ks[k].len
    BY <2>1, OffsetFold DEF KeysOf
  <2>4. Offset(kvs, i + 1) = g[1 .. i]
    BY <2>1, <2>2, <2>3
  <2>5. \A k \in 1 .. i : g[1 .. k] = g[1 .. k - 1] + HeaderSize + kvs[k].len
    BY <2>1, <2>3
  <2>6. QED
    BY <2>3, <2>4, <2>5
<1>3. Offset(kvs, 1) = HeaderSize
  <2>1. PICK g : Folds(0, g)
    BY <1>1, <1>2
  <2>2. 1 .. 0 = {} /\ 0 + 1 = 1
    OBVIOUS
  <2>3. QED
    BY <2>1, <2>2
<1>4. ASSUME NEW i \in 1 .. Len(kvs)
      PROVE  Offset(kvs, i + 1) = Offset(kvs, i) + HeaderSize + kvs[i].len
  <2>1. i \in 0 .. Len(kvs) /\ i - 1 \in 0 .. Len(kvs) /\ i - 1 + 1 = i /\ i \in 1 .. i
    BY <1>1
  <2>2. PICK g : Folds(i, g)
    BY <1>2, <2>1
  <2>3. PICK f : Folds(i - 1, f)
    BY <1>2, <2>1
  <2> DEFINE P == {k \in 0 .. i - 1 : g[1 .. k] = f[1 .. k]}
  <2>4. 0 \in P
    <3>1. 1 .. 0 = {} /\ 0 \in 0 .. i - 1
      BY <2>1
    <3>2. QED
      BY <3>1, <2>2, <2>3
  <2>5. ASSUME NEW k \in 0 .. i - 1 - 1, k \in P PROVE k + 1 \in P
    <3>1. k + 1 \in 1 .. i /\ k + 1 \in 1 .. i - 1 /\ k + 1 - 1 = k /\ k + 1 \in 0 .. i - 1
      BY <2>1
    <3>2. g[1 .. k + 1] = g[1 .. k] + HeaderSize + kvs[k + 1].len
      BY <3>1, <2>2
    <3>3. f[1 .. k + 1] = f[1 .. k] + HeaderSize + kvs[k + 1].len
      BY <3>1, <2>3
    <3>4. g[1 .. k] = f[1 .. k]
      BY <2>5
    <3>5. QED
      BY <3>1, <3>2, <3>3, <3>4
  <2>6. \A k \in 0 .. i - 1 : k \in P
    <3>1. i - 1 \in Nat
      BY <2>1
    <3> HIDE DEF P
    <3>2. QED
      BY <3>1, <2>4, <2>5, UpTo
  <2>7. g[1 .. i - 1] = f[1 .. i - 1]
    BY <2>1, <2>6
  <2>8. QED
    BY <2>1, <2>2, <2>3, <2>7
<1>5. Offset(kvs, Len(kvs) + 1) = DataLen(kvs)
  <2>1. SubSeq(kvs, 1, Len(kvs)) = kvs
    BY SubSeqFull
  <2>2. Len(kvs) + 1 - 1 = Len(kvs)
    BY <1>1
  <2>3. SubSeq(kvs, 1, Len(kvs) + 1 - 1) = kvs
    BY <2>1, <2>2
  <2>4. Offset(kvs, Len(kvs) + 1) = DataLen(SubSeq(kvs, 1, Len(kvs) + 1 - 1))
    BY DEF Offset
  <2>5. QED
    BY <2>3, <2>4
<1>6. QED
  BY <1>3, <1>4, <1>5

LEMMA OffsetsAre ==
  ASSUME NEW S, KeysOf(S), NEW kvs \in Seq(S)
  PROVE  /\ \A i \in 1 .. Len(kvs) + 1 : Offset(kvs, i) \in Nat
         /\ \A i \in 1 .. Len(kvs) : \A k \in i + 1 .. Len(kvs) + 1 :
              Offset(kvs, i) + KvParamSize <= Offset(kvs, k)
<1> DEFINE n == Len(kvs)
<1>1. n \in Nat /\ \A i \in 1 .. n : kvs[i].len \in Nat \ {0}
  BY DEF KeysOf
<1>2. /\ Offset(kvs, 1) = 4
      /\ \A i \in 1 .. n : Offset(kvs, i + 1) = Offset(kvs, i) + 4 + kvs[i].len
  BY OffsetGrows DEF HeaderSize
<1> HIDE DEF n
<1> DEFINE P == {i \in 0 .. n : Offset(kvs, i + 1) \in Nat}
<1>3. \A i \in 0 .. n : i \in P
  <2>1. 0 \in P
    BY <1>1, <1>2
  <2>2. ASSUME NEW i \in 0 .. n - 1, i \in P PROVE i + 1 \in P
    <3>1. i + 1 \in 1 .. n /\ i + 1 \in 0 .. n /\ Offset(kvs, i + 1) \in Nat
      BY <1>1, <2>2
    <3>2. Offset(kvs, i + 1 + 1) = Offset(kvs, i + 1) + 4 + kvs[i + 1].len
      BY <3>1, <1>2
    <3>3. QED
      BY <3>1, <3>2, <1>1
  <2> HIDE DEF P
  <2>3. QED
    BY <2>1, <2>2, <1>1, UpTo
<1>4. ASSUME NEW i \in 1 .. n + 1 PROVE Offset(kvs, i) \in Nat
  <2>1. i - 1 \in 0 .. n /\ i - 1 + 1 = i
    BY <1>1
  <2>2. QED
    BY <2>1, <1>3
<1>5. ASSUME NEW i \in 1 .. n, NEW k \in i + 1 .. n + 1
      PROVE  Offset(kvs, i) + 5 <= Offset(kvs, k)
  <2> DEFINE Q == {j \in 0 .. n - i : Offset(kvs, i) + 5 <= Offset(kvs, i + 1 + j)}
  <2>0. n - i \in Nat /\ i + 1 + 0 = i + 1 /\ i \in 1 .. n + 1
    BY <1>1
  <2>1. 0 \in Q
    <3>1. Offset(kvs, i + 1) = Offset(kvs, i) + 4 + kvs[i].len
      BY <1>2
    <3>2. Offset(kvs, i) \in Nat /\ kvs[i].len \in Nat /\ kvs[i].len > 0
      BY <2>0, <1>1, <1>4
    <3>3. Offset(kvs, i) + 5 <= Offset(kvs, i + 1)
      BY <3>1, <3>2
    <3>4. QED
      BY <2>0, <3>3
  <2>2. ASSUME NEW j \in 0 .. n - i - 1, j \in Q PROVE j + 1 \in Q
    <3>1. /\ i + 1 + j \in 1 .. n /\ i + 1 + j \in 1 .. n + 1 /\ j + 1 \in 0 .. n - i
          /\ i + 1 + (j + 1) = (i + 1 + j) + 1
      BY <1>1
    <3>2. Offset(kvs, i + 1 + j) \in Nat /\ Offset(kvs, i) \in Nat
      BY <3>1, <2>0, <1>4
    <3>3. Offset(kvs, (i + 1 + j) + 1) = Offset(kvs, i + 1 + j) + 4 + kvs[i + 1 + j].len
      BY <3>1, <1>2
    <3>4. Offset(kvs, i) + 5 <= Offset(kvs, i + 1 + j) /\ kvs[i + 1 + j].len \in Nat
      BY <2>2, <3>1, <1>1
    <3>5. Offset(kvs, i) + 5 <= Offset(kvs, (i + 1 + j) + 1)
      BY SMTT(30), <3>2, <3>3, <3>4
    <3>6. QED
      BY <3>1, <3>5
  <2>3. \A j \in 0 .. n - i : j \in Q
    <3> HIDE DEF Q
    <3>1. QED
      BY <2>0, <2>1, <2>2, UpTo
  <2>4. k - i - 1 \in 0 .. n - i /\ i + 1 + (k - i - 1) = k
    <3>1. i \in Int /\ k \in Int /\ n \in Int /\ i + 1 <= k /\ k <= n + 1
      BY <1>1
    <3> HIDE DEF n
    <3>2. QED
      BY <3>1
  <2>5. QED
    BY <2>3, <2>4
<1>6. QED
  BY <1>4, <1>5 DEF KvParamSize, n

\* A message as its sender builds it.
MessageInv(packet, S) ==
  /\ KeysOf(S) /\ packet.kvs \in Seq(S) /\ packet.keyNum = Len(packet.kvs)
  /\ packet.length = DataLen(packet.kvs) + WrapperSize

\* What was read after the first k keys, and is held by their fields.
SureUpTo(kvs, k, j) ==
  /\ kvs[j].key \in Known /\ ~Short(kvs[j])
  /\ \A x \in j + 1 .. k : ~Overruns(kvs[x], ValueRead(kvs[j]))

HeldUpTo(kvs, k) == {ValueRead(kvs[j]) : j \in {j \in 1 .. k : SureUpTo(kvs, k, j)}}

ReadKeys(kvs, k) ==
  [ok |-> TRUE, offset |-> Offset(kvs, k + 1), info |-> HeldUpTo(kvs, k)]

\* One more key: what it runs over is no longer held; its value is, if it fills its
\* field.
LEMMA HeldGrows ==
  ASSUME NEW kvs, NEW k \in Nat, kvs[k + 1].key \notin Known => \A v : ~Overruns(kvs[k + 1], v)
  PROVE  FieldsHeld(HeldUpTo(kvs, k), kvs[k + 1]) = HeldUpTo(kvs, k + 1)
<1> DEFINE kv == kvs[k + 1]
<1>1. \A j \in 1 .. k + 1 : j \in 1 .. k \/ j = k + 1
  OBVIOUS
<1>2. /\ k + 1 \in 1 .. k + 1 /\ \A j \in 1 .. k : j \in 1 .. k + 1
      /\ \A x \in k + 1 + 1 .. k + 1 : FALSE
  OBVIOUS
<1>3. ASSUME NEW j \in 1 .. k
      PROVE  SureUpTo(kvs, k + 1, j) <=> SureUpTo(kvs, k, j) /\ ~Overruns(kv, ValueRead(kvs[j]))
  <2>1. \A x : x \in j + 1 .. k + 1 <=> x \in j + 1 .. k \/ x = k + 1
    OBVIOUS
  <2>2. QED
    BY <2>1 DEF SureUpTo
<1>4. SureUpTo(kvs, k + 1, k + 1) <=> kv.key \in Known /\ ~Short(kv)
  BY <1>2 DEF SureUpTo
<1>5. HeldUpTo(kvs, k + 1) = {v \in HeldUpTo(kvs, k) : ~Overruns(kv, v)}
                             \cup IF kv.key \in Known /\ ~Short(kv) THEN {ValueRead(kv)} ELSE {}
  <2> HIDE DEF kv
  <2>1. \A v : v \in HeldUpTo(kvs, k + 1)
              <=> \E j \in 1 .. k + 1 : SureUpTo(kvs, k + 1, j) /\ v = ValueRead(kvs[j])
    BY DEF HeldUpTo
  <2>2. \A v : v \in HeldUpTo(kvs, k)
              <=> \E j \in 1 .. k : SureUpTo(kvs, k, j) /\ v = ValueRead(kvs[j])
    BY DEF HeldUpTo
  <2>3. ASSUME NEW v
        PROVE  (\E j \in 1 .. k + 1 : SureUpTo(kvs, k + 1, j) /\ v = ValueRead(kvs[j]))
               <=> \/ (\E j \in 1 .. k : SureUpTo(kvs, k, j) /\ v = ValueRead(kvs[j]))
                      /\ ~Overruns(kv, v)
                   \/ kv.key \in Known /\ ~Short(kv) /\ v = ValueRead(kv)
    <3>1. ValueRead(kvs[k + 1]) = ValueRead(kv)
      BY DEF kv
    <3>2. QED
      BY <1>1, <1>2, <1>3, <1>4, <3>1
  <2>4. QED
    BY <2>1, <2>2, <2>3
<1>6. CASE kv.key \in Known
  BY <1>5, <1>6 DEF FieldsHeld
<1>7. CASE kv.key \notin Known
  <2>1. {v \in HeldUpTo(kvs, k) : ~Overruns(kv, v)} = HeldUpTo(kvs, k)
    BY <1>7
  <2>2. QED
    BY <1>5, <1>7, <2>1 DEF FieldsHeld
<1>8. QED
  BY <1>6, <1>7

LEMMA UnknownOverrunsNothing ==
  ASSUME NEW kv, kv.key \notin Known, NEW v
  PROVE  ~Overruns(kv, v)
BY DEF Overruns

\* The next key is found where the one before it ends.
LEMMA NextKeyRead ==
  ASSUME NEW packet, NEW S, MessageInv(packet, S), NEW k \in 0 .. Len(packet.kvs) - 1
  PROVE  ReadKey(packet, ReadKeys(packet.kvs, k)) = ReadKeys(packet.kvs, k + 1)
<1> DEFINE kvs == packet.kvs
           n == Len(kvs)
           acc == ReadKeys(kvs, k)
<1>1. /\ KeysOf(S) /\ kvs \in Seq(S) /\ n \in Nat /\ DOMAIN kvs = 1 .. n
      /\ packet.length - WrapperSize = DataLen(kvs)
  <2>1. KeysOf(S) /\ kvs \in Seq(S) /\ n \in Nat /\ DOMAIN kvs = 1 .. n
    BY DEF MessageInv
  <2>2. DataLen(kvs) \in Nat
    <3> HIDE DEF kvs
    <3>1. Offset(kvs, n + 1) = DataLen(kvs) /\ n + 1 \in 1 .. n + 1
      BY <2>1, OffsetGrows
    <3>2. Offset(kvs, n + 1) \in Nat
      BY <2>1, <3>1, OffsetsAre
    <3>3. QED
      BY <3>1, <3>2
  <2>3. packet.length = DataLen(kvs) + WrapperSize
    BY DEF MessageInv
  <2> HIDE DEF kvs
  <2>4. QED
    BY <2>1, <2>2, <2>3 DEF WrapperSize
<1> HIDE DEF kvs
<1>2. /\ \A i \in 1 .. n + 1 : Offset(kvs, i) \in Nat
      /\ \A i \in 1 .. n : \A j \in i + 1 .. n + 1 : Offset(kvs, i) + KvParamSize <= Offset(kvs, j)
  BY <1>1, OffsetsAre
<1>3. /\ Offset(kvs, n + 1) = DataLen(kvs)
      /\ \A i \in 1 .. n : Offset(kvs, i + 1) = Offset(kvs, i) + HeaderSize + kvs[i].len
  BY <1>1, OffsetGrows
<1> HIDE DEF n
<1>4. k + 1 \in 1 .. n /\ k + 1 \in 1 .. n + 1 /\ n + 1 \in k + 1 + 1 .. n + 1
  BY <1>1 DEF n, kvs
<1>5. KeysAt(kvs, Offset(kvs, k + 1)) = {k + 1}
  <2>1. ASSUME NEW i \in 1 .. n, i # k + 1 PROVE Offset(kvs, i) # Offset(kvs, k + 1)
    <3>1. CASE i < k + 1
      <4>1. k + 1 \in i + 1 .. n + 1
        BY <1>1, <1>4, <3>1
      <4>2. Offset(kvs, i) + KvParamSize <= Offset(kvs, k + 1)
        BY <1>2, <4>1
      <4>3. Offset(kvs, i) \in Nat /\ Offset(kvs, k + 1) \in Nat
        BY <1>1, <1>2, <1>4
      <4>4. QED
        BY <4>2, <4>3 DEF KvParamSize
    <3>2. CASE i > k + 1
      <4>1. i \in k + 1 + 1 .. n + 1
        BY <1>1, <1>4, <3>2
      <4>2. Offset(kvs, k + 1) + KvParamSize <= Offset(kvs, i)
        BY <1>2, <1>4, <4>1
      <4>3. Offset(kvs, i) \in Nat /\ Offset(kvs, k + 1) \in Nat
        BY <1>1, <1>2, <1>4
      <4>4. QED
        BY <4>2, <4>3 DEF KvParamSize
    <3>3. QED
      BY <2>1, <3>1, <3>2, <1>4, <1>1
  <2>2. QED
    BY <1>1, <1>4, <2>1 DEF KeysAt
<1>6. ~(Offset(kvs, k + 1) + KvParamSize > DataLen(kvs))
  <2>1. Offset(kvs, k + 1) + KvParamSize <= Offset(kvs, n + 1)
    BY <1>2, <1>4
  <2>2. Offset(kvs, k + 1) \in Nat /\ Offset(kvs, n + 1) \in Nat
    BY <1>1, <1>2, <1>4
  <2>3. QED
    BY <2>1, <2>2, <1>3 DEF KvParamSize
<1>7. (CHOOSE i \in KeysAt(kvs, Offset(kvs, k + 1)) : TRUE) = k + 1
  BY <1>5
<1>8. acc.ok /\ acc.offset = Offset(kvs, k + 1)
      /\ acc.info = HeldUpTo(kvs, k)
  BY DEF ReadKeys
<1> HIDE DEF acc
<1>9. ReadKey(packet, acc) =
        [ok |-> TRUE, offset |-> AfterKey(acc.offset, kvs[k + 1]),
         info |-> FieldsHeld(acc.info, kvs[k + 1])]
  <2>1. packet.kvs = kvs
    BY DEF kvs
  <2>2. ~(acc.offset + KvParamSize > packet.length - WrapperSize) /\ KeysAt(kvs, acc.offset) # {}
    BY <1>1, <1>5, <1>6, <1>8
  <2>3. (CHOOSE i \in KeysAt(kvs, acc.offset) : TRUE) = k + 1
    BY <1>7, <1>8
  <2>4. QED
    BY <2>1, <2>2, <2>3, <1>8 DEF ReadKey
<1>10. AfterKey(acc.offset, kvs[k + 1]) = Offset(kvs, k + 1 + 1)
  BY <1>3, <1>4, <1>8 DEF AfterKey
<1>11. FieldsHeld(acc.info, kvs[k + 1]) = HeldUpTo(kvs, k + 1)
  BY <1>8, HeldGrows, UnknownOverrunsNothing
<1>12. QED
  BY <1>9, <1>10, <1>11 DEF ReadKeys, acc, kvs

\* A message that was built is read, key by key.
LEMMA MessageRead ==
  ASSUME NEW packet, NEW S, MessageInv(packet, S)
  PROVE  LET read == ParseStateInfo(packet)
         IN /\ read.ok
            /\ read.info = HeldUpTo(packet.kvs, Len(packet.kvs))
<1> DEFINE kvs == packet.kvs
           n == packet.keyNum
           start == [ok |-> TRUE, offset |-> HeaderSize, info |-> {}]
           numbers == [m \in 1 .. n |-> m]
           Values == {ValueRead(kvs[i]) : i \in 1 .. n}
           Acc == [ok : BOOLEAN, offset : Int, info : SUBSET Values]
           step == [x \in 1 .. n |-> [a \in Acc |-> ReadKey(packet, a)]]
<1>1. KeysOf(S) /\ kvs \in Seq(S) /\ n \in Nat /\ n = Len(kvs) /\ DOMAIN kvs = 1 .. n
  BY DEF MessageInv
<1>2. start \in Acc
  BY DEF HeaderSize
<1>3. ASSUME NEW a \in Acc PROVE ReadKey(packet, a) \in Acc
  <2>1. CASE ~a.ok
    BY <2>1 DEF ReadKey
  <2>2. CASE a.ok /\ \/ a.offset + KvParamSize > packet.length - WrapperSize
                     \/ KeysAt(packet.kvs, a.offset) = {}
    BY <2>2 DEF ReadKey
  <2>3. CASE a.ok /\ ~ \/ a.offset + KvParamSize > packet.length - WrapperSize
                       \/ KeysAt(packet.kvs, a.offset) = {}
    <3> DEFINE i == CHOOSE i \in KeysAt(packet.kvs, a.offset) : TRUE
    <3>1. i \in 1 .. n
      <4>1. i \in KeysAt(kvs, a.offset)
        BY <2>3
      <4>2. QED
        BY <4>1, <1>1 DEF KeysAt
    <3>2. ReadKey(packet, a) =
            [ok |-> TRUE, offset |-> AfterKey(a.offset, kvs[i]),
             info |-> FieldsHeld(a.info, kvs[i])]
      BY <2>3 DEF ReadKey
    <3> HIDE DEF i
    <3>3. AfterKey(a.offset, kvs[i]) \in Int
      <4>1. kvs[i].len \in Nat /\ a.offset \in Int
        BY <3>1, <1>1 DEF KeysOf
      <4>2. QED
        BY <4>1 DEF AfterKey, HeaderSize
    <3>4. FieldsHeld(a.info, kvs[i]) \subseteq Values
      <4>1. ValueRead(kvs[i]) \in Values /\ a.info \subseteq Values
        BY <3>1
      <4> HIDE DEF Values
      <4>2. QED
        BY <4>1 DEF FieldsHeld
    <3> HIDE DEF Values, kvs
    <3>5. QED
      BY <3>2, <3>3, <3>4
  <2>4. QED
    BY <2>1, <2>2, <2>3
<1> HIDE DEF Acc
<1>4. /\ \A x \in 1 .. n, a \in Acc : step[x][a] = ReadKey(packet, a)
      /\ FoldSteps(step, 1 .. n, Acc)
  BY <1>3 DEF FoldSteps
<1> HIDE DEF step, start
<1>5. PICK f : IsFold(f, 1 .. n, Acc, start, Lasts(n), step)
  <2> HIDE DEF n
  <2>1. QED
    BY <1>1, <1>2, <1>4, SeqFoldExists
<1>6. DOMAIN numbers = 1 .. n
  OBVIOUS
<1>7. f = [s \in SUBSET (DOMAIN numbers) |->
             IF s = {} THEN start
             ELSE LET x == Max(s) IN ReadKey(packet, f[s \ {x}])]
  <2>1. ASSUME NEW s \in SUBSET (1 .. n), s # {}
        PROVE  f[s] = ReadKey(packet, f[s \ {Max(s)}])
    <3>1. Max(s) \in 1 .. n /\ f[s \ {Max(s)}] \in Acc
      BY <1>1, <1>5, <2>1, MaxOfInterval DEF IsFold
    <3>2. f[s] = step[Max(s)][f[s \ {Max(s)}]]
      BY <1>5, <2>1 DEF IsFold, Lasts
    <3>3. QED
      BY <3>1, <3>2, <1>4
  <2>2. f \in [SUBSET (1 .. n) -> Acc] /\ f[{}] = start
    BY <1>5 DEF IsFold
  <2> HIDE DEF numbers
  <2>3. QED
    BY <1>6, <2>1, <2>2
<1> DEFINE g == CHOOSE g : g = [s \in SUBSET (DOMAIN numbers) |->
                                  IF s = {} THEN start
                                  ELSE LET x == Max(s) IN ReadKey(packet, g[s \ {x}])]
<1>8. g = [s \in SUBSET (DOMAIN numbers) |->
             IF s = {} THEN start
             ELSE LET x == Max(s) IN ReadKey(packet, g[s \ {x}])]
  BY <1>7
<1>9. ParseStateInfo(packet) = g[DOMAIN numbers]
  BY DEF ParseStateInfo, FoldLeft, MapThenFoldSet, start
<1> HIDE DEF g, numbers
<1> DEFINE P == {k \in 0 .. n : g[1 .. k] = ReadKeys(kvs, k)}
<1>10. 0 \in P
  <2>1. 1 .. 0 = {} /\ 0 \in 0 .. n /\ 0 + 1 = 1
    BY <1>1
  <2>2. g[{}] = start
    BY <1>8
  <2>3. Offset(kvs, 1) = HeaderSize
    BY <1>1, OffsetGrows
  <2>4. ReadKeys(kvs, 0) = start
    BY <2>1, <2>3 DEF ReadKeys, HeldUpTo, start
  <2>5. QED
    BY <2>1, <2>2, <2>4
<1>11. ASSUME NEW k \in 0 .. n - 1, k \in P PROVE k + 1 \in P
  <2>1. /\ k + 1 \in Nat \ {0} /\ k + 1 \in 0 .. n /\ 1 .. k + 1 \in SUBSET (1 .. n)
        /\ k + 1 - 1 = k
    BY <1>1
  <2>2. /\ Max(1 .. k + 1) = k + 1 /\ (1 .. k + 1) \ {k + 1} = 1 .. k + 1 - 1
        /\ 1 .. k + 1 # {}
    BY <2>1, LastOfInterval
  <2>3. g[1 .. k + 1] = ReadKey(packet, g[(1 .. k + 1) \ {Max(1 .. k + 1)}])
    BY <2>1, <2>2, <1>6, <1>8
  <2>4. g[1 .. k] = ReadKeys(kvs, k)
    BY <1>11
  <2>5. ReadKey(packet, ReadKeys(kvs, k)) = ReadKeys(kvs, k + 1)
    BY <1>1, NextKeyRead
  <2>6. g[1 .. k + 1] = ReadKeys(kvs, k + 1)
    BY <2>1, <2>2, <2>3, <2>4, <2>5
  <2>7. QED
    BY <2>1, <2>6
<1>12. n \in P
  <2>1. n \in 0 .. n
    BY <1>1
  <2> HIDE DEF P, n
  <2>2. QED
    BY <2>1, <1>1, <1>10, <1>11, UpTo
<1>13. ParseStateInfo(packet) = ReadKeys(kvs, n)
  BY <1>6, <1>9, <1>12
<1>14. QED
  BY <1>1, <1>13 DEF ReadKeys

LEMMA CodecAlone ==
  ASSUME [PerceptionNext]_perceptionVars
  PROVE  [CodecNext]_codecVars
<1>1. CASE PerceptionNext
  BY <1>1 DEF PerceptionNext, Others
<1>2. CASE UNCHANGED perceptionVars
  BY <1>2 DEF perceptionVars
<1>3. QED
  BY <1>1, <1>2

\* The number of the last command is that of the datagram.
CodecInv ==
  /\ seq \in 1 .. SeqMax
  /\ datagram # <<>> =>
       /\ \E S : MessageInv(datagram.packet, S)
       /\ datagram.packet.seq = seq /\ datagram.packet.kvs = datagram.meant
  /\ MessagesRead

\* What a command is made of.
Built(m) == \E S : KeysOf(S) /\ m.kvs \in Seq(S) /\ m.keyNum = Len(m.kvs)

LEMMA NextNumber ==
  ASSUME seq \in 1 .. SeqMax
  PROVE  GetSeq \in 1 .. SeqMax /\ GetSeq % (SeqMax + 1) = GetSeq /\ seq % (SeqMax + 1) = seq
<1>1. SeqMax \in Nat /\ SeqMax > 0
  BY CodecAssumption
<1>2. GetSeq \in 1 .. SeqMax
  BY <1>1 DEF GetSeq
<1>3. \A n \in 1 .. SeqMax : n % (SeqMax + 1) = n
  BY <1>1
<1>4. QED
  BY <1>2, <1>3

LEMMA Packed ==
  ASSUME NEW m, Built(m), NEW n \in 1 .. SeqMax
  PROVE  LET packet == Pack(n, m)
         IN /\ \E S : MessageInv(packet, S)
            /\ packet.seq = n /\ packet.kvs = m.kvs
<1>1. SeqMax \in Nat
  BY CodecAssumption
<1>2. n % (SeqMax + 1) = n
  BY <1>1
<1>3. QED
  BY <1>2 DEF Pack, MessageInv, Built

LEMMA SomeKeys ==
  ASSUME NEW a, NEW b, NEW c, a.len \in Nat \ {0}, b.len \in Nat \ {0}, c.len \in Nat \ {0}
  PROVE  /\ KeysOf({a, b, c})
         /\ <<a>> \in Seq({a, b, c}) /\ Len(<<a>>) = 1
         /\ <<a>> \o <<>> \in Seq({a, b, c}) /\ Len(<<a>> \o <<>>) = 1
         /\ <<a>> \o <<b>> \in Seq({a, b, c}) /\ Len(<<a>> \o <<b>>) = 2
         /\ <<a, b, c>> \in Seq({a, b, c}) /\ Len(<<a, b, c>>) = 3
<1>1. KeysOf({a, b, c})
  BY DEF KeysOf
<1>2. QED
  BY <1>1

LEMMA BuiltOf ==
  ASSUME NEW m, NEW a, NEW b, NEW c,
         a.len \in Nat \ {0}, b.len \in Nat \ {0}, c.len \in Nat \ {0},
         \/ m.keyNum = 1 /\ m.kvs = <<a>>
         \/ m.keyNum = 1 /\ m.kvs = <<a>> \o <<>>
         \/ m.keyNum = 2 /\ m.kvs = <<a>> \o <<b>>
         \/ m.keyNum = 3 /\ m.kvs = <<a, b, c>>
  PROVE  Built(m)
<1>1. KeysOf({a, b, c})
  BY SomeKeys
<1>2. m.kvs \in Seq({a, b, c}) /\ m.keyNum = Len(m.kvs)
  <2> DEFINE one == <<a>>
             alone == <<a>> \o <<>>
             two == <<a>> \o <<b>>
             three == <<a, b, c>>
             S == Seq({a, b, c})
  <2>1. one \in S /\ alone \in S /\ two \in S /\ three \in S
    BY SomeKeys
  <2>2. Len(one) = 1 /\ Len(alone) = 1 /\ Len(two) = 2 /\ Len(three) = 3
    BY SomeKeys
  <2>3. \/ m.keyNum = 1 /\ m.kvs = one
        \/ m.keyNum = 1 /\ m.kvs = alone
        \/ m.keyNum = 2 /\ m.kvs = two
        \/ m.keyNum = 3 /\ m.kvs = three
    OBVIOUS
  <2> HIDE DEF one, alone, two, three, S
  <2>4. m.kvs \in S /\ m.keyNum = Len(m.kvs)
    BY ONLY <2>1, <2>2, <2>3
  <2>5. QED
    BY <2>4 DEF S
<1>3. QED
  BY <1>1, <1>2 DEF Built

LEMMA KvLength ==
  ASSUME NEW name, NEW len, NEW value
  PROVE  Kv(name, len, value).len = len
BY DEF Kv

LEMMA RequestsAnnounced ==
  ASSUME NEW cfg, NEW m \in Requests(cfg)
  PROVE  Built(m)
<1>1. CASE m = BuildUpdateMid360LidarCfgRequest(cfg)
  <2>1. PICK ip : m.keyNum = 3
          /\ m.kvs = <<Kv("state", 8, HostValue(ip, "mid360")), Kv("point", 8, HostValue(ip, "mid360")),
                       Kv("imu", 8, HostValue(ip, "mid360"))>>
    BY <1>1 DEF BuildUpdateMid360LidarCfgRequest
  <2> DEFINE a == Kv("state", 8, HostValue(ip, "mid360"))
             b == Kv("point", 8, HostValue(ip, "mid360"))
             c == Kv("imu", 8, HostValue(ip, "mid360"))
  <2>2. a.len \in Nat \ {0} /\ b.len \in Nat \ {0} /\ c.len \in Nat \ {0}
    BY KvLength
  <2>3. m.keyNum = 3 /\ m.kvs = <<a, b, c>>
    BY <2>1
  <2> HIDE DEF a, b, c
  <2>4. QED
    BY <2>2, <2>3, BuiltOf
<1>2. ASSUME NEW ip, NEW port,
             m.keyNum = KeyNum(cfg.type),
             m.kvs = <<Kv("point", 8, HostValue(ip, port))>>
                     \o IF cfg.type = "pa" THEN <<>> ELSE <<Kv("imu", 8, HostValue(ip, port))>>
      PROVE  Built(m)
  <2> DEFINE a == Kv("point", 8, HostValue(ip, port))
             b == Kv("imu", 8, HostValue(ip, port))
  <2>1. a.len \in Nat \ {0} /\ b.len \in Nat \ {0}
    BY KvLength
  <2>2. \/ m.keyNum = 1 /\ m.kvs = <<a>> \o <<>>
        \/ m.keyNum = 2 /\ m.kvs = <<a>> \o <<b>>
    BY <1>2 DEF KeyNum
  <2> HIDE DEF a, b
  <2>3. QED
    BY <2>1, <2>2, BuiltOf
<1>3. CASE m = BuildUpdateLidarCfgRequest(cfg)
  <2>1. PICK ip : m.keyNum = KeyNum(cfg.type)
          /\ m.kvs = <<Kv("point", 8, HostValue(ip, cfg.type))>>
                     \o IF cfg.type = "pa" THEN <<>> ELSE <<Kv("imu", 8, HostValue(ip, cfg.type))>>
    BY <1>3 DEF BuildUpdateLidarCfgRequest
  <2>2. QED
    BY <2>1, <1>2
<1>4. CASE m = BuildUpdateViewLidarCfgRequest(cfg)
  <2>1. m.keyNum = KeyNum(cfg.type)
        /\ m.kvs = <<Kv("point", 8, HostValue(cfg.host, "view"))>>
                   \o IF cfg.type = "pa" THEN <<>> ELSE <<Kv("imu", 8, HostValue(cfg.host, "view"))>>
    BY <1>4 DEF BuildUpdateViewLidarCfgRequest
  <2>2. QED
    BY <2>1, <1>2
<1>5. ASSUME NEW name, NEW len \in Nat \ {0}, NEW value,
             m.keyNum = 1, m.kvs = <<Kv(name, len, value)>>
      PROVE  Built(m)
  <2> DEFINE a == Kv(name, len, value)
  <2>1. a.len \in Nat \ {0} /\ m.keyNum = 1 /\ m.kvs = <<a>>
    BY <1>5, KvLength
  <2> HIDE DEF a
  <2>2. QED
    BY <2>1, BuiltOf
<1>6. CASE m = BuildSetLidarIPInfoRequest(cfg)
  <2>1. m.keyNum = 1 /\ m.kvs = <<Kv("lidar_ip", 12, HostValue(cfg.host, "set"))>>
    BY <1>6 DEF BuildSetLidarIPInfoRequest
  <2>2. QED
    BY <2>1, <1>5
<1>7. CASE \E name \in {"state", "point", "imu"} : m = BuildSetHostIPInfoRequest(name, cfg)
  <2>1. PICK name : m.keyNum = 1 /\ m.kvs = <<Kv(name, 8, HostValue(cfg.host, "set"))>>
    BY <1>7 DEF BuildSetHostIPInfoRequest
  <2>2. QED
    BY <2>1, <1>5
<1>8. QED
  BY <1>1, <1>3, <1>4, <1>6, <1>7 DEF Requests

LEMMA SettingsHaveLengths ==
  ASSUME NEW name \in DOMAIN AllSettings
  PROVE  AllSettings[name] \in Nat \ {0}
<1>1. \A k \in DOMAIN LightSettings : LightSettings[k] \in Nat \ {0}
  BY DEF LightSettings
<1>2. \A k \in DOMAIN PlaceSettings : PlaceSettings[k] \in Nat \ {0}
  BY DEF PlaceSettings
<1>3. \A k \in DOMAIN DutySettings : DutySettings[k] \in Nat \ {0}
  BY DEF DutySettings
<1>4. \A k \in DOMAIN CareSettings : CareSettings[k] \in Nat \ {0}
  BY DEF CareSettings
<1>5. \/ name \in DOMAIN LightSettings /\ AllSettings[name] = LightSettings[name]
      \/ name \in DOMAIN PlaceSettings /\ AllSettings[name] = PlaceSettings[name]
      \/ name \in DOMAIN DutySettings /\ AllSettings[name] = DutySettings[name]
      \/ name \in DOMAIN CareSettings /\ AllSettings[name] = CareSettings[name]
  BY DEF AllSettings, SettingsRead
<1>6. QED
  BY <1>1, <1>2, <1>3, <1>4, <1>5

LEMMA CodecStep ==
  ASSUME CodecInv, [CodecNext]_codecVars
  PROVE  CodecInv'
<1>1. CASE SdkSends
  <2>1. PICK cfg : \E m \in Requests(cfg) :
          /\ seq' = IF m.built THEN GetSeq ELSE seq
          /\ datagram' = IF m.built
                         THEN [packet |-> Pack(GetSeq, m), meant |-> m.kvs] ELSE <<>>
          /\ told' = Silence
    BY <1>1 DEF SdkSends
  <2>2. PICK m \in Requests(cfg) :
          /\ seq' = IF m.built THEN GetSeq ELSE seq
          /\ datagram' = IF m.built
                         THEN [packet |-> Pack(GetSeq, m), meant |-> m.kvs] ELSE <<>>
          /\ told' = Silence
    BY <2>1
  <2>3. Built(m) /\ seq \in 1 .. SeqMax /\ GetSeq \in 1 .. SeqMax
    BY RequestsAnnounced, NextNumber DEF CodecInv
  <2>4. /\ \E S : MessageInv(Pack(GetSeq, m), S)
        /\ Pack(GetSeq, m).seq = GetSeq /\ Pack(GetSeq, m).kvs = m.kvs
    BY <2>3, Packed
  <2>5. CASE m.built
    <3>1. /\ seq' = GetSeq /\ datagram'.packet = Pack(GetSeq, m) /\ datagram'.meant = m.kvs
          /\ told' = Silence
      BY <2>2, <2>5
    <3>2. QED
      BY <3>1, <2>3, <2>4 DEF CodecInv, MessagesRead
  <2>6. CASE ~m.built
    BY <2>2, <2>3, <2>6 DEF CodecInv, MessagesRead
  <2>7. QED
    BY <2>5, <2>6
<1>2. CASE SettingSent
  <2>1. PICK name \in DOMAIN AllSettings, value \in {<<-1>>, <<0>>} :
          /\ seq' = GetSeq /\ told' = Silence
          /\ datagram' = [packet |-> Pack(GetSeq, SendSetting(name, value)),
                          meant |-> SendSetting(name, value).kvs]
    BY <1>2 DEF SettingSent
  <2> DEFINE m == SendSetting(name, value)
  <2>2. Built(m)
    <3> DEFINE a == Kv(name, AllSettings[name], value)
    <3>1. a.len \in Nat \ {0}
      BY SettingsHaveLengths, KvLength
    <3>2. m.keyNum = 1 /\ m.kvs = <<a>>
      BY DEF SendSetting
    <3> HIDE DEF a, m
    <3>3. QED
      BY <3>1, <3>2, BuiltOf
  <2>3. seq \in 1 .. SeqMax /\ GetSeq \in 1 .. SeqMax
    BY NextNumber DEF CodecInv
  <2> HIDE DEF m
  <2>4. /\ \E S : MessageInv(Pack(GetSeq, m), S)
        /\ Pack(GetSeq, m).seq = GetSeq /\ Pack(GetSeq, m).kvs = m.kvs
    BY <2>2, <2>3, Packed
  <2>5. datagram'.packet = Pack(GetSeq, m) /\ datagram'.meant = m.kvs
    BY <2>1 DEF m
  <2>6. QED
    BY <2>1, <2>3, <2>4, <2>5 DEF CodecInv, MessagesRead
<1>3. CASE LidarPushes
  <2>1. PICK n \in 1 .. 3 : \E kvs \in [1 .. n -> PushKeys] :
          /\ datagram' = [packet |-> Pack(seq, [keyNum |-> n, kvs |-> kvs]), meant |-> kvs]
          /\ told' = Silence /\ UNCHANGED seq
    BY <1>3 DEF LidarPushes
  <2>2. PICK kvs \in [1 .. n -> PushKeys] :
          /\ datagram' = [packet |-> Pack(seq, [keyNum |-> n, kvs |-> kvs]), meant |-> kvs]
          /\ told' = Silence /\ UNCHANGED seq
    BY <2>1
  <2> DEFINE m == [keyNum |-> n, kvs |-> kvs]
  <2>3. Built(m)
    <3>1. KeysOf(PushKeys)
      <4>1. \A k \in PushKeys : k.len \in 1 .. 64
        BY CodecAssumption
      <4>2. 1 .. 64 \subseteq Nat \ {0}
        OBVIOUS
      <4>3. \A k \in PushKeys : k.len \in Nat \ {0}
        BY <4>1, <4>2
      <4>4. QED
        BY <4>3 DEF KeysOf
    <3>2. kvs \in Seq(PushKeys) /\ Len(kvs) = n
      OBVIOUS
    <3>3. QED
      BY <3>1, <3>2 DEF Built
  <2>4. seq \in 1 .. SeqMax
    BY DEF CodecInv
  <2>5. m.kvs = kvs
    OBVIOUS
  <2> HIDE DEF m
  <2>6. /\ \E S : MessageInv(Pack(seq, m), S)
        /\ Pack(seq, m).seq = seq /\ Pack(seq, m).kvs = kvs
    BY <2>3, <2>4, <2>5, Packed
  <2>7. datagram'.packet = Pack(seq, m) /\ datagram'.meant = kvs
    BY <2>2 DEF m
  <2>8. QED
    BY <2>2, <2>4, <2>6, <2>7 DEF CodecInv, MessagesRead
<1>4. CASE ParseCommStream
  <2>1. PICK damage \in {"none", "header", "data", "short"}, rest \in BOOLEAN :
          LET read == ParseStateInfo(datagram.packet)
          IN told' = [accepted |-> CheckPreamble(damage, rest) /\ read.ok, damage |-> damage,
                      seq |-> datagram.packet.seq, info |-> read.info,
                      json |-> SettingsWritten(read.info) \cup StatesWritten(read.info)]
    BY <1>4 DEF ParseCommStream
  <2>2. datagram # <<>> /\ UNCHANGED <<seq, datagram>>
    BY <1>4 DEF ParseCommStream
  <2> DEFINE read == ParseStateInfo(datagram.packet)
  <2>3. /\ read.ok
        /\ read.info = HeldUpTo(datagram.packet.kvs, Len(datagram.packet.kvs))
    BY <2>2, MessageRead DEF CodecInv
  <2> HIDE DEF read
  <2>4. /\ told'.accepted = (CheckPreamble(damage, rest) /\ read.ok) /\ told'.damage = damage
        /\ told'.seq = datagram.packet.seq /\ told'.info = read.info
    BY <2>1 DEF read
  <2>5. /\ told'.damage = "none" => told'.accepted
        /\ told'.damage \in {"header", "data"} => ~told'.accepted
    BY <2>3, <2>4 DEF CheckPreamble
  <2>6. told'.info = {ValueRead(datagram.meant[i]) :
                        i \in {i \in DOMAIN datagram.meant : Sure(datagram.meant, i)}}
    <3> DEFINE kvs == datagram.meant
    <3>1. told'.info = HeldUpTo(kvs, Len(kvs))
      BY <2>2, <2>3, <2>4 DEF CodecInv
    <3>2. DOMAIN kvs = 1 .. Len(kvs)
      BY <2>2 DEF CodecInv, MessageInv
    <3> HIDE DEF kvs
    <3>3. \A i : Sure(kvs, i) <=> SureUpTo(kvs, Len(kvs), i)
      BY DEF Sure, SureUpTo
    <3>4. told'.info = {ValueRead(kvs[i]) : i \in {i \in DOMAIN kvs : Sure(kvs, i)}}
      BY <3>1, <3>2, <3>3 DEF HeldUpTo
    <3>5. QED
      BY <3>4 DEF kvs
  <2>7. told'.seq \in 1 .. SeqMax /\ told'.seq = seq
    BY <2>2, <2>4 DEF CodecInv
  <2>8. MessagesRead'
    BY <2>2, <2>5, <2>6, <2>7 DEF MessagesRead
  <2>9. QED
    BY <2>2, <2>8 DEF CodecInv
<1>5. CASE UNCHANGED codecVars
  BY <1>5 DEF codecVars, CodecInv, MessagesRead
<1>6. QED
  BY <1>1, <1>2, <1>3, <1>4, <1>5 DEF CodecNext

LEMMA CodecStart == CodecInit => CodecInv
BY CodecAssumption DEF CodecInit, CodecInv, MessagesRead

----------------------------------------------------------------------------
(* The logs. *)

LEMMA LogsAlone ==
  ASSUME [PerceptionNext]_perceptionVars
  PROVE  [LogsNext]_logVars
<1>1. CASE PerceptionNext
  BY <1>1 DEF PerceptionNext, Others
<1>2. CASE UNCHANGED perceptionVars
  BY <1>2 DEF perceptionVars
<1>3. QED
  BY <1>1, <1>2

LogPacket == [n : Nat, flag : {"create", "data", "end"}, file : Nat]
LogFile   == [name : Nat \ {0}, hidden : BOOLEAN, packets : Seq(Nat)]

Ascending(packets) == \A i \in 1 .. Len(packets) - 1 : packets[i] <= packets[i + 1]

\* A file with a dot is the one that is written, up to the last packet.
FileInOrder(f, cur) ==
  /\ Ascending(f.packets)
  /\ f.hidden => f.name = cur.open /\ \A i \in 1 .. Len(f.packets) : f.packets[i] <= cur.n

\* Of the files, when cur is written.
FilesInv(fs, cur) ==
  /\ fs \subseteq LogFile /\ \E b \in Nat : \A f \in fs : f.name <= b
  /\ cur \in [n : Nat, file : Nat, open : Nat]
  /\ \A f \in fs : FileInOrder(f, cur)
  /\ cur.open > 0 => \E f \in fs : f.name = cur.open /\ f.hidden

LogsInv ==
  /\ last \in LogPacket /\ late \subseteq LogPacket
  /\ logQueue \in Seq(LogPacket) /\ batch \in Seq(LogPacket)
  /\ FilesInv(files, current)

LEMMA NextPacketType ==
  ASSUME last \in LogPacket, NEW p \in NextPackets
  PROVE  p \in LogPacket
BY DEF LogPacket, NextPackets

LEMMA AppendSorted ==
  ASSUME NEW packets \in Seq(Nat), Ascending(packets), NEW n \in Nat,
         \A i \in 1 .. Len(packets) : packets[i] <= n
  PROVE  /\ Append(packets, n) \in Seq(Nat) /\ Ascending(Append(packets, n))
         /\ \A i \in 1 .. Len(Append(packets, n)) : Append(packets, n)[i] <= n
<1>1. /\ Append(packets, n) \in Seq(Nat) /\ Len(packets) \in Nat
      /\ Len(Append(packets, n)) = Len(packets) + 1 /\ Append(packets, n)[Len(packets) + 1] = n
      /\ \A i \in 1 .. Len(packets) : Append(packets, n)[i] = packets[i]
  OBVIOUS
<1>2. ASSUME NEW i \in 1 .. Len(packets) PROVE Append(packets, n)[i] <= Append(packets, n)[i + 1]
  <2>1. CASE i = Len(packets)
    BY <1>1, <2>1
  <2>2. CASE i # Len(packets)
    <3>1. i \in 1 .. Len(packets) - 1 /\ i + 1 \in 1 .. Len(packets)
      BY <1>1, <2>2
    <3>2. QED
      BY <1>1, <3>1 DEF Ascending
  <2>3. QED
    BY <2>1, <2>2
<1>3. \A i \in 1 .. Len(packets) + 1 : i \in 1 .. Len(packets) \/ i = Len(packets) + 1
  BY <1>1
<1>4. QED
  BY <1>1, <1>2, <1>3 DEF Ascending

\* No file keeps its dot when the current one is closed.
LEMMA ClosedFiles ==
  ASSUME FilesInv(files, current)
  PROVE  /\ Closed(files) \subseteq LogFile
         /\ \E b \in Nat : \A f \in Closed(files) : f.name <= b
         /\ \A f \in Closed(files) : Ascending(f.packets) /\ ~f.hidden
<1>1. CASE current.open = 0
  <2>1. \A f \in files : ~f.hidden
    BY <1>1 DEF FilesInv, FileInOrder, LogFile
  <2>2. QED
    BY <1>1, <2>1 DEF Closed, FilesInv, FileInOrder
<1>2. CASE current.open # 0
  <2>1. ASSUME NEW f \in Closed(files)
        PROVE  f \in LogFile /\ ~f.hidden /\ Ascending(f.packets)
               /\ \E g \in files : f.name = g.name
    <3>1. CASE f \in files /\ f.name # current.open
      BY <3>1 DEF FilesInv, FileInOrder
    <3>2. CASE \E g \in files : g.name = current.open /\ g.hidden /\ f = [g EXCEPT !.hidden = FALSE]
      <4>1. PICK g \in files : f = [g EXCEPT !.hidden = FALSE]
        BY <3>2
      <4>2. g \in LogFile /\ Ascending(g.packets)
        BY DEF FilesInv, FileInOrder
      <4>3. QED
        BY <4>1, <4>2 DEF LogFile
    <3>3. QED
      BY <1>2, <2>1, <3>1, <3>2 DEF Closed, ChangeCurrentFileName
  <2>2. PICK b \in Nat : \A f \in files : f.name <= b
    BY DEF FilesInv
  <2>3. \A f \in Closed(files) : f.name <= b
    BY <2>1, <2>2
  <2>4. QED
    BY <2>1, <2>3
<1>3. QED
  BY <1>1, <1>2

LEMMA NamesArePositive ==
  ASSUME FilesInv(files, current), NEW p, NEW name \in Names(p)
  PROVE  name \in Nat \ {0}
<1> DEFINE S == {0} \cup {f.name : f \in files}
<1>1. PICK b \in Nat : \A f \in files : f.name <= b
  BY DEF FilesInv
<1>2. S \subseteq Nat /\ S # {} /\ \A k \in S : k <= b
  BY <1>1 DEF FilesInv, LogFile
<1>3. Max(S) \in Nat
  <2> HIDE DEF S
  <2>1. QED
    BY <1>2, GreatestNatural
<1>4. current.open \in Nat
  BY DEF FilesInv
<1>5. QED
  BY <1>3, <1>4 DEF Names

LEMMA CreateKeeps ==
  ASSUME FilesInv(files, current), NEW p \in LogPacket, CreateFile(p)
  PROVE  FilesInv(files, current)'
<1>1. PICK name \in Names(p) :
        /\ files' = Closed(files) \cup {[name |-> name, hidden |-> TRUE, packets |-> <<p.n>>]}
        /\ current' = [n |-> p.n, file |-> p.file, open |-> name]
  BY DEF CreateFile
<1>2. name \in Nat \ {0} /\ p.n \in Nat /\ p.file \in Nat
  BY NamesArePositive DEF LogPacket
<1> DEFINE new == [name |-> name, hidden |-> TRUE, packets |-> <<p.n>>]
<1>3. new \in LogFile /\ new.name = name /\ new.hidden /\ FileInOrder(new, current')
  BY <1>1, <1>2 DEF LogFile, FileInOrder, Ascending
<1> HIDE DEF new
<1>4. PICK b \in Nat : \A f \in Closed(files) : f.name <= b
  BY ClosedFiles
<1>5. \A f \in Closed(files) : f \in LogFile /\ Ascending(f.packets) /\ ~f.hidden
  BY ClosedFiles
<1>6. files' = Closed(files) \cup {new}
  BY <1>1 DEF new
<1>7. \E c \in Nat : \A f \in files' : f.name <= c
  <2>1. \A f \in Closed(files) : f.name \in Nat
    BY <1>5 DEF LogFile
  <2>2. \A f \in files' : f.name <= b + name
    BY <1>2, <1>3, <1>4, <1>6, <2>1
  <2>3. QED
    BY <1>2, <2>2
<1>8. \A f \in files' : FileInOrder(f, current')
  BY <1>3, <1>5, <1>6 DEF FileInOrder
<1>9. current' \in [n : Nat, file : Nat, open : Nat] /\ current'.open = name
  BY <1>1, <1>2
<1>10. QED
  BY <1>3, <1>5, <1>6, <1>7, <1>8, <1>9 DEF FilesInv

LEMMA StopKeeps ==
  ASSUME FilesInv(files, current), NEW p \in LogPacket, StopFile(p)
  PROVE  FilesInv(files, current)'
<1>1. files' = Closed(files) /\ current' = [current EXCEPT !.n = p.n, !.open = 0]
  BY DEF StopFile
<1>2. current \in [n : Nat, file : Nat, open : Nat] /\ p.n \in Nat
  BY DEF FilesInv, LogPacket
<1>3. current' \in [n : Nat, file : Nat, open : Nat] /\ current'.open = 0
  BY <1>1, <1>2
<1>4. QED
  BY <1>1, <1>3, ClosedFiles DEF FilesInv, FileInOrder

LEMMA WriteKeeps ==
  ASSUME FilesInv(files, current), NEW p \in LogPacket, p.n >= current.n, WriteFile(p)
  PROVE  FilesInv(files, current)'
<1>1. CASE p.file # current.file
  BY <1>1 DEF WriteFile
<1>2. CASE p.file = current.file
  <2> DEFINE Written(f) == IF f.name = current.open /\ f.hidden
                           THEN [f EXCEPT !.packets = Append(@, p.n)] ELSE f
  <2>1. /\ files' = {Written(f) : f \in files}
        /\ current' = [current EXCEPT !.n = p.n]
    BY <1>2 DEF WriteFile
  <2>2. /\ current \in [n : Nat, file : Nat, open : Nat] /\ p.n \in Nat
        /\ current' \in [n : Nat, file : Nat, open : Nat]
        /\ current'.open = current.open /\ current'.n = p.n
    BY <2>1 DEF FilesInv, LogPacket
  <2>3. ASSUME NEW f \in files
        PROVE  /\ Written(f) \in LogFile /\ FileInOrder(Written(f), current')
               /\ Written(f).name = f.name /\ Written(f).hidden = f.hidden
    <3>1. f \in LogFile /\ FileInOrder(f, current)
      BY DEF FilesInv
    <3>2. f.packets \in Seq(Nat) /\ Ascending(f.packets)
      BY <3>1 DEF LogFile, FileInOrder
    <3>3. CASE f.name = current.open /\ f.hidden
      <4>1. \A i \in 1 .. Len(f.packets) : f.packets[i] <= p.n
        <5>1. \A i \in 1 .. Len(f.packets) : f.packets[i] <= current.n /\ f.packets[i] \in Nat
          BY <3>1, <3>2, <3>3 DEF FileInOrder
        <5>2. QED
          BY <5>1, <2>2
      <4>2. Written(f) = [f EXCEPT !.packets = Append(@, p.n)]
        BY <3>3
      <4>3. /\ Append(f.packets, p.n) \in Seq(Nat) /\ Ascending(Append(f.packets, p.n))
            /\ \A i \in 1 .. Len(Append(f.packets, p.n)) : Append(f.packets, p.n)[i] <= p.n
        BY <2>2, <3>2, <4>1, AppendSorted
      <4>4. /\ Written(f).packets = Append(f.packets, p.n) /\ Written(f).name = f.name
            /\ Written(f).hidden = f.hidden /\ Written(f) \in LogFile
        BY <3>1, <4>2, <4>3 DEF LogFile
      <4>5. QED
        BY <2>2, <3>3, <4>3, <4>4 DEF FileInOrder
    <3>4. CASE ~(f.name = current.open /\ f.hidden)
      BY <3>1, <3>4 DEF FileInOrder
    <3>5. QED
      BY <3>3, <3>4
  <2> HIDE DEF Written
  <2>4. PICK b \in Nat : \A f \in files : f.name <= b
    BY DEF FilesInv
  <2>5. \A f \in files' : f.name <= b
    BY <2>1, <2>3, <2>4
  <2>6. files' \subseteq LogFile /\ \A f \in files' : FileInOrder(f, current')
    BY <2>1, <2>3
  <2>7. current.open > 0 => \E f \in files' : f.name = current.open /\ f.hidden
    BY <2>1, <2>3 DEF FilesInv
  <2>8. QED
    BY <2>2, <2>5, <2>6, <2>7 DEF FilesInv
<1>3. QED
  BY <1>1, <1>2

\* Whatever is removed, what has a dot is not.
LEMMA KeptFiles ==
  ASSUME NEW fs
  PROVE  Kept(fs) \subseteq fs /\ \A f \in fs : f.hidden => f \in Kept(fs)
BY DEF Kept, Removable

LEMMA LogsStep ==
  ASSUME LogsInv, [LogsNext]_logVars
  PROVE  LogsInv'
<1> USE DEF LogsInv
<1>1. ASSUME NEW p \in LogPacket, LoggerHandler(p) PROVE logQueue' \in Seq(LogPacket)
  BY <1>1 DEF LoggerHandler
<1>2. CASE PacketSent
  <2>1. PICK p \in NextPackets, again \in BOOLEAN, lost \in BOOLEAN :
          /\ last' = p /\ late' = IF again THEN late \cup {p} ELSE late
          /\ IF lost THEN UNCHANGED <<logQueue, logger, wake>> ELSE LoggerHandler(p)
          /\ UNCHANGED <<batch, current, files>>
    BY <1>2 DEF PacketSent
  <2>2. p \in LogPacket
    BY NextPacketType
  <2>3. logQueue' \in Seq(LogPacket)
    BY <2>1, <2>2, <1>1
  <2>4. QED
    BY <2>1, <2>2, <2>3
<1>3. CASE LatePacket
  <2>1. PICK p \in late : /\ late' = late \ {p} /\ LoggerHandler(p)
                          /\ UNCHANGED <<last, batch, current, files>>
    BY <1>3 DEF LatePacket
  <2>2. logQueue' \in Seq(LogPacket)
    BY <2>1, <1>1
  <2>3. QED
    BY <2>1, <2>2
<1>4. CASE AddDevice \/ RequestStop
  BY <1>4 DEF AddDevice, RequestStop
<1>5. CASE TakeQueue
  BY <1>5 DEF TakeQueue
<1>6. CASE Write
  <2>1. /\ batch # <<>> /\ ~PassedOver(Head(batch)) /\ batch' = Tail(batch)
        /\ UNCHANGED <<last, late, logQueue>>
        /\ LET p == Head(batch)
           IN \/ p.flag = "create" /\ CreateFile(p)
              \/ p.flag = "end" /\ StopFile(p)
              \/ p.flag = "data" /\ WriteFile(p)
    BY <1>6 DEF Write
  <2>2. Head(batch) \in LogPacket /\ batch' \in Seq(LogPacket)
    BY <2>1
  <2>3. Head(batch).flag = "data" => Head(batch).n >= current.n
    BY <2>1, <2>2 DEF PassedOver, LogPacket, FilesInv
  <2>4. FilesInv(files, current)'
    BY <2>1, <2>2, <2>3, CreateKeeps, StopKeeps, WriteKeeps
  <2>5. QED
    BY <2>1, <2>2, <2>4
<1>7. CASE CycleDelete
  <2>1. files' = Kept(files) /\ UNCHANGED <<last, late, logQueue, batch, current>>
    BY <1>7 DEF CycleDelete
  <2>2. FilesInv(files, current)'
    BY <2>1, KeptFiles DEF FilesInv
  <2>3. QED
    BY <2>1, <2>2
<1>8. CASE Destory
  <2>1. /\ files' = {[f EXCEPT !.hidden = FALSE] :
                 f \in {f \in files : f.hidden \/ ~\E g \in files : g.name = f.name /\ g.hidden}}
        /\ current' = [current EXCEPT !.open = 0] /\ UNCHANGED <<last, late, logQueue, batch>>
    BY <1>8 DEF Destory
  <2>2. current' \in [n : Nat, file : Nat, open : Nat] /\ ~(current'.open > 0)
    BY SMTT(30), <2>1 DEF FilesInv
  <2>3. \A f \in files' : f \in LogFile /\ ~f.hidden /\ Ascending(f.packets)
                          /\ \E g \in files : f.name = g.name
    <3> SUFFICES ASSUME NEW f \in files'
                 PROVE  f \in LogFile /\ ~f.hidden /\ Ascending(f.packets)
                        /\ \E g \in files : f.name = g.name
      OBVIOUS
    <3>1. PICK g \in files : f = [g EXCEPT !.hidden = FALSE]
      BY <2>1
    <3>2. g \in LogFile /\ Ascending(g.packets)
      BY DEF FilesInv, FileInOrder
    <3>3. f \in LogFile /\ ~f.hidden /\ f.packets = g.packets /\ f.name = g.name
      BY ONLY <3>1, <3>2 DEF LogFile
    <3>4. QED
      BY ONLY <3>2, <3>3, Zenon
  <2>4. \E b \in Nat : \A f \in files' : f.name <= b
    BY <2>3 DEF FilesInv
  <2>5. QED
    BY <2>1, <2>2, <2>3, <2>4 DEF FilesInv, FileInOrder
<1>9. CASE UNCHANGED logVars
  BY <1>9 DEF logVars
<1>10. QED
  BY <1>2, <1>3, <1>4, <1>5, <1>6, <1>7, <1>8, <1>9 DEF LogsNext

LEMMA LogsStart == LogsInit => LogsInv
BY DEF LogsInit, LogsInv, FilesInv, LogPacket

LEMMA LogsInvSound == LogsInv => LogsInOrder
BY DEF LogsInv, FilesInv, FileInOrder, Ascending, LogsInOrder

----------------------------------------------------------------------------
(* From the file of the configuration to the points and the log. *)

\* However wrong the ports of the file are, and whatever lidars, entries and ports of
\* the host there are: a datagram of a Mid360 goes to the handler of its kind, no
\* lidar has two configurations, and what it sends and is sent goes through a socket
\* that is read (device_manager.cpp:451).
THEOREM NetworkStaysSound == PerceptionSpec => []NetworkSound
<1>1. PerceptionInit => NetworkInv
  BY NetworkStart DEF PerceptionInit
<1>2. NetworkInv /\ [PerceptionNext]_perceptionVars => NetworkInv'
  BY NetworkAlone, NetworkStep
<1>3. QED
  BY <1>1, <1>2, NetworkInvSound, PTL DEF PerceptionSpec

\* Whatever sockets are added, removed and closed while the thread polls and runs
\* tasks: what it has polled once its tasks are run is what is wanted, unless more was
\* wanted than fits, and it does not sleep over a task (io_loop.cpp:72).
THEOREM LoopStaysSound == PerceptionSpec => []LoopSound
<1>1. PerceptionInit => LoopInv
  BY LoopStart DEF PerceptionInit
<1>2. LoopInv /\ [PerceptionNext]_perceptionVars => LoopInv'
  BY LoopAlone, LoopStep
<1>3. QED
  BY <1>1, <1>2, LoopInvSound, PTL DEF PerceptionSpec

\* Whatever keys of whatever lengths stand in a message, the reader finds each of
\* them where the writer has put it.  The value of a key it knows is what was sent,
\* unless it is shorter than its field or a later one runs over it; and the message
\* is taken if it arrived whole, refused if it has a flaw
\* (parse_lidar_state_info.cpp:28, sdk_protocol.cpp:109, build_request.cpp:164).
THEOREM MessagesAreRead == PerceptionSpec => []MessagesRead
<1>1. PerceptionInit => CodecInv
  BY CodecStart DEF PerceptionInit
<1>2. CodecInv /\ [PerceptionNext]_perceptionVars => CodecInv'
  BY CodecAlone, CodecStep
<1>3. CodecInv => MessagesRead
  BY DEF CodecInv
<1>4. QED
  BY <1>1, <1>2, <1>3, PTL DEF PerceptionSpec

\* Whatever packets of the log are lost, late or cannot be written, a file holds
\* packets of its own alone and in their order (logger_handler.cpp:177).
THEOREM LogsStayInOrder == PerceptionSpec => []LogsInOrder
<1>1. PerceptionInit => LogsInv
  BY LogsStart DEF PerceptionInit
<1>2. LogsInv /\ [PerceptionNext]_perceptionVars => LogsInv'
  BY LogsAlone, LogsStep
<1>3. QED
  BY <1>1, <1>2, LogsInvSound, PTL DEF PerceptionSpec

\* All of it together: the network, its thread, the messages, the points and the log.
THEOREM LidarIsHeard == PerceptionSpec => []LidarTransports
BY NetworkStaysSound, LoopStaysSound, MessagesAreRead, FramesAreWhole, LogsStayInOrder, PTL
   DEF LidarTransports


----------------------------------------------------------------------------
(* The odometry between two scans. *)

USE OdometryAssumption

\* The newest message the node has handled.
Seen == IF imuIn = <<>> THEN clock ELSE imuIn[1] - Period

\* A queue of the IMU's messages up to e, none missing.
Consecutive(q, e) ==
  /\ q \in Seq(Int)
  /\ \A i, j \in 1 .. Len(q) : i < j => q[i] + Period <= q[j]
  /\ \A i \in 1 .. Len(q) : i + 1 \in 1 .. Len(q) => q[i + 1] = q[i] + Period
  /\ q # <<>> => q[Len(q)] = e

\* Both queues of the node, and what is on its way to them.
ImuQueue(q) ==
  /\ Consecutive(q, Seen)
  /\ q = <<>> => Seen = started
  /\ q # <<>> => q[1] >= started + Period

ImuInv ==
  /\ started \in Nat /\ clock \in Nat /\ started <= Seen
  /\ Consecutive(imuIn, clock)
  /\ imuIn # <<>> => imuIn[1] > started
  /\ ImuQueue(imuQueOpt) /\ ImuQueue(imuQueImu)

\* What waits is newer than every scan that was matched.
Matched(c) == c = Unset \/ (c \in Scans /\ c + Behind * Period < clock)
Recent(q) == \A i \in 1 .. Len(q) : clock - q[i] + Period <= Behind * Period

UnderWayInv ==
  /\ Recent(imuIn) /\ Recent(fusionIn)
  /\ Matched(odomIn) /\ Matched(lidarIn) /\ Matched(lidarOdomTime) /\ Matched(corrected)
  /\ odomIn # Unset => odomIn > corrected

\* Nothing is popped but what a correction at c is newer than, and all of that.
PoppedTo(q, c) ==
  /\ c <= q[1]
  /\ q[1] > started + Period \/ c >= started + Period => q[1] < c + Period

CorrectedInv ==
  /\ doneFirstOpt => initialized
  /\ key \in 1 .. KeyMax
  /\ integOpt = 0
  /\ IF imuQueOpt = <<>> THEN corrected = Unset /\ lastImuTOpt = -1
     ELSE /\ PoppedTo(imuQueOpt, corrected)
          /\ lastImuTOpt = IF imuQueOpt[1] = started + Period THEN -1
                           ELSE imuQueOpt[1] - Period

\* The predicted state starts at the last correction of a graph that went well.
Ahead == integImu - (Seen - prevOdom)

PredictedInv ==
  /\ prevOdom \in Scans \cup {Unset} /\ prevOdom <= corrected
  /\ imuQueImu # <<>> => PoppedTo(imuQueImu, prevOdom)
  /\ integImu \in Int
  /\ ~doneFirstOpt => lastImuTImu = -1
  /\ lastImuTImu # -1 => lastImuTImu = Seen
  /\ doneFirstOpt /\ prevOdom >= started + Period =>
       /\ -Period <= Ahead /\ Ahead <= Period
       /\ lastImuTImu = -1 => 0 <= Ahead

Rising(q) == q \in Seq(Int) /\ \A i, j \in 1 .. Len(q) : i < j => q[i] < q[j]

FusionInv ==
  /\ Rising(imuOdomQueue) /\ Rising(fusionIn)
  /\ \A i \in 1 .. Len(imuOdomQueue), j \in 1 .. Len(fusionIn) : imuOdomQueue[i] < fusionIn[j]
  /\ \A i \in 1 .. Len(imuOdomQueue) : imuOdomQueue[i] <= Seen
  /\ \A i \in 1 .. Len(fusionIn) : fusionIn[i] <= Seen

OdometryInv ==
  /\ ImuInv /\ UnderWayInv /\ CorrectedInv /\ PredictedInv /\ FusionInv
  /\ FactorSpansKeys /\ OdometrySpansGap /\ FusedGoesOn

\* What is popped are the messages in front of the first that is not older.
LEMMA LeadingFound ==
  ASSUME NEW q \in Seq(Int), NEW c \in Int, \E i \in 1 .. Len(q) : q[i] >= c
  PROVE  \E n \in 0 .. Len(q) - 1 :
           /\ n = Leading(q, c) /\ q[n + 1] >= c
           /\ \A i \in 1 .. n : q[i] < c
<1> DEFINE S == {n \in 0 .. Len(q) : \A i \in 1 .. n : q[i] < c}
           n == Max(S)
<1>1. Len(q) \in Nat /\ \A i \in 1 .. Len(q) : q[i] \in Int
  OBVIOUS
<1>2. S \subseteq Nat /\ \A k \in S : k <= Len(q)
  BY <1>1
<1>3. 0 \in S
  BY <1>1
<1>4. n \in S /\ \A k \in S : k <= n
  <2> HIDE DEF S
  <2>1. QED
    BY <1>1, <1>2, <1>3, GreatestNatural
<1>5. n = Leading(q, c)
  BY DEF Leading
<1> HIDE DEF n
<1>6. n \in 0 .. Len(q) /\ \A i \in 1 .. n : q[i] < c
  BY <1>4
<1>7. n # Len(q)
  BY <1>1, <1>6
<1>8. n + 1 \in 0 .. Len(q) /\ n + 1 \in 1 .. Len(q)
  BY <1>1, <1>6, <1>7
<1>9. ASSUME q[n + 1] < c PROVE FALSE
  <2>1. \A i \in 1 .. n + 1 : q[i] < c
    BY <1>6, <1>9
  <2>2. n + 1 \in S
    BY <1>8, <2>1
  <2>3. QED
    BY <1>4, <1>6, <1>1, <2>2
<1>10. q[n + 1] >= c
  BY <1>1, <1>8, <1>9
<1>11. QED
  BY <1>1, <1>5, <1>6, <1>7, <1>10

\* A queue of consecutive messages is cut in two.
LEMMA CutQueue ==
  ASSUME NEW q, NEW e \in Int, Consecutive(q, e), NEW c \in Int, c <= e, q # <<>>
  PROVE  \/ OlderThan(q, c) = <<>> /\ NotOlder(q, c) = q /\ c <= q[1]
         \/ /\ OlderThan(q, c) # <<>> /\ OlderThan(q, c)[1] = q[1]
            /\ NotOlder(q, c) # <<>> /\ Consecutive(NotOlder(q, c), e)
            /\ OlderThan(q, c)[Len(OlderThan(q, c))] = NotOlder(q, c)[1] - Period
            /\ NotOlder(q, c)[1] - Period < c /\ c <= NotOlder(q, c)[1]
            /\ q[1] + Period <= NotOlder(q, c)[1]
<1>1. /\ q \in Seq(Int) /\ Len(q) \in Nat \ {0} /\ q[Len(q)] = e /\ Period \in Nat
      /\ \A i \in 1 .. Len(q) : q[i] \in Int
  BY DEF Consecutive
<1>a. Len(q) \in 1 .. Len(q) /\ q[Len(q)] >= c
  BY <1>1
<1>2. PICK n \in 0 .. Len(q) - 1 : /\ n = Leading(q, c) /\ q[n + 1] >= c
                                   /\ \A i \in 1 .. n : q[i] < c
  <2>1. \E i \in 1 .. Len(q) : q[i] >= c
    BY <1>a
  <2>2. QED
    BY <1>1, <2>1, LeadingFound
<1>3. OlderThan(q, c) = SubSeq(q, 1, n) /\ NotOlder(q, c) = SubSeq(q, n + 1, Len(q))
  BY <1>2 DEF OlderThan, NotOlder
<1>4. CASE n = 0
  <2>1. SubSeq(q, 1, 0) = <<>> /\ SubSeq(q, 1, Len(q)) = q
    BY <1>1
  <2>2. QED
    BY <1>2, <1>3, <1>4, <2>1
<1>5. CASE n # 0
  <2> DEFINE old == SubSeq(q, 1, n)
             new == SubSeq(q, n + 1, Len(q))
  <2>1. n \in 1 .. Len(q) /\ n + 1 \in 1 .. Len(q) /\ 1 \in 1 .. Len(q) /\ n \in Nat \ {0}
    BY <1>1, <1>2, <1>5
  <2>2. old \in Seq(Int) /\ Len(old) = n /\ \A i \in 1 .. n : old[i] = q[i]
    <3>1. \A i \in 1 .. n : q[i] \in Int
      BY <1>1, <2>1
    <3>2. /\ old \in Seq(Int) /\ Len(old) = (IF 1 <= n THEN n - 1 + 1 ELSE 0)
          /\ \A i \in 1 .. n - 1 + 1 : old[i] = q[1 + i - 1]
      BY <2>1, <3>1, SubSeqProperties
    <3> HIDE DEF old
    <3>3. QED
      BY <2>1, <3>2
  <2>3. /\ new \in Seq(Int) /\ Len(new) = Len(q) - n
        /\ \A i \in 1 .. Len(q) - n : new[i] = q[n + i]
    <3>1. \A i \in n + 1 .. Len(q) : q[i] \in Int
      BY <1>1, <2>1
    <3>2. /\ new \in Seq(Int) /\ Len(new) = (IF n + 1 <= Len(q) THEN Len(q) - (n + 1) + 1 ELSE 0)
          /\ \A i \in 1 .. Len(q) - (n + 1) + 1 : new[i] = q[(n + 1) + i - 1]
      <4> DEFINE m == n + 1
                 l == Len(q)
      <4>1. m \in Int /\ l \in Int /\ \A i \in m .. l : q[i] \in Int
        BY <2>1, <1>1, <3>1
      <4> HIDE DEF m, l
      <4>2. /\ SubSeq(q, m, l) \in Seq(Int)
            /\ Len(SubSeq(q, m, l)) = (IF m <= l THEN l - m + 1 ELSE 0)
            /\ \A i \in 1 .. l - m + 1 : SubSeq(q, m, l)[i] = q[m + i - 1]
        BY <4>1, SubSeqProperties
      <4>3. QED
        BY <4>2 DEF m, l
    <3> HIDE DEF new
    <3>3. Len(q) - (n + 1) + 1 = Len(q) - n /\ n + 1 <= Len(q)
      BY <1>1, <2>1
    <3>4. \A i \in 1 .. Len(q) - n : (n + 1) + i - 1 = n + i
      BY <1>1, <2>1
    <3>5. QED
      BY <3>2, <3>3, <3>4
  <2>4. old = OlderThan(q, c) /\ new = NotOlder(q, c)
    BY <1>3
  <2> HIDE DEF old, new
  <2>5. Len(q) - n \in Nat \ {0}
    BY <1>1, <2>1
  <2>6. old # <<>> /\ new # <<>> /\ old[1] = q[1] /\ new[1] = q[n + 1] /\ old[Len(old)] = q[n]
    <3>1. 1 \in 1 .. n /\ n \in 1 .. n /\ 1 \in 1 .. Len(q) - n
      BY <2>1, <2>5
    <3>2. QED
      BY <3>1, <2>1, <2>2, <2>3, <2>5
  <2>7. q[n + 1] = q[n] + Period /\ q[n] < c
    <3>1. n \in 1 .. n
      BY <2>1
    <3>2. QED
      BY <1>2, <2>1, <3>1 DEF Consecutive
  <2>8. q[1] + Period <= q[n + 1]
    <3>1. 1 < n + 1
      BY <2>1
    <3>2. QED
      BY <2>1, <3>1 DEF Consecutive
  <2>9. Consecutive(new, e)
    <3>1. ASSUME NEW i \in 1 .. Len(new), NEW j \in 1 .. Len(new), i < j
          PROVE  new[i] + Period <= new[j]
      <4>1. n + i \in 1 .. Len(q) /\ n + j \in 1 .. Len(q) /\ n + i < n + j
        BY <3>1, <1>1, <2>1, <2>3
      <4>2. new[i] = q[n + i] /\ new[j] = q[n + j]
        BY <3>1, <2>3
      <4>3. QED
        BY <4>1, <4>2 DEF Consecutive
    <3>2. ASSUME NEW i \in 1 .. Len(new), i + 1 \in 1 .. Len(new)
          PROVE  new[i + 1] = new[i] + Period
      <4>1. n + i \in 1 .. Len(q) /\ (n + i) + 1 \in 1 .. Len(q) /\ n + (i + 1) = (n + i) + 1
        BY <3>2, <1>1, <2>1, <2>3
      <4>2. new[i] = q[n + i] /\ new[i + 1] = q[n + (i + 1)]
        BY <3>2, <2>3
      <4>3. QED
        BY <4>1, <4>2 DEF Consecutive
    <3>3. new[Len(new)] = e
      <4>1. Len(new) \in 1 .. Len(q) - n /\ n + Len(new) = Len(q)
        BY <1>1, <2>1, <2>3, <2>5
      <4>2. QED
        BY <1>1, <2>3, <4>1
    <3>4. QED
      BY <2>3, <3>1, <3>2, <3>3 DEF Consecutive
  <2>10. /\ q[n + 1] - Period = q[n] /\ c <= q[n + 1]
    BY <1>1, <1>2, <2>1, <2>7
  <2>11. QED
    BY <2>4, <2>6, <2>7, <2>8, <2>9, <2>10
<1>6. QED
  BY <1>4, <1>5

LEMMA QueueGrows ==
  ASSUME NEW q, NEW e \in Int, Consecutive(q, e), NEW t, t = e + Period
  PROVE  /\ Consecutive(Append(q, t), t) /\ Append(q, t) # <<>>
         /\ Append(q, t)[1] = IF q = <<>> THEN t ELSE q[1]
<1> DEFINE new == Append(q, t)
           n == Len(q)
<1>1. /\ q \in Seq(Int) /\ n \in Nat /\ t \in Int /\ Period \in Nat
      /\ \A i \in 1 .. n : q[i] \in Int
  BY DEF Consecutive
<1>2. /\ new \in Seq(Int) /\ new # <<>> /\ Len(new) = n + 1
      /\ (\A i \in 1 .. n : new[i] = q[i]) /\ new[n + 1] = t
  BY <1>1, AppendProperties
<1>3. q # <<>> => n \in 1 .. n /\ 1 \in 1 .. n /\ q[n] = e
  BY <1>1 DEF Consecutive
<1>a. q = <<>> => n = 0
  OBVIOUS
<1> HIDE DEF new, n
<1>b. \A i \in 1 .. n : q[i] <= e
  <2> SUFFICES ASSUME NEW i \in 1 .. n PROVE q[i] <= e
    OBVIOUS
  <2>1. q # <<>>
    BY <1>1, <1>a
  <2>2. i = n \/ i < n
    BY <1>1
  <2>3. i < n => q[i] + Period <= q[n]
    BY <1>1, <1>3, <2>1 DEF Consecutive, n
  <2>4. QED
    BY <1>1, <1>3, <2>1, <2>2, <2>3
<1>4. ASSUME NEW i \in 1 .. n + 1, NEW j \in 1 .. n + 1, i < j
      PROVE  new[i] + Period <= new[j]
  <2>1. i \in 1 .. n /\ (j \in 1 .. n \/ j = n + 1)
    BY <1>1, <1>4
  <2>2. CASE j \in 1 .. n
    BY <1>2, <1>4, <2>1, <2>2 DEF Consecutive, n
  <2>3. CASE j = n + 1
    BY <1>1, <1>2, <1>b, <2>1, <2>3
  <2>4. QED
    BY <2>1, <2>2, <2>3
<1>5. ASSUME NEW i \in 1 .. n + 1, i + 1 \in 1 .. n + 1
      PROVE  new[i + 1] = new[i] + Period
  <2>1. i \in 1 .. n /\ (i + 1 \in 1 .. n \/ i = n)
    BY <1>1, <1>5
  <2>2. CASE i + 1 \in 1 .. n
    BY <1>2, <2>1, <2>2 DEF Consecutive, n
  <2>3. CASE i = n
    <3>1. q # <<>>
      BY <1>1, <1>a, <2>1
    <3>2. QED
      BY <1>2, <1>3, <2>1, <2>3, <3>1
  <2>4. QED
    BY <2>1, <2>2, <2>3
<1>6. Consecutive(new, t)
  BY <1>2, <1>4, <1>5 DEF Consecutive
<1>7. new[1] = IF q = <<>> THEN t ELSE q[1]
  <2>1. CASE q = <<>>
    <3>1. n + 1 = 1
      BY <2>1, <1>a
    <3>2. QED
      BY <2>1, <3>1, <1>2
  <2>2. CASE q # <<>>
    BY <2>2, <1>2, <1>3
  <2>3. QED
    BY <2>1, <2>2
<1>8. QED
  BY <1>2, <1>6, <1>7 DEF new

LEMMA QueueShrinks ==
  ASSUME NEW q, NEW e \in Int, Consecutive(q, e), q # <<>>
  PROVE  /\ Consecutive(Tail(q), e) /\ Head(q) = q[1] /\ q[1] \in Int
         /\ Tail(q) = <<>> => q[1] = e
         /\ Tail(q) # <<>> => Tail(q)[1] = q[1] + Period
<1> DEFINE new == Tail(q)
           n == Len(q)
<1>1. /\ q \in Seq(Int) /\ n \in Nat /\ n # 0 /\ Period \in Nat /\ q[n] = e
      /\ \A i \in 1 .. n : q[i] \in Int
  BY DEF Consecutive
<1>2. new \in Seq(Int) /\ Len(new) = n - 1 /\ \A i \in 1 .. n - 1 : new[i] = q[i + 1]
  <2>1. /\ Tail(q) \in Seq(Int) /\ Len(Tail(q)) = Len(q) - 1
        /\ \A i \in 1 .. Len(Tail(q)) : Tail(q)[i] = q[i + 1]
    <3>1. q \in Seq(Int)
      BY <1>1
    <3>2. QED
      BY <3>1, HeadTailProperties
  <2>2. QED
    BY <2>1
<1> HIDE DEF new
<1>3. new = <<>> => Len(new) = 0
  OBVIOUS
<1>4. new # <<>> => Len(new) # 0
  BY <1>2
<1> HIDE DEF n
<1>5. ASSUME NEW i \in 1 .. n - 1, NEW j \in 1 .. n - 1, i < j
      PROVE  new[i] + Period <= new[j]
  <2>1. i + 1 \in 1 .. n /\ j + 1 \in 1 .. n /\ i + 1 < j + 1
    BY <1>1, <1>5
  <2>2. QED
    BY <1>2, <2>1 DEF Consecutive, n
<1>6. ASSUME NEW i \in 1 .. n - 1, i + 1 \in 1 .. n - 1
      PROVE  new[i + 1] = new[i] + Period
  <2>1. i + 1 \in 1 .. n /\ (i + 1) + 1 \in 1 .. n
    BY <1>1, <1>6
  <2>2. QED
    BY <1>2, <1>6, <2>1 DEF Consecutive, n
<1>7. new # <<>> => new[Len(new)] = e /\ new[1] = q[1] + Period
  <2> SUFFICES ASSUME new # <<>> PROVE new[Len(new)] = e /\ new[1] = q[1] + Period
    OBVIOUS
  <2>1. n - 1 \in 1 .. n - 1 /\ 1 \in 1 .. n - 1 /\ (n - 1) + 1 = n
    BY <1>1, <1>2, <1>4
  <2>2. 1 \in 1 .. n /\ 1 + 1 \in 1 .. n
    BY <1>1, <2>1
  <2>3. QED
    BY <1>1, <1>2, <2>1, <2>2 DEF Consecutive, n
<1>8. new = <<>> => q[1] = e
  <2> SUFFICES ASSUME new = <<>> PROVE q[1] = e
    OBVIOUS
  <2>1. n = 1
    BY <1>1, <1>2, <1>3
  <2>2. QED
    BY <1>1, <2>1
<1>9. Consecutive(new, e)
  BY <1>2, <1>5, <1>6, <1>7 DEF Consecutive
<1>10. Head(q) = q[1] /\ q[1] \in Int
  <2>1. 1 \in 1 .. n
    BY <1>1
  <2>2. QED
    BY <1>1, <2>1
<1>11. QED
  BY <1>7, <1>8, <1>9, <1>10 DEF new

LEMMA SeenIsInt ==
  ASSUME ImuInv
  PROVE  Seen \in Int /\ started \in Int /\ clock \in Int /\ Seen <= clock
<1>1. CASE imuIn = <<>>
  BY <1>1 DEF ImuInv, Seen
<1>2. CASE imuIn # <<>>
  <2> DEFINE n == Len(imuIn)
  <2>1. n \in Nat /\ n # 0 /\ imuIn[n] = clock /\ \A i \in 1 .. n : imuIn[i] \in Int
    BY <1>2 DEF ImuInv, Consecutive
  <2> HIDE DEF n
  <2>2. 1 = n \/ 1 < n
    BY <2>1
  <2>3. 1 \in 1 .. n /\ n \in 1 .. n
    BY <2>1
  <2>4. 1 < n => imuIn[1] + Period <= imuIn[n]
    BY <2>3 DEF ImuInv, Consecutive, n
  <2>5. imuIn[1] \in Int /\ imuIn[1] <= clock
    BY <2>1, <2>2, <2>3, <2>4, <1>2 DEF ImuInv
  <2>6. QED
    BY <1>2, <2>5 DEF ImuInv, Seen
<1>3. QED
  BY <1>1, <1>2

LEMMA SeenIsLate ==
  ASSUME ImuInv, UnderWayInv, NEW c \in Scans, c + Behind * Period < clock
  PROVE  c < Seen
<1>1. c \in Int /\ Behind * Period \in Int /\ clock \in Int /\ Period \in Nat \ {0}
  BY DEF ImuInv
<1>2. Behind * Period >= 1
  <2>1. Behind \in Nat \ {0}
    OBVIOUS
  <2>2. QED
    BY <1>1, <2>1
<1>3. CASE imuIn = <<>>
  BY <1>1, <1>2, <1>3 DEF Seen
<1>4. CASE imuIn # <<>>
  <2>1. imuIn \in Seq(Int) /\ 1 \in 1 .. Len(imuIn) /\ imuIn[1] \in Int
    BY <1>4 DEF ImuInv, Consecutive
  <2>2. clock - imuIn[1] + Period <= Behind * Period
    BY <2>1 DEF UnderWayInv, Recent
  <2>3. Seen = imuIn[1] - Period
    BY <1>4 DEF Seen
  <2> DEFINE b == Behind * Period
  <2>4. b \in Int /\ clock - imuIn[1] + Period <= b /\ c + b < clock
    BY <1>1, <2>2
  <2> HIDE DEF b
  <2>5. QED
    BY <1>1, <2>1, <2>3, <2>4
<1>5. QED
  BY <1>3, <1>4

LEMMA MatchedIsInt == \A c : Matched(c) => c \in Int
<1>1. Unset \in Int /\ Scans \subseteq Int
  BY DEF Unset
<1>2. QED
  BY <1>1 DEF Matched

LEMMA SendKeeps ==
  ASSUME OdometryInv, ImuSends
  PROVE  OdometryInv'
<1>1. /\ ImuInv /\ UnderWayInv /\ CorrectedInv /\ PredictedInv /\ FusionInv
      /\ FactorSpansKeys /\ OdometrySpansGap /\ FusedGoesOn
  BY DEF OdometryInv
<1>2. /\ clock' = clock + Period /\ imuIn' = Append(imuIn, clock')
      /\ UNCHANGED <<started, odomIn, lidarIn, fusionIn, preintVars, fusionVars>>
      /\ \A t \in Range(imuIn) \cup Range(fusionIn) : clock' - t + Period <= Behind * Period
  BY DEF ImuSends
<1>3. /\ imuIn \in Seq(Int) /\ Period \in Nat \ {0} /\ Behind * Period \in Int
      /\ Period <= Behind * Period /\ clock \in Nat /\ clock' \in Nat
  <2>1. Behind \in Nat \ {0} /\ Period \in Nat \ {0}
    OBVIOUS
  <2>2. Period <= Behind * Period
    BY <2>1
  <2>3. QED
    BY <1>1, <1>2, <2>1, <2>2 DEF ImuInv, Consecutive
<1>4. /\ Consecutive(imuIn', clock') /\ imuIn' # <<>>
      /\ imuIn'[1] = IF imuIn = <<>> THEN clock' ELSE imuIn[1]
  <2> DEFINE t == clock'
  <2>1. clock \in Int /\ Consecutive(imuIn, clock) /\ t = clock + Period
    BY <1>1, <1>2, <1>3 DEF ImuInv
  <2> HIDE DEF t
  <2>2. /\ Consecutive(Append(imuIn, t), t) /\ Append(imuIn, t) # <<>>
        /\ Append(imuIn, t)[1] = IF imuIn = <<>> THEN t ELSE imuIn[1]
    BY <2>1, QueueGrows
  <2>3. QED
    BY <1>2, <2>2 DEF t
<1>5. Seen' = Seen
  BY <1>2, <1>3, <1>4 DEF Seen
<1>6. ImuInv'
  <2>1. clock \in Int /\ started <= clock /\ started \in Int
    BY <1>1, SeenIsInt DEF ImuInv
  <2>2. imuIn'[1] > started'
    BY <1>1, <1>2, <1>3, <1>4, <2>1 DEF ImuInv
  <2>3. imuQueOpt' = imuQueOpt /\ imuQueImu' = imuQueImu /\ started' = started
    BY <1>2 DEF preintVars
  <2>4. QED
    BY <1>1, <1>3, <1>4, <1>5, <2>2, <2>3 DEF ImuInv, ImuQueue, Consecutive
<1>7. Recent(imuIn)' /\ Recent(fusionIn)'
  <2>1. ASSUME NEW i \in 1 .. Len(imuIn')
        PROVE  clock' - imuIn'[i] + Period <= Behind * Period
    <3>1. /\ Len(imuIn') = Len(imuIn) + 1 /\ Len(imuIn) \in Nat
          /\ (\A k \in 1 .. Len(imuIn) : imuIn'[k] = imuIn[k]) /\ imuIn'[Len(imuIn) + 1] = clock'
      BY <1>2, <1>3, AppendProperties
    <3>2. CASE i \in 1 .. Len(imuIn)
      <4>1. imuIn[i] \in Range(imuIn)
        BY <3>2, <1>3 DEF Range
      <4>2. QED
        BY <1>2, <3>1, <3>2, <4>1
    <3>3. CASE i = Len(imuIn) + 1
      BY <1>3, <3>1, <3>3
    <3>4. QED
      BY <3>1, <3>2, <3>3
  <2>2. ASSUME NEW i \in 1 .. Len(fusionIn)
        PROVE  clock' - fusionIn[i] + Period <= Behind * Period
    <3>1. fusionIn[i] \in Range(fusionIn)
      BY <1>1 DEF FusionInv, Rising, Range
    <3>2. QED
      BY <1>2, <3>1
  <2>3. fusionIn' = fusionIn
    BY <1>2
  <2>4. QED
    BY <2>1, <2>2, <2>3 DEF Recent
<1>8. ASSUME NEW c \in Int, Matched(c)
      PROVE  c = Unset \/ (c \in Scans /\ c + Behind * Period < clock')
  BY <1>2, <1>3, <1>8 DEF Matched
<1>9. UnderWayInv'
  <2>1. odomIn \in Int /\ lidarIn \in Int /\ lidarOdomTime \in Int /\ corrected \in Int
    BY <1>1, MatchedIsInt DEF UnderWayInv
  <2>2. odomIn' = odomIn /\ lidarIn' = lidarIn /\ lidarOdomTime' = lidarOdomTime /\ corrected' = corrected
    BY <1>2 DEF preintVars, fusionVars
  <2>3. Matched(odomIn)' /\ Matched(lidarIn)' /\ Matched(lidarOdomTime)' /\ Matched(corrected)'
    BY <1>1, <1>8, <2>1, <2>2 DEF UnderWayInv, Matched
  <2>4. QED
    BY <1>1, <1>7, <2>2, <2>3 DEF UnderWayInv
<1>10. CorrectedInv' /\ PredictedInv' /\ FusionInv'
  BY <1>1, <1>2, <1>5 DEF CorrectedInv, PredictedInv, FusionInv, preintVars, fusionVars, PoppedTo,
                          Ahead, Rising
<1>11. FactorSpansKeys' /\ OdometrySpansGap' /\ FusedGoesOn'
  BY <1>1, <1>2 DEF FactorSpansKeys, OdometrySpansGap, FusedGoesOn, preintVars, fusionVars
<1>12. QED
  BY <1>6, <1>9, <1>10, <1>11 DEF OdometryInv

LEMMA MatchKeeps ==
  ASSUME OdometryInv, NEW c \in Scans, ScanMatched(c)
  PROVE  OdometryInv'
<1>1. /\ ImuInv /\ UnderWayInv /\ CorrectedInv /\ PredictedInv /\ FusionInv
      /\ FactorSpansKeys /\ OdometrySpansGap /\ FusedGoesOn
  BY DEF OdometryInv
<1>2. /\ c + ScanLag <= clock /\ c > corrected /\ odomIn' = c /\ lidarIn' = c
      /\ UNCHANGED <<started, clock, imuIn, fusionIn, preintVars, fusionVars>>
  BY DEF ScanMatched
<1>3. Matched(c)
  <2> DEFINE b == Behind * Period
  <2>1. b \in Int /\ b < ScanLag /\ ScanLag \in Int /\ c \in Int /\ clock \in Int
    BY <1>1 DEF ImuInv
  <2> HIDE DEF b
  <2>2. c + b < clock
    BY <1>2, <2>1
  <2>3. QED
    BY <2>2 DEF Matched, b
<1>4. UnderWayInv'
  BY <1>1, <1>2, <1>3 DEF UnderWayInv, Matched, Recent, preintVars, fusionVars
<1>5. ImuInv'
  BY <1>1, <1>2 DEF ImuInv, ImuQueue, Consecutive, Seen, preintVars
<1>6. CorrectedInv' /\ PredictedInv' /\ FusionInv'
  BY <1>1, <1>2 DEF CorrectedInv, PredictedInv, FusionInv, preintVars, fusionVars, PoppedTo,
                    Ahead, Rising, Seen
<1>7. FactorSpansKeys' /\ OdometrySpansGap' /\ FusedGoesOn'
  BY <1>1, <1>2 DEF FactorSpansKeys, OdometrySpansGap, FusedGoesOn, preintVars, fusionVars
<1>8. QED
  BY <1>4, <1>5, <1>6, <1>7 DEF OdometryInv

LEMMA LidarOdometryKeeps ==
  ASSUME OdometryInv, LidarOdometryHandler
  PROVE  OdometryInv'
<1>1. /\ ImuInv /\ UnderWayInv /\ CorrectedInv /\ PredictedInv /\ FusionInv
      /\ FactorSpansKeys /\ OdometrySpansGap /\ FusedGoesOn
  BY DEF OdometryInv
<1>2. /\ lidarIn' = Unset /\ lidarOdomTime' = lidarIn
      /\ UNCHANGED <<started, clock, imuIn, odomIn, fusionIn, preintVars, imuOdomQueue, fused, emptyFront>>
  BY DEF LidarOdometryHandler
<1>3. UnderWayInv'
  BY <1>1, <1>2 DEF UnderWayInv, Matched, Recent, preintVars
<1>4. ImuInv'
  BY <1>1, <1>2 DEF ImuInv, ImuQueue, Consecutive, Seen, preintVars
<1>5. CorrectedInv' /\ PredictedInv' /\ FusionInv'
  BY <1>1, <1>2 DEF CorrectedInv, PredictedInv, FusionInv, preintVars, PoppedTo, Ahead, Rising, Seen
<1>6. FactorSpansKeys' /\ OdometrySpansGap' /\ FusedGoesOn'
  BY <1>1, <1>2 DEF FactorSpansKeys, OdometrySpansGap, FusedGoesOn, preintVars
<1>7. QED
  BY <1>3, <1>4, <1>5, <1>6 DEF OdometryInv

LEMMA RestRises ==
  ASSUME NEW q, Rising(q), NEW c \in Int, \E i \in 1 .. Len(q) : q[i] >= c
  PROVE  /\ Rising(NotOlder(q, c)) /\ NotOlder(q, c) # <<>>
         /\ NotOlder(q, c)[1] >= c
         /\ \A i \in 1 .. Len(NotOlder(q, c)) : \E k \in 1 .. Len(q) : NotOlder(q, c)[i] = q[k]
<1>1. q \in Seq(Int) /\ Len(q) \in Nat /\ \A i \in 1 .. Len(q) : q[i] \in Int
  BY DEF Rising
<1>2. PICK n \in 0 .. Len(q) - 1 : n = Leading(q, c) /\ q[n + 1] >= c
  BY <1>1, LeadingFound
<1> DEFINE m == n + 1
           l == Len(q)
           new == SubSeq(q, m, l)
<1>3. m \in Int /\ l \in Int /\ (\A i \in m .. l : q[i] \in Int) /\ m <= l /\ m >= 1 /\ q[m] >= c
  BY <1>1, <1>2
<1>4. new = NotOlder(q, c)
  BY <1>2 DEF NotOlder
<1> HIDE DEF m, l, new
<1>5. new \in Seq(Int) /\ Len(new) = l - m + 1 /\ \A i \in 1 .. l - m + 1 : new[i] = q[m + i - 1]
  <2>1. /\ SubSeq(q, m, l) \in Seq(Int) /\ Len(SubSeq(q, m, l)) = (IF m <= l THEN l - m + 1 ELSE 0)
        /\ \A i \in 1 .. l - m + 1 : SubSeq(q, m, l)[i] = q[m + i - 1]
    BY <1>3, SubSeqProperties
  <2>2. QED
    BY <2>1, <1>3 DEF new
<1>6. \A i \in 1 .. Len(new) : m + i - 1 \in 1 .. l
  BY <1>3, <1>5, SMTT(30)
<1>7. Rising(new)
  <2>1. ASSUME NEW i \in 1 .. Len(new), NEW j \in 1 .. Len(new), i < j PROVE new[i] < new[j]
    <3>1. m + i - 1 < m + j - 1 /\ new[i] = q[m + i - 1] /\ new[j] = q[m + j - 1]
      BY <1>3, <1>5, <2>1
    <3>2. QED
      BY <3>1, <1>6 DEF Rising, l
  <2>2. QED
    BY <1>5, <2>1 DEF Rising
<1>8. new # <<>> /\ new[1] >= c
  <2>1. Len(new) # 0 /\ 1 \in 1 .. l - m + 1 /\ m + 1 - 1 = m
    BY <1>3, <1>5
  <2>2. QED
    BY <1>3, <1>5, <2>1
<1>9. \A i \in 1 .. Len(new) : \E k \in 1 .. Len(q) : new[i] = q[k]
  BY <1>5, <1>6 DEF l
<1>10. QED
  BY <1>4, <1>7, <1>8, <1>9

LEMMA RisingGrows ==
  ASSUME NEW q, Rising(q), NEW t \in Int, \A i \in 1 .. Len(q) : q[i] < t
  PROVE  /\ Rising(Append(q, t)) /\ Len(Append(q, t)) = Len(q) + 1
         /\ Append(q, t)[Len(q) + 1] = t
         /\ \A i \in 1 .. Len(Append(q, t)) : i \in 1 .. Len(q) \/ i = Len(q) + 1
         /\ \A i \in 1 .. Len(q) : Append(q, t)[i] = q[i]
<1> DEFINE new == Append(q, t)
           n == Len(q)
<1>1. n \in Nat /\ q \in Seq(Int)
  BY DEF Rising
<1>2. /\ new \in Seq(Int) /\ Len(new) = n + 1
      /\ (\A i \in 1 .. n : new[i] = q[i]) /\ new[n + 1] = t
  BY <1>1, AppendProperties
<1> HIDE DEF new, n
<1>3. \A i \in 1 .. n + 1 : i \in 1 .. n \/ i = n + 1
  BY <1>1
<1>4. ASSUME NEW i \in 1 .. n + 1, NEW j \in 1 .. n + 1, i < j PROVE new[i] < new[j]
  <2>1. i \in 1 .. n /\ (j \in 1 .. n \/ j = n + 1)
    BY <1>1, <1>4
  <2>2. QED
    BY <1>2, <1>4, <2>1 DEF Rising, n
<1>5. QED
  BY <1>2, <1>3, <1>4 DEF Rising, new, n

LEMMA RisingShrinks ==
  ASSUME NEW q, Rising(q), q # <<>>
  PROVE  /\ Rising(Tail(q)) /\ Head(q) = q[1] /\ q[1] \in Int /\ 1 \in 1 .. Len(q)
         /\ \A i \in 1 .. Len(Tail(q)) : /\ i + 1 \in 1 .. Len(q) /\ Tail(q)[i] = q[i + 1]
                                         /\ q[1] < Tail(q)[i]
<1> DEFINE new == Tail(q)
           n == Len(q)
<1>1. q \in Seq(Int) /\ n \in Nat /\ n # 0 /\ \A i \in 1 .. n : q[i] \in Int
  BY DEF Rising
<1>2. new \in Seq(Int) /\ Len(new) = n - 1 /\ \A i \in 1 .. n - 1 : new[i] = q[i + 1]
  <2>1. /\ Tail(q) \in Seq(Int) /\ Len(Tail(q)) = Len(q) - 1
        /\ \A i \in 1 .. Len(Tail(q)) : Tail(q)[i] = q[i + 1]
    <3>1. q \in Seq(Int)
      BY <1>1
    <3>2. QED
      BY <3>1, HeadTailProperties
  <2>2. QED
    BY <2>1
<1> HIDE DEF new
<1>3. Head(q) = q[1]
  BY <1>1
<1> HIDE DEF n
<1>4. 1 \in 1 .. n /\ \A i \in 1 .. n - 1 : i + 1 \in 1 .. n
  BY <1>1
<1>5. ASSUME NEW i \in 1 .. n - 1, NEW j \in 1 .. n - 1, i < j PROVE new[i] < new[j]
  <2>1. i + 1 < j + 1 /\ i + 1 \in 1 .. n /\ j + 1 \in 1 .. n
    BY <1>1, <1>4, <1>5
  <2>2. QED
    BY <1>2, <2>1 DEF Rising, n
<1>6. ASSUME NEW i \in 1 .. n - 1 PROVE q[1] < new[i]
  <2>1. 1 < i + 1 /\ i + 1 \in 1 .. n
    BY <1>1, <1>4
  <2>2. QED
    BY <1>2, <1>4, <2>1 DEF Rising, n
<1>7. QED
  BY <1>1, <1>2, <1>3, <1>4, <1>5, <1>6 DEF Rising, new, n

LEMMA ImuOdometryKeeps ==
  ASSUME OdometryInv, ImuOdometryHandler
  PROVE  OdometryInv'
<1>1. /\ ImuInv /\ UnderWayInv /\ CorrectedInv /\ PredictedInv /\ FusionInv
      /\ FactorSpansKeys /\ OdometrySpansGap /\ FusedGoesOn
  BY DEF OdometryInv
<1> DEFINE queue == Append(imuOdomQueue, Head(fusionIn))
<1>2. /\ fusionIn # <<>> /\ fusionIn' = Tail(fusionIn)
      /\ UNCHANGED <<started, clock, imuIn, odomIn, lidarIn, preintVars, lidarOdomTime>>
      /\ \/ lidarOdomTime = -1 /\ imuOdomQueue' = queue /\ UNCHANGED <<fused, emptyFront>>
         \/ /\ lidarOdomTime # -1 /\ imuOdomQueue' = NotOlder(queue, lidarOdomTime + 1)
            /\ IF imuOdomQueue' = <<>>
               THEN emptyFront' = TRUE /\ UNCHANGED fused
               ELSE /\ fused' = [base |-> lidarOdomTime, front |-> imuOdomQueue'[1],
                                 back |-> imuOdomQueue'[Len(imuOdomQueue')]]
                    /\ UNCHANGED emptyFront
  BY DEF ImuOdometryHandler, Since, Last
<1> DEFINE t == fusionIn[1]
<1>3. /\ t \in Int /\ Head(fusionIn) = t /\ Rising(fusionIn') /\ 1 \in 1 .. Len(fusionIn)
      /\ \A i \in 1 .. Len(fusionIn') : /\ i + 1 \in 1 .. Len(fusionIn)
                                        /\ fusionIn'[i] = fusionIn[i + 1] /\ t < fusionIn'[i]
  BY <1>1, <1>2, RisingShrinks DEF FusionInv
<1>4. \A i \in 1 .. Len(imuOdomQueue) : imuOdomQueue[i] < t
  BY <1>1, <1>3 DEF FusionInv
<1>5. /\ Rising(queue) /\ Len(queue) = Len(imuOdomQueue) + 1 /\ queue[Len(imuOdomQueue) + 1] = t
      /\ \A i \in 1 .. Len(queue) : i \in 1 .. Len(imuOdomQueue) \/ i = Len(imuOdomQueue) + 1
      /\ \A i \in 1 .. Len(imuOdomQueue) : queue[i] = imuOdomQueue[i]
  <2>1. Rising(imuOdomQueue)
    BY <1>1 DEF FusionInv
  <2> HIDE DEF t
  <2>2. queue = Append(imuOdomQueue, t)
    BY <1>3
  <2>3. t \in Int /\ \A i \in 1 .. Len(imuOdomQueue) : imuOdomQueue[i] < t
    BY <1>3, <1>4
  <2> DEFINE new == Append(imuOdomQueue, t)
  <2>4. /\ Rising(new) /\ Len(new) = Len(imuOdomQueue) + 1 /\ new[Len(imuOdomQueue) + 1] = t
        /\ \A i \in 1 .. Len(new) : i \in 1 .. Len(imuOdomQueue) \/ i = Len(imuOdomQueue) + 1
        /\ \A i \in 1 .. Len(imuOdomQueue) : new[i] = imuOdomQueue[i]
    BY <2>1, <2>3, RisingGrows
  <2> HIDE DEF queue, new
  <2>5. queue = new
    BY <2>2 DEF new
  <2>6. QED
    BY <2>4, <2>5
<1> HIDE DEF queue
<1>6. \A k \in 1 .. Len(queue) : queue[k] <= t /\ queue[k] <= Seen /\ queue[k] \in Int
  <2>1. t <= Seen /\ Seen \in Int
    BY <1>1, <1>3, SeenIsInt DEF FusionInv
  <2>2. \A i \in 1 .. Len(imuOdomQueue) : imuOdomQueue[i] \in Int /\ imuOdomQueue[i] <= Seen
    BY <1>1 DEF FusionInv, Rising
  <2> HIDE DEF t
  <2>3. QED
    BY <1>3, <1>4, <1>5, <2>1, <2>2
<1>7. lidarOdomTime # -1 => lidarOdomTime \in Int /\ t >= lidarOdomTime + 1
  <2> SUFFICES ASSUME lidarOdomTime # -1 PROVE lidarOdomTime \in Int /\ t >= lidarOdomTime + 1
    OBVIOUS
  <2>1. lidarOdomTime \in Scans /\ lidarOdomTime + Behind * Period < clock
    BY <1>1 DEF UnderWayInv, Matched, Unset
  <2>2. clock - t + Period <= Behind * Period
    BY <1>1, <1>3 DEF UnderWayInv, Recent
  <2> DEFINE b == Behind * Period
  <2>3. /\ b \in Int /\ clock - t + Period <= b /\ lidarOdomTime + b < clock /\ lidarOdomTime \in Int
        /\ clock \in Int /\ Period \in Nat
    BY <1>1, <2>1, <2>2 DEF ImuInv
  <2> HIDE DEF b, t
  <2>4. QED
    BY <1>3, <2>3
<1> HIDE DEF t
<1>8. lidarOdomTime # -1 =>
        /\ Rising(imuOdomQueue') /\ imuOdomQueue' # <<>> /\ imuOdomQueue'[1] >= lidarOdomTime + 1
        /\ \A i \in 1 .. Len(imuOdomQueue') :
             \E k \in 1 .. Len(queue) : imuOdomQueue'[i] = queue[k]
  <2> SUFFICES ASSUME lidarOdomTime # -1
               PROVE  /\ Rising(imuOdomQueue') /\ imuOdomQueue' # <<>>
                      /\ imuOdomQueue'[1] >= lidarOdomTime + 1
                      /\ \A i \in 1 .. Len(imuOdomQueue') :
                           \E k \in 1 .. Len(queue) : imuOdomQueue'[i] = queue[k]
    OBVIOUS
  <2> DEFINE c == lidarOdomTime + 1
  <2>1. Len(imuOdomQueue) + 1 \in 1 .. Len(queue)
    BY <1>1, <1>5 DEF FusionInv, Rising
  <2>2. c \in Int /\ \E i \in 1 .. Len(queue) : queue[i] >= c
    BY <1>5, <1>7, <2>1
  <2>3. imuOdomQueue' = NotOlder(queue, c)
    BY <1>2
  <2> HIDE DEF c
  <2>4. /\ Rising(NotOlder(queue, c)) /\ NotOlder(queue, c) # <<>>
        /\ NotOlder(queue, c)[1] >= c
        /\ \A i \in 1 .. Len(NotOlder(queue, c)) : \E k \in 1 .. Len(queue) : NotOlder(queue, c)[i] = queue[k]
    BY <1>5, <2>2, RestRises
  <2>5. QED
    BY <2>3, <2>4 DEF c
<1>9. /\ Rising(imuOdomQueue')
      /\ \A i \in 1 .. Len(imuOdomQueue') : \E k \in 1 .. Len(queue) : imuOdomQueue'[i] = queue[k]
  BY <1>2, <1>5, <1>8
<1>10. Seen' = Seen
  BY <1>2 DEF Seen
<1>11. FusionInv'
  <2>1. ASSUME NEW i \in 1 .. Len(imuOdomQueue')
        PROVE  imuOdomQueue'[i] <= t /\ imuOdomQueue'[i] <= Seen /\ imuOdomQueue'[i] \in Int
    BY <1>6, <1>9
  <2>2. ASSUME NEW j \in 1 .. Len(fusionIn')
        PROVE  t < fusionIn'[j] /\ fusionIn'[j] <= Seen /\ fusionIn'[j] \in Int
    <3>1. j + 1 \in 1 .. Len(fusionIn) /\ fusionIn'[j] = fusionIn[j + 1] /\ t < fusionIn'[j]
      BY <1>3
    <3>2. fusionIn[j + 1] <= Seen /\ fusionIn[j + 1] \in Int
      BY <1>1, <3>1 DEF FusionInv, Rising
    <3>3. QED
      BY <3>1, <3>2
  <2>3. ASSUME NEW i \in 1 .. Len(imuOdomQueue'), NEW j \in 1 .. Len(fusionIn')
        PROVE  imuOdomQueue'[i] < fusionIn'[j]
    BY <1>3, <2>1, <2>2
  <2>4. QED
    BY <1>3, <1>9, <1>10, <2>1, <2>2, <2>3 DEF FusionInv
<1>12. UnderWayInv'
  <2>1. Recent(fusionIn)'
    BY <1>1, <1>2, <1>3 DEF UnderWayInv, Recent
  <2>2. QED
    BY <1>1, <1>2, <2>1 DEF UnderWayInv, Matched, Recent, preintVars
<1>13. ImuInv'
  BY <1>1, <1>2 DEF ImuInv, ImuQueue, Consecutive, Seen, preintVars
<1>14. CorrectedInv' /\ PredictedInv'
  BY <1>1, <1>2 DEF CorrectedInv, PredictedInv, preintVars, PoppedTo, Ahead, Seen
<1>15. FactorSpansKeys' /\ OdometrySpansGap'
  BY <1>1, <1>2 DEF FactorSpansKeys, OdometrySpansGap, preintVars
<1>16. FusedGoesOn'
  <2>1. CASE lidarOdomTime = -1
    BY <1>1, <1>2, <2>1 DEF FusedGoesOn
  <2>2. CASE lidarOdomTime # -1
    <3> DEFINE n == Len(imuOdomQueue')
    <3>1. n \in Nat /\ n # 0 /\ \A i, j \in 1 .. n : i < j => imuOdomQueue'[i] < imuOdomQueue'[j]
      BY <1>8, <2>2 DEF Rising
    <3>2. \A i \in 1 .. n : imuOdomQueue'[i] \in Int
      BY <1>6, <1>9
    <3>3. fused' = [base |-> lidarOdomTime, front |-> imuOdomQueue'[1], back |-> imuOdomQueue'[n]]
          /\ UNCHANGED emptyFront
      BY <1>2, <1>8, <2>2
    <3> HIDE DEF n
    <3>4. 1 \in 1 .. n /\ n \in 1 .. n /\ (n = 1 \/ 1 < n)
      BY <3>1
    <3>5. imuOdomQueue'[1] <= imuOdomQueue'[n]
      BY <3>1, <3>2, <3>4
    <3>6. lidarOdomTime < imuOdomQueue'[1]
      BY <1>7, <1>8, <2>2, <3>2, <3>4
    <3>7. QED
      BY <1>1, <3>3, <3>5, <3>6 DEF FusedGoesOn
  <2>3. QED
    BY <2>1, <2>2
<1>17. QED
  BY <1>11, <1>12, <1>13, <1>14, <1>15, <1>16 DEF OdometryInv

LEMMA SeenPast ==
  ASSUME ImuInv, NEW q, ImuQueue(q), q # <<>>
  PROVE  started + Period <= Seen /\ q[1] <= Seen /\ q[1] \in Int /\ q[1] >= started + Period
<1> DEFINE n == Len(q)
<1>1. n \in Nat /\ n # 0 /\ q[n] = Seen /\ \A i \in 1 .. n : q[i] \in Int
  BY DEF ImuQueue, Consecutive
<1> HIDE DEF n
<1>2. 1 \in 1 .. n /\ n \in 1 .. n /\ (n = 1 \/ 1 < n)
  BY <1>1
<1>3. 1 < n => q[1] + Period <= q[n]
  BY <1>2 DEF ImuQueue, Consecutive, n
<1>4. q[1] >= started + Period
  BY DEF ImuQueue
<1>5. Seen \in Int /\ started \in Int /\ Period \in Nat
  BY SeenIsInt
<1>6. QED
  BY <1>1, <1>2, <1>3, <1>4, <1>5

\* A correction later than the last leaves the queue of what is not older.
LEMMA PopQueue ==
  ASSUME ImuInv, NEW q, ImuQueue(q), q # <<>>, NEW b \in Int, PoppedTo(q, b),
         NEW c \in Int, b < c, c < Seen
  PROVE  /\ ImuQueue(NotOlder(q, c)) /\ NotOlder(q, c) # <<>> /\ PoppedTo(NotOlder(q, c), c)
         /\ \/ OlderThan(q, c) = <<>> /\ NotOlder(q, c) = q
            \/ /\ OlderThan(q, c) # <<>> /\ OlderThan(q, c)[1] = q[1]
               /\ OlderThan(q, c)[Len(OlderThan(q, c))] = NotOlder(q, c)[1] - Period
               /\ NotOlder(q, c)[1] - Period < c /\ NotOlder(q, c)[1] > started + Period
<1>1. Seen \in Int /\ started \in Int /\ Consecutive(q, Seen) /\ Period \in Nat \ {0}
  BY SeenIsInt DEF ImuQueue
<1>2. q[1] \in Int /\ q[1] >= started + Period
  BY SeenPast
<1>3. c <= Seen
  BY <1>1
<1>4. \/ OlderThan(q, c) = <<>> /\ NotOlder(q, c) = q /\ c <= q[1]
      \/ /\ OlderThan(q, c) # <<>> /\ OlderThan(q, c)[1] = q[1]
         /\ NotOlder(q, c) # <<>> /\ Consecutive(NotOlder(q, c), Seen)
         /\ OlderThan(q, c)[Len(OlderThan(q, c))] = NotOlder(q, c)[1] - Period
         /\ NotOlder(q, c)[1] - Period < c /\ c <= NotOlder(q, c)[1]
         /\ q[1] + Period <= NotOlder(q, c)[1]
  BY <1>1, <1>3, CutQueue
<1>5. CASE OlderThan(q, c) = <<>> /\ NotOlder(q, c) = q /\ c <= q[1]
  <2>1. PoppedTo(q, c)
    BY <1>1, <1>2, <1>5 DEF PoppedTo
  <2>2. QED
    BY <1>5, <2>1
<1>6. CASE /\ OlderThan(q, c) # <<>> /\ OlderThan(q, c)[1] = q[1]
           /\ NotOlder(q, c) # <<>> /\ Consecutive(NotOlder(q, c), Seen)
           /\ OlderThan(q, c)[Len(OlderThan(q, c))] = NotOlder(q, c)[1] - Period
           /\ NotOlder(q, c)[1] - Period < c /\ c <= NotOlder(q, c)[1]
           /\ q[1] + Period <= NotOlder(q, c)[1]
  <2> DEFINE new == NotOlder(q, c)
  <2>1. new \in Seq(Int) /\ new # <<>>
    BY <1>6 DEF Consecutive
  <2> HIDE DEF new
  <2>2. new[1] \in Int
    BY <2>1
  <2>3. /\ Consecutive(new, Seen) /\ new[1] - Period < c /\ c <= new[1]
        /\ q[1] + Period <= new[1]
    BY <1>6 DEF new
  <2>4. new[1] > started + Period /\ new[1] >= started + Period
    BY <1>1, <1>2, <2>2, <2>3
  <2>5. PoppedTo(new, c)
    BY <1>1, <2>2, <2>3 DEF PoppedTo
  <2>6. ImuQueue(new)
    BY <2>1, <2>3, <2>4 DEF ImuQueue
  <2>7. QED
    BY <1>6, <2>1, <2>4, <2>5, <2>6 DEF new
<1>7. QED
  BY <1>4, <1>5, <1>6

\* Both queues grow by the next message.
LEMMA ImuQueueGrows ==
  ASSUME ImuInv, NEW q, ImuQueue(q), NEW b \in Int, b <= -1 \/ q # <<>>,
         q # <<>> => PoppedTo(q, b)
  PROVE  LET t == Seen + Period
             new == Append(q, t)
         IN /\ Consecutive(new, t) /\ new # <<>> /\ new[1] >= started + Period
            /\ PoppedTo(new, b)
            /\ IF q = <<>> THEN new[1] = started + Period ELSE new[1] = q[1]
<1> DEFINE t == Seen + Period
           new == Append(q, t)
<1>1. /\ Seen \in Int /\ started \in Nat /\ Consecutive(q, Seen) /\ Period \in Nat \ {0}
  BY SeenIsInt DEF ImuQueue, ImuInv
<1>2. Consecutive(new, t) /\ new # <<>> /\ new[1] = IF q = <<>> THEN t ELSE q[1]
  BY <1>1, QueueGrows
<1> HIDE DEF new
<1>3. CASE q = <<>>
  <2>1. Seen = started /\ new[1] = t
    BY <1>2, <1>3 DEF ImuQueue
  <2>2. new[1] = started + Period
    BY <2>1
  <2>3. PoppedTo(new, b)
    BY <1>1, <1>3, <2>2 DEF PoppedTo
  <2>4. new[1] >= started + Period
    BY <1>1, <2>2
  <2>5. QED
    BY <1>2, <1>3, <2>2, <2>3, <2>4 DEF new
<1>4. CASE q # <<>>
  <2>1. new[1] = q[1] /\ q[1] >= started + Period
    BY <1>2, <1>4, SeenPast
  <2>2. PoppedTo(new, b)
    BY <1>4, <2>1 DEF PoppedTo
  <2>3. QED
    BY <1>2, <1>4, <2>1, <2>2 DEF new
<1>5. QED
  BY <1>3, <1>4

LEMMA ImuKeeps ==
  ASSUME OdometryInv, ImuHandler
  PROVE  OdometryInv'
<1> DEFINE t == Seen + Period
<1>1. /\ ImuInv /\ UnderWayInv /\ CorrectedInv /\ PredictedInv /\ FusionInv
      /\ FactorSpansKeys /\ OdometrySpansGap /\ FusedGoesOn
  BY DEF OdometryInv
<1>2. /\ Seen \in Int /\ clock \in Int /\ started \in Nat /\ Period \in Nat \ {0} /\ started <= Seen
      /\ Consecutive(imuIn, clock)
  BY <1>1, SeenIsInt DEF ImuInv
<1>3. /\ imuIn # <<>> /\ Head(imuIn) = imuIn[1] /\ imuIn[1] \in Int /\ Consecutive(Tail(imuIn), clock)
      /\ Tail(imuIn) = <<>> => imuIn[1] = clock
      /\ Tail(imuIn) # <<>> => Tail(imuIn)[1] = imuIn[1] + Period
  <2>1. imuIn # <<>>
    BY DEF ImuHandler
  <2>2. QED
    BY <1>2, <2>1, QueueShrinks
<1>4. t = imuIn[1]
  BY <1>2, <1>3 DEF Seen
<1>5. /\ imuIn' = Tail(imuIn) /\ imuQueOpt' = Append(imuQueOpt, t) /\ imuQueImu' = Append(imuQueImu, t)
      /\ IF doneFirstOpt
         THEN /\ integImu' = integImu + Integrated(<<t>>, lastImuTImu)
              /\ lastImuTImu' = t
              /\ published' = [stamp |-> t, base |-> prevOdom, time |-> integImu']
              /\ fusionIn' = Append(fusionIn, t)
         ELSE UNCHANGED <<integImu, lastImuTImu, published, fusionIn>>
      /\ UNCHANGED <<started, clock, odomIn, lidarIn, integOpt, lastImuTOpt,
                     initialized, doneFirstOpt, key, corrected, prevOdom, factor, fusionVars>>
  BY <1>3, <1>4 DEF ImuHandler
<1>6. Seen' = t
  <2>1. CASE Tail(imuIn) = <<>>
    BY <1>3, <1>4, <1>5, <2>1 DEF Seen
  <2>2. CASE Tail(imuIn) # <<>>
    <3>1. Seen' = Tail(imuIn)[1] - Period
      BY <1>5, <2>2 DEF Seen
    <3>2. QED
      BY <1>2, <1>3, <1>4, <2>2, <3>1
  <2>3. QED
    BY <2>1, <2>2
<1>7. t \in Int /\ Seen < t /\ started < t
  BY <1>2
<1>8. /\ corrected \in Int /\ prevOdom \in Int /\ prevOdom <= corrected
      /\ imuQueOpt # <<>> => PoppedTo(imuQueOpt, corrected)
      /\ imuQueImu # <<>> => PoppedTo(imuQueImu, prevOdom)
      /\ imuQueOpt = <<>> => corrected = -1 /\ lastImuTOpt = -1
  <2>1. Scans \cup {Unset} \subseteq Int
    BY DEF Unset
  <2>2. QED
    BY <1>1, <2>1, MatchedIsInt DEF UnderWayInv, CorrectedInv, PredictedInv, Unset
<1>9. imuQueImu = <<>> => prevOdom <= -1
  <2> SUFFICES ASSUME imuQueImu = <<>> PROVE prevOdom <= -1
    OBVIOUS
  <2>1. Seen = started
    BY <1>1 DEF ImuInv, ImuQueue
  <2>2. imuQueOpt = <<>>
    <3>1. SUFFICES ASSUME imuQueOpt # <<>> PROVE FALSE
      OBVIOUS
    <3>2. started + Period <= Seen
      BY <1>1, <3>1, SeenPast DEF ImuInv
    <3>3. QED
      BY <1>2, <2>1, <3>2
  <2>3. QED
    BY <1>8, <2>2
<1>10. /\ Consecutive(imuQueOpt', t) /\ imuQueOpt' # <<>> /\ imuQueOpt'[1] >= started + Period
       /\ PoppedTo(imuQueOpt', corrected)
       /\ IF imuQueOpt = <<>> THEN imuQueOpt'[1] = started + Period ELSE imuQueOpt'[1] = imuQueOpt[1]
  <2>1. corrected <= -1 \/ imuQueOpt # <<>>
    BY <1>8
  <2>2. ImuQueue(imuQueOpt)
    BY <1>1 DEF ImuInv
  <2>3. QED
    BY <1>1, <1>5, <1>8, <2>1, <2>2, ImuQueueGrows
<1>11. /\ Consecutive(imuQueImu', t) /\ imuQueImu' # <<>> /\ imuQueImu'[1] >= started + Period
       /\ PoppedTo(imuQueImu', prevOdom)
  <2>1. prevOdom <= -1 \/ imuQueImu # <<>>
    BY <1>9
  <2>2. ImuQueue(imuQueImu)
    BY <1>1 DEF ImuInv
  <2>3. QED
    BY <1>1, <1>5, <1>8, <2>1, <2>2, ImuQueueGrows
<1> HIDE DEF t
<1>12. ImuInv'
  <2>1. ImuQueue(imuQueOpt)'
    BY <1>5, <1>6, <1>10 DEF ImuQueue, Consecutive
  <2>2. ImuQueue(imuQueImu)'
    BY <1>5, <1>6, <1>11 DEF ImuQueue, Consecutive
  <2>3. imuIn' # <<>> => imuIn'[1] > started'
    <3>1. Tail(imuIn) # <<>> => Tail(imuIn)[1] > started
      BY <1>2, <1>3, <1>4, <1>7
    <3>2. QED
      BY <1>5, <3>1
  <2>4. Consecutive(imuIn, clock)'
    BY <1>3, <1>5 DEF Consecutive
  <2>5. started' <= Seen' /\ started' \in Nat /\ clock' \in Nat
    BY <1>1, <1>2, <1>5, <1>6, <1>7 DEF ImuInv
  <2>6. QED
    BY <2>1, <2>2, <2>3, <2>4, <2>5 DEF ImuInv
<1>13. clock - t + Period <= Behind * Period
  <2>1. 1 \in 1 .. Len(imuIn)
    <3>1. imuIn \in Seq(Int)
      BY <1>2 DEF Consecutive
    <3>2. QED
      BY <1>3, <3>1
  <2>2. QED
    BY <1>1, <1>4, <2>1 DEF UnderWayInv, Recent
<1>14. /\ Rising(fusionIn) /\ Rising(imuOdomQueue) /\ Len(fusionIn) \in Nat
       /\ \A i \in 1 .. Len(fusionIn) : fusionIn[i] <= Seen /\ fusionIn[i] < t
       /\ \A i \in 1 .. Len(imuOdomQueue) : imuOdomQueue[i] <= Seen /\ imuOdomQueue[i] < t
  <2>1. /\ \A i \in 1 .. Len(fusionIn) : fusionIn[i] <= Seen /\ fusionIn[i] \in Int
        /\ \A i \in 1 .. Len(imuOdomQueue) : imuOdomQueue[i] <= Seen /\ imuOdomQueue[i] \in Int
    BY <1>1 DEF FusionInv, Rising
  <2>2. QED
    BY <1>1, <1>2, <1>7, <2>1 DEF FusionInv, Rising
<1>15. /\ Rising(fusionIn')
       /\ \A i \in 1 .. Len(fusionIn') : \/ i \in 1 .. Len(fusionIn) /\ fusionIn'[i] = fusionIn[i]
                                         \/ fusionIn'[i] = t
  <2>1. CASE doneFirstOpt
    <3>1. \A i \in 1 .. Len(fusionIn) : fusionIn[i] < t
      BY <1>14
    <3>2. /\ Rising(Append(fusionIn, t)) /\ Append(fusionIn, t)[Len(fusionIn) + 1] = t
          /\ \A i \in 1 .. Len(Append(fusionIn, t)) : i \in 1 .. Len(fusionIn) \/ i = Len(fusionIn) + 1
          /\ \A i \in 1 .. Len(fusionIn) : Append(fusionIn, t)[i] = fusionIn[i]
      BY <1>7, <1>14, <3>1, RisingGrows
    <3>3. fusionIn' = Append(fusionIn, t)
      BY <1>5, <2>1
    <3>4. QED
      BY <3>2, <3>3
  <2>2. CASE ~doneFirstOpt
    BY <1>5, <1>14, <2>2
  <2>3. QED
    BY <2>1, <2>2
<1>16. UnderWayInv'
  <2>1. Recent(imuIn)'
    <3>1. ASSUME NEW i \in 1 .. Len(Tail(imuIn))
          PROVE  clock - Tail(imuIn)[i] + Period <= Behind * Period
      <4>1. imuIn \in Seq(Int)
        BY <1>2 DEF Consecutive
      <4>2. /\ Tail(imuIn) \in Seq(Int) /\ Len(Tail(imuIn)) = Len(imuIn) - 1 /\ Len(imuIn) \in Nat
            /\ Tail(imuIn)[i] = imuIn[i + 1]
        BY <1>3, <4>1, HeadTailProperties
      <4>3. i + 1 \in 1 .. Len(imuIn)
        BY <4>2
      <4>4. QED
        BY <1>1, <4>2, <4>3 DEF UnderWayInv, Recent
    <3>2. QED
      BY <1>5, <3>1 DEF Recent
  <2>2. Recent(fusionIn)'
    BY <1>1, <1>5, <1>13, <1>15 DEF UnderWayInv, Recent
  <2>3. QED
    BY <1>1, <1>5, <2>1, <2>2 DEF UnderWayInv, Matched, fusionVars
<1>17. CorrectedInv'
  <2>1. lastImuTOpt = IF imuQueOpt'[1] = started + Period THEN -1 ELSE imuQueOpt'[1] - Period
    BY <1>1, <1>8, <1>10 DEF CorrectedInv
  <2>2. QED
    BY <1>1, <1>5, <1>10, <2>1 DEF CorrectedInv, PoppedTo
<1>18. /\ integImu \in Int /\ lastImuTImu \in Int /\ (lastImuTImu = -1 \/ lastImuTImu = Seen)
       /\ doneFirstOpt /\ prevOdom >= started + Period =>
            /\ -Period <= Ahead /\ Ahead <= Period /\ (lastImuTImu = -1 => 0 <= Ahead)
  BY <1>1, <1>2 DEF PredictedInv
<1>19. doneFirstOpt =>
         /\ integImu' \in Int /\ lastImuTImu' = t
         /\ prevOdom >= started + Period =>
              -Period <= integImu' - (t - prevOdom) /\ integImu' - (t - prevOdom) <= Period
  <2> SUFFICES ASSUME doneFirstOpt
               PROVE  /\ integImu' \in Int /\ lastImuTImu' = t
                      /\ prevOdom >= started + Period =>
                           /\ -Period <= integImu' - (t - prevOdom)
                           /\ integImu' - (t - prevOdom) <= Period
    OBVIOUS
  <2>1. integImu' = integImu + (IF lastImuTImu < 0 THEN DefaultDt ELSE t - lastImuTImu)
    <3>1. <<t>> # <<>> /\ <<t>>[1] = t /\ <<t>>[Len(<<t>>)] = t
      OBVIOUS
    <3>2. Integrated(<<t>>, lastImuTImu)
            = (IF lastImuTImu < 0 THEN DefaultDt ELSE t - lastImuTImu) + t - t
      BY <3>1 DEF Integrated, Last
    <3>3. (IF lastImuTImu < 0 THEN DefaultDt ELSE t - lastImuTImu) \in Int
      BY <1>7, <1>18
    <3>4. QED
      BY <1>5, <1>7, <1>18, <3>2, <3>3
  <2>2. DefaultDt \in 0 .. Period
    OBVIOUS
  <2>3. t = Seen + Period
    BY DEF t
  <2>4. CASE lastImuTImu = -1
    <3>1. integImu' = integImu + DefaultDt
      BY <2>1, <2>4
    <3>2. QED
      BY <1>2, <1>5, <1>7, <1>8, <1>18, <2>2, <2>3, <2>4, <3>1 DEF Ahead
  <2>5. CASE lastImuTImu # -1
    <3>1. lastImuTImu = Seen /\ ~(lastImuTImu < 0)
      BY <1>2, <1>18, <2>5
    <3>2. integImu' = integImu + Period
      BY <1>2, <2>1, <2>3, <3>1
    <3>3. QED
      BY <1>2, <1>5, <1>7, <1>8, <1>18, <2>3, <3>2 DEF Ahead
  <2>6. QED
    BY <2>4, <2>5
<1>20. PredictedInv'
  <2>1. CASE doneFirstOpt
    <3>1. t # -1
      BY <1>2, <1>7
    <3>2. QED
      BY <1>1, <1>5, <1>6, <1>11, <1>19, <2>1, <3>1 DEF PredictedInv, PoppedTo, Ahead
  <2>2. CASE ~doneFirstOpt
    BY <1>1, <1>5, <1>11, <2>2 DEF PredictedInv, PoppedTo
  <2>3. QED
    BY <2>1, <2>2
<1>21. FusionInv'
  <2>1. imuOdomQueue' = imuOdomQueue
    BY <1>5 DEF fusionVars
  <2>2. ASSUME NEW i \in 1 .. Len(imuOdomQueue), NEW j \in 1 .. Len(fusionIn')
        PROVE  imuOdomQueue[i] < fusionIn'[j]
    BY <1>1, <1>14, <1>15 DEF FusionInv
  <2>3. \A i \in 1 .. Len(fusionIn') : fusionIn'[i] <= t
    <3>1. \A i \in 1 .. Len(fusionIn) : fusionIn[i] \in Int
      BY <1>14 DEF Rising
    <3>2. QED
      BY <1>7, <1>14, <1>15, <3>1
  <2>4. \A i \in 1 .. Len(imuOdomQueue) : imuOdomQueue[i] <= t
    <3>1. \A i \in 1 .. Len(imuOdomQueue) : imuOdomQueue[i] \in Int
      BY <1>14 DEF Rising
    <3>2. QED
      BY <1>7, <1>14, <3>1
  <2>5. QED
    BY <1>6, <1>14, <1>15, <2>1, <2>2, <2>3, <2>4 DEF FusionInv, Rising
<1>22. OdometrySpansGap'
  <2>1. CASE doneFirstOpt
    <3>1. published' = [stamp |-> t, base |-> prevOdom, time |-> integImu'] /\ started' = started
      BY <1>5, <2>1
    <3>2. prevOdom >= started + Period => Within(integImu', t - prevOdom)
      BY <1>2, <1>7, <1>8, <1>19, <2>1 DEF Within
    <3>3. QED
      BY <3>1, <3>2 DEF OdometrySpansGap
  <2>2. CASE ~doneFirstOpt
    BY <1>1, <1>5, <2>2 DEF OdometrySpansGap
  <2>3. QED
    BY <2>1, <2>2
<1>23. FactorSpansKeys' /\ FusedGoesOn'
  BY <1>1, <1>5 DEF FactorSpansKeys, FusedGoesOn, fusionVars
<1>24. QED
  BY <1>12, <1>16, <1>17, <1>20, <1>21, <1>22, <1>23 DEF OdometryInv

LEMMA ScansApart == \A a, b \in Scans : a < b => a + Period <= b
OBVIOUS

\* What the node knows of a correction that is due.
LEMMA Due ==
  ASSUME OdometryInv, odomIn # Unset, imuQueOpt # <<>>
  PROVE  /\ odomIn \in Scans /\ corrected < odomIn /\ odomIn < Seen /\ corrected \in Int
         /\ ImuQueue(imuQueOpt) /\ ImuQueue(imuQueImu) /\ imuQueImu # <<>>
         /\ PoppedTo(imuQueOpt, corrected) /\ PoppedTo(imuQueImu, prevOdom)
         /\ prevOdom \in Int /\ prevOdom <= corrected
         /\ corrected >= 0 => corrected + Period <= odomIn
         /\ prevOdom >= 0 => prevOdom + Period <= odomIn
<1>1. /\ ImuInv /\ UnderWayInv /\ CorrectedInv /\ PredictedInv
      /\ Scans \subseteq Nat /\ Unset = -1 /\ Period \in Nat \ {0}
  BY DEF OdometryInv, Unset
<1>2. odomIn \in Scans /\ odomIn + Behind * Period < clock /\ corrected < odomIn
  BY <1>1 DEF UnderWayInv, Matched
<1>3. odomIn < Seen
  BY <1>1, <1>2, SeenIsLate
<1>4. corrected \in Scans \cup {-1} /\ prevOdom \in Scans \cup {-1} /\ prevOdom <= corrected
  BY <1>1 DEF UnderWayInv, Matched, PredictedInv
<1>5. ImuQueue(imuQueOpt) /\ ImuQueue(imuQueImu)
  BY <1>1 DEF ImuInv
<1>6. imuQueImu # <<>>
  <2>1. started + Period <= Seen /\ started \in Int
    BY <1>1, <1>5, SeenPast, SeenIsInt
  <2>2. QED
    BY <1>1, <1>5, <2>1 DEF ImuQueue
<1>7. PoppedTo(imuQueOpt, corrected) /\ PoppedTo(imuQueImu, prevOdom)
  BY <1>1, <1>6 DEF CorrectedInv, PredictedInv
<1>8. corrected >= 0 => corrected + Period <= odomIn
  BY <1>1, <1>2, <1>4
<1>9. prevOdom >= 0 => prevOdom + Period <= odomIn
  BY <1>1, <1>2, <1>4
<1>10. QED
  BY <1>1, <1>2, <1>3, <1>4, <1>5, <1>6, <1>7, <1>8, <1>9

\* The node's own queue and what it holds after a correction, due or first.
LEMMA OptPopped ==
  ASSUME OdometryInv, odomIn # Unset, imuQueOpt # <<>>,
         imuQueOpt' = NotOlder(imuQueOpt, odomIn),
         lastImuTOpt' = LastOf(OlderThan(imuQueOpt, odomIn), lastImuTOpt),
         imuIn' = imuIn, clock' = clock, started' = started
  PROVE  /\ ImuQueue(imuQueOpt)' /\ imuQueOpt' # <<>>
         /\ PoppedTo(imuQueOpt', odomIn)
         /\ lastImuTOpt' = IF imuQueOpt'[1] = started + Period THEN -1 ELSE imuQueOpt'[1] - Period
<1> DEFINE c == odomIn
           new == NotOlder(imuQueOpt, c)
           old == OlderThan(imuQueOpt, c)
<1>1. /\ ImuInv /\ CorrectedInv /\ ImuQueue(imuQueOpt) /\ corrected \in Int /\ PoppedTo(imuQueOpt, corrected)
      /\ c \in Int /\ corrected < c /\ c < Seen /\ started \in Int
  <2>1. odomIn \in Scans /\ Scans \subseteq Int
    BY Due
  <2>2. ImuInv /\ CorrectedInv
    BY DEF OdometryInv
  <2>3. QED
    BY <2>1, <2>2, Due, SeenIsInt
<1>2. /\ ImuQueue(new) /\ new # <<>> /\ PoppedTo(new, c)
      /\ \/ old = <<>> /\ new = imuQueOpt
         \/ /\ old # <<>> /\ old[Len(old)] = new[1] - Period /\ new[1] > started + Period
  BY <1>1, PopQueue
<1>3. Seen' = Seen /\ imuQueOpt' = new /\ lastImuTOpt' = LastOf(old, lastImuTOpt)
  BY DEF Seen
<1> HIDE DEF new, old
<1>4. ImuQueue(imuQueOpt)'
  BY <1>2, <1>3 DEF ImuQueue, Consecutive
<1>5. lastImuTOpt' = IF new[1] = started + Period THEN -1 ELSE new[1] - Period
  <2>1. CASE old = <<>> /\ new = imuQueOpt
    BY <1>1, <1>3, <2>1 DEF LastOf, CorrectedInv
  <2>2. CASE old # <<>> /\ old[Len(old)] = new[1] - Period /\ new[1] > started + Period
    <3>1. new[1] \in Int
      BY <1>1, <1>2, SeenPast
    <3>2. new[1] # started + Period
      BY <1>1, <2>2, <3>1
    <3>3. QED
      BY <1>3, <2>2, <3>2 DEF LastOf, Last
  <2>3. QED
    BY <1>2, <2>1, <2>2
<1>6. QED
  BY <1>2, <1>3, <1>4, <1>5

\* The time of a factor.
LEMMA FactorTime ==
  ASSUME OdometryInv, odomIn # Unset, imuQueOpt # <<>>, corrected >= started + Period
  PROVE  Within(integOpt + Integrated(OlderThan(imuQueOpt, odomIn), lastImuTOpt), odomIn - corrected)
<1> DEFINE c == odomIn
           new == NotOlder(imuQueOpt, c)
           old == OlderThan(imuQueOpt, c)
           q == imuQueOpt
<1>1. /\ ImuInv /\ CorrectedInv /\ ImuQueue(q) /\ corrected \in Int /\ PoppedTo(q, corrected)
      /\ c \in Int /\ corrected < c /\ c < Seen /\ started \in Nat /\ Period \in Nat \ {0}
      /\ corrected >= 0 => corrected + Period <= c
  <2>1. odomIn \in Scans /\ Scans \subseteq Int
    BY Due
  <2>2. ImuInv /\ CorrectedInv
    BY DEF OdometryInv
  <2>3. started \in Nat /\ Period \in Nat \ {0}
    BY <2>2 DEF ImuInv
  <2>4. QED
    BY <2>1, <2>2, <2>3, Due
<1>2. /\ ImuQueue(new) /\ new # <<>> /\ PoppedTo(new, c)
      /\ \/ old = <<>> /\ new = q
         \/ /\ old # <<>> /\ old[1] = q[1] /\ old[Len(old)] = new[1] - Period /\ new[1] - Period < c
  BY <1>1, PopQueue
<1>3. q[1] \in Int /\ q[1] >= started + Period /\ new[1] \in Int
  BY <1>1, <1>2, SeenPast
<1>4. lastImuTOpt = (IF q[1] = started + Period THEN -1 ELSE q[1] - Period) /\ integOpt = 0
  BY <1>1 DEF CorrectedInv
<1> HIDE DEF new, old, q, c
<1>5. q[1] < corrected + Period /\ corrected <= q[1] /\ corrected + Period <= c /\ c <= new[1]
  BY <1>1, <1>2, <1>3 DEF PoppedTo
<1>6. old # <<>> /\ old[1] = q[1] /\ old[Len(old)] = new[1] - Period /\ new[1] - Period < c
  <2>1. CASE old = <<>> /\ new = q
    BY <1>1, <1>3, <1>5, <2>1
  <2>2. QED
    BY <1>2, <2>1
<1>7. Integrated(old, lastImuTOpt) = (IF lastImuTOpt < 0 THEN DefaultDt ELSE q[1] - lastImuTOpt)
                                     + (new[1] - Period) - q[1]
  BY <1>6 DEF Integrated, Last
<1>8. DefaultDt \in 0 .. Period
  OBVIOUS
<1>9. CASE q[1] = started + Period
  <2>1. lastImuTOpt < 0 /\ corrected = q[1]
    BY <1>1, <1>3, <1>4, <1>5, <1>9
  <2>2. Integrated(old, lastImuTOpt) = DefaultDt + (new[1] - Period) - q[1]
    BY <1>7, <2>1
  <2>3. integOpt + Integrated(old, lastImuTOpt) = DefaultDt + (new[1] - Period) - q[1]
    BY <1>1, <1>3, <1>4, <1>8, <2>2
  <2>4. Within(DefaultDt + (new[1] - Period) - q[1], c - corrected)
    BY <1>1, <1>3, <1>5, <1>6, <1>8, <2>1, SMTT(30) DEF Within
  <2>5. QED
    BY <2>3, <2>4 DEF old, q, c
<1>10. CASE q[1] # started + Period
  <2>1. lastImuTOpt = q[1] - Period /\ ~(lastImuTOpt < 0)
    BY <1>1, <1>3, <1>4, <1>10
  <2>2. Integrated(old, lastImuTOpt) = (q[1] - lastImuTOpt) + (new[1] - Period) - q[1]
    BY <1>7, <2>1
  <2>3. integOpt + Integrated(old, lastImuTOpt) = new[1] - q[1]
    BY <1>1, <1>3, <1>4, <2>1, <2>2
  <2>4. Within(new[1] - q[1], c - corrected)
    BY <1>1, <1>3, <1>5, <1>6 DEF Within
  <2>5. QED
    BY <2>3, <2>4 DEF old, q, c
<1>11. QED
  BY <1>9, <1>10

\* A correction that goes well starts the predicted state anew.
LEMMA Repropagated ==
  ASSUME OdometryInv, odomIn # Unset, imuQueOpt # <<>>, Repropagate(odomIn),
         imuIn' = imuIn, clock' = clock, started' = started
  PROVE  /\ ImuQueue(imuQueImu)' /\ imuQueImu' # <<>> /\ PoppedTo(imuQueImu', odomIn)
         /\ integImu' \in Int
         /\ odomIn >= started + Period =>
              0 <= integImu' - (Seen - odomIn) /\ integImu' - (Seen - odomIn) <= Period
<1> DEFINE c == odomIn
           q == imuQueImu
           new == NotOlder(q, c)
           old == OlderThan(q, c)
<1>1. /\ ImuInv /\ ImuQueue(q) /\ q # <<>> /\ prevOdom \in Int /\ PoppedTo(q, prevOdom)
      /\ c \in Int /\ prevOdom < c /\ c < Seen /\ started \in Nat /\ Period \in Nat \ {0}
      /\ Seen \in Int
      /\ prevOdom >= 0 => prevOdom + Period <= c
  <2>1. odomIn \in Scans /\ Scans \subseteq Int
    BY Due
  <2>2. ImuInv
    BY DEF OdometryInv
  <2>3. started \in Nat /\ Period \in Nat \ {0} /\ Seen \in Int
    BY <2>2, SeenIsInt DEF ImuInv
  <2>4. corrected \in Int /\ prevOdom <= corrected /\ corrected < odomIn /\ prevOdom \in Int
    BY Due
  <2>5. QED
    BY <2>1, <2>2, <2>3, <2>4, Due
<1>2. /\ ImuQueue(new) /\ new # <<>> /\ PoppedTo(new, c)
      /\ \/ old = <<>> /\ new = q
         \/ /\ old # <<>> /\ old[Len(old)] = new[1] - Period /\ new[1] - Period < c
            /\ new[1] > started + Period
  BY <1>1, PopQueue
<1>3. /\ q[1] \in Int /\ q[1] >= started + Period /\ new[1] \in Int /\ new[1] >= started + Period
      /\ new[Len(new)] = Seen
  BY <1>1, <1>2, SeenPast DEF ImuQueue, Consecutive
<1>4. imuQueImu' = new /\ integImu' = Integrated(new, LastOf(old, -1)) /\ Seen' = Seen
  BY <1>2 DEF Repropagate, Seen
<1> HIDE DEF new, old, q, c
<1>5. ImuQueue(imuQueImu)'
  BY <1>2, <1>4 DEF ImuQueue, Consecutive
<1>6. DefaultDt \in 0 .. Period
  OBVIOUS
<1>7. Integrated(new, LastOf(old, -1))
        = (IF LastOf(old, -1) < 0 THEN DefaultDt ELSE new[1] - LastOf(old, -1)) + Seen - new[1]
  BY <1>2, <1>3 DEF Integrated, Last
<1>8. CASE old = <<>> /\ new = q
  <2>1. LastOf(old, -1) < 0
    BY <1>8 DEF LastOf
  <2>2. integImu' = DefaultDt + Seen - q[1]
    BY <1>4, <1>7, <1>8, <2>1
  <2>3. ASSUME c >= started + Period PROVE c = q[1]
    <3>1. c <= q[1]
      BY <1>2, <1>8 DEF PoppedTo
    <3>2. CASE q[1] > started + Period
      <4>1. q[1] < prevOdom + Period
        BY <1>1, <3>2 DEF PoppedTo
      <4>2. prevOdom >= 0
        BY <1>1, <1>3, <3>2, <4>1
      <4>3. QED
        BY <1>1, <1>3, <3>1, <4>1, <4>2
    <3>3. QED
      BY <1>1, <1>3, <2>3, <3>1, <3>2
  <2>4. c >= started + Period => integImu' - (Seen - c) = DefaultDt
    BY <1>1, <1>3, <1>6, <2>2, <2>3
  <2>5. integImu' \in Int
    BY <1>1, <1>3, <1>6, <2>2
  <2>6. QED
    BY <1>2, <1>4, <1>5, <1>6, <2>4, <2>5 DEF c
<1>9. CASE /\ old # <<>> /\ old[Len(old)] = new[1] - Period /\ new[1] - Period < c
           /\ new[1] > started + Period
  <2>1. LastOf(old, -1) = new[1] - Period /\ ~(LastOf(old, -1) < 0)
    BY <1>1, <1>3, <1>9 DEF LastOf, Last
  <2>2. integImu' = Period + Seen - new[1]
    BY <1>1, <1>3, <1>4, <1>7, <2>1
  <2>3. c <= new[1]
    BY <1>2 DEF PoppedTo
  <2>4. 0 <= integImu' - (Seen - c) /\ integImu' - (Seen - c) <= Period /\ integImu' \in Int
    BY <1>1, <1>3, <1>9, <2>2, <2>3, SMTT(30)
  <2>5. QED
    BY <1>2, <1>4, <1>5, <2>4 DEF c
<1>10. QED
  BY <1>2, <1>8, <1>9

LEMMA CorrectionKeeps ==
  ASSUME OdometryInv, OdometryHandler
  PROVE  OdometryInv'
<1>1. /\ ImuInv /\ UnderWayInv /\ CorrectedInv /\ PredictedInv /\ FusionInv
      /\ FactorSpansKeys /\ OdometrySpansGap /\ FusedGoesOn
  BY DEF OdometryInv
<1>2. /\ odomIn # Unset /\ odomIn' = Unset
      /\ UNCHANGED <<started, clock, imuIn, lidarIn, fusionIn, fusionVars>>
      /\ CorrectionTooEarly \/ Initialize(odomIn) \/ Correct(odomIn)
  BY DEF OdometryHandler
<1>3. Seen' = Seen
  BY <1>2 DEF Seen
<1>4. FusionInv' /\ FusedGoesOn'
  BY <1>1, <1>2, <1>3 DEF FusionInv, FusedGoesOn, Rising, fusionVars
<1>5. ImuInv' <=> ImuQueue(imuQueOpt)' /\ ImuQueue(imuQueImu)'
  BY <1>1, <1>2, <1>3 DEF ImuInv, Consecutive
<1>6. Matched(corrected)' => UnderWayInv'
  BY <1>1, <1>2 DEF UnderWayInv, Matched, Recent, fusionVars
<1>7. CASE CorrectionTooEarly
  <2>1. UNCHANGED preintVars
    BY <1>7 DEF CorrectionTooEarly
  <2>2. ImuInv' /\ UnderWayInv'
    BY <1>1, <1>2, <1>3, <1>5, <1>6, <2>1 DEF ImuInv, ImuQueue, Consecutive, UnderWayInv, Matched,
                                          preintVars
  <2>3. CorrectedInv' /\ PredictedInv' /\ FactorSpansKeys' /\ OdometrySpansGap'
    BY <1>1, <1>2, <1>3, <2>1 DEF CorrectedInv, PredictedInv, FactorSpansKeys, OdometrySpansGap,
                                  PoppedTo, Ahead, preintVars
  <2>4. QED
    BY <1>4, <2>2, <2>3 DEF OdometryInv
<1>8. ASSUME imuQueOpt # <<>>, corrected' = odomIn,
             imuQueOpt' = NotOlder(imuQueOpt, odomIn),
             lastImuTOpt' = LastOf(OlderThan(imuQueOpt, odomIn), lastImuTOpt)
      PROVE  /\ ImuQueue(imuQueOpt)' /\ imuQueOpt' # <<>> /\ PoppedTo(imuQueOpt', odomIn)
             /\ lastImuTOpt' = IF imuQueOpt'[1] = started + Period THEN -1 ELSE imuQueOpt'[1] - Period
             /\ UnderWayInv'
  <2>1. Matched(corrected)'
    BY <1>1, <1>2, <1>8 DEF UnderWayInv, Matched
  <2>2. QED
    BY <1>2, <1>6, <1>8, <2>1, OptPopped
<1>9. imuQueOpt # <<>> => /\ corrected < odomIn /\ odomIn \in Int /\ corrected \in Int /\ prevOdom \in Int
                          /\ prevOdom <= corrected /\ odomIn \in Scans
  <2>1. Scans \subseteq Int
    OBVIOUS
  <2>2. QED
    BY <1>2, <2>1, Due
<1>10. CASE Initialize(odomIn)
  <2>1. /\ imuQueOpt # <<>> /\ ~initialized
        /\ imuQueOpt' = NotOlder(imuQueOpt, odomIn)
        /\ lastImuTOpt' = LastOf(OlderThan(imuQueOpt, odomIn), lastImuTOpt)
        /\ integImu' = 0 /\ integOpt' = 0 /\ key' = 1 /\ initialized' = TRUE /\ corrected' = odomIn
        /\ UNCHANGED <<imuQueImu, lastImuTImu, doneFirstOpt, prevOdom, factor, published>>
    BY <1>10 DEF Initialize
  <2>2. ImuInv'
    BY <1>1, <1>2, <1>3, <1>5, <1>8, <2>1 DEF ImuInv, ImuQueue, Consecutive
  <2>3. CorrectedInv'
    BY <1>2, <1>8, <2>1 DEF CorrectedInv, PoppedTo
  <2>4. ~doneFirstOpt
    BY <1>1, <2>1 DEF CorrectedInv
  <2>5. PredictedInv'
    BY <1>1, <1>2, <1>3, <1>9, <2>1, <2>4 DEF PredictedInv, PoppedTo
  <2>6. FactorSpansKeys' /\ OdometrySpansGap'
    BY <1>1, <1>2, <2>1 DEF FactorSpansKeys, OdometrySpansGap
  <2>7. QED
    BY <1>4, <1>8, <2>1, <2>2, <2>3, <2>5, <2>6 DEF OdometryInv
<1>11. CASE Correct(odomIn)
  <2> DEFINE k == IF key = KeyMax THEN 1 ELSE key
             well == /\ Repropagate(odomIn)
                     /\ prevOdom' = odomIn /\ key' = k + 1 /\ doneFirstOpt' = TRUE
                     /\ UNCHANGED <<initialized, lastImuTImu>>
             anew == /\ key' = k /\ lastImuTImu' = -1
                     /\ doneFirstOpt' = FALSE /\ initialized' = FALSE
                     /\ UNCHANGED <<imuQueImu, integImu, prevOdom>>
  <2>1. /\ imuQueOpt # <<>> /\ initialized
        /\ imuQueOpt' = NotOlder(imuQueOpt, odomIn)
        /\ lastImuTOpt' = LastOf(OlderThan(imuQueOpt, odomIn), lastImuTOpt)
        /\ factor' = [from |-> corrected, to |-> odomIn,
                      time |-> integOpt + Integrated(OlderThan(imuQueOpt, odomIn), lastImuTOpt)]
        /\ integOpt' = 0 /\ corrected' = odomIn /\ (well \/ anew)
        /\ UNCHANGED published
    BY <1>11 DEF Correct
  <2>2. k \in 1 .. KeyMax /\ k + 1 \in 1 .. KeyMax
    <3>1. key \in 1 .. KeyMax /\ KeyMax \in Nat \ {0, 1}
      BY <1>1 DEF CorrectedInv
    <3>2. QED
      BY <3>1
  <2>3. FactorSpansKeys'
    <3>1. corrected >= started + Period =>
            Within(integOpt + Integrated(OlderThan(imuQueOpt, odomIn), lastImuTOpt), odomIn - corrected)
      BY <1>2, <2>1, FactorTime
    <3>2. started' = started
      BY <1>2
    <3>3. QED
      BY <2>1, <3>1, <3>2 DEF FactorSpansKeys
  <2>4. OdometrySpansGap'
    BY <1>1, <1>2, <2>1 DEF OdometrySpansGap
  <2> HIDE DEF k
  <2>5. CASE well
    <3>1. /\ ImuQueue(imuQueImu)' /\ imuQueImu' # <<>> /\ PoppedTo(imuQueImu', odomIn)
          /\ integImu' \in Int
          /\ odomIn >= started + Period =>
               0 <= integImu' - (Seen - odomIn) /\ integImu' - (Seen - odomIn) <= Period
      BY <1>2, <2>1, <2>5, Repropagated
    <3>2. ImuInv'
      BY <1>5, <1>8, <2>1, <3>1
    <3>3. CorrectedInv'
      BY <1>2, <1>8, <2>1, <2>2, <2>5 DEF CorrectedInv, PoppedTo
    <3>4. PredictedInv'
      <4>1. prevOdom' = odomIn /\ corrected' = odomIn /\ odomIn <= odomIn /\ odomIn \in Scans
        BY <1>9, <2>1, <2>5
      <4>2. lastImuTImu' = lastImuTImu /\ doneFirstOpt' = TRUE
        BY <2>5
      <4>3. lastImuTImu' # -1 => lastImuTImu' = Seen'
        BY <1>1, <1>3, <4>2 DEF PredictedInv
      <4>4. (imuQueImu # <<>> => PoppedTo(imuQueImu, prevOdom))'
        BY <1>2, <3>1, <4>1 DEF PoppedTo
      <4>5. prevOdom' >= started' + Period =>
              /\ -Period <= Ahead' /\ Ahead' <= Period /\ 0 <= Ahead'
        <5>1. Ahead' = integImu' - (Seen - odomIn) /\ started' = started
          BY <1>2, <1>3, <4>1 DEF Ahead
        <5>2. Ahead' \in Int
          BY <1>1, <1>9, <2>1, <3>1, <5>1, SeenIsInt
        <5>3. Period \in Nat
          OBVIOUS
        <5>4. odomIn >= started + Period => -Period <= Ahead' /\ Ahead' <= Period /\ 0 <= Ahead'
          BY <3>1, <5>1, <5>2, <5>3
        <5>5. QED
          BY <4>1, <5>1, <5>4
      <4>6. QED
        BY <3>1, <4>1, <4>2, <4>3, <4>4, <4>5 DEF PredictedInv
    <3>5. QED
      BY <1>4, <1>8, <2>1, <2>3, <2>4, <3>2, <3>3, <3>4 DEF OdometryInv
  <2>6. CASE anew
    <3>1. ImuInv'
      BY <1>1, <1>2, <1>3, <1>5, <1>8, <2>1, <2>6 DEF ImuInv, ImuQueue, Consecutive
    <3>2. CorrectedInv'
      BY <1>2, <1>8, <2>1, <2>2, <2>6 DEF CorrectedInv, PoppedTo
    <3>3. PredictedInv'
      BY <1>1, <1>2, <1>3, <1>9, <2>1, <2>6 DEF PredictedInv, PoppedTo
    <3>4. QED
      BY <1>4, <1>8, <2>1, <2>3, <2>4, <3>1, <3>2, <3>3 DEF OdometryInv
  <2>7. QED
    BY <2>1, <2>5, <2>6
<1>12. QED
  BY <1>2, <1>7, <1>10, <1>11

LEMMA OdometryStart == OdometryInit => OdometryInv
<1> SUFFICES ASSUME OdometryInit PROVE OdometryInv
  OBVIOUS
<1>1. started \in Nat /\ clock = started /\ Seen = started
  BY DEF OdometryInit, Seen
<1>2. Len(<<>>) = 0 /\ 1 .. 0 = {} /\ <<>> \in Seq(Int) /\ Unset = -1
  BY DEF Unset
<1>3. ImuInv
  BY <1>1, <1>2 DEF OdometryInit, ImuInv, ImuQueue, Consecutive
<1>4. UnderWayInv /\ CorrectedInv
  BY <1>2 DEF OdometryInit, UnderWayInv, CorrectedInv, Recent, Matched
<1>5. PredictedInv /\ FusionInv
  BY <1>2 DEF OdometryInit, PredictedInv, FusionInv, Rising
<1>6. FactorSpansKeys /\ OdometrySpansGap /\ FusedGoesOn
  BY DEF OdometryInit, FactorSpansKeys, OdometrySpansGap, FusedGoesOn
<1>7. QED
  BY <1>3, <1>4, <1>5, <1>6 DEF OdometryInv

LEMMA OdometryStep ==
  ASSUME OdometryInv, [LioOdometryNext]_lioOdomVars
  PROVE  OdometryInv'
<1>1. CASE UNCHANGED lioOdomVars
  <2>1. UNCHANGED <<started, clock, imuIn, odomIn, lidarIn, fusionIn, preintVars, fusionVars>>
    BY <1>1 DEF lioOdomVars
  <2>2. ImuInv' /\ UnderWayInv' /\ CorrectedInv'
    BY <2>1 DEF OdometryInv, ImuInv, ImuQueue, Consecutive, Seen, UnderWayInv, Matched, Recent,
                CorrectedInv, PoppedTo, preintVars, fusionVars
  <2>3. PredictedInv' /\ FusionInv'
    BY <2>1 DEF OdometryInv, PredictedInv, FusionInv, PoppedTo, Ahead, Seen, Rising, preintVars,
                fusionVars
  <2>4. FactorSpansKeys' /\ OdometrySpansGap' /\ FusedGoesOn'
    BY <2>1 DEF OdometryInv, FactorSpansKeys, OdometrySpansGap, FusedGoesOn, preintVars, fusionVars
  <2>5. QED
    BY <2>2, <2>3, <2>4 DEF OdometryInv
<1>2. QED
  BY <1>1, SendKeeps, MatchKeeps, ImuKeeps, CorrectionKeeps, LidarOdometryKeeps, ImuOdometryKeeps
     DEF LioOdometryNext

LEMMA OdometryAlone ==
  ASSUME [PerceptionNext]_perceptionVars
  PROVE  [LioOdometryNext]_lioOdomVars
<1>1. CASE PerceptionNext
  BY <1>1 DEF PerceptionNext, Others
<1>2. CASE UNCHANGED perceptionVars
  BY <1>2 DEF perceptionVars
<1>3. QED
  BY <1>1, <1>2

\* The motion between two corrections is counted once, across resets of the
\* optimizer, full graphs, dropped corrections and every order of IMU and lidar
\* messages (imuPreintegration.cpp:311, :375, :104).
THEOREM MotionBetweenScans == PerceptionSpec => []OdometryConsistent
<1>1. PerceptionInit => OdometryInv
  BY OdometryStart DEF PerceptionInit
<1>2. OdometryInv /\ [PerceptionNext]_perceptionVars => OdometryInv'
  BY OdometryAlone, OdometryStep
<1>3. OdometryInv => OdometryConsistent
  BY DEF OdometryInv, CorrectedInv, OdometryConsistent, LioOdometryTypeOK
<1>4. QED
  BY <1>1, <1>2, <1>3, PTL DEF PerceptionSpec

----------------------------------------------------------------------------
(* The motion over a cloud. *)

HIDE OdometryAssumption
USE ProjectionAssumption

\* A queue of messages up to newest, with no gap between two but those in gaps.
Spaced(q, gaps, newest) ==
  /\ q \in Seq(Int)
  /\ \A i, j \in 1 .. Len(q) : i < j => q[i] < q[j]
  /\ \A i \in 1 .. Len(q) : i + 1 \in 1 .. Len(q) => q[i + 1] - q[i] \in gaps
  /\ q # <<>> => q[Len(q)] = newest

DeskewInv ==
  /\ imuSent \in Int /\ odomSent \in Int
  /\ Spaced(imuQueue, ImuGaps, imuSent) /\ Spaced(odomQueue, OdomGaps, odomSent)
  /\ DeskewCovers

\* What a search for the first message not before a time finds.
LEMMA FirstFound ==
  ASSUME NEW q, q \in Seq(Int), NEW time \in Int,
         NEW found, found = {i \in 1 .. Len(q) : q[i] >= time}
  PROVE  \/ found = {} /\ \A i \in 1 .. Len(q) : q[i] < time
         \/ /\ found # {} /\ Min(found) \in 1 .. Len(q) /\ q[Min(found)] >= time
            /\ \A i \in 1 .. Len(q) : i < Min(found) => q[i] < time
<1>1. Len(q) \in Nat /\ \A i \in 1 .. Len(q) : q[i] \in Int
  OBVIOUS
<1>2. CASE found = {}
  BY <1>1, <1>2
<1>3. CASE found # {}
  <2>1. found \subseteq Nat
    BY <1>1
  <2>2. \E m \in found : \A k \in found : m <= k
    BY <1>3, <2>1, LeastNatural
  <2>3. Min(found) \in found /\ \A k \in found : Min(found) <= k
    BY <2>2 DEF Min
  <2> DEFINE first == Min(found)
  <2>4. first \in 1 .. Len(q) /\ q[first] >= time
    BY <2>3
  <2>5. ASSUME NEW i \in 1 .. Len(q), i < first PROVE q[i] < time
    <3>1. i \notin found
      BY <2>3, <2>4, <2>5, <1>1
    <3>2. QED
      BY <1>1, <3>1
  <2>6. QED
    BY <1>3, <2>4, <2>5
<1>4. QED
  BY <1>2, <1>3

LEMMA RestSpaced ==
  ASSUME NEW q, NEW gaps, NEW newest, Spaced(q, gaps, newest), NEW first \in 1 .. Len(q)
  PROVE  LET new == SubSeq(q, first, Len(q))
         IN Spaced(new, gaps, newest) /\ new # <<>> /\ new[1] = q[first]
<1> DEFINE l == Len(q)
           new == SubSeq(q, first, l)
           n == l - first + 1
<1>1. q \in Seq(Int) /\ l \in Nat /\ \A i \in 1 .. l : q[i] \in Int
  BY DEF Spaced
<1>2. l \in Int /\ first \in Int /\ first <= l /\ first >= 1 /\ first \in 1 .. l
  BY <1>1
<1> HIDE DEF l
<1>3. new \in Seq(Int) /\ Len(new) = n /\ \A i \in 1 .. n : new[i] = q[first + i - 1]
  <2>1. \A i \in first .. l : q[i] \in Int
    BY <1>1, <1>2
  <2>2. /\ SubSeq(q, first, l) \in Seq(Int)
        /\ Len(SubSeq(q, first, l)) = IF first <= l THEN l - first + 1 ELSE 0
        /\ \A i \in 1 .. l - first + 1 : SubSeq(q, first, l)[i] = q[first + i - 1]
    BY <1>2, <2>1, SubSeqProperties
  <2>3. QED
    BY <1>2, <2>2
<1> HIDE DEF new
<1>4. n \in Nat \ {0}
  BY <1>1, <1>2
<1>5. \A i \in 1 .. n : first + i - 1 \in 1 .. l
  BY <1>1, <1>2
<1> HIDE DEF n
<1>6. new # <<>> /\ new[1] = q[first]
  <2>1. 1 \in 1 .. n /\ first + 1 - 1 = first
    BY <1>2, <1>4
  <2>2. QED
    BY <1>3, <1>4, <2>1
<1>7. ASSUME NEW i \in 1 .. n, NEW j \in 1 .. n, i < j PROVE new[i] < new[j]
  <2>1. first + i - 1 < first + j - 1
    BY <1>2, <1>4, <1>7
  <2>2. new[i] = q[first + i - 1] /\ new[j] = q[first + j - 1]
    BY <1>3
  <2>3. QED
    BY <1>5, <2>1, <2>2 DEF Spaced, l
<1>8. ASSUME NEW i \in 1 .. n, i + 1 \in 1 .. n PROVE new[i + 1] - new[i] \in gaps
  <2>1. first + (i + 1) - 1 = (first + i - 1) + 1
    BY <1>2, <1>4, <1>8
  <2>2. new[i] = q[first + i - 1] /\ new[i + 1] = q[(first + i - 1) + 1]
    BY <1>3, <1>8, <2>1
  <2>3. (first + i - 1) + 1 \in 1 .. l
    BY <1>5, <1>8, <2>1
  <2>4. QED
    BY <1>5, <2>2, <2>3 DEF Spaced, l
<1>9. new[Len(new)] = newest
  <2>1. n \in 1 .. n /\ first + n - 1 = l
    BY <1>1, <1>2, <1>4 DEF n
  <2>2. q # <<>>
    BY <1>1, <1>2 DEF l
  <2>3. q[l] = newest
    BY <2>2 DEF Spaced, l
  <2>4. QED
    BY <1>3, <2>1, <2>3
<1>10. Spaced(new, gaps, newest)
  BY <1>3, <1>7, <1>8, <1>9 DEF Spaced
<1>11. QED
  BY <1>6, <1>10 DEF new, l

LEMMA NothingSpaced ==
  ASSUME NEW gaps, NEW newest PROVE Spaced(<<>>, gaps, newest)
<1>1. <<>> \in Seq(Int) /\ 1 .. Len(<<>>) = {}
  OBVIOUS
<1>2. QED
  BY <1>1 DEF Spaced

\* What is left of a queue for a scan.
LEMMA PoppedIs ==
  ASSUME NEW q, NEW gaps, gaps \subseteq Nat, NEW newest \in Int, Spaced(q, gaps, newest), NEW scan \in Int
  PROVE  /\ Spaced(Popped(q, scan), gaps, newest)
         /\ q # <<>> /\ newest >= scan - Window => Popped(q, scan) # <<>>
         /\ Popped(q, scan) # <<>> =>
              /\ Popped(q, scan)[1] >= scan - Window
              /\ \/ Popped(q, scan)[1] = q[1]
                 \/ \E g \in gaps : Popped(q, scan)[1] - g < scan - Window
<1> DEFINE time == scan - Window
           found == {i \in 1 .. Len(q) : q[i] >= time}
           new == Popped(q, scan)
<1>1. q \in Seq(Int) /\ time \in Int /\ Len(q) \in Nat /\ \A i \in 1 .. Len(q) : q[i] \in Int
  BY DEF Spaced
<1>2. new = IF FromScan(q, scan) = 0 THEN <<>> ELSE SubSeq(q, FromScan(q, scan), Len(q))
  BY DEF Popped
<1>3. FromScan(q, scan) = IF found # {} THEN Min(found) ELSE 0
  BY DEF FromScan, SelectInSeq
<1> HIDE DEF new, found, time
<1>4. \/ found = {} /\ \A i \in 1 .. Len(q) : q[i] < time
      \/ /\ found # {} /\ Min(found) \in 1 .. Len(q) /\ q[Min(found)] >= time
         /\ \A i \in 1 .. Len(q) : i < Min(found) => q[i] < time
  BY <1>1, FirstFound DEF found
<1>5. CASE found = {} /\ \A i \in 1 .. Len(q) : q[i] < time
  <2>1. new = <<>>
    BY <1>2, <1>3, <1>5
  <2>2. q # <<>> => ~(newest >= time)
    <3> SUFFICES ASSUME q # <<>> PROVE ~(newest >= time)
      OBVIOUS
    <3>1. Len(q) \in 1 .. Len(q) /\ q[Len(q)] = newest
      BY <1>1 DEF Spaced
    <3>2. QED
      BY <1>1, <1>5, <3>1
  <2>3. QED
    BY <2>1, <2>2, NothingSpaced DEF new, time
<1>6. CASE /\ found # {} /\ Min(found) \in 1 .. Len(q) /\ q[Min(found)] >= time
           /\ \A i \in 1 .. Len(q) : i < Min(found) => q[i] < time
  <2> DEFINE first == Min(found)
  <2>1. first \in 1 .. Len(q) /\ first # 0 /\ first \in Int
    BY <1>1, <1>6
  <2>2. new = SubSeq(q, first, Len(q))
    BY <1>2, <1>3, <1>6, <2>1
  <2>3. q[first] >= time /\ \A i \in 1 .. Len(q) : i < first => q[i] < time
    BY <1>6
  <2> HIDE DEF first
  <2>4. Spaced(new, gaps, newest) /\ new # <<>> /\ new[1] = q[first]
    BY <2>1, <2>2, RestSpaced
  <2>5. CASE first = 1
    BY <2>3, <2>4, <2>5 DEF new, time
  <2>6. CASE first # 1
    <3>1. first - 1 \in 1 .. Len(q) /\ (first - 1) + 1 = first /\ first - 1 < first
      BY <1>1, <2>1, <2>6
    <3>2. q[first] - q[first - 1] \in gaps
      BY <2>1, <3>1 DEF Spaced
    <3>3. q[first - 1] < time /\ q[first - 1] \in Int /\ q[first] \in Int
      BY <1>1, <2>1, <2>3, <3>1
    <3>4. q[first] - (q[first] - q[first - 1]) < time
      BY <1>1, <3>3
    <3>5. \E g \in gaps : new[1] - g < time
      BY <2>4, <3>2, <3>4
    <3>6. QED
      BY <2>3, <2>4, <3>5 DEF new, time
  <2>7. QED
    BY <2>5, <2>6
<1>7. QED
  BY <1>4, <1>5, <1>6

\* What a loop over a queue has seen when it stops.
LEMMA NotAfterIs ==
  ASSUME NEW q, NEW gaps, gaps \subseteq Nat, NEW newest \in Int, Spaced(q, gaps, newest), q # <<>>,
         NEW bound \in Int, q[1] <= bound
  PROVE  LET used == NotAfter(q, bound)
             n == Len(used)
         IN /\ n \in Nat \ {0} /\ used # <<>> /\ used[1] = q[1] /\ used[n] \in Int
            /\ q[1] <= used[n] /\ (newest <= bound \/ used[n] <= bound)
            /\ used[n] = newest \/ (used[n] <= bound /\ \E g \in gaps : used[n] + g > bound)
<1> DEFINE after == {i \in 1 .. Len(q) : q[i] > bound}
           found == {i \in 1 .. Len(q) : q[i] >= bound + 1}
           used == NotAfter(q, bound)
<1>1. /\ q \in Seq(Int) /\ bound + 1 \in Int /\ Len(q) \in Nat \ {0}
      /\ (\A i \in 1 .. Len(q) : q[i] \in Int) /\ q[Len(q)] = newest
  BY DEF Spaced
<1>2. used = LET first == IF after # {} THEN Min(after) ELSE 0
             IN IF first = 0 THEN q ELSE SubSeq(q, 1, first - 1)
  BY DEF NotAfter, SelectInSeq
<1>3. after = found
  BY <1>1
<1> HIDE DEF after, found, used
<1>4. \/ found = {} /\ \A i \in 1 .. Len(q) : q[i] < bound + 1
      \/ /\ found # {} /\ Min(found) \in 1 .. Len(q) /\ q[Min(found)] >= bound + 1
         /\ \A i \in 1 .. Len(q) : i < Min(found) => q[i] < bound + 1
  BY <1>1, FirstFound DEF found
<1>a. \A i \in 1 .. Len(q) : 1 \in 1 .. Len(q) /\ q[1] <= q[i]
  <2> SUFFICES ASSUME NEW i \in 1 .. Len(q) PROVE 1 \in 1 .. Len(q) /\ q[1] <= q[i]
    OBVIOUS
  <2>1. 1 \in 1 .. Len(q) /\ (i = 1 \/ 1 < i)
    BY <1>1
  <2>2. 1 < i => q[1] < q[i]
    BY <2>1 DEF Spaced
  <2>3. QED
    BY <1>1, <2>1, <2>2
<1>5. CASE found = {} /\ \A i \in 1 .. Len(q) : q[i] < bound + 1
  <2>1. used = q
    BY <1>2, <1>3, <1>5
  <2>2. Len(q) \in 1 .. Len(q)
    BY <1>1
  <2>3. newest <= bound /\ q[1] <= newest
    BY <1>1, <1>a, <1>5, <2>2
  <2>4. QED
    BY <1>1, <2>1, <2>3 DEF used
<1>6. CASE /\ found # {} /\ Min(found) \in 1 .. Len(q) /\ q[Min(found)] >= bound + 1
           /\ \A i \in 1 .. Len(q) : i < Min(found) => q[i] < bound + 1
  <2> DEFINE first == Min(found)
             n == first - 1
  <2>1. first \in 1 .. Len(q) /\ first # 0 /\ q[first] >= bound + 1
        /\ \A i \in 1 .. Len(q) : i < first => q[i] < bound + 1
    BY <1>1, <1>6
  <2>2. used = SubSeq(q, 1, n)
    BY <1>2, <1>3, <1>6, <2>1
  <2> HIDE DEF first
  <2>3. first # 1
    BY <1>1, <1>a, <2>1
  <2>4. n \in 1 .. Len(q) /\ n + 1 = first /\ n < first /\ n \in Nat \ {0}
    BY <1>1, <2>1, <2>3
  <2> HIDE DEF n
  <2>5. used \in Seq(Int) /\ Len(used) = n /\ \A i \in 1 .. n : used[i] = q[i]
    <3>1. \A i \in 1 .. n : q[i] \in Int
      BY <1>1, <2>4
    <3>2. /\ SubSeq(q, 1, n) \in Seq(Int) /\ Len(SubSeq(q, 1, n)) = (IF 1 <= n THEN n - 1 + 1 ELSE 0)
          /\ \A i \in 1 .. n - 1 + 1 : SubSeq(q, 1, n)[i] = q[1 + i - 1]
      BY <2>4, <3>1, SubSeqProperties
    <3>3. n - 1 + 1 = n /\ 1 <= n /\ \A i \in 1 .. n : 1 + i - 1 = i
      BY <2>4
    <3>4. QED
      BY <2>2, <3>2, <3>3
  <2>6. used[n] = q[n] /\ used[1] = q[1] /\ used # <<>>
    <3>1. n \in 1 .. n /\ 1 \in 1 .. n
      BY <2>4
    <3>2. QED
      BY <2>4, <2>5, <3>1
  <2>7. q[n] < bound + 1 /\ q[first] - q[n] \in gaps /\ q[1] <= q[n] /\ q[n] \in Int /\ q[first] \in Int
    BY <1>1, <1>a, <2>1, <2>4 DEF Spaced
  <2>8. q[n] <= bound /\ q[n] + (q[first] - q[n]) > bound
    BY <2>1, <2>7
  <2>9. \E g \in gaps : used[n] + g > bound
    BY <2>6, <2>7, <2>8
  <2>10. QED
    BY <2>4, <2>5, <2>6, <2>7, <2>8, <2>9 DEF used
<1>7. QED
  BY <1>4, <1>5, <1>6

LEMMA SpacedGrows ==
  ASSUME NEW q, NEW gaps, gaps \subseteq Nat \ {0}, NEW newest \in Int, Spaced(q, gaps, newest), NEW g \in gaps
  PROVE  Spaced(Append(q, newest + g), gaps, newest + g)
<1> DEFINE new == Append(q, newest + g)
           n == Len(q)
           s == newest + g
<1>1. /\ q \in Seq(Int) /\ n \in Nat /\ s \in Int /\ g \in Nat \ {0}
      /\ \A i \in 1 .. n : q[i] \in Int
  BY DEF Spaced
<1>2. /\ new \in Seq(Int) /\ new # <<>> /\ Len(new) = n + 1
      /\ (\A i \in 1 .. n : new[i] = q[i]) /\ new[n + 1] = s
  BY <1>1, AppendProperties
<1>a. q = <<>> => n = 0
  OBVIOUS
<1>3. q # <<>> => q[n] = newest
  BY DEF Spaced
<1> HIDE DEF new, n
<1>b. \A i \in 1 .. n : q[i] <= newest
  <2> SUFFICES ASSUME NEW i \in 1 .. n PROVE q[i] <= newest
    OBVIOUS
  <2>1. q # <<>> /\ n \in 1 .. n /\ (i = n \/ i < n)
    BY <1>1, <1>a
  <2>2. i < n => q[i] < q[n]
    BY <2>1 DEF Spaced, n
  <2>3. QED
    BY <1>1, <1>3, <2>1, <2>2
<1>4. ASSUME NEW i \in 1 .. n + 1, NEW j \in 1 .. n + 1, i < j PROVE new[i] < new[j]
  <2>1. i \in 1 .. n /\ (j \in 1 .. n \/ j = n + 1)
    BY <1>1, <1>4
  <2>2. CASE j \in 1 .. n
    BY <1>2, <1>4, <2>1, <2>2 DEF Spaced, n
  <2>3. CASE j = n + 1
    <3>1. new[i] = q[i] /\ new[j] = s /\ q[i] <= newest /\ q[i] \in Int
      BY <1>1, <1>2, <1>b, <2>1, <2>3
    <3>2. QED
      BY <1>1, <3>1
  <2>4. QED
    BY <2>1, <2>2, <2>3
<1>5. ASSUME NEW i \in 1 .. n + 1, i + 1 \in 1 .. n + 1 PROVE new[i + 1] - new[i] \in gaps
  <2>1. i \in 1 .. n /\ (i + 1 \in 1 .. n \/ i = n)
    BY <1>1, <1>5
  <2>2. CASE i + 1 \in 1 .. n
    BY <1>2, <2>1, <2>2 DEF Spaced, n
  <2>3. CASE i = n
    <3>1. q # <<>>
      BY <1>1, <1>a, <2>1
    <3>2. new[i] = newest /\ new[i + 1] = s
      BY <1>2, <1>3, <2>1, <2>3, <3>1
    <3>3. s - newest = g
      BY <1>1
    <3>4. QED
      BY <3>2, <3>3
  <2>4. QED
    BY <2>1, <2>2, <2>3
<1>6. new[Len(new)] = s
  BY <1>2
<1>7. QED
  BY <1>2, <1>4, <1>5, <1>6 DEF Spaced, new

LEMMA GapsAre ==
  /\ ImuGaps \subseteq Nat \ {0} /\ OdomGaps \subseteq Nat \ {0}
  /\ \A g \in ImuGaps : g <= Window
  /\ Max(OdomGaps) \in Nat /\ \A g \in OdomGaps : g <= Max(OdomGaps)
<1>1. OdomGaps \subseteq Nat /\ OdomGaps # {} /\ LastStamp \in Nat /\ \A g \in OdomGaps : g <= LastStamp
  OBVIOUS
<1>2. Max(OdomGaps) \in OdomGaps /\ \A g \in OdomGaps : g <= Max(OdomGaps)
  <2> DEFINE S == OdomGaps
             b == LastStamp
  <2>1. S \subseteq Nat /\ S # {} /\ b \in Nat /\ \A k \in S : k <= b
    BY <1>1
  <2> HIDE DEF S, b
  <2>2. Max(S) \in S /\ \A k \in S : k <= Max(S)
    BY ONLY <2>1, GreatestNatural
  <2>3. QED
    BY <2>2 DEF S
<1>3. ImuGaps \subseteq Nat \ {0} /\ \A g \in ImuGaps : g <= Window
  <2>1. ImuGaps \subseteq 1 .. Window /\ Window \in Nat
    OBVIOUS
  <2>2. QED
    BY ONLY <2>1
<1>4. OdomGaps \subseteq Nat \ {0}
  <2>1. OdomGaps \subseteq 1 .. LastStamp /\ LastStamp \in Nat
    OBVIOUS
  <2>2. QED
    BY ONLY <2>1
<1>5. QED
  BY <1>1, <1>2, <1>3, <1>4

\* The rotation over a scan whose ends the IMU messages cover.
LEMMA RotationCovers ==
  ASSUME imuSent \in Int, Spaced(imuQueue, ImuGaps, imuSent), NEW scan \in Int,
         ImuCovers(imuQueue, scan)
  PROVE  LET imus == Popped(imuQueue, scan)
             imu  == ImuDeskewInfo(imus, scan)
         IN /\ imu.available
            /\ imu.times[1] <= scan /\ ScanEnd(scan) <= Last(imu.times)
            /\ imu.init \in scan - Window .. scan
<1> DEFINE imus == Popped(imuQueue, scan)
           used == NotAfter(imus, ScanEnd(scan) + Window)
           start == NotAfter(imus, scan)
           n == Len(used)
           k == Len(start)
<1>1. Duration \in Nat \ {0} /\ Window \in Nat /\ ScanEnd(scan) = scan + Duration /\ ScanEnd(scan) + Window \in Int
  BY DEF ScanEnd
<1>2. imuQueue # <<>> /\ imuQueue[1] <= scan /\ imuSent >= ScanEnd(scan) /\ imuSent >= scan - Window
  <2>1. imuQueue # <<>> /\ Head(imuQueue) <= scan /\ imuQueue[Len(imuQueue)] >= ScanEnd(scan)
    BY DEF ImuCovers, Last
  <2>2. imuQueue[Len(imuQueue)] = imuSent /\ Head(imuQueue) = imuQueue[1]
    BY <2>1 DEF Spaced
  <2>3. imuSent >= scan - Window
    BY <1>1, <2>1, <2>2
  <2>4. QED
    BY <2>1, <2>2, <2>3
<1>3. /\ Spaced(imus, ImuGaps, imuSent) /\ imus # <<>> /\ imus[1] >= scan - Window
      /\ imus[1] = imuQueue[1] \/ \E g \in ImuGaps : imus[1] - g < scan - Window
  BY <1>2, GapsAre, PoppedIs
<1> HIDE DEF imus
<1>4. imus[1] \in Int /\ imus[1] <= scan /\ imus[1] <= ScanEnd(scan) + Window
  <2>1. imus[1] \in Int
    BY <1>3 DEF Spaced
  <2>2. ASSUME NEW g \in ImuGaps, imus[1] - g < scan - Window PROVE imus[1] <= scan
    <3>1. g \in Int /\ g <= Window
      BY GapsAre
    <3>2. QED
      BY <1>1, <2>1, <2>2, <3>1
  <2>3. imus[1] <= scan
    BY <1>2, <1>3, <2>2
  <2>4. QED
    BY <1>1, <2>1, <2>3
<1>5. /\ n \in Nat \ {0} /\ used # <<>> /\ used[1] = imus[1] /\ used[n] \in Int
      /\ used[n] = imuSent
         \/ (used[n] <= ScanEnd(scan) + Window /\ \E g \in ImuGaps : used[n] + g > ScanEnd(scan) + Window)
  <2>1. ImuGaps \subseteq Nat /\ ScanEnd(scan) + Window \in Int
    BY <1>1, GapsAre
  <2>2. QED
    BY <1>3, <1>4, <2>1, NotAfterIs
<1>6. /\ k \in Nat \ {0} /\ start # <<>> /\ imus[1] <= start[k] /\ start[k] \in Int
      /\ imuSent <= scan \/ start[k] <= scan
  <2>1. ImuGaps \subseteq Nat
    BY GapsAre
  <2>2. QED
    BY <1>3, <1>4, <2>1, NotAfterIs
<1>7. ImuDeskewInfo(imus, scan) = [times |-> used, available |-> n > 1, init |-> start[k]]
  BY <1>6 DEF ImuDeskewInfo, Last
<1> HIDE DEF used, start, n, k
<1>8. ScanEnd(scan) <= used[n]
  <2>1. CASE used[n] = imuSent
    BY <1>2, <2>1
  <2>2. ASSUME NEW g \in ImuGaps, used[n] + g > ScanEnd(scan) + Window PROVE ScanEnd(scan) <= used[n]
    <3>1. g \in Int /\ g <= Window
      BY GapsAre
    <3>2. QED
      BY <1>1, <1>5, <2>2, <3>1
  <2>3. QED
    BY <1>5, <2>1, <2>2
<1>9. n > 1
  <2>1. SUFFICES ASSUME n = 1 PROVE FALSE
    BY <1>5
  <2>2. used[n] <= scan
    BY <1>4, <1>5, <2>1
  <2>3. QED
    BY <1>1, <1>5, <1>8, <2>2
<1>10. start[k] \in scan - Window .. scan
  <2>1. ~(imuSent <= scan)
    BY <1>1, <1>2
  <2>2. QED
    BY <1>1, <1>3, <1>4, <1>6, <2>1
<1>11. QED
  <2>1. /\ [times |-> used, available |-> n > 1, init |-> start[k]].available
        /\ [times |-> used, available |-> n > 1, init |-> start[k]].times = used
        /\ [times |-> used, available |-> n > 1, init |-> start[k]].init = start[k]
    BY <1>9
  <2>2. Last(used) = used[n] /\ used[1] <= scan
    BY <1>4, <1>5 DEF Last, n
  <2>3. QED
    BY <1>7, <1>8, <1>10, <2>1, <2>2 DEF imus

\* The guess is near the start of the scan.
LEMMA GuessIsNear ==
  ASSUME odomSent \in Int, Spaced(odomQueue, OdomGaps, odomSent), NEW scan \in Int
  PROVE  LET odom == OdomDeskewInfo(Popped(odomQueue, scan), scan)
         IN odom.available => odom.init \in scan - Window .. scan + Max(OdomGaps)
<1> DEFINE q == Popped(odomQueue, scan)
           odom == OdomDeskewInfo(q, scan)
           found == {i \in 1 .. Len(q) : q[i] >= scan}
<1> SUFFICES ASSUME odom.available PROVE odom.init \in scan - Window .. scan + Max(OdomGaps)
  OBVIOUS
<1>1. OdomGaps \subseteq Nat /\ Max(OdomGaps) \in Nat /\ Window \in Nat
  BY GapsAre
<1>2. Spaced(q, OdomGaps, odomSent) /\ (q # <<>> => q[1] >= scan - Window)
  BY <1>1, PoppedIs
<1> HIDE DEF q
<1>3. q # <<>> /\ Head(q) <= scan
  <2>1. CASE q = <<>> \/ Head(q) > scan
    BY <2>1 DEF OdomDeskewInfo
  <2>2. q # <<>> => Head(q) \in Int
    BY <1>2 DEF Spaced
  <2>3. QED
    BY <2>1, <2>2
<1>4. /\ q \in Seq(Int) /\ Len(q) \in Nat \ {0} /\ (\A i \in 1 .. Len(q) : q[i] \in Int) /\ Head(q) = q[1]
  BY <1>2, <1>3 DEF Spaced
<1>5. odom.init = IF found = {} THEN q[Len(q)] ELSE q[Min(found)]
  <2>1. ~(q = <<>> \/ Head(q) > scan)
    BY <1>3, <1>4
  <2>2. odom.init = LET from == IF found # {} THEN Min(found) ELSE 0
                    IN IF from = 0 THEN q[Len(q)] ELSE q[from]
    BY <2>1 DEF OdomDeskewInfo, SelectInSeq, Last
  <2>3. found # {} => Min(found) # 0
    <3>1. \/ found = {}
          \/ found # {} /\ Min(found) \in 1 .. Len(q)
      BY <1>4, FirstFound
    <3>2. QED
      BY <3>1
  <2> HIDE DEF found, odom
  <2>4. QED
    BY <2>2, <2>3
<1>6. \A i \in 1 .. Len(q) : scan - Window <= q[i]
  <2> SUFFICES ASSUME NEW i \in 1 .. Len(q) PROVE scan - Window <= q[i]
    OBVIOUS
  <2>1. 1 \in 1 .. Len(q) /\ (i = 1 \/ 1 < i)
    BY <1>4
  <2>2. 1 < i => q[1] < q[i]
    BY <1>2, <2>1 DEF Spaced
  <2>3. QED
    BY <1>1, <1>2, <1>3, <1>4, <2>1, <2>2
<1> HIDE DEF odom
<1>7. \/ found = {} /\ \A i \in 1 .. Len(q) : q[i] < scan
      \/ /\ found # {} /\ Min(found) \in 1 .. Len(q) /\ q[Min(found)] >= scan
         /\ \A i \in 1 .. Len(q) : i < Min(found) => q[i] < scan
  BY <1>4, FirstFound
<1> HIDE DEF found
<1>8. CASE found = {} /\ \A i \in 1 .. Len(q) : q[i] < scan
  <2>1. Len(q) \in 1 .. Len(q) /\ odom.init = q[Len(q)]
    BY <1>4, <1>5, <1>8
  <2>2. QED
    BY <1>1, <1>4, <1>6, <1>8, <2>1
<1>9. CASE /\ found # {} /\ Min(found) \in 1 .. Len(q) /\ q[Min(found)] >= scan
           /\ \A i \in 1 .. Len(q) : i < Min(found) => q[i] < scan
  <2> DEFINE from == Min(found)
  <2>1. odom.init = q[from] /\ from \in 1 .. Len(q) /\ \A i \in 1 .. Len(q) : i < from => q[i] < scan
    BY <1>5, <1>9
  <2> HIDE DEF from
  <2>2. CASE from = 1
    BY <1>1, <1>3, <1>4, <1>6, <2>1, <2>2
  <2>3. CASE from # 1
    <3>1. from - 1 \in 1 .. Len(q) /\ (from - 1) + 1 = from /\ from - 1 < from
      BY <1>4, <2>1, <2>3
    <3>2. q[from] - q[from - 1] \in OdomGaps
      BY <1>2, <2>1, <3>1 DEF Spaced
    <3>3. q[from] - q[from - 1] <= Max(OdomGaps) /\ q[from - 1] < scan
      BY <2>1, <3>1, <3>2, GapsAre
    <3>4. q[from] \in Int /\ q[from - 1] \in Int /\ scan - Window <= q[from]
      BY <1>4, <1>6, <2>1, <3>1
    <3>5. q[from] <= scan + Max(OdomGaps)
      BY <1>1, <3>3, <3>4
    <3>6. QED
      BY <1>1, <2>1, <3>4, <3>5
  <2>4. QED
    BY <2>2, <2>3
<1>10. QED
  BY <1>7, <1>8, <1>9

LEMMA DeskewStep ==
  ASSUME DeskewInv, QueueInv, [ProjectionNext]_projectionVars
  PROVE  DeskewInv'
<1>1. CASE ImuQueued
  <2>1. PICK g \in ImuGaps : /\ imuSent' = imuSent + g /\ imuQueue' = Append(imuQueue, imuSent + g)
                             /\ UNCHANGED <<odomQueue, odomSent, info>>
    BY <1>1 DEF ImuQueued
  <2>2. Spaced(Append(imuQueue, imuSent + g), ImuGaps, imuSent + g) /\ imuSent + g \in Int
    <3>1. /\ ImuGaps \subseteq Nat \ {0} /\ imuSent \in Int
          /\ Spaced(imuQueue, ImuGaps, imuSent)
      BY GapsAre DEF DeskewInv
    <3>2. imuSent + g \in Int
      BY <3>1
    <3>3. QED
      BY <3>1, <3>2, SpacedGrows
  <2>3. QED
    BY <2>1, <2>2 DEF DeskewInv, DeskewCovers, Spaced
<1>2. CASE OdomQueued
  <2>1. PICK g \in OdomGaps : /\ odomSent' = odomSent + g /\ odomQueue' = Append(odomQueue, odomSent + g)
                              /\ UNCHANGED <<imuQueue, imuSent, info>>
    BY <1>2 DEF OdomQueued
  <2>2. Spaced(Append(odomQueue, odomSent + g), OdomGaps, odomSent + g) /\ odomSent + g \in Int
    <3>1. /\ OdomGaps \subseteq Nat \ {0} /\ odomSent \in Int
          /\ Spaced(odomQueue, OdomGaps, odomSent)
      BY GapsAre DEF DeskewInv
    <3>2. odomSent + g \in Int
      BY <3>1
    <3>3. QED
      BY <3>1, <3>2, SpacedGrows
  <2>3. QED
    BY <2>1, <2>2 DEF DeskewInv, DeskewCovers, Spaced
<1>3. CASE UNCHANGED <<imuQueue, odomQueue, imuSent, odomSent, info>>
  BY <1>3 DEF DeskewInv, DeskewCovers, Spaced
<1>4. CASE CloudHandler /\ ~UNCHANGED <<imuQueue, odomQueue, info>>
  <2> DEFINE cur  == Head(cloudQueue)
             imus  == Popped(imuQueue, cur)
             odoms == Popped(odomQueue, cur)
             imu   == ImuDeskewInfo(imus, cur)
             odom  == OdomDeskewInfo(odoms, cur)
  <2>1. /\ ~(Len(cloudQueue) < 2) /\ ImuCovers(imuQueue, cur)
        /\ imuQueue' = imus /\ odomQueue' = odoms
        /\ info' = [scan |-> cur, imuTimes |-> imu.times,
                    imuAvailable |-> imu.available, roll |-> imu.init,
                    odomAvailable |-> odom.available, guess |-> odom.init]
        /\ UNCHANGED <<imuSent, odomSent>>
    BY <1>4 DEF CloudHandler
  <2>2. cur \in Int
    BY <2>1 DEF QueueInv
  <2>3. /\ imu.available /\ imu.times[1] <= cur /\ ScanEnd(cur) <= Last(imu.times)
        /\ imu.init \in cur - Window .. cur
    BY <2>1, <2>2, RotationCovers DEF DeskewInv
  <2>4. odom.available => odom.init \in cur - Window .. cur + Max(OdomGaps)
    BY <2>2, GuessIsNear DEF DeskewInv
  <2>5. Spaced(imus, ImuGaps, imuSent) /\ Spaced(odoms, OdomGaps, odomSent)
    <3>1. ImuGaps \subseteq Nat /\ OdomGaps \subseteq Nat
      BY GapsAre
    <3>2. QED
      BY <2>2, <3>1, PoppedIs DEF DeskewInv
  <2> HIDE DEF cur, imus, odoms, imu, odom
  <2>6. DeskewCovers'
    BY <2>1, <2>3, <2>4 DEF DeskewCovers, ScanEnd
  <2>7. QED
    BY <2>1, <2>5, <2>6 DEF DeskewInv, Spaced
<1>5. QED
  <2>1. CloudHandler => UNCHANGED <<imuSent, odomSent>>
    BY DEF CloudHandler
  <2>2. UNCHANGED projectionVars => UNCHANGED <<imuQueue, odomQueue, imuSent, odomSent, info>>
    BY DEF projectionVars
  <2>3. QED
    BY <1>1, <1>2, <1>3, <1>4, <2>1, <2>2 DEF ProjectionNext

LEMMA DeskewStart == ProjectionInit => DeskewInv
<1> SUFFICES ASSUME ProjectionInit PROVE DeskewInv
  OBVIOUS
<1>1. NoStamp \in Int
  BY DEF NoStamp
<1>2. QED
  BY <1>1, NothingSpaced DEF ProjectionInit, DeskewInv, DeskewCovers

\* A cloud that is published has a rotation from before its start to its end, an
\* attitude from the window before its start, and a guess from around it or none,
\* whatever clouds were dropped and messages lost before (imageProjection.cpp:365).
THEOREM CloudsAreCovered == PerceptionSpec => []DeskewCovers
<1>1. PerceptionInit => DeskewInv
  BY DeskewStart DEF PerceptionInit
<1>2. QueueInv /\ DeskewInv /\ [PerceptionNext]_perceptionVars => DeskewInv'
  BY ProjectionAlone, DeskewStep
<1>3. DeskewInv => DeskewCovers
  BY DEF DeskewInv
<1>4. QED
  BY <1>1, <1>2, <1>3, OdometryInvariant, PTL DEF PerceptionSpec

----------------------------------------------------------------------------
(* The features of a cloud.  The curvatures of a ring lie Margin points off *)
(* its ends, so the segments of all rings are apart: the one with number n *)
(* takes indices no other takes.                                           *)

HIDE ProjectionAssumption
USE FeaturesAssumption

----------------------------------------------------------------------------
(* The features. *)

\* Division to zero.
LEMMA ProductGrows ==
  ASSUME NEW x \in Int, NEW y \in Int, NEW b \in Nat, x <= y
  PROVE  /\ x * b \in Int /\ y * b \in Int /\ x * b <= y * b
  OBVIOUS

LEMMA QuotientIs ==
  ASSUME NEW a \in Nat, NEW b \in Nat \ {0}
  PROVE  /\ a \div b \in Nat /\ (a \div b) * b <= a /\ a < ((a \div b) + 1) * b
  BY SMTT(30)

LEMMA DivGrows ==
  ASSUME NEW a \in Nat, NEW c \in Nat, a <= c, NEW b \in Nat \ {0}
  PROVE  a \div b <= c \div b
<1> DEFINE p == a \div b
           q == c \div b
<1>1. /\ p \in Nat /\ p * b <= a /\ q \in Nat /\ c < (q + 1) * b
  BY QuotientIs
<1> HIDE DEF p, q
<1>2. SUFFICES ASSUME q + 1 <= p PROVE FALSE
  BY <1>1 DEF p, q
<1>3. (q + 1) * b <= p * b /\ (q + 1) * b \in Int /\ p * b \in Int
  BY <1>1, <1>2, ProductGrows
<1>4. QED
  BY <1>1, <1>3

LEMMA QuotientGrows ==
  ASSUME NEW a \in Int, NEW c \in Int, a <= c, NEW b \in Nat \ {0}
  PROVE  Quotient(a, b) \in Int /\ Quotient(a, b) <= Quotient(c, b)
<1>1. CASE a >= 0
  <2>1. a \in Nat /\ c \in Nat
    BY <1>1
  <2>2. a \div b \in Nat /\ c \div b \in Nat /\ a \div b <= c \div b
    BY <2>1, QuotientIs, DivGrows
  <2>3. QED
    BY <1>1, <2>1, <2>2 DEF Quotient
<1>2. CASE ~(a >= 0)
  <2>1. -a \in Nat /\ Quotient(a, b) = -((-a) \div b)
    BY <1>2 DEF Quotient
  <2>2. (-a) \div b \in Nat
    BY <2>1, QuotientIs
  <2>3. CASE c >= 0
    <3>1. c \in Nat /\ Quotient(c, b) = c \div b
      BY <2>3 DEF Quotient
    <3>2. c \div b \in Nat
      BY <3>1, QuotientIs
    <3>3. QED
      BY <2>1, <2>2, <3>1, <3>2
  <2>4. CASE ~(c >= 0)
    <3>1. -c \in Nat /\ Quotient(c, b) = -((-c) \div b)
      BY <2>4 DEF Quotient
    <3>2. (-c) \div b \in Nat
      BY <3>1, QuotientIs
    <3>3. -c <= -a
      OBVIOUS
    <3>4. (-c) \div b <= (-a) \div b
      BY <2>1, <3>1, <3>3, DivGrows
    <3>5. QED
      BY <2>1, <2>2, <3>1, <3>2, <3>4
  <2>5. QED
    BY <2>3, <2>4
<1>3. QED
  BY <1>1, <1>2

LEMMA QuotientOfProduct ==
  ASSUME NEW a \in Nat, NEW b \in Nat \ {0}
  PROVE  Quotient(a * b, b) = a
<1> DEFINE p == (a * b) \div b
<1>1. a * b \in Nat
  OBVIOUS
<1>2. p \in Nat /\ p * b <= a * b /\ a * b < (p + 1) * b
  BY <1>1, QuotientIs
<1>3. Quotient(a * b, b) = p
  BY <1>1 DEF Quotient
<1> HIDE DEF p
<1>4. ~(p + 1 <= a)
  <2> SUFFICES ASSUME p + 1 <= a PROVE FALSE
    OBVIOUS
  <2>1. (p + 1) * b <= a * b /\ (p + 1) * b \in Int
    BY <1>2, ProductGrows
  <2>2. QED
    BY <1>1, <1>2, <2>1
<1>5. ~(a + 1 <= p)
  <2> SUFFICES ASSUME a + 1 <= p PROVE FALSE
    OBVIOUS
  <2>1. (a + 1) * b <= p * b /\ (a + 1) * b \in Int /\ p * b \in Int
    BY <1>2, ProductGrows
  <2>2. (a + 1) * b = a * b + b
    OBVIOUS
  <2>3. QED
    BY <1>1, <1>2, <2>1, <2>2
<1>6. QED
  BY <1>2, <1>3, <1>4, <1>5

\* How far a segment is on the way from the first to the last index of a ring.
LEMMA PartIs ==
  ASSUME NEW s \in Int, NEW e \in Int, NEW j \in 0 .. Segments
  PROVE  /\ s * (Segments - j) + e * j = s * Segments + (e - s) * j
         /\ s * Segments \in Int /\ (e - s) * j \in Int
<1>1. Segments \in Int /\ j \in Int /\ e - s \in Int
  BY FeaturesAssumption
<1>2. s * (Segments - j) = s * Segments - s * j /\ (e - s) * j = e * j - s * j
  BY <1>1
<1>3. s * Segments \in Int /\ s * j \in Int /\ e * j \in Int
  BY <1>1
<1>4. QED
  BY <1>2, <1>3

LEMMA PartGrows ==
  ASSUME NEW s \in Int, NEW e \in Int, s <= e,
         NEW j \in 0 .. Segments, NEW k \in 0 .. Segments, j <= k
  PROVE  /\ s * (Segments - j) + e * j \in Int
         /\ s * (Segments - j) + e * j <= s * (Segments - k) + e * k
<1>1. e - s \in Nat /\ j \in Int /\ k \in Int /\ Segments \in Nat
  BY FeaturesAssumption
<1>2. j * (e - s) <= k * (e - s)
  BY <1>1, ProductGrows
<1>3. j * (e - s) = (e - s) * j /\ k * (e - s) = (e - s) * k
  BY <1>1
<1>4. QED
  BY <1>1, <1>2, <1>3, PartIs

LEMMA PartShrinks ==
  ASSUME NEW s \in Int, NEW e \in Int, e <= s,
         NEW j \in 0 .. Segments, NEW k \in 0 .. Segments, j <= k
  PROVE  /\ s * (Segments - k) + e * k \in Int
         /\ s * (Segments - k) + e * k <= s * (Segments - j) + e * j
<1>1. s - e \in Nat /\ j \in Int /\ k \in Int /\ Segments \in Nat
  BY FeaturesAssumption
<1>2. j * (s - e) <= k * (s - e) /\ j * (s - e) \in Int /\ k * (s - e) \in Int
  BY <1>1, ProductGrows
<1>3. (e - s) * j = -(j * (s - e)) /\ (e - s) * k = -(k * (s - e))
  BY <1>1
<1>4. QED
  BY <1>1, <1>2, <1>3, PartIs

\* The first k rings of a cloud are its points from one index to the next.
Split(cloud, from, k) ==
  /\ from \in [0 .. k -> Nat]
  /\ \A r, q \in 0 .. k : r <= q => from[r] <= from[q]
  /\ from[k] = Len(cloud.points)
  /\ \A r \in 0 .. k - 1 :
       /\ cloud.start[r] = from[r] - 1 + Margin
       /\ cloud.end[r] = from[r + 1] - 1 - Margin
       /\ \A i \in from[r] .. from[r + 1] - 1 : cloud.points[i + 1].ring = r

SegmentOf(cloud, n) ==
  LET sp == SegmentStart(cloud, n \div Segments, n % Segments)
      ep == SegmentEnd(cloud, n \div Segments, n % Segments)
  IN IF sp >= ep THEN {} ELSE sp .. ep

\* An index in a segment lies in its ring and, of two segments of a ring, before
\* the later one.
LEMMA SegmentBounds ==
  ASSUME NEW cloud, NEW from, Split(cloud, from, NScan), NEW r \in 0 .. NScan - 1,
         NEW j \in 0 .. Segments - 1
  PROVE  LET sp == SegmentStart(cloud, r, j)
             ep == SegmentEnd(cloud, r, j)
         IN /\ sp \in Int /\ ep \in Int
            /\ sp < ep => /\ from[r] <= sp /\ ep < from[r + 1]
                          /\ \A k \in j + 1 .. Segments - 1 : ep < SegmentStart(cloud, r, k)
<1> DEFINE s == cloud.start[r]
           e == cloud.end[r]
           Part(k) == s * (Segments - k) + e * k
           sp == SegmentStart(cloud, r, j)
           ep == SegmentEnd(cloud, r, j)
<1>1. /\ r \in 0 .. NScan /\ r + 1 \in 0 .. NScan /\ Segments \in Nat \ {0} /\ Margin \in Nat \ {0}
      /\ NScan \in Nat
  BY FeaturesAssumption
<1>2. /\ from[r] \in Nat /\ from[r + 1] \in Nat
      /\ s = from[r] - 1 + Margin /\ e = from[r + 1] - 1 - Margin
  BY <1>1 DEF Split
<1>3. s \in Nat /\ e \in Int /\ from[r] <= s /\ e < from[r + 1]
  BY <1>1, <1>2
<1>4. /\ j \in 0 .. Segments /\ j + 1 \in 0 .. Segments /\ 0 \in 0 .. Segments /\ j \in Nat
      /\ Segments \in 0 .. Segments
  BY <1>1
<1>5. /\ sp = Quotient(Part(j), Segments)
      /\ ep = Quotient(Part(j + 1), Segments) - 1
  <2>1. Segments - (j + 1) = Segments - 1 - j
    BY <1>1
  <2>2. QED
    BY <2>1 DEF SegmentStart, SegmentEnd
<1> HIDE DEF s, e, sp, ep
<1>6. CASE e <= s
  <2>1. Part(j + 1) \in Int /\ Part(j + 1) <= Part(j)
    BY <1>3, <1>4, <1>6, PartShrinks
  <2>2. Part(j) \in Int
    BY <1>3, <1>4, <1>6, PartShrinks
  <2> HIDE DEF Part
  <2>3. /\ Quotient(Part(j + 1), Segments) \in Int /\ Quotient(Part(j), Segments) \in Int
        /\ Quotient(Part(j + 1), Segments) <= Quotient(Part(j), Segments)
    BY <1>1, <2>1, <2>2, QuotientGrows
  <2>4. sp \in Int /\ ep \in Int /\ ~(sp < ep)
    BY <1>5, <2>3
  <2>5. QED
    BY <2>4 DEF sp, ep
<1>7. CASE ~(e <= s)
  <2>1. s <= e
    BY <1>3, <1>7
  <2>2. ASSUME NEW k \in 0 .. Segments, NEW m \in 0 .. Segments, k <= m
        PROVE  /\ Quotient(Part(k), Segments) \in Int
               /\ Quotient(Part(k), Segments) <= Quotient(Part(m), Segments)
    <3>1. Part(k) \in Int /\ Part(m) \in Int /\ Part(k) <= Part(m)
      BY <1>3, <2>1, <2>2, PartGrows
    <3> HIDE DEF Part
    <3>2. QED
      BY <1>1, <3>1, QuotientGrows
  <2>3. Quotient(Part(0), Segments) = s
    <3>1. Part(0) = s * Segments
      BY <1>1, <1>3
    <3>2. QED
      BY <1>1, <1>3, <3>1, QuotientOfProduct
  <2>4. Quotient(Part(Segments), Segments) = e
    <3>1. Part(Segments) = e * Segments
      BY <1>1, <1>3
    <3>2. e \in Nat
      BY <1>3, <2>1
    <3>3. QED
      BY <1>1, <3>1, <3>2, QuotientOfProduct
  <2>5. ASSUME NEW k \in j + 1 .. Segments - 1
        PROVE  ep < SegmentStart(cloud, r, k)
    <3>1. k \in 0 .. Segments /\ j + 1 <= k
      BY <1>1, <1>4
    <3>2. SegmentStart(cloud, r, k) = Quotient(Part(k), Segments)
      BY DEF SegmentStart, s, e
    <3> HIDE DEF Part
    <3>3. /\ Quotient(Part(j + 1), Segments) \in Int
          /\ Quotient(Part(j + 1), Segments) <= Quotient(Part(k), Segments)
      BY <1>4, <2>2, <3>1
    <3>4. Quotient(Part(k), Segments) \in Int
      BY <2>2, <3>1
    <3>5. QED
      BY <1>5, <3>2, <3>3, <3>4
  <2> HIDE DEF Part
  <2>6. s <= sp /\ sp \in Int
    <3>1. 0 <= j
      BY <1>4
    <3>2. /\ Quotient(Part(0), Segments) <= Quotient(Part(j), Segments)
          /\ Quotient(Part(j), Segments) \in Int
      BY <1>4, <2>2, <3>1
    <3>3. QED
      BY <1>5, <2>3, <3>2
  <2>7. ep < e /\ ep \in Int
    <3>1. j + 1 <= Segments
      BY <1>4
    <3>2. /\ Quotient(Part(j + 1), Segments) <= Quotient(Part(Segments), Segments)
          /\ Quotient(Part(j + 1), Segments) \in Int
      BY <1>4, <2>2, <3>1
    <3>3. QED
      BY <1>3, <1>5, <2>4, <3>2
  <2>8. from[r] <= sp /\ ep < from[r + 1]
    BY <1>2, <1>3, <2>6, <2>7
  <2>9. QED
    BY <2>5, <2>6, <2>7, <2>8 DEF sp, ep
<1>8. QED
  BY <1>6, <1>7

LEMMA SegmentNumbers ==
  ASSUME NEW n \in 0 .. NScan * Segments - 1
  PROVE  /\ n \div Segments \in 0 .. NScan - 1 /\ n % Segments \in 0 .. Segments - 1
         /\ n = (n \div Segments) * Segments + (n % Segments)
<1> DEFINE q == n \div Segments
           r == n % Segments
<1>1. Segments \in Nat \ {0} /\ NScan \in Nat /\ NScan * Segments \in Nat
  BY FeaturesAssumption
<1>2. n \in Nat /\ n < NScan * Segments
  BY <1>1
<1>3. q \in Nat /\ q * Segments <= n
  BY <1>1, <1>2, QuotientIs
<1>4. r \in 0 .. Segments - 1 /\ n = q * Segments + r
  BY ONLY <1>1, <1>2, SMTT(30)
<1> HIDE DEF q, r
<1>5. ~(NScan <= q)
  <2> SUFFICES ASSUME NScan <= q PROVE FALSE
    OBVIOUS
  <2>1. NScan * Segments <= q * Segments /\ q * Segments \in Int
    BY <1>1, <1>3, ProductGrows
  <2>2. QED
    BY <1>1, <1>2, <1>3, <2>1
<1>6. QED
  BY <1>1, <1>3, <1>4, <1>5 DEF q, r

LEMMA SegmentOrder ==
  ASSUME NEW m \in 0 .. NScan * Segments - 1, NEW n \in 0 .. NScan * Segments - 1, m < n
  PROVE  \/ m \div Segments < n \div Segments
         \/ m \div Segments = n \div Segments /\ m % Segments < n % Segments
<1>1. Segments \in Nat \ {0} /\ NScan \in Nat
  BY FeaturesAssumption
<1> DEFINE p == m \div Segments
           q == n \div Segments
           i == m % Segments
           j == n % Segments
<1>2. /\ p \in Nat /\ i \in 0 .. Segments - 1 /\ m = p * Segments + i
      /\ q \in Nat /\ j \in 0 .. Segments - 1 /\ n = q * Segments + j
  <2>1. p \in 0 .. NScan - 1 /\ i \in 0 .. Segments - 1 /\ m = p * Segments + i
    BY SegmentNumbers
  <2>2. q \in 0 .. NScan - 1 /\ j \in 0 .. Segments - 1 /\ n = q * Segments + j
    BY SegmentNumbers
  <2> HIDE DEF p, q, i, j
  <2>3. p \in Nat /\ q \in Nat
    BY ONLY <1>1, <2>1, <2>2
  <2>4. QED
    BY <2>1, <2>2, <2>3
<1> HIDE DEF p, q, i, j
<1>3. ~(q + 1 <= p)
  <2> SUFFICES ASSUME q + 1 <= p PROVE FALSE
    OBVIOUS
  <2>1. /\ (q + 1) * Segments <= p * Segments
        /\ (q + 1) * Segments \in Int /\ p * Segments \in Int
    BY <1>1, <1>2, ProductGrows
  <2>2. (q + 1) * Segments = q * Segments + Segments
    BY <1>1, <1>2
  <2>3. q * Segments \in Int
    BY <1>1, <1>2
  <2>4. QED
    BY <1>1, <1>2, <2>1, <2>2, <2>3
<1>4. p = q => i < j
  BY <1>1, <1>2
<1>5. QED
  BY <1>2, <1>3, <1>4 DEF p, q, i, j

LEMMA SegmentInRing ==
  ASSUME NEW cloud, NEW from, Split(cloud, from, NScan), NEW n \in 0 .. NScan * Segments - 1,
         NEW x \in SegmentOf(cloud, n)
  PROVE  /\ x \in from[n \div Segments] .. from[n \div Segments + 1] - 1
         /\ x \in 0 .. Len(cloud.points) - 1
         /\ cloud.points[x + 1].ring = n \div Segments
<1> DEFINE r == n \div Segments
           j == n % Segments
           sp == SegmentStart(cloud, r, j)
           ep == SegmentEnd(cloud, r, j)
<1>1. r \in 0 .. NScan - 1 /\ j \in 0 .. Segments - 1
  BY SegmentNumbers
<1>2. sp < ep /\ x \in sp .. ep /\ sp \in Int /\ ep \in Int
  <2>1. sp \in Int /\ ep \in Int
    <3> HIDE DEF r, j
    <3>1. QED
      BY <1>1, SegmentBounds
  <2>2. ~(sp >= ep) /\ x \in sp .. ep
    BY DEF SegmentOf
  <2> HIDE DEF sp, ep
  <2>3. QED
    BY <2>1, <2>2
<1>3. from[r] <= sp /\ ep < from[r + 1]
  <2> HIDE DEF r, j
  <2>1. QED
    BY <1>1, <1>2, SegmentBounds
<1> HIDE DEF r, j, sp, ep
<1>4. /\ from[r] \in Nat /\ from[r + 1] \in Nat /\ from[NScan] \in Nat
      /\ from[r + 1] <= from[NScan] /\ from[NScan] = Len(cloud.points)
  <2>1. NScan \in Nat
    BY FeaturesAssumption
  <2>2. r \in 0 .. NScan /\ r + 1 \in 0 .. NScan /\ NScan \in 0 .. NScan /\ r + 1 <= NScan
    BY <1>1, <2>1
  <2>3. QED
    BY <2>2 DEF Split
<1>5. x \in from[r] .. from[r + 1] - 1
  BY <1>2, <1>3, <1>4
<1>6. cloud.points[x + 1].ring = r
  BY <1>1, <1>5 DEF Split
<1>7. QED
  BY <1>4, <1>5, <1>6 DEF r

LEMMA SegmentsApart ==
  ASSUME NEW cloud, NEW from, Split(cloud, from, NScan),
         NEW m \in 0 .. NScan * Segments - 1, NEW n \in 0 .. NScan * Segments - 1, m < n,
         NEW x \in SegmentOf(cloud, m), NEW y \in SegmentOf(cloud, n)
  PROVE  x < y
<1> DEFINE p == m \div Segments
           q == n \div Segments
<1>1. p \in 0 .. NScan - 1 /\ q \in 0 .. NScan - 1 /\ NScan \in Nat
  BY SegmentNumbers, FeaturesAssumption
<1>2. x \in from[p] .. from[p + 1] - 1 /\ y \in from[q] .. from[q + 1] - 1
  BY SegmentInRing
<1>3. CASE p < q
  <2> HIDE DEF p, q
  <2>1. p + 1 \in 0 .. NScan /\ q \in 0 .. NScan /\ p \in 0 .. NScan /\ q + 1 \in 0 .. NScan /\ p + 1 <= q
    BY <1>1, <1>3
  <2>2. /\ from[p + 1] <= from[q] /\ from[p + 1] \in Nat /\ from[q] \in Nat
        /\ from[p] \in Nat /\ from[q + 1] \in Nat
    BY <2>1 DEF Split
  <2>3. QED
    BY <1>2, <2>2
<1>4. CASE p = q /\ m % Segments < n % Segments
  <2> DEFINE i == m % Segments
             j == n % Segments
             sp == SegmentStart(cloud, p, i)
             ep == SegmentEnd(cloud, p, i)
             sq == SegmentStart(cloud, p, j)
             eq == SegmentEnd(cloud, p, j)
  <2>1. i \in 0 .. Segments - 1 /\ j \in 0 .. Segments - 1 /\ i < j
    BY <1>4, SegmentNumbers
  <2>2. /\ ~(sp >= ep) /\ x \in sp .. ep
        /\ y \in sq .. eq
    BY <1>4 DEF SegmentOf
  <2> HIDE DEF i, j, p, q
  <2>3. /\ sp \in Int /\ ep \in Int
        /\ sp < ep => \A k \in i + 1 .. Segments - 1 : ep < SegmentStart(cloud, p, k)
    BY <1>1, <2>1, SegmentBounds
  <2>4. sq \in Int /\ eq \in Int
    BY <1>1, <2>1, SegmentBounds
  <2>5. j \in i + 1 .. Segments - 1
    BY <2>1, FeaturesAssumption
  <2>6. sp < ep => ep < sq
    BY <2>3, <2>5
  <2> HIDE DEF sp, ep, sq, eq
  <2>7. QED
    BY <2>2, <2>3, <2>4, <2>6
<1>5. QED
  BY <1>3, <1>4, SegmentOrder

\* What is in a list is listed once.
LEMMA ListedOnce ==
  ASSUME NEW S, IsFiniteSet(S), \A s \in SUBSET S : s # {} => Max(s) \in s
  PROVE  /\ Listed(S) \in Seq(S)
         /\ \A i, k \in 1 .. Len(Listed(S)) : i # k => Listed(S)[i] # Listed(S)[k]
<1> DEFINE Acc == Seq(S)
           pick == [s \in SUBSET S |-> Max(s)]
           step == [x \in S |-> [a \in Acc |-> Append(a, x)]]
<1>1. ASSUME NEW s \in SUBSET S, s # {} PROVE Max(s) \in s
  BY <1>1
<1>2. IsFiniteSet(S)
  OBVIOUS
<1>3. ASSUME NEW x \in S, NEW a \in Acc PROVE Append(a, x) \in Acc
  OBVIOUS
<1>4. <<>> \in Acc
  OBVIOUS
<1> HIDE DEF Acc
<1>5. /\ \A x \in S, a \in Acc : step[x][a] = Append(a, x)
      /\ FoldSteps(step, S, Acc)
  BY <1>3 DEF FoldSteps
<1>6. Picks(pick, S) /\ \A s \in SUBSET S : pick[s] = Max(s)
  BY <1>1 DEF Picks
<1> HIDE DEF step, pick
<1>7. PICK f : IsFold(f, S, Acc, <<>>, pick, step)
  BY <1>2, <1>4, <1>5, <1>6, FoldExists
<1>8. f = [s \in SUBSET S |-> IF s = {} THEN <<>> ELSE LET x == Max(s) IN Append(f[s \ {x}], x)]
  <2>1. ASSUME NEW s \in SUBSET S, s # {} PROVE f[s] = Append(f[s \ {Max(s)}], Max(s))
    <3>1. Max(s) \in S /\ f[s \ {Max(s)}] \in Acc
      BY <1>1, <1>7, <2>1 DEF IsFold
    <3>2. f[s] = step[Max(s)][f[s \ {Max(s)}]]
      BY <1>6, <1>7, <2>1 DEF IsFold
    <3>3. QED
      BY <1>5, <3>1, <3>2
  <2>2. f \in [SUBSET S -> Acc] /\ f[{}] = <<>>
    BY <1>7 DEF IsFold
  <2>3. QED
    BY <2>1, <2>2
<1> DEFINE g == CHOOSE g : g = [s \in SUBSET S |->
                  IF s = {} THEN <<>> ELSE LET x == Max(s) IN Append(g[s \ {x}], x)]
<1>9. g = [s \in SUBSET S |-> IF s = {} THEN <<>> ELSE LET x == Max(s) IN Append(g[s \ {x}], x)]
  BY <1>8
<1>10. Listed(S) = g[S]
  BY DEF Listed, MapThenFoldSet
<1> HIDE DEF g
<1> DEFINE Once(q, s) == q \in Seq(s) /\ \A i, k \in 1 .. Len(q) : i # k => q[i] # q[k]
           Bad == {s \in SUBSET S : ~Once(g[s], s)}
<1>11. SUFFICES ASSUME Bad # {} PROVE FALSE
  <2>1. S \in SUBSET S
    OBVIOUS
  <2>2. QED
    BY <1>10, <2>1
<1>12. PICK s \in Bad : \A u \in Bad : ~(u \subseteq s /\ u # s)
  <2>1. Bad \subseteq SUBSET S
    OBVIOUS
  <2> HIDE DEF Bad
  <2>2. QED
    BY <1>2, <1>11, <2>1, LeastSet
<1>13. s \in SUBSET S /\ ~Once(g[s], s)
  OBVIOUS
<1>14. CASE s = {}
  <2>1. g[s] = <<>>
    BY <1>9, <1>14
  <2>2. Once(<<>>, s)
    OBVIOUS
  <2>3. QED
    BY <1>13, <2>1, <2>2
<1>15. CASE s # {}
  <2> DEFINE x == Max(s)
             u == s \ {x}
             q == g[u]
  <2>1. x \in s
    BY <1>1, <1>13, <1>15
  <2>2. u \in SUBSET S /\ u \subseteq s /\ u # s
    BY <1>13, <2>1
  <2>3. u \notin Bad
    BY <1>12, <2>2
  <2>4. Once(q, u)
    BY <2>2, <2>3
  <2>5. g[s] = Append(q, x)
    BY <1>9, <1>13, <1>15
  <2>6. x \notin u
    OBVIOUS
  <2> HIDE DEF x, u, q, Bad
  <2>7. q \in Seq(s) /\ Len(q) \in Nat /\ \A i \in 1 .. Len(q) : q[i] \in u
    <3>1. q \in Seq(u)
      BY <2>4
    <3>2. Len(q) \in Nat /\ DOMAIN q = 1 .. Len(q) /\ \A i \in 1 .. Len(q) : q[i] \in u
      BY <3>1
    <3>3. q \in [1 .. Len(q) -> u]
      BY <3>1
    <3>4. q \in [1 .. Len(q) -> s]
      BY <2>2, <3>3
    <3>5. QED
      BY <3>2, <3>4
  <2>8. /\ Append(q, x) \in Seq(s) /\ Len(Append(q, x)) = Len(q) + 1
        /\ Append(q, x)[Len(q) + 1] = x /\ \A i \in 1 .. Len(q) : Append(q, x)[i] = q[i]
    BY <2>1, <2>7, AppendProperties
  <2>9. ASSUME NEW i \in 1 .. Len(q) + 1, NEW k \in 1 .. Len(q) + 1, i # k
        PROVE  Append(q, x)[i] # Append(q, x)[k]
    <3>1. i \in 1 .. Len(q) \/ i = Len(q) + 1
      BY <2>7
    <3>2. k \in 1 .. Len(q) \/ k = Len(q) + 1
      BY <2>7
    <3>3. QED
      BY <2>4, <2>6, <2>7, <2>8, <2>9, <3>1, <3>2
  <2>10. Once(Append(q, x), s)
    BY <2>8, <2>9
  <2>11. QED
    BY <1>13, <2>5, <2>10
<1>16. QED
  BY <1>14, <1>15

LEMMA ListedIs ==
  ASSUME NEW b \in Nat, NEW S \in SUBSET (0 .. b)
  PROVE  /\ Listed(S) \in Seq(S)
         /\ \A i, k \in 1 .. Len(Listed(S)) : i # k => Listed(S)[i] # Listed(S)[k]
<1>1. IsFiniteSet(S)
  <2>1. IsFiniteSet(0 .. b)
    BY FS_Interval
  <2>2. QED
    BY <2>1, FS_Subset
<1>2. ASSUME NEW s \in SUBSET S, s # {} PROVE Max(s) \in s
  <2>1. s \subseteq Nat /\ \A k \in s : k <= b
    OBVIOUS
  <2>2. QED
    BY <1>2, <2>1, GreatestNatural
<1>3. QED
  BY <1>1, <1>2, ListedOnce

LEMMA SortedIs ==
  ASSUME NEW cloud, NEW from \in Nat, NEW to \in Nat, from <= to
  PROVE  Sorted(cloud, from, to) \in Seq(from .. to)
<1> DEFINE Of(kind) == Listed({i \in from .. to - 1 : Kind(cloud, i) = kind})
<1>1. ASSUME NEW kind PROVE Of(kind) \in Seq(from .. to)
  <2> DEFINE S == {i \in from .. to - 1 : Kind(cloud, i) = kind}
  <2>1. S \in SUBSET (0 .. to) /\ S \subseteq from .. to
    OBVIOUS
  <2> HIDE DEF S
  <2>2. Listed(S) \in Seq(S)
    BY <2>1, ListedIs
  <2>3. Listed(S) \in [1 .. Len(Listed(S)) -> S] /\ Len(Listed(S)) \in Nat
    BY <2>2
  <2>4. Listed(S) \in [1 .. Len(Listed(S)) -> from .. to]
    BY <2>1, <2>3
  <2>5. Listed(S) \in Seq(from .. to)
    BY <2>3, <2>4
  <2>6. QED
    BY <2>5 DEF S
<1>2. Sorted(cloud, from, to) = Of("flat") \o Of("marked") \o Of("edge") \o <<to>>
  BY DEF Sorted
<1> HIDE DEF Of
<1>3. <<to>> \in Seq(from .. to)
  OBVIOUS
<1>4. QED
  BY <1>1, <1>2, <1>3

\* The points around one have it around them.
LEMMA AroundEachOther ==
  ASSUME NEW cloud, NEW i \in 0 .. Len(cloud.points) - 1, NEW k \in Around(cloud, i)
  PROVE  i \in Around(cloud, k)
<1>1. Margin \in Nat
  BY FeaturesAssumption
<1>2. /\ k \in 0 .. Len(cloud.points) - 1 /\ k - i \in -Margin .. Margin
      /\ \A m \in 1 .. Len(cloud.points) - 1 :
           (m \in i + 1 .. k \/ m \in k + 1 .. i) => ~cloud.points[m + 1].gap
  BY DEF Around
<1>3. i - k \in -Margin .. Margin
  <2>1. i \in Int /\ k \in Int
    BY <1>2
  <2>2. QED
    BY <1>1, <1>2, <2>1
<1>4. QED
  BY <1>2, <1>3 DEF Around

\* Corners of a segment I, marked so far.
CornersIn(cloud, I, marked) ==
  {acc \in [corners : SUBSET I, marked : SUBSET (0 .. Len(cloud.points) - 1), full : BOOLEAN] :
     /\ marked \subseteq acc.marked
     /\ \A i \in acc.corners :
          i \notin marked /\ Kind(cloud, i) = "edge" /\ Around(cloud, i) \subseteq acc.marked
     /\ \A i, k \in acc.corners : i # k => k \notin Around(cloud, i)}

LEMMA CornerPicked ==
  ASSUME NEW cloud, NEW I, I \subseteq 0 .. Len(cloud.points) - 1, NEW marked,
         NEW acc \in CornersIn(cloud, I, marked), NEW i \in I
  PROVE  PickCorner(cloud, acc, i) \in CornersIn(cloud, I, marked)
<1>1. CASE i \in acc.marked \/ Kind(cloud, i) # "edge" \/ acc.full
  BY <1>1 DEF PickCorner
<1>2. CASE ~(i \in acc.marked \/ Kind(cloud, i) # "edge" \/ acc.full)
           /\ Cardinality(acc.corners) = EdgeMax
  <2>1. PickCorner(cloud, acc, i) = [acc EXCEPT !.full = TRUE]
    BY <1>2 DEF PickCorner
  <2> DEFINE new == [acc EXCEPT !.full = TRUE]
  <2>2. /\ new \in [corners : SUBSET I, marked : SUBSET (0 .. Len(cloud.points) - 1), full : BOOLEAN]
        /\ new.corners = acc.corners /\ new.marked = acc.marked
    BY DEF CornersIn
  <2> HIDE DEF new
  <2>3. QED
    BY <2>1, <2>2 DEF CornersIn, new
<1>3. CASE /\ i \notin acc.marked /\ Kind(cloud, i) = "edge"
           /\ Cardinality(acc.corners) # EdgeMax /\ ~acc.full
  <2> DEFINE around == Around(cloud, i)
             new == [acc EXCEPT !.corners = @ \cup {i}, !.marked = @ \cup around]
  <2>1. PickCorner(cloud, acc, i) = new
    BY <1>3 DEF PickCorner
  <2>2. around \subseteq 0 .. Len(cloud.points) - 1 /\ i \in 0 .. Len(cloud.points) - 1
    BY DEF Around
  <2>3. /\ acc \in [corners : SUBSET I, marked : SUBSET (0 .. Len(cloud.points) - 1), full : BOOLEAN]
        /\ marked \subseteq acc.marked
        /\ \A k \in acc.corners :
             k \notin marked /\ Kind(cloud, k) = "edge" /\ Around(cloud, k) \subseteq acc.marked
        /\ \A k, m \in acc.corners : k # m => m \notin Around(cloud, k)
    BY DEF CornersIn
  <2>4. ASSUME NEW k \in acc.corners
        PROVE  i \notin Around(cloud, k) /\ k \notin Around(cloud, i)
    <3>1. i \notin Around(cloud, k)
      BY <1>3, <2>3
    <3>2. k \in Around(cloud, i) => i \in Around(cloud, k)
      BY <2>2, AroundEachOther
    <3>3. QED
      BY <3>1, <3>2
  <2> HIDE DEF around
  <2>5. /\ new \in [corners : SUBSET I, marked : SUBSET (0 .. Len(cloud.points) - 1), full : BOOLEAN]
        /\ new.corners = acc.corners \cup {i} /\ new.marked = acc.marked \cup around
    BY <2>2, <2>3
  <2> HIDE DEF new
  <2>6. ASSUME NEW k \in new.corners
        PROVE  k \notin marked /\ Kind(cloud, k) = "edge" /\ Around(cloud, k) \subseteq new.marked
    BY <1>3, <2>3, <2>5, <2>6 DEF around
  <2>7. ASSUME NEW k \in new.corners, NEW m \in new.corners, k # m
        PROVE  m \notin Around(cloud, k)
    BY <2>3, <2>4, <2>5, <2>7
  <2>8. marked \subseteq new.marked
    BY <2>3, <2>5
  <2>9. QED
    BY <2>1, <2>5, <2>6, <2>7, <2>8 DEF CornersIn
<1>4. QED
  BY <1>1, <1>2, <1>3

LEMMA CornersPicked ==
  ASSUME NEW cloud, NEW I, I \subseteq 0 .. Len(cloud.points) - 1,
         NEW marked \in SUBSET (0 .. Len(cloud.points) - 1), NEW order \in Seq(I)
  PROVE  PickCorners(cloud, order, marked) \in CornersIn(cloud, I, marked)
<1> DEFINE n == Len(order)
           numbers == Reverse(order)
           Acc == CornersIn(cloud, I, marked)
           base == [corners |-> {}, marked |-> marked, full |-> FALSE]
           step == [x \in 1 .. n |-> [a \in Acc |-> PickCorner(cloud, a, numbers[x])]]
<1>1. n \in Nat /\ DOMAIN numbers = 1 .. n /\ \A x \in 1 .. n : numbers[x] \in I
  BY DEF Reverse
<1>2. base \in Acc
  BY DEF CornersIn
<1> HIDE DEF numbers, n, base
<1>3. ASSUME NEW a \in Acc, NEW x \in 1 .. n PROVE PickCorner(cloud, a, numbers[x]) \in Acc
  BY <1>1, CornerPicked
<1> HIDE DEF Acc
<1>4. /\ \A x \in 1 .. n, a \in Acc : step[x][a] = PickCorner(cloud, a, numbers[x])
      /\ FoldSteps(step, 1 .. n, Acc)
  BY <1>3 DEF FoldSteps
<1> HIDE DEF step
<1>5. PICK f : IsFold(f, 1 .. n, Acc, base, Lasts(n), step)
  BY <1>1, <1>2, <1>4, SeqFoldExists
<1>6. f = [s \in SUBSET (DOMAIN numbers) |->
             IF s = {} THEN base ELSE LET x == Max(s) IN PickCorner(cloud, f[s \ {x}], numbers[x])]
  <2>1. ASSUME NEW s \in SUBSET (1 .. n), s # {}
        PROVE  f[s] = PickCorner(cloud, f[s \ {Max(s)}], numbers[Max(s)])
    <3>1. Max(s) \in 1 .. n /\ f[s \ {Max(s)}] \in Acc
      BY <1>1, <1>5, <2>1, MaxOfInterval DEF IsFold
    <3>2. f[s] = step[Max(s)][f[s \ {Max(s)}]]
      BY <1>5, <2>1 DEF IsFold, Lasts
    <3>3. QED
      BY <3>1, <3>2, <1>4
  <2>2. f \in [SUBSET (1 .. n) -> Acc] /\ f[{}] = base
    BY <1>5 DEF IsFold
  <2>3. QED
    BY <1>1, <2>1, <2>2
<1> DEFINE g == CHOOSE g : g = [s \in SUBSET (DOMAIN numbers) |->
                  IF s = {} THEN base ELSE LET x == Max(s) IN PickCorner(cloud, g[s \ {x}], numbers[x])]
<1>7. g = [s \in SUBSET (DOMAIN numbers) |->
             IF s = {} THEN base ELSE LET x == Max(s) IN PickCorner(cloud, g[s \ {x}], numbers[x])]
  BY <1>6
<1>8. PickCorners(cloud, order, marked) = g[DOMAIN numbers]
  BY DEF PickCorners, FoldLeft, MapThenFoldSet, base, numbers
<1> HIDE DEF g
<1> DEFINE P == {k \in 0 .. n : g[1 .. k] \in Acc}
<1>9. 0 \in P
  BY <1>1, <1>2, <1>7
<1>10. ASSUME NEW k \in 0 .. n - 1, k \in P PROVE k + 1 \in P
  <2>1. /\ 1 .. k + 1 \in SUBSET (DOMAIN numbers) /\ k + 1 \in 1 .. n /\ k \in Nat
    BY <1>1
  <2>2. Max(1 .. k + 1) = k + 1 /\ (1 .. k + 1) \ {k + 1} = 1 .. k /\ 1 .. k + 1 # {}
    BY <2>1, NextOfInterval
  <2>3. g[1 .. k + 1] = PickCorner(cloud, g[1 .. k], numbers[k + 1])
    BY <1>7, <2>1, <2>2
  <2>4. g[1 .. k] \in Acc
    BY <1>10
  <2>5. PickCorner(cloud, g[1 .. k], numbers[k + 1]) \in Acc
    BY <1>3, <2>1, <2>4
  <2>6. k + 1 \in 0 .. n
    BY <1>1, <2>1
  <2>7. QED
    BY <2>3, <2>5, <2>6
<1> HIDE DEF P
<1>11. n \in P
  BY <1>1, <1>9, <1>10, UpTo
<1>12. QED
  BY <1>1, <1>8, <1>11 DEF P, Acc

LEMMA FlatMarked ==
  ASSUME NEW cloud, NEW I,
         NEW marked \in SUBSET (0 .. Len(cloud.points) - 1), NEW order \in Seq(I)
  PROVE  /\ MarkFlat(cloud, order, marked) \subseteq 0 .. Len(cloud.points) - 1
         /\ marked \subseteq MarkFlat(cloud, order, marked)
<1> DEFINE n == Len(order)
           Acc == {m \in SUBSET (0 .. Len(cloud.points) - 1) : marked \subseteq m}
           Flat(a, i) == IF i \in a \/ Kind(cloud, i) # "flat" THEN a ELSE a \cup Around(cloud, i)
           step == [x \in 1 .. n |-> [a \in Acc |-> Flat(a, order[x])]]
<1>1. n \in Nat /\ DOMAIN order = 1 .. n
  OBVIOUS
<1>2. marked \in Acc
  OBVIOUS
<1>3. ASSUME NEW a \in Acc, NEW i PROVE Flat(a, i) \in Acc
  BY DEF Around
<1> HIDE DEF Acc, Flat, n
<1>4. /\ \A x \in 1 .. n, a \in Acc : step[x][a] = Flat(a, order[x])
      /\ FoldSteps(step, 1 .. n, Acc)
  BY <1>3 DEF FoldSteps
<1> HIDE DEF step
<1>5. PICK f : IsFold(f, 1 .. n, Acc, marked, Lasts(n), step)
  BY <1>1, <1>2, <1>4, SeqFoldExists
<1>6. f = [s \in SUBSET (DOMAIN order) |->
             IF s = {} THEN marked ELSE LET x == Max(s) IN Flat(f[s \ {x}], order[x])]
  <2>1. ASSUME NEW s \in SUBSET (1 .. n), s # {}
        PROVE  f[s] = Flat(f[s \ {Max(s)}], order[Max(s)])
    <3>1. Max(s) \in 1 .. n /\ f[s \ {Max(s)}] \in Acc
      BY <1>1, <1>5, <2>1, MaxOfInterval DEF IsFold
    <3>2. f[s] = step[Max(s)][f[s \ {Max(s)}]]
      BY <1>5, <2>1 DEF IsFold, Lasts
    <3>3. QED
      BY <3>1, <3>2, <1>4
  <2>2. f \in [SUBSET (1 .. n) -> Acc] /\ f[{}] = marked
    BY <1>5 DEF IsFold
  <2>3. QED
    BY <1>1, <2>1, <2>2
<1> DEFINE g == CHOOSE g : g = [s \in SUBSET (DOMAIN order) |->
                  IF s = {} THEN marked ELSE LET x == Max(s) IN Flat(g[s \ {x}], order[x])]
<1>7. g = [s \in SUBSET (DOMAIN order) |->
             IF s = {} THEN marked ELSE LET x == Max(s) IN Flat(g[s \ {x}], order[x])]
  BY <1>6
<1>8. MarkFlat(cloud, order, marked) = g[DOMAIN order]
  BY DEF MarkFlat, FoldLeft, MapThenFoldSet, Flat
<1> HIDE DEF g
<1> DEFINE P == {k \in 0 .. n : g[1 .. k] \in Acc}
<1>9. 0 \in P
  BY <1>1, <1>2, <1>7
<1>10. ASSUME NEW k \in 0 .. n - 1, k \in P PROVE k + 1 \in P
  <2>1. /\ 1 .. k + 1 \in SUBSET (DOMAIN order) /\ k + 1 \in 1 .. n /\ k \in Nat
    BY <1>1
  <2>2. Max(1 .. k + 1) = k + 1 /\ (1 .. k + 1) \ {k + 1} = 1 .. k /\ 1 .. k + 1 # {}
    BY <2>1, NextOfInterval
  <2>3. g[1 .. k + 1] = Flat(g[1 .. k], order[k + 1])
    BY <1>7, <2>1, <2>2
  <2>4. QED
    BY <1>3, <1>10, <2>1, <2>3
<1> HIDE DEF P
<1>11. n \in P
  BY <1>1, <1>9, <1>10, UpTo
<1>12. g[1 .. n] \in Acc
  BY <1>11 DEF P
<1>13. QED
  BY <1>1, <1>8, <1>12 DEF Acc

\* Rings that hold points of their own number.
OwnRings(T) ==
  {image \in [0 .. NScan - 1 -> Seq(T)] :
     \A r \in 0 .. NScan - 1 : \A i \in 1 .. Len(image[r]) : image[r][i].ring = r}

LEMMA PointProjected ==
  ASSUME NEW T, NEW image \in OwnRings(T), NEW p \in T
  PROVE  ProjectPoint(image, p) \in OwnRings(T)
<1>1. /\ image \in [0 .. NScan - 1 -> Seq(T)]
      /\ \A r \in 0 .. NScan - 1 : \A i \in 1 .. Len(image[r]) : image[r][i].ring = r
  BY DEF OwnRings
<1>2. CASE ~(p.inRange /\ p.ring \in DOMAIN image /\ Len(image[p.ring]) < Horizon)
  BY <1>2 DEF ProjectPoint
<1>3. CASE p.inRange /\ p.ring \in DOMAIN image /\ Len(image[p.ring]) < Horizon
  <2> DEFINE q == p.ring
             row == image[q]
             new == Append(row, p)
  <2>1. ProjectPoint(image, p) = [image EXCEPT ![q] = new]
    BY <1>3 DEF ProjectPoint
  <2>2. q \in 0 .. NScan - 1 /\ row \in Seq(T) /\ \A i \in 1 .. Len(row) : row[i].ring = q
    BY <1>1, <1>3
  <2>3. /\ new \in Seq(T) /\ Len(new) = Len(row) + 1 /\ Len(row) \in Nat
        /\ new[Len(row) + 1] = p /\ \A i \in 1 .. Len(row) : new[i] = row[i]
    BY <2>2, AppendProperties
  <2> HIDE DEF new, row
  <2>4. \A i \in 1 .. Len(new) : new[i].ring = q
    <3> SUFFICES ASSUME NEW i \in 1 .. Len(new) PROVE new[i].ring = q
      OBVIOUS
    <3>1. i \in 1 .. Len(row) \/ i = Len(row) + 1
      BY <2>3
    <3>2. QED
      BY <2>2, <2>3, <3>1
  <2> HIDE DEF q
  <2> DEFINE after == [image EXCEPT ![q] = new]
  <2>5. after \in [0 .. NScan - 1 -> Seq(T)]
    BY <1>1, <2>2, <2>3
  <2>6. \A r \in 0 .. NScan - 1 : after[r] = IF r = q THEN new ELSE image[r]
    BY <1>1, <2>2
  <2> HIDE DEF after
  <2>7. \A r \in 0 .. NScan - 1 : \A i \in 1 .. Len(after[r]) : after[r][i].ring = r
    <3> SUFFICES ASSUME NEW r \in 0 .. NScan - 1, NEW i \in 1 .. Len(after[r])
                 PROVE after[r][i].ring = r
      OBVIOUS
    <3>1. CASE r = q
      BY <2>4, <2>6, <3>1
    <3>2. CASE r # q
      BY <1>1, <2>6, <3>2
    <3>3. QED
      BY <3>1, <3>2
  <2>8. QED
    BY <2>1, <2>5, <2>7 DEF OwnRings, after
<1>4. QED
  BY <1>2, <1>3

LEMMA CloudProjected ==
  ASSUME NEW T, NEW pts \in Seq(T)
  PROVE  ProjectPointCloud(pts) \in OwnRings(T)
<1> DEFINE n == Len(pts)
           Acc == OwnRings(T)
           base == [r \in 0 .. NScan - 1 |-> <<>>]
           step == [x \in 1 .. n |-> [a \in Acc |-> ProjectPoint(a, pts[x])]]
<1>1. n \in Nat /\ DOMAIN pts = 1 .. n /\ \A x \in 1 .. n : pts[x] \in T
  OBVIOUS
<1>2. base \in Acc
  BY DEF OwnRings
<1> HIDE DEF n, base
<1>3. ASSUME NEW a \in Acc, NEW x \in 1 .. n PROVE ProjectPoint(a, pts[x]) \in Acc
  BY <1>1, PointProjected
<1> HIDE DEF Acc
<1>4. /\ \A x \in 1 .. n, a \in Acc : step[x][a] = ProjectPoint(a, pts[x])
      /\ FoldSteps(step, 1 .. n, Acc)
  BY <1>3 DEF FoldSteps
<1> HIDE DEF step
<1>5. PICK f : IsFold(f, 1 .. n, Acc, base, Lasts(n), step)
  BY <1>1, <1>2, <1>4, SeqFoldExists
<1>6. f = [s \in SUBSET (DOMAIN pts) |->
             IF s = {} THEN base ELSE LET x == Max(s) IN ProjectPoint(f[s \ {x}], pts[x])]
  <2>1. ASSUME NEW s \in SUBSET (1 .. n), s # {}
        PROVE  f[s] = ProjectPoint(f[s \ {Max(s)}], pts[Max(s)])
    <3>1. Max(s) \in 1 .. n /\ f[s \ {Max(s)}] \in Acc
      BY <1>1, <1>5, <2>1, MaxOfInterval DEF IsFold
    <3>2. f[s] = step[Max(s)][f[s \ {Max(s)}]]
      BY <1>5, <2>1 DEF IsFold, Lasts
    <3>3. QED
      BY <3>1, <3>2, <1>4
  <2>2. f \in [SUBSET (1 .. n) -> Acc] /\ f[{}] = base
    BY <1>5 DEF IsFold
  <2>3. QED
    BY <1>1, <2>1, <2>2
<1> DEFINE g == CHOOSE g : g = [s \in SUBSET (DOMAIN pts) |->
                  IF s = {} THEN base ELSE LET x == Max(s) IN ProjectPoint(g[s \ {x}], pts[x])]
<1>7. g = [s \in SUBSET (DOMAIN pts) |->
             IF s = {} THEN base ELSE LET x == Max(s) IN ProjectPoint(g[s \ {x}], pts[x])]
  BY <1>6
<1>8. ProjectPointCloud(pts) = g[DOMAIN pts]
  BY DEF ProjectPointCloud, FoldLeft, MapThenFoldSet, base
<1> HIDE DEF g
<1> DEFINE P == {k \in 0 .. n : g[1 .. k] \in Acc}
<1>9. 0 \in P
  BY <1>1, <1>2, <1>7
<1>10. ASSUME NEW k \in 0 .. n - 1, k \in P PROVE k + 1 \in P
  <2>1. /\ 1 .. k + 1 \in SUBSET (DOMAIN pts) /\ k + 1 \in 1 .. n /\ k \in Nat
    BY <1>1
  <2>2. Max(1 .. k + 1) = k + 1 /\ (1 .. k + 1) \ {k + 1} = 1 .. k /\ 1 .. k + 1 # {}
    BY <2>1, NextOfInterval
  <2>3. g[1 .. k + 1] = ProjectPoint(g[1 .. k], pts[k + 1])
    BY <1>7, <2>1, <2>2
  <2>4. QED
    BY <1>3, <1>10, <2>1, <2>3
<1> HIDE DEF P
<1>11. n \in P
  BY <1>1, <1>9, <1>10, UpTo
<1>12. QED
  BY <1>1, <1>8, <1>11 DEF P, Acc

Clouds(T) == [points : Seq(T), start : [0 .. NScan - 1 -> Int], end : [0 .. NScan - 1 -> Int]]

LEMMA RowsJoined ==
  ASSUME NEW T, NEW a \in Seq(T), NEW b \in Seq(T)
  PROVE  /\ a \o b \in Seq(T) /\ Len(a \o b) = Len(a) + Len(b)
         /\ \A i \in 1 .. Len(a) : (a \o b)[i] = a[i]
         /\ \A i \in Len(a) + 1 .. Len(a) + Len(b) : (a \o b)[i] = b[i - Len(a)]
  OBVIOUS

LEMMA RingExtracted ==
  ASSUME NEW T, NEW image \in OwnRings(T), NEW cloud \in Clouds(T), NEW r \in 0 .. NScan - 1
  PROVE  /\ ExtractRing(image, cloud, r) \in Clouds(T)
         /\ \A from : Split(cloud, from, r) =>
              \E f : Split(ExtractRing(image, cloud, r), f, r + 1)
<1> DEFINE row == image[r]
           new == ExtractRing(image, cloud, r)
           m == Len(cloud.points)
           l == Len(row)
           pts == cloud.points \o row
<1>1. /\ cloud.points \in Seq(T) /\ cloud.start \in [0 .. NScan - 1 -> Int]
      /\ cloud.end \in [0 .. NScan - 1 -> Int] /\ m \in Nat /\ Margin \in Nat
  BY FeaturesAssumption DEF Clouds
<1>2. row \in Seq(T) /\ l \in Nat /\ \A i \in 1 .. l : row[i].ring = r
  BY DEF OwnRings
<1>3. /\ pts \in Seq(T) /\ Len(pts) = m + l
      /\ \A i \in 1 .. m : pts[i] = cloud.points[i]
      /\ \A i \in m + 1 .. m + l : pts[i] = row[i - m]
  <2> HIDE DEF row
  <2>1. QED
    BY <1>1, <1>2, RowsJoined
<1>4. new = [points |-> pts,
             start |-> [cloud.start EXCEPT ![r] = m - 1 + Margin],
             end |-> [cloud.end EXCEPT ![r] = Len(pts) - 1 - Margin]]
  BY DEF ExtractRing
<1> HIDE DEF pts, new, m, l, row
<1>5. /\ new.points = pts
      /\ new.start = [cloud.start EXCEPT ![r] = m - 1 + Margin]
      /\ new.end = [cloud.end EXCEPT ![r] = m + l - 1 - Margin]
  <2>1. Len(pts) - 1 - Margin = m + l - 1 - Margin
    <3>1. Len(pts) = m + l
      BY <1>3
    <3>2. m \in Nat /\ l \in Nat /\ Margin \in Nat
      BY <1>1, <1>2
    <3>3. QED
      BY ONLY <3>1, <3>2
  <2>2. QED
    BY <1>4, <2>1
<1>6. new \in Clouds(T)
  <2>1. [cloud.start EXCEPT ![r] = m - 1 + Margin] \in [0 .. NScan - 1 -> Int]
    BY <1>1
  <2>2. [cloud.end EXCEPT ![r] = m + l - 1 - Margin] \in [0 .. NScan - 1 -> Int]
    BY <1>1, <1>2
  <2>3. QED
    BY <1>3, <1>4, <2>1, <2>2 DEF Clouds
<1>7. ASSUME NEW from, Split(cloud, from, r) PROVE \E f : Split(new, f, r + 1)
  <2> DEFINE f == [q \in 0 .. r + 1 |-> IF q = r + 1 THEN m + l ELSE from[q]]
  <2>1. r \in Nat /\ r <= NScan - 1 /\ NScan \in Nat
    BY FeaturesAssumption
  <2>2. /\ from \in [0 .. r -> Nat] /\ from[r] = m
        /\ \A p, q \in 0 .. r : p <= q => from[p] <= from[q]
        /\ \A p \in 0 .. r - 1 :
             /\ cloud.start[p] = from[p] - 1 + Margin
             /\ cloud.end[p] = from[p + 1] - 1 - Margin
             /\ \A i \in from[p] .. from[p + 1] - 1 : cloud.points[i + 1].ring = p
    BY <1>7 DEF Split, m
  <2>3. /\ \A q \in 0 .. r : q \in 0 .. r + 1 /\ q # r + 1 /\ f[q] = from[q] /\ from[q] \in Nat
        /\ f[r + 1] = m + l
    BY <2>1, <2>2
  <2>4. f \in [0 .. r + 1 -> Nat]
    <3>1. ASSUME NEW q \in 0 .. r + 1 PROVE q = r + 1 \/ q \in 0 .. r
      BY <2>1
    <3>2. m + l \in Nat
      BY <1>1, <1>2
    <3>3. QED
      BY <2>2, <3>1, <3>2
  <2> HIDE DEF f
  <2>5. ASSUME NEW p \in 0 .. r + 1, NEW q \in 0 .. r + 1, p <= q PROVE f[p] <= f[q]
    <3>1. (p \in 0 .. r \/ p = r + 1) /\ (q \in 0 .. r \/ q = r + 1) /\ r \in 0 .. r
      BY <2>1
    <3>2. CASE p \in 0 .. r /\ q \in 0 .. r
      BY <2>2, <2>3, <2>5, <3>2
    <3>3. CASE p \in 0 .. r /\ q = r + 1
      <4>1. p <= r /\ from[p] <= from[r] /\ from[p] \in Nat
        BY <2>1, <2>2, <3>1, <3>3
      <4>2. QED
        BY <1>1, <1>2, <2>2, <2>3, <3>3, <4>1
    <3>4. CASE p = r + 1
      <4>1. q = r + 1
        BY <2>1, <2>5, <3>4
      <4>2. QED
        BY <1>1, <1>2, <2>3, <3>4, <4>1
    <3>5. QED
      BY <3>1, <3>2, <3>3, <3>4
  <2>6. ASSUME NEW p \in 0 .. r
        PROVE  /\ new.start[p] = f[p] - 1 + Margin
               /\ new.end[p] = f[p + 1] - 1 - Margin
               /\ \A i \in f[p] .. f[p + 1] - 1 : new.points[i + 1].ring = p
    <3>1. CASE p = r
      <4>1. f[p] = m /\ f[p + 1] = m + l
        BY <2>1, <2>2, <2>3, <3>1
      <4>2. new.start[p] = m - 1 + Margin /\ new.end[p] = m + l - 1 - Margin
        BY <1>1, <1>5, <3>1
      <4>3. ASSUME NEW i \in m .. m + l - 1 PROVE new.points[i + 1].ring = p
        <5> DEFINE e == i + 1
        <5>1. m \in Nat /\ l \in Nat
          BY <1>1, <1>2
        <5>2. e \in m + 1 .. m + l /\ e - m \in 1 .. l
          BY ONLY <5>1
        <5> HIDE DEF e
        <5>3. pts[e] = row[e - m]
          BY <1>3, <5>2
        <5>4. row[e - m].ring = r
          BY <1>2, <5>2
        <5>5. new.points[e].ring = p
          BY <1>5, <3>1, <5>3, <5>4
        <5>6. QED
          BY <5>5 DEF e
      <4>4. f[p] .. f[p + 1] - 1 = m .. m + l - 1
        <5>1. m \in Nat /\ l \in Nat
          BY <1>1, <1>2
        <5>2. QED
          BY ONLY <4>1, <5>1
      <4>5. \A i \in f[p] .. f[p + 1] - 1 : new.points[i + 1].ring = p
        BY <4>3, <4>4
      <4>6. f[p] - 1 + Margin = m - 1 + Margin /\ f[p + 1] - 1 - Margin = m + l - 1 - Margin
        <5>1. m \in Nat /\ l \in Nat /\ Margin \in Nat
          BY <1>1, <1>2
        <5>2. QED
          BY ONLY <4>1, <5>1
      <4>7. QED
        BY <4>2, <4>5, <4>6
    <3>2. CASE p # r
      <4>1. p \in 0 .. r - 1 /\ p + 1 \in 0 .. r /\ p \in 0 .. NScan - 1 /\ r \in 0 .. r
        BY <2>1, <3>2
      <4>2. f[p] = from[p] /\ f[p + 1] = from[p + 1] /\ from[p] \in Nat /\ from[p + 1] \in Nat
        BY <2>3, <4>1
      <4>3. new.start[p] = cloud.start[p] /\ new.end[p] = cloud.end[p]
        BY <1>1, <1>5, <3>2, <4>1
      <4>4. from[p + 1] <= m
        BY <2>2, <4>1
      <4>5. ASSUME NEW i \in from[p] .. from[p + 1] - 1
            PROVE  new.points[i + 1].ring = p
        <5>1. i + 1 \in 1 .. m
          BY <1>1, <4>2, <4>4
        <5>2. cloud.points[i + 1].ring = p
          BY <2>2, <4>1
        <5>3. QED
          BY <1>3, <1>5, <5>1, <5>2
      <4>6. cloud.start[p] = from[p] - 1 + Margin /\ cloud.end[p] = from[p + 1] - 1 - Margin
        BY <2>2, <4>1
      <4>7. QED
        BY <4>2, <4>3, <4>5, <4>6
    <3>3. QED
      BY <3>1, <3>2
  <2>7. f[r + 1] = Len(new.points)
    BY <1>3, <1>5, <2>3
  <2>8. r + 1 - 1 = r
    BY <2>1
  <2>9. Split(new, f, r + 1)
    BY <2>4, <2>5, <2>6, <2>7, <2>8 DEF Split
  <2>10. QED
    BY <2>9
<1>8. QED
  BY <1>6, <1>7 DEF new

LEMMA CloudExtracted ==
  ASSUME NEW T, NEW image \in OwnRings(T)
  PROVE  /\ CloudExtraction(image) \in Clouds(T)
         /\ \E from : Split(CloudExtraction(image), from, NScan)
<1> DEFINE n == NScan
           numbers == [i \in 1 .. NScan |-> i - 1]
           zeros == [r \in 0 .. NScan - 1 |-> 0]
           Acc == Clouds(T)
           base == [points |-> <<>>, start |-> zeros, end |-> zeros]
           step == [x \in 1 .. n |-> [a \in Acc |-> ExtractRing(image, a, numbers[x])]]
<1>1. /\ n \in Nat /\ DOMAIN numbers = 1 .. n
      /\ \A x \in 1 .. n : numbers[x] = x - 1 /\ numbers[x] \in 0 .. NScan - 1
  BY FeaturesAssumption
<1>2. base \in Acc
  BY DEF Clouds
<1>3. Split(base, [q \in 0 .. 0 |-> 0], 0)
  BY DEF Split
<1> HIDE DEF n, base, numbers
<1>4. ASSUME NEW a \in Acc, NEW x \in 1 .. n PROVE ExtractRing(image, a, numbers[x]) \in Acc
  BY <1>1, RingExtracted
<1> HIDE DEF Acc
<1>5. /\ \A x \in 1 .. n, a \in Acc : step[x][a] = ExtractRing(image, a, numbers[x])
      /\ FoldSteps(step, 1 .. n, Acc)
  BY <1>4 DEF FoldSteps
<1> HIDE DEF step
<1>6. PICK f : IsFold(f, 1 .. n, Acc, base, Lasts(n), step)
  BY <1>1, <1>2, <1>5, SeqFoldExists
<1>7. f = [s \in SUBSET (DOMAIN numbers) |->
             IF s = {} THEN base ELSE LET x == Max(s) IN ExtractRing(image, f[s \ {x}], numbers[x])]
  <2>1. ASSUME NEW s \in SUBSET (1 .. n), s # {}
        PROVE  f[s] = ExtractRing(image, f[s \ {Max(s)}], numbers[Max(s)])
    <3>1. Max(s) \in 1 .. n /\ f[s \ {Max(s)}] \in Acc
      BY <1>1, <1>6, <2>1, MaxOfInterval DEF IsFold
    <3>2. f[s] = step[Max(s)][f[s \ {Max(s)}]]
      BY <1>6, <2>1 DEF IsFold, Lasts
    <3>3. QED
      BY <3>1, <3>2, <1>5
  <2>2. f \in [SUBSET (1 .. n) -> Acc] /\ f[{}] = base
    BY <1>6 DEF IsFold
  <2>3. QED
    BY <1>1, <2>1, <2>2
<1> DEFINE g == CHOOSE g : g = [s \in SUBSET (DOMAIN numbers) |->
                  IF s = {} THEN base ELSE LET x == Max(s) IN ExtractRing(image, g[s \ {x}], numbers[x])]
<1>8. g = [s \in SUBSET (DOMAIN numbers) |->
             IF s = {} THEN base ELSE LET x == Max(s) IN ExtractRing(image, g[s \ {x}], numbers[x])]
  BY <1>7
<1>9. CloudExtraction(image) = g[DOMAIN numbers]
  BY DEF CloudExtraction, FoldLeft, MapThenFoldSet, base, numbers
<1> HIDE DEF g
<1> DEFINE P == {k \in 0 .. n : g[1 .. k] \in Acc /\ \E from : Split(g[1 .. k], from, k)}
<1>10. 0 \in P
  <2>1. 1 .. 0 = {} /\ {} \in SUBSET (DOMAIN numbers) /\ 0 \in 0 .. n
    BY <1>1
  <2>2. g[1 .. 0] = base
    BY <1>8, <2>1
  <2>3. QED
    BY <1>2, <1>3, <2>1, <2>2
<1>11. ASSUME NEW k \in 0 .. n - 1, k \in P PROVE k + 1 \in P
  <2>1. /\ 1 .. k + 1 \in SUBSET (DOMAIN numbers) /\ k + 1 \in 1 .. n /\ k \in Nat /\ k + 1 \in 0 .. n
    BY <1>1
  <2>2. Max(1 .. k + 1) = k + 1 /\ (1 .. k + 1) \ {k + 1} = 1 .. k /\ 1 .. k + 1 # {}
    BY <2>1, NextOfInterval
  <2>3. numbers[k + 1] = k /\ k \in 0 .. NScan - 1
    BY <1>1, <2>1
  <2>4. g[1 .. k + 1] = ExtractRing(image, g[1 .. k], k)
    BY <1>8, <2>1, <2>2, <2>3
  <2>5. g[1 .. k] \in Acc /\ \E from : Split(g[1 .. k], from, k)
    BY <1>11
  <2>6. /\ ExtractRing(image, g[1 .. k], k) \in Clouds(T)
        /\ \A from : Split(g[1 .. k], from, k) =>
             \E h : Split(ExtractRing(image, g[1 .. k], k), h, k + 1)
    BY <2>3, <2>5, RingExtracted DEF Acc
  <2>7. g[1 .. k + 1] \in Acc /\ \E h : Split(g[1 .. k + 1], h, k + 1)
    BY <2>4, <2>5, <2>6 DEF Acc
  <2>8. QED
    BY <2>1, <2>7
<1> HIDE DEF P
<1>12. n \in P
  <2>1. n \in Nat /\ n \in 0 .. n /\ \A k \in 0 .. n - 1 : k \in P => k + 1 \in P
    BY <1>1, <1>11
  <2>2. \A k \in 0 .. n : k \in P
    BY <1>10, <2>1, UpTo
  <2>3. QED
    BY <2>1, <2>2
<1>13. QED
  BY <1>1, <1>9, <1>12 DEF P, Acc, n

\* What has been extracted so far.
Extracted(cloud) ==
  [corners : Seq([ring : Int, of : SUBSET (0 .. Len(cloud.points) - 1)]),
   marked  : SUBSET (0 .. Len(cloud.points) - 1),
   surface : Seq([ring : Int, of : 0 .. Len(cloud.points) - 1])]

CornersOf(corners) == UNION {corners[i].of : i \in 1 .. Len(corners)}

\* Corners and surface points of the first n segments.
SegmentsSound(cloud, acc, n) ==
  /\ \A i \in 1 .. Len(acc.corners) : \E m \in 0 .. n - 1 :
       acc.corners[i].ring = m \div Segments /\ acc.corners[i].of \subseteq SegmentOf(cloud, m)
  /\ \A x \in CornersOf(acc.corners) :
       Kind(cloud, x) = "edge" /\ Around(cloud, x) \subseteq acc.marked
  /\ \A x, y \in CornersOf(acc.corners) : x # y => y \notin Around(cloud, x)
  /\ \A i \in 1 .. Len(acc.surface) :
       /\ acc.surface[i].of \notin CornersOf(acc.corners)
       /\ \E m \in 0 .. n - 1 :
            acc.surface[i].ring = m \div Segments /\ acc.surface[i].of \in SegmentOf(cloud, m)
  /\ \A i, k \in 1 .. Len(acc.surface) : i # k => acc.surface[i].of # acc.surface[k].of

\* A segment in parts: its points I, corners, marks and the others in a list.
Adds(cloud, acc, new, r, I, corners, rest) ==
  /\ corners \subseteq I /\ new.marked \subseteq 0 .. Len(cloud.points) - 1
  /\ acc.marked \subseteq new.marked
  /\ \A x \in corners :
       x \notin acc.marked /\ Kind(cloud, x) = "edge" /\ Around(cloud, x) \subseteq new.marked
  /\ \A x, y \in corners : x # y => y \notin Around(cloud, x)
  /\ rest \in Seq(I \ corners)
  /\ \A i, k \in 1 .. Len(rest) : i # k => rest[i] # rest[k]
  /\ new = [corners |-> Append(acc.corners, [ring |-> r, of |-> corners]),
            marked  |-> new.marked,
            surface |-> acc.surface \o [i \in DOMAIN rest |-> [ring |-> r, of |-> rest[i]]]]

LEMMA SegmentAdds ==
  ASSUME NEW T, NEW cloud \in Clouds(T), NEW from, Split(cloud, from, NScan),
         NEW n \in 0 .. NScan * Segments - 1, NEW acc \in Extracted(cloud)
  PROVE  LET new == ExtractSegment(cloud, acc, n \div Segments, n % Segments) IN
         \/ new = acc
         \/ \E corners, rest :
              Adds(cloud, acc, new, n \div Segments, SegmentOf(cloud, n), corners, rest)
<1> DEFINE r == n \div Segments
           j == n % Segments
           sp == SegmentStart(cloud, r, j)
           ep == SegmentEnd(cloud, r, j)
           new == ExtractSegment(cloud, acc, r, j)
           I == SegmentOf(cloud, n)
           order == Sorted(cloud, sp, ep)
           edges == PickCorners(cloud, order, acc.marked)
           rest == Listed((sp .. ep) \ edges.corners)
<1>1. CASE sp >= ep
  BY <1>1 DEF ExtractSegment
<1>2. CASE ~(sp >= ep)
  <2>1. sp \in Int /\ ep \in Int
    <3>1. r \in 0 .. NScan - 1 /\ j \in 0 .. Segments - 1
      BY SegmentNumbers
    <3> HIDE DEF r, j
    <3>2. QED
      BY <3>1, SegmentBounds
  <2>2. I = sp .. ep
    BY <1>2 DEF SegmentOf
  <2>3. I \subseteq 0 .. Len(cloud.points) - 1
    BY SegmentInRing
  <2>4. new = [corners |-> Append(acc.corners, [ring |-> r, of |-> edges.corners]),
               marked  |-> MarkFlat(cloud, order, edges.marked),
               surface |-> acc.surface \o [i \in DOMAIN rest |-> [ring |-> r, of |-> rest[i]]]]
    BY <1>2 DEF ExtractSegment
  <2> HIDE DEF r, j, sp, ep, new, I
  <2>5. sp \in Nat /\ ep \in Nat /\ sp <= ep
    <3>1. sp <= ep /\ sp \in sp .. ep
      BY <1>2, <2>1
    <3>2. sp \in 0 .. Len(cloud.points) - 1
      BY <2>2, <2>3, <3>1
    <3>3. QED
      BY <2>1, <3>1, <3>2
  <2>6. order \in Seq(I)
    BY <2>2, <2>5, SortedIs
  <2>7. acc.marked \in SUBSET (0 .. Len(cloud.points) - 1)
    BY DEF Extracted
  <2> HIDE DEF order
  <2>8. edges \in CornersIn(cloud, I, acc.marked)
    BY <2>3, <2>6, <2>7, CornersPicked
  <2>9. rest \in Seq(I \ edges.corners) /\ \A i, k \in 1 .. Len(rest) : i # k => rest[i] # rest[k]
    <3> DEFINE S == (sp .. ep) \ edges.corners
    <3>1. S \in SUBSET (0 .. ep)
      BY <2>5
    <3> HIDE DEF S
    <3>2. /\ Listed(S) \in Seq(S)
          /\ \A i, k \in 1 .. Len(Listed(S)) : i # k => Listed(S)[i] # Listed(S)[k]
      BY <2>5, <3>1, ListedIs
    <3>3. QED
      BY <2>2, <3>2 DEF S
  <2> DEFINE corners == edges.corners
             marks == MarkFlat(cloud, order, edges.marked)
  <2> HIDE DEF edges, rest
  <2>10. /\ edges.marked \in SUBSET (0 .. Len(cloud.points) - 1) /\ acc.marked \subseteq edges.marked
         /\ corners \subseteq I
         /\ \A x \in corners : x \notin acc.marked /\ Kind(cloud, x) = "edge"
                               /\ Around(cloud, x) \subseteq edges.marked
         /\ \A x, y \in corners : x # y => y \notin Around(cloud, x)
    BY <2>8 DEF CornersIn
  <2>11. marks \subseteq 0 .. Len(cloud.points) - 1 /\ edges.marked \subseteq marks
    BY <2>6, <2>10, FlatMarked
  <2> HIDE DEF corners, marks
  <2>12. new = [corners |-> Append(acc.corners, [ring |-> r, of |-> corners]),
                marked  |-> marks,
                surface |-> acc.surface \o [i \in DOMAIN rest |-> [ring |-> r, of |-> rest[i]]]]
    BY <2>4 DEF corners, marks
  <2>13. new.marked = marks
    BY <2>12
  <2>14. rest \in Seq(I \ corners)
    BY <2>9 DEF corners
  <2>15. Adds(cloud, acc, new, r, I, corners, rest)
    BY <2>9, <2>10, <2>11, <2>12, <2>13, <2>14 DEF Adds
  <2>16. QED
    BY <2>15 DEF new, r, j, I
<1>3. QED
  BY <1>1, <1>2

LEMMA CornersAppended ==
  ASSUME NEW S, NEW corners \in Seq(S), NEW c \in S
  PROVE  CornersOf(Append(corners, c)) = CornersOf(corners) \cup c.of
<1> DEFINE n == Len(corners)
           new == Append(corners, c)
<1>1. /\ n \in Nat /\ Len(new) = n + 1 /\ new[n + 1] = c
      /\ \A i \in 1 .. n : new[i] = corners[i]
  BY AppendProperties
<1> HIDE DEF new, n
<1>2. \A i \in 1 .. n + 1 : i \in 1 .. n \/ i = n + 1
  BY <1>1
<1>3. 1 .. n \subseteq 1 .. n + 1 /\ n + 1 \in 1 .. n + 1
  BY <1>1
<1>4. CornersOf(new) = UNION {new[i].of : i \in 1 .. n + 1}
  BY <1>1 DEF CornersOf
<1>5. CornersOf(corners) = UNION {corners[i].of : i \in 1 .. n}
  BY DEF CornersOf, n
<1>6. ASSUME NEW x \in CornersOf(new) PROVE x \in CornersOf(corners) \cup c.of
  BY <1>1, <1>2, <1>4, <1>5, <1>6
<1>7. ASSUME NEW x \in CornersOf(corners) \cup c.of PROVE x \in CornersOf(new)
  BY <1>1, <1>3, <1>4, <1>5, <1>7
<1>8. QED
  BY <1>6, <1>7 DEF new

LEMMA SegmentKeeps ==
  ASSUME NEW T, NEW cloud \in Clouds(T), NEW from, Split(cloud, from, NScan),
         NEW n \in 0 .. NScan * Segments - 1, NEW acc \in Extracted(cloud), NEW new,
         NEW corners, NEW rest,
         Adds(cloud, acc, new, n \div Segments, SegmentOf(cloud, n), corners, rest)
  PROVE  /\ new \in Extracted(cloud)
         /\ SegmentsSound(cloud, acc, n) => SegmentsSound(cloud, new, n + 1)
<1> DEFINE r == n \div Segments
           I == SegmentOf(cloud, n)
           L == Len(cloud.points)
           c == [ring |-> r, of |-> corners]
           q == [i \in DOMAIN rest |-> [ring |-> r, of |-> rest[i]]]
           Corner == [ring : Int, of : SUBSET (0 .. L - 1)]
           Point == [ring : Int, of : 0 .. L - 1]
<1>1. r \in Int /\ I \subseteq 0 .. L - 1
  <2>1. r \in 0 .. NScan - 1
    BY SegmentNumbers
  <2>2. QED
    BY <2>1, SegmentInRing
<1>a. /\ n \in Nat /\ \A m \in 0 .. n - 1 : m \in 0 .. NScan * Segments - 1 /\ m < n
      /\ \A m \in 0 .. n - 1 : m \in 0 .. n + 1 - 1
      /\ n \in 0 .. n + 1 - 1
  <2>1. NScan * Segments \in Nat
    BY FeaturesAssumption
  <2>2. QED
    BY ONLY <2>1, n \in 0 .. NScan * Segments - 1
<1>b. \A m \in 0 .. n - 1 : \A x \in SegmentOf(cloud, m) : x \notin I
  <2> SUFFICES ASSUME NEW m \in 0 .. n - 1, NEW x \in SegmentOf(cloud, m), x \in I PROVE FALSE
    OBVIOUS
  <2>1. m \in 0 .. NScan * Segments - 1 /\ m < n
    BY <1>a
  <2>2. x < x
    BY <2>1, SegmentsApart
  <2>3. x \in Int
    BY <1>1
  <2>4. QED
    BY <2>2, <2>3
<1> HIDE DEF r, I
<1>2. /\ corners \subseteq I /\ new.marked \subseteq 0 .. L - 1
      /\ acc.marked \subseteq new.marked
      /\ \A x \in corners :
           x \notin acc.marked /\ Kind(cloud, x) = "edge" /\ Around(cloud, x) \subseteq new.marked
      /\ \A x, y \in corners : x # y => y \notin Around(cloud, x)
      /\ rest \in Seq(I \ corners)
      /\ \A i, k \in 1 .. Len(rest) : i # k => rest[i] # rest[k]
      /\ new = [corners |-> Append(acc.corners, c), marked |-> new.marked,
                surface |-> acc.surface \o q]
  BY DEF Adds, r, I
<1>3. /\ acc.corners \in Seq(Corner) /\ acc.marked \in SUBSET (0 .. L - 1)
      /\ acc.surface \in Seq(Point)
  BY DEF Extracted
<1>4. c \in Corner
  BY <1>1, <1>2
<1>5. /\ q \in Seq(Point) /\ Len(q) = Len(rest)
      /\ \A i \in 1 .. Len(q) : q[i].ring = r /\ q[i].of = rest[i] /\ rest[i] \in I \ corners
  <2>1. /\ DOMAIN rest = 1 .. Len(rest) /\ Len(rest) \in Nat
        /\ \A i \in 1 .. Len(rest) : rest[i] \in I \ corners
    BY <1>2
  <2>2. \A i \in 1 .. Len(rest) : [ring |-> r, of |-> rest[i]] \in Point
    BY <1>1, <2>1
  <2>3. q \in [1 .. Len(rest) -> Point]
    BY <2>1, <2>2
  <2>4. q \in Seq(Point) /\ Len(q) = Len(rest)
    BY <2>1, <2>3
  <2>5. QED
    BY <2>1, <2>4
<1> HIDE DEF c, q, Corner, Point
<1>6. /\ new.corners = Append(acc.corners, c) /\ new.surface = acc.surface \o q
  <2>1. new = [corners |-> Append(acc.corners, c), marked |-> new.marked,
               surface |-> acc.surface \o q]
    BY <1>2
  <2>2. QED
    BY ONLY <2>1
<1>7. new \in Extracted(cloud)
  <2>1. Append(acc.corners, c) \in Seq(Corner) /\ acc.surface \o q \in Seq(Point)
    BY <1>3, <1>4, <1>5
  <2>2. Extracted(cloud) = [corners : Seq(Corner), marked : SUBSET (0 .. L - 1), surface : Seq(Point)]
    BY DEF Extracted, Corner, Point
  <2> HIDE DEF L
  <2>3. new.marked \in SUBSET (0 .. L - 1)
    BY <1>2
  <2> DEFINE cs == Append(acc.corners, c)
             ss == acc.surface \o q
             ms == new.marked
  <2>4. new = [corners |-> cs, marked |-> ms, surface |-> ss]
    BY <1>2
  <2> HIDE DEF cs, ss, ms
  <2>5. cs \in Seq(Corner) /\ ss \in Seq(Point) /\ ms \in SUBSET (0 .. L - 1)
    BY <2>1, <2>3 DEF cs, ss, ms
  <2>6. QED
    BY ONLY <2>2, <2>4, <2>5
<1>8. ASSUME SegmentsSound(cloud, acc, n) PROVE SegmentsSound(cloud, new, n + 1)
  <2> DEFINE m == Len(acc.corners)
             s == Len(acc.surface)
             l == Len(q)
             old == CornersOf(acc.corners)
  <2>1. /\ m \in Nat /\ Len(new.corners) = m + 1 /\ new.corners[m + 1] = c
        /\ \A i \in 1 .. m : new.corners[i] = acc.corners[i]
    BY <1>3, <1>4, <1>6, AppendProperties
  <2>2. CornersOf(new.corners) = old \cup corners
    <3>1. CornersOf(new.corners) = old \cup c.of
      BY <1>3, <1>4, <1>6, CornersAppended
    <3>2. QED
      BY <3>1 DEF c
  <2>3. /\ s \in Nat /\ l \in Nat /\ Len(new.surface) = s + l
        /\ \A i \in 1 .. s : new.surface[i] = acc.surface[i]
        /\ \A i \in s + 1 .. s + l : new.surface[i] = q[i - s]
    <3> DEFINE a == acc.surface
    <3>1. a \in Seq(Point)
      BY <1>3
    <3> HIDE DEF a
    <3>2. q \in Seq(Point)
      BY <1>5
    <3>3. Len(a) \in Nat /\ Len(q) \in Nat
      BY ONLY <3>1, <3>2
    <3>4. /\ Len(a \o q) = Len(a) + Len(q)
          /\ \A i \in 1 .. Len(a) : (a \o q)[i] = a[i]
          /\ \A i \in Len(a) + 1 .. Len(a) + Len(q) : (a \o q)[i] = q[i - Len(a)]
      BY ONLY <3>1, <3>2, RowsJoined
    <3>5. QED
      BY <1>6, <3>3, <3>4 DEF a
  <2> HIDE DEF m, s, l, old
  <2>4. /\ \A i \in 1 .. m : \E k \in 0 .. n - 1 :
             acc.corners[i].ring = k \div Segments /\ acc.corners[i].of \subseteq SegmentOf(cloud, k)
        /\ \A x \in old : Kind(cloud, x) = "edge" /\ Around(cloud, x) \subseteq acc.marked
        /\ \A x, y \in old : x # y => y \notin Around(cloud, x)
        /\ \A i \in 1 .. s :
             /\ acc.surface[i].of \notin old
             /\ \E k \in 0 .. n - 1 :
                  acc.surface[i].ring = k \div Segments /\ acc.surface[i].of \in SegmentOf(cloud, k)
        /\ \A i, k \in 1 .. s : i # k => acc.surface[i].of # acc.surface[k].of
    BY <1>8 DEF SegmentsSound, m, s, old
  <2>5. old \cap I = {}
    <3> SUFFICES ASSUME NEW x \in old PROVE x \notin I
      OBVIOUS
    <3>1. PICK i \in 1 .. m : x \in acc.corners[i].of
      BY DEF old, CornersOf, m
    <3>2. PICK k \in 0 .. n - 1 : acc.corners[i].of \subseteq SegmentOf(cloud, k)
      BY <2>4
    <3>3. QED
      BY <1>b, <3>1, <3>2
  <2>6. old \subseteq 0 .. L - 1
    <3> SUFFICES ASSUME NEW x \in old PROVE x \in 0 .. L - 1
      OBVIOUS
    <3>1. PICK i \in 1 .. m : x \in acc.corners[i].of
      BY DEF old, CornersOf, m
    <3>2. acc.corners[i] \in Corner
      BY <1>3 DEF m
    <3>3. QED
      BY <3>1, <3>2 DEF Corner
  <2>7. ASSUME NEW i \in 1 .. m + 1
        PROVE  \E k \in 0 .. n + 1 - 1 :
                 new.corners[i].ring = k \div Segments /\ new.corners[i].of \subseteq SegmentOf(cloud, k)
    <3>1. CASE i \in 1 .. m
      <4>1. PICK k \in 0 .. n - 1 :
              acc.corners[i].ring = k \div Segments /\ acc.corners[i].of \subseteq SegmentOf(cloud, k)
        BY <2>4, <3>1
      <4>2. new.corners[i] = acc.corners[i] /\ k \in 0 .. n + 1 - 1
        BY <1>a, <2>1, <3>1
      <4>3. QED
        BY <4>1, <4>2
    <3>2. CASE i = m + 1
      <4>1. new.corners[i].ring = r /\ new.corners[i].of = corners
        BY <2>1, <3>2 DEF c
      <4>2. r = n \div Segments /\ corners \subseteq SegmentOf(cloud, n)
        BY <1>2 DEF r, I
      <4>3. QED
        BY <1>a, <4>1, <4>2
    <3>3. m \in Nat
      BY <2>1
    <3>4. i \in 1 .. m \/ i = m + 1
      BY ONLY <3>3
    <3>5. QED
      BY <3>1, <3>2, <3>4
  <2>8. ASSUME NEW x \in old \cup corners
        PROVE  Kind(cloud, x) = "edge" /\ Around(cloud, x) \subseteq new.marked
    BY <1>2, <2>4, <2>8
  <2>9. ASSUME NEW x \in old, NEW y \in corners
        PROVE  y \notin Around(cloud, x) /\ x \notin Around(cloud, y)
    <3>1. y \notin Around(cloud, x)
      BY <1>2, <2>4
    <3>2. y \in 0 .. Len(cloud.points) - 1
      BY <1>1, <1>2 DEF L
    <3>3. x \in Around(cloud, y) => y \in Around(cloud, x)
      BY <3>2, AroundEachOther
    <3>4. QED
      BY <3>1, <3>3
  <2>10. ASSUME NEW x \in old \cup corners, NEW y \in old \cup corners, x # y
         PROVE  y \notin Around(cloud, x)
    BY <1>2, <2>4, <2>9, <2>10
  <2>11. \A i \in 1 .. s : acc.surface[i].of \notin I
    <3> SUFFICES ASSUME NEW i \in 1 .. s PROVE acc.surface[i].of \notin I
      OBVIOUS
    <3>1. PICK k \in 0 .. n - 1 : acc.surface[i].of \in SegmentOf(cloud, k)
      BY <2>4
    <3>2. QED
      BY <1>b, <3>1
  <2>12. ASSUME NEW i \in s + 1 .. s + l
         PROVE  /\ i - s \in 1 .. Len(rest)
                /\ new.surface[i].ring = r /\ new.surface[i].of = rest[i - s]
                /\ new.surface[i].of \in I \ corners
    <3> DEFINE k == i - s
    <3>1. k \in 1 .. l
      <4>1. s \in Nat /\ l \in Nat
        BY <2>3
      <4>2. QED
        BY ONLY <4>1
    <3>2. new.surface[i] = q[k] /\ l = Len(q) /\ l = Len(rest)
      BY <1>5, <2>3 DEF l
    <3> HIDE DEF k
    <3>3. QED
      BY <1>5, <3>1, <3>2 DEF k
  <2>13. ASSUME NEW i \in 1 .. s + l
         PROVE  /\ new.surface[i].of \notin old \cup corners
                /\ \E k \in 0 .. n + 1 - 1 :
                     new.surface[i].ring = k \div Segments /\ new.surface[i].of \in SegmentOf(cloud, k)
    <3>1. CASE i \in 1 .. s
      <4>1. PICK k \in 0 .. n - 1 :
              acc.surface[i].ring = k \div Segments /\ acc.surface[i].of \in SegmentOf(cloud, k)
        BY <2>4, <3>1
      <4>2. new.surface[i] = acc.surface[i] /\ k \in 0 .. n + 1 - 1
        BY <1>a, <2>3, <3>1
      <4>3. acc.surface[i].of \notin old /\ acc.surface[i].of \notin corners
        BY <1>2, <2>4, <2>11, <3>1
      <4>4. QED
        BY <4>1, <4>2, <4>3
    <3>2. CASE i \in s + 1 .. s + l
      <4>1. new.surface[i].ring = r /\ new.surface[i].of \in I \ corners
        BY <2>12, <3>2
      <4>2. new.surface[i].of \notin old \cup corners
        BY <2>5, <4>1
      <4>3. QED
        BY <1>a, <4>1, <4>2 DEF r, I
    <3>3. i \in 1 .. s \/ i \in s + 1 .. s + l
      BY <2>3
    <3>4. QED
      BY <3>1, <3>2, <3>3
  <2>14. ASSUME NEW i \in 1 .. s + l, NEW k \in 1 .. s + l, i # k
         PROVE  new.surface[i].of # new.surface[k].of
    <3>1. (i \in 1 .. s \/ i \in s + 1 .. s + l) /\ (k \in 1 .. s \/ k \in s + 1 .. s + l)
      BY <2>3
    <3>2. CASE i \in 1 .. s /\ k \in 1 .. s
      BY <2>3, <2>4, <2>14, <3>2
    <3>3. CASE i \in 1 .. s /\ k \in s + 1 .. s + l
      BY <2>3, <2>11, <2>12, <3>3
    <3>4. CASE i \in s + 1 .. s + l /\ k \in 1 .. s
      BY <2>3, <2>11, <2>12, <3>4
    <3>5. CASE i \in s + 1 .. s + l /\ k \in s + 1 .. s + l
      <4>1. i - s # k - s
        BY <2>3, <2>14
      <4>2. /\ i - s \in 1 .. Len(rest) /\ k - s \in 1 .. Len(rest)
            /\ new.surface[i].of = rest[i - s] /\ new.surface[k].of = rest[k - s]
        BY <2>12, <3>5
      <4>3. rest[i - s] # rest[k - s]
        BY <1>2, <4>1, <4>2
      <4>4. QED
        BY <4>2, <4>3
    <3>6. QED
      BY <3>1, <3>2, <3>3, <3>4, <3>5
  <2>15. \A i \in 1 .. Len(new.corners) : \E k \in 0 .. n + 1 - 1 :
           new.corners[i].ring = k \div Segments /\ new.corners[i].of \subseteq SegmentOf(cloud, k)
    BY <2>1, <2>7
  <2>16. /\ \A x \in CornersOf(new.corners) :
              Kind(cloud, x) = "edge" /\ Around(cloud, x) \subseteq new.marked
         /\ \A x, y \in CornersOf(new.corners) : x # y => y \notin Around(cloud, x)
    BY <2>2, <2>8, <2>10
  <2>17. \A i \in 1 .. Len(new.surface) :
           /\ new.surface[i].of \notin CornersOf(new.corners)
           /\ \E k \in 0 .. n + 1 - 1 :
                new.surface[i].ring = k \div Segments /\ new.surface[i].of \in SegmentOf(cloud, k)
    BY <2>2, <2>3, <2>13
  <2>18. \A i, k \in 1 .. Len(new.surface) : i # k => new.surface[i].of # new.surface[k].of
    BY <2>3, <2>14
  <2>19. QED
    BY ONLY <2>15, <2>16, <2>17, <2>18 DEF SegmentsSound
<1>9. QED
  BY <1>7, <1>8

\* What holds of the first segments holds of one more that adds nothing.
LEMMA SegmentsStay ==
  ASSUME NEW cloud, NEW acc, NEW n \in Int, SegmentsSound(cloud, acc, n)
  PROVE  SegmentsSound(cloud, acc, n + 1)
<1>1. \A m \in 0 .. n - 1 : m \in 0 .. n + 1 - 1
  OBVIOUS
<1>2. \A i \in 1 .. Len(acc.corners) : \E m \in 0 .. n + 1 - 1 :
        acc.corners[i].ring = m \div Segments /\ acc.corners[i].of \subseteq SegmentOf(cloud, m)
  <2> TAKE i \in 1 .. Len(acc.corners)
  <2>1. PICK m \in 0 .. n - 1 :
          acc.corners[i].ring = m \div Segments /\ acc.corners[i].of \subseteq SegmentOf(cloud, m)
    BY DEF SegmentsSound
  <2>2. m \in 0 .. n + 1 - 1
    BY <1>1
  <2>3. QED
    BY ONLY <2>1, <2>2, Zenon
<1>3. \A i \in 1 .. Len(acc.surface) :
        /\ acc.surface[i].of \notin CornersOf(acc.corners)
        /\ \E m \in 0 .. n + 1 - 1 :
             acc.surface[i].ring = m \div Segments /\ acc.surface[i].of \in SegmentOf(cloud, m)
  <2> TAKE i \in 1 .. Len(acc.surface)
  <2>1. PICK m \in 0 .. n - 1 :
          acc.surface[i].ring = m \div Segments /\ acc.surface[i].of \in SegmentOf(cloud, m)
    BY DEF SegmentsSound
  <2>2. m \in 0 .. n + 1 - 1
    BY <1>1
  <2>3. acc.surface[i].of \notin CornersOf(acc.corners)
    BY Zenon DEF SegmentsSound
  <2>4. QED
    BY ONLY <2>1, <2>2, <2>3, Zenon
<1>4. /\ \A x \in CornersOf(acc.corners) :
           Kind(cloud, x) = "edge" /\ Around(cloud, x) \subseteq acc.marked
      /\ \A x, y \in CornersOf(acc.corners) : x # y => y \notin Around(cloud, x)
      /\ \A i, k \in 1 .. Len(acc.surface) : i # k => acc.surface[i].of # acc.surface[k].of
  BY Zenon DEF SegmentsSound
<1>5. QED
  BY ONLY <1>2, <1>3, <1>4, SMTT(30) DEF SegmentsSound

LEMMA FeaturesExtracted ==
  ASSUME NEW T, NEW cloud \in Clouds(T), NEW from, Split(cloud, from, NScan)
  PROVE  \E acc \in Extracted(cloud) :
           /\ SegmentsSound(cloud, acc, NScan * Segments)
           /\ ExtractFeatures(cloud) = [cloud |-> cloud.points, corners |-> acc.corners,
                                        surface |-> acc.surface]
<1> DEFINE n == NScan * Segments
           numbers == [i \in 1 .. NScan * Segments |-> i - 1]
           Acc == Extracted(cloud)
           base == [corners |-> <<>>, surface |-> <<>>,
                    marked |-> {i \in 0 .. Len(cloud.points) - 1 : Kind(cloud, i) = "marked"}]
           Segment(a, x) == ExtractSegment(cloud, a, x \div Segments, x % Segments)
           step == [x \in 1 .. n |-> [a \in Acc |-> Segment(a, numbers[x])]]
<1>1. /\ n \in Nat /\ DOMAIN numbers = 1 .. n
      /\ \A x \in 1 .. n : numbers[x] = x - 1 /\ numbers[x] \in 0 .. NScan * Segments - 1
  BY FeaturesAssumption
<1>2. base \in Acc /\ SegmentsSound(cloud, base, 0)
  <2>1. base \in Acc
    BY DEF Extracted
  <2>2. CornersOf(base.corners) = {}
    BY DEF CornersOf
  <2>3. QED
    BY <2>1, <2>2 DEF SegmentsSound
<1>3. ASSUME NEW a \in Acc, NEW x \in 0 .. NScan * Segments - 1
      PROVE  /\ Segment(a, x) \in Acc
             /\ SegmentsSound(cloud, a, x) => SegmentsSound(cloud, Segment(a, x), x + 1)
  <2> DEFINE new == Segment(a, x)
  <2>1. \/ new = a
        \/ \E corners, rest :
             Adds(cloud, a, new, x \div Segments, SegmentOf(cloud, x), corners, rest)
    BY SegmentAdds
  <2> HIDE DEF new
  <2>2. CASE new = a
    <3>1. SegmentsSound(cloud, a, x) => SegmentsSound(cloud, a, x + 1)
      BY SegmentsStay
    <3>2. QED
      BY <2>2, <3>1 DEF new
  <2>3. ASSUME NEW corners, NEW rest,
               Adds(cloud, a, new, x \div Segments, SegmentOf(cloud, x), corners, rest)
        PROVE  /\ new \in Acc
               /\ SegmentsSound(cloud, a, x) => SegmentsSound(cloud, new, x + 1)
    BY <2>3, SegmentKeeps
  <2>4. QED
    BY <2>1, <2>2, <2>3 DEF new
<1> HIDE DEF n, base, numbers, Acc, Segment
<1>4. /\ \A x \in 1 .. n, a \in Acc : step[x][a] = Segment(a, numbers[x])
      /\ FoldSteps(step, 1 .. n, Acc)
  BY <1>1, <1>3 DEF FoldSteps
<1> HIDE DEF step
<1>5. PICK f : IsFold(f, 1 .. n, Acc, base, Lasts(n), step)
  BY <1>1, <1>2, <1>4, SeqFoldExists
<1>6. f = [s \in SUBSET (DOMAIN numbers) |->
             IF s = {} THEN base ELSE LET x == Max(s) IN Segment(f[s \ {x}], numbers[x])]
  <2>1. ASSUME NEW s \in SUBSET (1 .. n), s # {}
        PROVE  f[s] = Segment(f[s \ {Max(s)}], numbers[Max(s)])
    <3>1. Max(s) \in 1 .. n /\ f[s \ {Max(s)}] \in Acc
      BY <1>1, <1>5, <2>1, MaxOfInterval DEF IsFold
    <3>2. f[s] = step[Max(s)][f[s \ {Max(s)}]]
      BY <1>5, <2>1 DEF IsFold, Lasts
    <3>3. QED
      BY <3>1, <3>2, <1>4
  <2>2. f \in [SUBSET (1 .. n) -> Acc] /\ f[{}] = base
    BY <1>5 DEF IsFold
  <2>3. QED
    BY <1>1, <2>1, <2>2
<1> DEFINE g == CHOOSE g : g = [s \in SUBSET (DOMAIN numbers) |->
                  IF s = {} THEN base ELSE LET x == Max(s) IN Segment(g[s \ {x}], numbers[x])]
<1>7. g = [s \in SUBSET (DOMAIN numbers) |->
             IF s = {} THEN base ELSE LET x == Max(s) IN Segment(g[s \ {x}], numbers[x])]
  BY <1>6
<1>8. ExtractFeatures(cloud) =
        [cloud |-> cloud.points, corners |-> g[DOMAIN numbers].corners, surface |-> g[DOMAIN numbers].surface]
  BY DEF ExtractFeatures, FoldLeft, MapThenFoldSet, base, numbers, Segment
<1> HIDE DEF g
<1> DEFINE P == {k \in 0 .. n : g[1 .. k] \in Acc /\ SegmentsSound(cloud, g[1 .. k], k)}
<1>9. 0 \in P
  <2>1. 1 .. 0 = {} /\ {} \in SUBSET (DOMAIN numbers) /\ 0 \in 0 .. n
    BY <1>1
  <2>2. g[1 .. 0] = base
    BY <1>7, <2>1
  <2>3. QED
    BY <1>2, <2>1, <2>2
<1>10. ASSUME NEW k \in 0 .. n - 1, k \in P PROVE k + 1 \in P
  <2>1. /\ 1 .. k + 1 \in SUBSET (DOMAIN numbers) /\ k + 1 \in 1 .. n /\ k \in Nat /\ k + 1 \in 0 .. n
    BY <1>1
  <2>2. Max(1 .. k + 1) = k + 1 /\ (1 .. k + 1) \ {k + 1} = 1 .. k /\ 1 .. k + 1 # {}
    BY <2>1, NextOfInterval
  <2>3. numbers[k + 1] = k /\ k \in 0 .. NScan * Segments - 1
    BY <1>1, <2>1
  <2>4. g[1 .. k + 1] = Segment(g[1 .. k], k)
    BY <1>7, <2>1, <2>2, <2>3
  <2>5. g[1 .. k] \in Acc /\ SegmentsSound(cloud, g[1 .. k], k)
    BY <1>10
  <2>6. g[1 .. k + 1] \in Acc /\ SegmentsSound(cloud, g[1 .. k + 1], k + 1)
    BY <1>3, <2>3, <2>4, <2>5
  <2>7. QED
    BY <2>1, <2>6
<1> HIDE DEF P
<1>11. n \in P
  <2>1. n \in Nat /\ n \in 0 .. n /\ \A k \in 0 .. n - 1 : k \in P => k + 1 \in P
    BY <1>1, <1>10
  <2>2. \A k \in 0 .. n : k \in P
    BY <1>9, <2>1, UpTo
  <2>3. QED
    BY <2>1, <2>2
<1>12. g[DOMAIN numbers] \in Acc /\ SegmentsSound(cloud, g[DOMAIN numbers], n)
  BY <1>1, <1>11 DEF P
<1>13. QED
  BY <1>8, <1>12 DEF Acc, n

\* What FeaturesSound says of the features of a cloud.
LEMMA ExtractedSound ==
  ASSUME NEW T, NEW cloud \in Clouds(T), NEW from, Split(cloud, from, NScan),
         features' = ExtractFeatures(cloud)
  PROVE  FeaturesSound'
<1> DEFINE n == NScan * Segments
           whole == [points |-> features'.cloud]
<1>1. PICK acc \in Extracted(cloud) :
        /\ SegmentsSound(cloud, acc, n)
        /\ features' = [cloud |-> cloud.points, corners |-> acc.corners, surface |-> acc.surface]
  BY FeaturesExtracted
<1>2. /\ features'.cloud = cloud.points /\ features'.corners = acc.corners
      /\ features'.surface = acc.surface
  BY <1>1
<1>3. whole.points = cloud.points
  BY <1>2
<1>4. \A x : Kind(whole, x) = Kind(cloud, x) /\ Around(whole, x) = Around(cloud, x)
  BY <1>3 DEF Kind, Around
<1>5. /\ acc.corners \in Seq([ring : Int, of : SUBSET (0 .. Len(cloud.points) - 1)])
      /\ acc.surface \in Seq([ring : Int, of : 0 .. Len(cloud.points) - 1])
  BY DEF Extracted
<1>6. /\ DOMAIN acc.corners = 1 .. Len(acc.corners) /\ DOMAIN acc.surface = 1 .. Len(acc.surface)
      /\ Range(acc.corners) = {acc.corners[i] : i \in 1 .. Len(acc.corners)}
      /\ Range(acc.surface) = {acc.surface[i] : i \in 1 .. Len(acc.surface)}
  BY <1>5 DEF Range
<1>7. UNION {s.of : s \in Range(acc.corners)} = CornersOf(acc.corners)
  BY <1>6 DEF CornersOf
<1> HIDE DEF n, whole
<1>8. \A m \in 0 .. n - 1 : \A x \in SegmentOf(cloud, m) : cloud.points[x + 1].ring = m \div Segments
  BY SegmentInRing DEF n
<1>9. ASSUME NEW s \in Range(acc.corners), NEW x \in s.of
      PROVE  features'.cloud[x + 1].ring = s.ring /\ Kind(whole, x) = "edge"
  <2>1. PICK i \in 1 .. Len(acc.corners) : s = acc.corners[i]
    BY <1>6
  <2>2. PICK m \in 0 .. n - 1 :
          acc.corners[i].ring = m \div Segments /\ acc.corners[i].of \subseteq SegmentOf(cloud, m)
    BY <1>1 DEF SegmentsSound
  <2>3. cloud.points[x + 1].ring = s.ring
    BY <1>8, <1>9, <2>1, <2>2
  <2>4. x \in CornersOf(acc.corners)
    BY <1>9, <2>1 DEF CornersOf
  <2>5. QED
    BY <1>1, <1>2, <1>4, <2>3, <2>4 DEF SegmentsSound
<1>10. \A x, y \in CornersOf(acc.corners) : x # y => y \notin Around(whole, x)
  BY <1>1, <1>4 DEF SegmentsSound
<1>11. ASSUME NEW p \in Range(acc.surface)
       PROVE  features'.cloud[p.of + 1].ring = p.ring /\ p.of \notin CornersOf(acc.corners)
  <2>1. PICK i \in 1 .. Len(acc.surface) : p = acc.surface[i]
    BY <1>6
  <2>2. /\ acc.surface[i].of \notin CornersOf(acc.corners)
        /\ \E m \in 0 .. n - 1 :
             acc.surface[i].ring = m \div Segments /\ acc.surface[i].of \in SegmentOf(cloud, m)
    BY <1>1 DEF SegmentsSound
  <2>3. QED
    BY <1>2, <1>8, <2>1, <2>2
<1>12. \A m, k \in DOMAIN acc.surface : m # k => acc.surface[m] # acc.surface[k]
  BY <1>1, <1>6 DEF SegmentsSound
<1>13. QED
  BY <1>2, <1>7, <1>9, <1>10, <1>11, <1>12 DEF FeaturesSound, whole

LEMMA CloudFeaturesSound == CloudFeatures => FeaturesSound'
<1> SUFFICES ASSUME CloudFeatures PROVE FeaturesSound'
  OBVIOUS
<1>1. PICK given :
        /\ given \in Seq({given[i] : i \in 1 .. CloudSize})
        /\ features' = ExtractFeatures(CloudExtraction(ProjectPointCloud(given)))
  <2>1. PICK kinds \in [1 .. CloudSize -> PointKinds], cut \in 1 .. CloudSize, far \in BOOLEAN,
             split \in 0 .. CloudSize, other \in Rings :
          features' = ExtractFeatures(CloudExtraction(ProjectPointCloud(
            [i \in 1 .. CloudSize |->
               [kind |-> kinds[i], ring |-> IF i <= split THEN 0 ELSE other,
                gap |-> i = cut, inRange |-> ~(far /\ i = cut)]])))
    BY DEF CloudFeatures
  <2> DEFINE given == [i \in 1 .. CloudSize |->
               [kind |-> kinds[i], ring |-> IF i <= split THEN 0 ELSE other,
                gap |-> i = cut, inRange |-> ~(far /\ i = cut)]]
  <2>2. given = [i \in 1 .. CloudSize |-> given[i]]
    OBVIOUS
  <2>3. features' = ExtractFeatures(CloudExtraction(ProjectPointCloud(given)))
    BY <2>1
  <2> HIDE DEF given
  <2> DEFINE Points == {given[i] : i \in 1 .. CloudSize}
  <2>4. given \in [1 .. CloudSize -> Points]
    BY <2>2
  <2>5. given \in Seq(Points)
    <3> HIDE DEF Points
    <3> QED
      BY <2>4, FeaturesAssumption
  <2>6. QED
    BY <2>3, <2>5
<1> DEFINE T == {given[i] : i \in 1 .. CloudSize}
           image == ProjectPointCloud(given)
           cloud == CloudExtraction(image)
<1>2. given \in Seq(T) /\ features' = ExtractFeatures(cloud)
  BY <1>1
<1> HIDE DEF T
<1>3. image \in OwnRings(T)
  BY <1>2, CloudProjected
<1> HIDE DEF image
<1>4. cloud \in Clouds(T) /\ \E from : Split(cloud, from, NScan)
  BY <1>3, CloudExtracted
<1> HIDE DEF cloud
<1>5. QED
  BY <1>2, <1>4, ExtractedSound

LEMMA FeaturesAlone ==
  ASSUME [PerceptionNext]_perceptionVars
  PROVE  CloudFeatures \/ UNCHANGED features
<1>1. CASE PerceptionNext
  BY <1>1 DEF PerceptionNext, Others
<1>2. CASE UNCHANGED perceptionVars
  BY <1>2 DEF perceptionVars
<1>3. QED
  BY <1>1, <1>2

LEMMA FeaturesStep ==
  FeaturesSound /\ [PerceptionNext]_perceptionVars => FeaturesSound'
<1> SUFFICES ASSUME FeaturesSound, [PerceptionNext]_perceptionVars PROVE FeaturesSound'
  OBVIOUS
<1>1. CASE CloudFeatures
  BY <1>1, CloudFeaturesSound
<1>2. CASE UNCHANGED features
  BY <1>2, Zenon DEF FeaturesSound
<1>3. QED
  BY <1>1, <1>2, FeaturesAlone

\* The corners of a cloud are edges, unmarked and away from each other, and no
\* surface point is a corner or comes twice, for any number of rings, columns,
\* segments and edges and any margin but 0 (featureExtraction.cpp:147).
THEOREM FeaturesApart == PerceptionSpec => []FeaturesSound
<1>1. PerceptionInit => FeaturesSound
  BY DEF PerceptionInit, FeaturesInit, FeaturesSound
<1>2. FeaturesSound /\ [PerceptionNext]_perceptionVars => FeaturesSound'
  BY FeaturesStep
<1>3. QED
  BY <1>1, <1>2, PTL DEF PerceptionSpec

\* From the clouds and the IMU to the corrected odometry: motion is counted once,
\* published clouds are covered by it, and their features are apart
\* (imuPreintegration.cpp:311, imageProjection.cpp:365, featureExtraction.cpp:147).
THEOREM MotionIsCounted == PerceptionSpec => []MotionCounted
<1>1. OdometryConsistent /\ DeskewCovers /\ FeaturesSound => MotionCounted
  BY Zenon DEF MotionCounted
<1>2. QED
  BY <1>1, MotionBetweenScans, CloudsAreCovered, FeaturesApart, PTL

==============================================================================
