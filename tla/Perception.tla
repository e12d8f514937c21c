----------------------------- MODULE Perception -----------------------------
(***************************************************************************)
(* What the controllers get their inputs from: the lidar with its SDK and  *)
(* driver, the four nodes of localization and mapping, and the lane of the *)
(* leader on its way to the follower.  Each part is explored by itself:    *)
(* part, chosen once, is the one that runs, and the state of the others    *)
(* stays as it was.                                                        *)
(***************************************************************************)
EXTENDS LaneFeed, LioOdometry, LioMapping, LioProjection,
        LidarNetwork, LidarLink, LidarCodec, LidarFrames, LidarUpgrade,
        LidarLogs

VARIABLE part

perceptionVars ==
  <<part, feedVars, lioOdomVars, mappingVars, projectionVars, features,
    networkVars, loopVars, linkVars, codecVars, frameVars, upgradeVars, logVars>>

Parts == {"lane", "odometry", "mapping", "projection", "features",
          "network", "loop", "link", "codec", "frames", "upgrade", "logs"}

PerceptionInit ==
  /\ part \in Parts
  /\ LaneInit /\ (part # "lane" => wait = LanePeriod)
  /\ OdometryInit /\ (part # "odometry" => started = 0)
  /\ MappingInit /\ ProjectionInit /\ FeaturesInit
  /\ NetworkInit /\ LoopInit /\ FramesInit /\ UpgradeInit /\ LogsInit
  /\ LinkInit /\ (part # "link" => ~inCfg /\ ~hap /\ ~loader)
  /\ CodecInit /\ (part # "codec" => seq = 1)

Others(p) ==
  /\ part = p /\ UNCHANGED part
  /\ p # "lane"       => UNCHANGED feedVars
  /\ p # "odometry"   => UNCHANGED lioOdomVars
  /\ p # "mapping"    => UNCHANGED mappingVars
  /\ p # "projection" => UNCHANGED projectionVars
  /\ p # "features"   => UNCHANGED features
  /\ p # "network"    => UNCHANGED networkVars
  /\ p # "loop"       => UNCHANGED loopVars
  /\ p # "link"       => UNCHANGED linkVars
  /\ p # "codec"      => UNCHANGED codecVars
  /\ p # "frames"     => UNCHANGED frameVars
  /\ p # "upgrade"    => UNCHANGED upgradeVars
  /\ p # "logs"       => UNCHANGED logVars

PerceptionNext ==
  \/ Others("lane") /\ LaneNext
  \/ Others("odometry") /\ LioOdometryNext
  \/ Others("mapping") /\ MappingNext
  \/ Others("projection") /\ ProjectionNext
  \/ Others("features") /\ CloudFeatures
  \/ Others("network") /\ NetworkNext
  \/ Others("loop") /\ LoopNext
  \/ Others("link") /\ LinkNext
  \/ Others("codec") /\ CodecNext
  \/ Others("frames") /\ FramesNext
  \/ Others("upgrade") /\ UpgradeNext
  \/ Others("logs") /\ LogsNext

\* The lidar answers what reaches it and sends points for ever; the threads of
\* the SDK and of the driver go on with what they find; the timer of commands
\* fires.
PerceptionFairness ==
  /\ WF_perceptionVars(Others("loop") /\
                       (EndLoop \/ PollOnce \/ TakeTasks \/ RunTask \/ TurnEnds))
  /\ WF_perceptionVars(Others("link") /\ HandleDetectionData)
  /\ WF_perceptionVars(Others("link") /\ LidarAnswers)
  /\ WF_perceptionVars(Others("link") /\ AddCommand)
  /\ WF_perceptionVars(Others("link") /\ Handler)
  /\ WF_perceptionVars(Others("link") /\ Timeout)
  /\ \A l \in Lidars : WF_perceptionVars(Others("frames") /\ OnLivoxLidarPointCloud(l))
  /\ WF_perceptionVars(Others("frames") /\ RawDataProcess)
  /\ WF_perceptionVars(Others("frames") /\ PollStep)
  /\ WF_perceptionVars(Others("upgrade") /\ RegisterCommand)
  /\ WF_perceptionVars(Others("upgrade") /\ LidarDoes)
  /\ WF_perceptionVars(Others("upgrade") /\ ResponseHandler)
  /\ WF_perceptionVars(Others("upgrade") /\ TimeoutHandler)
  /\ WF_perceptionVars(Others("upgrade") /\ UpgraderDestructor)
  /\ WF_perceptionVars(Others("logs") /\ Write)
  /\ WF_perceptionVars(Others("logs") /\ Destory)

PerceptionSpec == PerceptionInit /\ [][PerceptionNext]_perceptionVars /\ PerceptionFairness

----------------------------------------------------------------------------
\* The motion between two corrections is counted once, whatever the order of
\* IMU and lidar messages; a cloud that is published has motion over all of it,
\* and its features are apart from each other and of their own ring
\* (imuPreintegration.cpp:311, imageProjection.cpp:365, featureExtraction.cpp:147).
MotionCounted == OdometryConsistent /\ DeskewCovers /\ FeaturesSound

\* The incremental odometry is what was matched although loops and guesses move
\* the pose, and clouds leave in their order (mapOptmization.cpp:1655,
\* imageProjection.cpp:343).
OdometrySteps == IncrementIsMatched /\ ScansOnce

\* What a lidar is told reaches it in spite of lost, late and early answers: it
\* samples only after it has answered to every setting of the user, and it is told
\* to check a new firmware, or an upgrade that had begun called a success, only when
\* it has all of it (livox_lidar_callback.cpp:126, livox_lidar_upgrader.cpp:242).
LidarObeys == SamplingConfigured /\ UpgradeSound

\* From the file of the configuration to the points and the log: every lidar is
\* found by the right handler on a socket that is read, messages mean to it what
\* they meant to the sender as far as values have the length of their field, and
\* points and logs arrive whole and in order, or are not taken for that
\* (device_manager.cpp:451, io_loop.cpp:72, parse_lidar_state_info.cpp:32,
\* pub_handler.cpp:164, logger_handler.cpp:177).
LidarTransports == NetworkSound /\ LoopSound /\ MessagesRead /\ FramesWhole /\ LogsInOrder

\* What waits, for the socket or the lidar n.
Waits(n) ==
  \/ part = "loop" /\ n \in Sockets /\ LoopWaits(n)
  \/ part = "link" /\ LinkWaits
  \/ part = "frames" /\ n \in Lidars /\ FramesWait(n)
  \/ part = "upgrade" /\ UpgradeWaits
  \/ part = "logs" /\ LogsWait

\* Nothing waits for ever: in spite of lost messages a lidar gets to sample, its
\* sockets are read, its frames taken, an upgrade ends, and the logger can be
\* stopped (general_command_handler.cpp:786, lds.cpp:185,
\* livox_lidar_upgrader.cpp:61, logger_handler.cpp:177).
LidarProgress == \A n \in Sockets \cup Lidars : []<>~Waits(n)

==============================================================================
