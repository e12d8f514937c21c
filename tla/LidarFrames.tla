----------------------------- MODULE LidarFrames -----------------------------
(***************************************************************************)
(* livox_ros_driver2 between the packets of the SDK and the clouds on a    *)
(* topic: the SDK thread queues packets, the process thread collects them  *)
(* to frames of one publish interval and puts these into a ring of each    *)
(* lidar, the poll thread empties the rings when a semaphore says so.      *)
(* A packet is its time in milliseconds, modulo Cycle; one comes every     *)
(* millisecond.                                                            *)
(***************************************************************************)
EXTENDS Integers, Sequences, SequencesExt

CONSTANTS
  LidarCount,       \* lidars 1 .. LidarCount, by their index
  Indexed,          \* those with an index: in the configuration, or detected
  QueueSize,        \* frames of a ring, a power of 2
  FrameMs,          \* publish_interval_ms_
  Cycle,            \* bound of the time, a multiple of FrameMs
  RawMax            \* bound of the packets of a lidar that wait

ASSUME FramesAssumption ==
  /\ LidarCount \in Nat \ {0} /\ FrameMs \in Nat \ {0} /\ QueueSize \in Nat \ {0}
  /\ Cycle \in Nat /\ Cycle % FrameMs = 0 /\ Cycle > 2 * FrameMs - 1

Lidars == 1 .. LidarCount

VARIABLES
  packetTime,       \* of the next packet of a lidar
  isTimestampSync,  \* one flag for all lidars, of the last packet received
  rawPackets,       \* raw_packet_queue_
  points,           \* points_clouds_ of the handler of a lidar
  ring,             \* LidarDataQueue of a lidar, frames
  sampling,         \* connect_state is kConnectStateSampling
  semaphore,        \* count_ of pcd_semaphore_
  pollAt,           \* lidar the poll thread is at, or Checking, Waiting, Joined
  exitRequested

sourceVars == <<packetTime, isTimestampSync>>
frameVars  == <<sourceVars, rawPackets, points, ring, sampling, semaphore, pollAt,
                exitRequested>>

Checking == 0
Waiting == -1
Joined == LidarCount + 1

FramesInit ==
  /\ packetTime = [l \in Lidars |-> 1] /\ isTimestampSync = FALSE
  /\ rawPackets = <<>> /\ points = [l \in Lidars |-> <<>>]
  /\ ring = [l \in Lidars |-> <<>>] /\ sampling = [l \in Lidars |-> FALSE]
  /\ semaphore = 0 /\ pollAt = Checking /\ exitRequested = FALSE

\* The ring: wr_idx - rd_idx frames, all of it used.
QueueIsFull(queue) == Len(queue) = QueueSize
QueuePushAny(queue, frame) == Append(queue, frame)
QueuePop(queue) == Tail(queue)

\* The SDK calls back with a packet, whose time is synchronised or not.
OnLivoxLidarPointCloud(l) ==
  \E sync \in BOOLEAN :
    /\ Len(SelectSeq(rawPackets, LAMBDA p : p.lidar = l)) < RawMax
    /\ isTimestampSync' = sync
    /\ rawPackets' = Append(rawPackets, [lidar |-> l, time |-> packetTime[l]])
    /\ packetTime' = [packetTime EXCEPT ![l] = (@ + 1) % Cycle]
    /\ UNCHANGED <<points, ring, sampling, semaphore, pollAt, exitRequested>>

\* The SDK has set up a lidar of the configuration.
Connect(l) ==
  /\ l \in Indexed /\ ~sampling[l]
  /\ sampling' = [sampling EXCEPT ![l] = TRUE]
  /\ UNCHANGED <<sourceVars, rawPackets, points, ring, semaphore, pollAt, exitRequested>>

----------------------------------------------------------------------------
\* With synchronised time a frame of the lidar ends on a multiple of the
\* interval, unless it is too short.
FrameComplete(pts) ==
  /\ pts # <<>> /\ Last(pts) % FrameMs = 0
  /\ (Last(pts) - Head(pts)) % Cycle >= FrameMs - 1

\* Without it the interval passes by the clock of the host, at the latest after
\* as many packets, and ends the frames of all lidars.
Published(l, pts) ==
  IF isTimestampSync
  THEN {IF FrameComplete(pts[l]) THEN {l} ELSE {}}
  ELSE LET all == {m \in Lidars : pts[m] # <<>>}
       IN IF Len(pts[l]) >= FrameMs THEN {all} ELSE {{}, all}

\* Mutant: a full ring wakes nobody up.
SignalledIfStored(ended) == {l \in ended \cap Indexed : ~QueueIsFull(ring[l])}

\* PushLidarData: a frame of a lidar without an index or with a full ring is
\* lost; a full ring still wakes up the poll thread.
Signalled(ended) == ended \cap Indexed

PushLidarData(pts, ended) ==
  /\ ring' = [l \in Lidars |->
       IF l \in ended \cap Indexed /\ ~QueueIsFull(ring[l])
       THEN QueuePushAny(ring[l], pts[l]) ELSE ring[l]]
  /\ semaphore' = IF Signalled(ended) # {} /\ semaphore <= 0 THEN semaphore + 1
                  ELSE semaphore

\* Mutant: the points stay when the frame ends.
CollectedStays(pts, ended) == pts

Collected(pts, ended) == [l \in Lidars |-> IF l \in ended THEN <<>> ELSE pts[l]]

\* The points of a packet, all kinds of coordinates, behind those before.
PointCloudProcess(pts, packet) == Append(pts, packet.time)

\* One round of RawDataProcess and CheckTimer.
RawDataProcess ==
  /\ rawPackets # <<>>
  /\ rawPackets' = Tail(rawPackets)
  /\ LET l   == Head(rawPackets).lidar
         pts == [points EXCEPT ![l] = PointCloudProcess(@, Head(rawPackets))]
     IN \E ended \in Published(l, pts) :
          /\ points' = Collected(pts, ended)
          /\ PushLidarData(pts, ended)
  /\ UNCHANGED <<sourceVars, sampling, pollAt, exitRequested>>

----------------------------------------------------------------------------
\* The poll thread ends if it finds the request before it waits.
PollThreadChecks ==
  /\ pollAt = Checking
  /\ pollAt' = IF exitRequested THEN Joined ELSE Waiting
  /\ UNCHANGED <<sourceVars, rawPackets, points, ring, sampling, semaphore,
                 exitRequested>>

\* Wait returns only for a signal: no request wakes the thread up.
PollThreadWakes ==
  /\ pollAt = Waiting /\ semaphore > 0
  /\ semaphore' = semaphore - 1 /\ pollAt' = 1
  /\ UNCHANGED <<sourceVars, rawPackets, points, ring, sampling, exitRequested>>

PollsOn == pollAt' = IF pollAt = LidarCount THEN Checking ELSE pollAt + 1

\* The ring of a lidar that is sampling is emptied, frame by frame.
PollingLidarPointCloudData ==
  /\ pollAt \in Lidars
  /\ IF sampling[pollAt] /\ ~exitRequested /\ ring[pollAt] # <<>>
     THEN ring' = [ring EXCEPT ![pollAt] = QueuePop(@)] /\ UNCHANGED pollAt
     ELSE PollsOn /\ UNCHANGED ring
  /\ UNCHANGED <<sourceVars, rawPackets, points, sampling, semaphore, exitRequested>>

\* The destructor of the node: the request, then it joins the threads.
RequestExit ==
  /\ ~exitRequested /\ exitRequested' = TRUE
  /\ UNCHANGED <<sourceVars, rawPackets, points, ring, sampling, semaphore, pollAt>>

PollStep == PollThreadChecks \/ PollThreadWakes \/ PollingLidarPointCloudData

FramesNext ==
  \/ \E l \in Lidars : OnLivoxLidarPointCloud(l) \/ Connect(l)
  \/ RawDataProcess \/ PollStep \/ RequestExit

----------------------------------------------------------------------------
Whole(frame) ==
  \A i \in 1 .. Len(frame) - 1 : frame[i + 1] = (frame[i] + 1) % Cycle

\* No packet is missing from, doubled in or out of order in a frame, whatever
\* the lidars' clocks do; and no frame is longer than two intervals.
FramesWhole ==
  \A l \in Lidars : \A frame \in Range(ring[l]) \cup {points[l]} :
      Whole(frame) /\ Len(frame) < 2 * FrameMs

\* Until the node exits that is asked to, or the frames of a lidar that samples
\* are taken, even if its ring was full before it was connected.
FramesWait(l) ==
  IF exitRequested THEN pollAt # Joined ELSE sampling[l] /\ QueueIsFull(ring[l])
==============================================================================
