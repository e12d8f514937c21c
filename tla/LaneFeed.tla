------------------------------ MODULE LaneFeed ------------------------------
(***************************************************************************)
(* How the leader's lane reaches the follower's Telemetry: lane_publisher  *)
(* publishes it on a timer, v2v_sender lets at most max_rate of them pass, *)
(* and acc_telemetry takes its input for stale after input_timeout.  Each  *)
(* of the three has a rate of its own; this module asks whether they fit.  *)
(*                                                                         *)
(* The network is at its best: it loses nothing and delivers within the    *)
(* period, and every other input of acc_telemetry comes once per period.   *)
(* Instants differ a little from whole periods, so an elapsed time that is *)
(* MinDt periods may be found on either side of min_dt.                    *)
(***************************************************************************)
EXTENDS AccTelemetry

CONSTANTS
  LanePeriod,  \* periods between two publications (publish_rate)
  MinDt        \* min_dt = 1 / max_rate in periods

ASSUME LaneAssumption == LanePeriod \in Nat \ {0} /\ MinDt \in Nat

VARIABLES
  lanePose,   \* lane_publisher has a pose to anchor the lane to
  wait,       \* periods until its timer fires
  sentAge,    \* periods since the sender let a lane pass; None before the first
  teleFired,  \* the timer of acc_telemetry has fired in this period
  outage      \* messages without valid Telemetry since the last with it;
              \* None before the first

laneVars == <<lanePose, wait, sentAge, teleFired, outage>>
feedVars == <<teleVars, laneVars>>

LaneTypeOK ==
  /\ TeleTypeOK
  /\ lanePose \in BOOLEAN
  /\ wait \in 0..LanePeriod
  /\ sentAge \in Nat \cup {None}
  /\ teleFired \in BOOLEAN
  /\ outage \in Nat \cup {None}

LaneInit ==
  /\ TeleInit
  /\ lanePose = FALSE
  /\ wait \in 1..LanePeriod
  /\ sentAge = None
  /\ teleFired = FALSE
  /\ outage = None

-----------------------------------------------------------------------------
LanePose ==
  /\ lanePose' = TRUE
  /\ UNCHANGED <<teleVars, wait, sentAge, teleFired, outage>>

\* The other inputs of acc_telemetry.
OtherInput ==
  /\ (\E i \in Stamped : InputCb(i)) \/ (\E v \in OwnSpeeds : SelfOdomCb(v))
  /\ UNCHANGED laneVars

\* The timer of the publisher fires before it has a pose.
LaneNotAnchored ==
  /\ wait = 0 /\ ~lanePose
  /\ wait' = LanePeriod
  /\ UNCHANGED <<teleVars, lanePose, sentAge, teleFired, outage>>

\* The sender lets the lane pass, and it arrives.
LaneSent ==
  /\ wait = 0 /\ lanePose
  /\ sentAge # None => sentAge >= MinDt
  /\ wait' = LanePeriod
  /\ sentAge' = 0
  /\ LeaderPathCb(2)
  /\ UNCHANGED <<lanePose, teleFired, outage>>

\* Mutant: the sender notes the time before it tests it.
LaneThrottledNoted ==
  /\ wait = 0 /\ lanePose
  /\ sentAge # None /\ sentAge <= MinDt
  /\ wait' = LanePeriod
  /\ sentAge' = 0
  /\ UNCHANGED <<teleVars, lanePose, teleFired, outage>>

LaneThrottled ==
  /\ wait = 0 /\ lanePose
  /\ sentAge # None /\ sentAge <= MinDt
  /\ wait' = LanePeriod
  /\ UNCHANGED <<teleVars, lanePose, sentAge, teleFired, outage>>

\* _tick of acc_telemetry; teleOut is the message published last.
TeleTimer ==
  /\ ~teleFired
  /\ teleFired' = TRUE
  /\ TelemetryStep
  /\ outage' = IF teleOut'.is_valid THEN 0
               ELSE IF outage = None THEN None ELSE outage + 1
  /\ UNCHANGED <<lanePose, wait, sentAge>>

\* The next period begins.
NextPeriod ==
  /\ teleFired /\ wait > 0
  /\ selfV # None
  /\ \A i \in Stamped \ {"path"} : stampAge[i] = 0
  /\ TeleElapse
  /\ wait' = wait - 1
  /\ sentAge' = IF sentAge = None THEN None ELSE sentAge + 1
  /\ teleFired' = FALSE
  /\ UNCHANGED <<lanePose, outage>>

LaneNext ==
  \/ LanePose
  \/ OtherInput
  \/ LaneNotAnchored
  \/ LaneSent
  \/ LaneThrottled
  \/ TeleTimer
  \/ NextPeriod

LaneSpec == LaneInit /\ [][LaneNext]_feedVars

-----------------------------------------------------------------------------
\* Once the follower has had valid Telemetry, nothing but the wait for a new
\* lane invalidates it, and that for no longer than throttle and publication
\* period together exceed the timeout: not at all where the rates fit.
OutageBounded ==
  outage # None /\ outage > 0 => outage + InputTimeout <= MinDt + LanePeriod

\* What the comment on max_rate in channels.yaml claims: the rate that the
\* sender lets pass is enough for the lane, so that with nothing lost valid
\* Telemetry stays valid.
FeedStaysValid == outage # None => outage = 0

=============================================================================
