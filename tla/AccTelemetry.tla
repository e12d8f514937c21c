---------------------------- MODULE AccTelemetry ----------------------------
(***************************************************************************)
(* The node of the follower that joins the mirrored topics of the leader   *)
(* with its own pose and speed into one Telemetry message per period,      *)
(* acc_telemetry.py.  A message is valid only when every stamped input is  *)
(* fresh; the own odometry has no stamp and only has to have come once.    *)
(*                                                                         *)
(* Poses and the gap computed from them are left out: they reach nothing   *)
(* but the MPC of the ACC node, whose result is any choice within limits.  *)
(***************************************************************************)
EXTENDS ControlTypes

CONSTANTS
  Stamped,       \* the keys of _stamp: peer_pose, peer_vel, self_pose, path
  InputTimeout,  \* input_timeout in ticks
  OwnSpeeds      \* speeds the follower's odometry can report

\* The fields of a Telemetry message that control depends on.
Telemetry == [is_valid : BOOLEAN, v : OwnSpeeds \cup {0}]

ASSUME TelemetryAssumption ==
  /\ "path" \in Stamped
  /\ InputTimeout \in Nat
  /\ OwnSpeeds \subseteq Int
  /\ None \notin Telemetry

VARIABLES
  stampAge,    \* age of _stamp[key]
  pathUsable,  \* _path_x has at least two points
  selfV,       \* twist.linear.x of _self_odom
  teleOut,     \* Telemetry published and not yet delivered, or None
  pathOut      \* path in the follower's frame, published and not yet delivered

teleVars == <<stampAge, pathUsable, selfV, teleOut, pathOut>>

TeleTypeOK ==
  /\ stampAge \in [Stamped -> Ages(InputTimeout)]
  /\ pathUsable \in BOOLEAN
  /\ selfV \in OwnSpeeds \cup {None}
  /\ teleOut \in Telemetry \cup {None}
  /\ pathOut \in {"path", None}

TeleInit ==
  /\ stampAge = [i \in Stamped |-> None]
  /\ pathUsable = FALSE
  /\ selfV = None
  /\ teleOut = None
  /\ pathOut = None

-----------------------------------------------------------------------------
\* _peer_pose_cb, _peer_vel_cb, _self_pose_cb
InputCb(i) ==
  /\ i # "path"
  /\ stampAge' = [stampAge EXCEPT ![i] = 0]
  /\ UNCHANGED <<pathUsable, selfV, teleOut, pathOut>>

SelfOdomCb(v) ==
  /\ selfV' = v
  /\ UNCHANGED <<stampAge, pathUsable, teleOut, pathOut>>

\* A path of one point is stored, stamped and passed on, and makes no valid
\* message; an empty one is ignored.
LeaderPathCb(points) ==
  /\ points > 0
  /\ pathUsable' = (points >= 2)
  /\ stampAge' = [stampAge EXCEPT !["path"] = 0]
  /\ pathOut' = "path"
  /\ UNCHANGED <<selfV, teleOut>>

\* Mutant: inputs only have to have come once.
HaveOldInputs ==
  /\ pathUsable
  /\ selfV # None
  /\ \A i \in Stamped : stampAge[i] # None

HaveInputs ==
  /\ pathUsable
  /\ selfV # None
  /\ \A i \in Stamped : Fresh(stampAge[i], InputTimeout)

\* Mutant: the own speed is filled in before the inputs are tested.
TelemetryFilledFirst ==
  /\ teleOut' = [is_valid |-> HaveInputs, v |-> selfV]
  /\ UNCHANGED <<stampAge, pathUsable, selfV, pathOut>>

\* _tick; the fields of an invalid message have their default, 0.
TelemetryStep ==
  /\ teleOut' = IF HaveInputs THEN [is_valid |-> TRUE, v |-> selfV]
                              ELSE [is_valid |-> FALSE, v |-> 0]
  /\ UNCHANGED <<stampAge, pathUsable, selfV, pathOut>>

TeleTaken ==
  /\ teleOut' = None
  /\ UNCHANGED <<stampAge, pathUsable, selfV, pathOut>>

PathTaken ==
  /\ pathOut' = None
  /\ UNCHANGED <<stampAge, pathUsable, selfV, teleOut>>

TeleElapse ==
  /\ stampAge' = [i \in Stamped |-> Older(stampAge[i], InputTimeout)]
  /\ UNCHANGED <<pathUsable, selfV, teleOut, pathOut>>

=============================================================================
