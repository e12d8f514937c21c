---------------------------- MODULE MCPerception ----------------------------
(***************************************************************************)
(* Instance of Perception for TLC.  Two Mid360 in the network, the ports   *)
(* of the file right or swapped, two kinds of host ports that share a      *)
(* socket or switch one off; keys that are known, unknown, and of a length *)
(* other than theirs.                                                      *)
(***************************************************************************)
EXTENDS Perception

MCTypeOf  == <<"mid360", "mid360">>
RightPorts == [k \in PortKinds |-> k]
MCFilePorts == {RightPorts, [RightPorts EXCEPT !["points"] = "cmd", !["cmd"] = "points"]}
MCHostPorts == {RightPorts, [RightPorts EXCEPT !["push"] = "points", !["log"] = "off"]}
MCAddresses == {{}, {1}, {1, 2}}
\* One value too long for its field, one too short.
MCPushKeys ==
  {[key |-> "pattern_mode", len |-> 1, value |-> <<1>>],
   [key |-> "pcl_data_type", len |-> 2, value |-> <<0>>],
   [key |-> "vendor", len |-> 3, value |-> <<0>>],
   [key |-> "esc_mode", len |-> 1, value |-> <<0>>],
   [key |-> "imu", len |-> 4, value |-> <<1>>],
   [key |-> "imu", len |-> 8, value |-> <<0>>]}

=============================================================================
