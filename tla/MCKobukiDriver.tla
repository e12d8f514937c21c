--------------------------- MODULE MCKobukiDriver ---------------------------
(***************************************************************************)
(* Instance of KobukiDriver for TLC: straight on and an arc to the left,   *)
(* whose halves mixed give a turn on the spot and a faster arc.  A short of *)
(* eight bits makes the speed of the first one saturate.                   *)
(***************************************************************************)
EXTENDS KobukiDriver

StraightAndArc == {[v |-> 200, w |-> 0], [v |-> 100, w |-> 500]}

=============================================================================
