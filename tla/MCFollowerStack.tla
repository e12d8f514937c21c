--------------------------- MODULE MCFollowerStack ---------------------------
(***************************************************************************)
(* Instances of FollowerStack for TLC.  The four stamped inputs are alike  *)
(* but for the path, which is passed on to the lane-keeping node: two of   *)
(* them are enough for one to be fresh while the other is not.             *)
(***************************************************************************)
EXTENDS FollowerStack

PointPath == {[n |-> 1, cyclic |-> FALSE]}

MinusOne == -1

=============================================================================
