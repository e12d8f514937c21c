---------------------------- MODULE MCLeaderStack ----------------------------
(***************************************************************************)
(* Instances of LeaderStack for TLC.  Timeouts of one or two periods stand *)
(* for the ten of the code: long enough for an input to be fresh, at the   *)
(* limit and stale while commands derived from it are on their way.        *)
(***************************************************************************)
EXTENDS LeaderStack

\* Measured speeds: standing, and faster than any command.
StandOrRush == {0, 3}

PointPath == {[n |-> 1, cyclic |-> FALSE]}

\* A point, and a longer path that is closed.
FewPaths == {[n |-> 1, cyclic |-> FALSE], [n |-> 3, cyclic |-> TRUE]}

Keys == {[v |-> 1, w |-> 0]}

MinusOne == -1

=============================================================================
