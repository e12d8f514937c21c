---------------------------- MODULE ControlTypes ----------------------------
(***************************************************************************)
(* Time as the control nodes see it.  One tick is one control period (ts,  *)
(* 0.05 s); the age of an input is the number of ticks since the callback  *)
(* that stored it, None before the first one.  An age stops growing one    *)
(* tick beyond the timeout it is compared with: older is as stale.         *)
(***************************************************************************)
EXTENDS Integers

CONSTANTS
  None,    \* Python's None
  Curves   \* speed limits v_curve that the lateral node can publish

ASSUME TypesAssumption == None \notin Int /\ Curves \subseteq Int

Ages(timeout) == (0..(timeout + 1)) \cup {None}

\* The age after one more tick.
Older(age, timeout) == IF age \in 0..timeout THEN age + 1 ELSE age

\* (now - stamp) <= timeout; a missing stamp is not fresh.
Fresh(age, timeout) == age \in 0..timeout

\* np.clip
Clip(x, lo, hi) == IF x < lo THEN lo ELSE IF x > hi THEN hi ELSE x

Least(x, y) == IF x < y THEN x ELSE y

=============================================================================
