--------------------------- MODULE LatNode_proofs ---------------------------
(***************************************************************************)
(* Lemmas that the proofs about the stacks of the leader and of the        *)
(* follower share: ages, limits, and what a step of the lane-keeping node  *)
(* leaves behind.                                                          *)
(***************************************************************************)
EXTENDS LatNode, TLAPS

USE TypesAssumption, LatAssumption

LEMMA ClipRange ==
  ASSUME NEW x \in Int, NEW lo \in Int, NEW hi \in Int, lo <= hi
  PROVE  Clip(x, lo, hi) \in lo..hi
BY DEF Clip

\* One step of at most d moves what is within the limits by at most d.
LEMMA ClipStep ==
  ASSUME NEW x \in Int, NEW a \in Int, NEW d \in Int, a <= d, 0 <= d,
         NEW lo \in Int, NEW hi \in Int, lo <= hi
  PROVE  Clip(x + a, lo, hi) <= Clip(x, lo, hi) + d
BY DEF Clip

LEMMA LeastOf ==
  ASSUME NEW x, NEW y
  PROVE  Least(x, y) \in {x, y}
BY DEF Least

\* An age that may grow is still one the timeout distinguishes.
LEMMA OlderAge ==
  ASSUME NEW t \in Nat, NEW age \in Ages(t)
  PROVE  /\ Older(age, t) \in Ages(t)
         /\ Older(age, t) = None <=> age = None
BY DEF Older, Ages

LEMMA CappedCount ==
  ASSUME NEW cap \in Nat, NEW n \in 0..cap
  PROVE  Least(n + 1, cap) \in 0..cap
BY DEF Least

\* An age that kept up with a counter from off on still does a period later.
LEMMA AgeKeepsUp ==
  ASSUME NEW t \in Nat, NEW from \in Nat, NEW n \in Nat, NEW n1 \in Nat,
         n1 <= n + 1, n1 >= from + 1, NEW age \in Ages(t), age # None,
         n >= from + 1 => age >= Least(n - from, t + 1)
  PROVE  Older(age, t) >= Least(n1 - from, t + 1)
BY DEF Older, Ages, Least

----------------------------------------------------------------------------
LEMMA StopIsACommand == StopTwist # None
BY DEF StopTwist

LEMMA CandidatesType ==
  ASSUME LatTypeOK, path # None
  PROVE  Candidates \subseteq 0..(path.n - 1)
<1>1. path.n \in Nat \ {0} /\ path.cyclic \in BOOLEAN
  BY DEF LatTypeOK
<1>2. CASE prevPathIdx = None
  BY <1>1, <1>2 DEF Candidates
<1>3. CASE prevPathIdx # None
  <2>1. prevPathIdx \in Nat
    BY <1>3 DEF LatTypeOK
  <2>2. \A k \in (-SearchWindow)..SearchWindow : prevPathIdx + k \in Int
    BY <2>1
  <2>3. \A i \in Int : i % path.n \in 0..(path.n - 1)
    BY <1>1
  <2>4. QED
    BY <1>1, <2>1, <2>2, <2>3 DEF Candidates
<1>4. QED
  BY <1>2, <1>3

LEMMA KeepLaneType ==
  ASSUME LatTypeOK, KeepLane
  PROVE  /\ wCmd' \in WMin..WMax
         /\ prevPathIdx' \in 0..(path.n - 1)
         /\ latOut' = [v |-> longV, w |-> wCmd']
<1>1. PICK alpha \in AlphaMin..AlphaMax :
        wCmd' = Clip((IF wasFresh THEN wCmd ELSE 0) + alpha, WMin, WMax)
  BY DEF KeepLane, TurnRatesByMpc
<1>2. (IF wasFresh THEN wCmd ELSE 0) + alpha \in Int
  BY DEF LatTypeOK
<1>3. wCmd' \in WMin..WMax
  <2>1. WMin <= WMax
    OBVIOUS
  <2>2. QED
    BY <1>1, <1>2, <2>1, ClipRange
<1>4. prevPathIdx' \in 0..(path.n - 1)
  BY CandidatesType DEF KeepLane, NotReady
<1>5. QED
  BY <1>3, <1>4 DEF KeepLane

\* The speeds that long_cmd carries are all that the node lets through.
LEMMA LatControlType ==
  ASSUME NEW Speed, Speed \subseteq Int, 0 \in Speed,
         LatTypeOK, longV \in Speed \cup {None}, LatControlStep
  PROVE  LatTypeOK' /\ latOut' \in [v : Speed, w : WMin..WMax] \cup {None}
<1>1. UNCHANGED latInputs
  BY DEF LatControlStep
<1>2. StopTwist \in [v : Speed, w : WMin..WMax]
  BY DEF StopTwist
<1>3. /\ wasFresh' \in BOOLEAN
      /\ wCmd' \in WMin..WMax
      /\ prevPathIdx' \in Nat \cup {None}
      /\ latOut' \in [v : Speed, w : WMin..WMax] \cup {None}
      /\ curveOut' \in Curves \cup {None}
  <2>1. CASE LatIdle
    <3>1. NotReady /\ latOut' = None /\ curveOut' = None
          /\ UNCHANGED <<wasFresh, wCmd, prevPathIdx>>
      BY <2>1 DEF LatIdle
    <3>2. QED
      BY <3>1 DEF LatTypeOK
  <2>2. CASE StopOnStaleLong
    <3>1. 0 \in WMin..WMax
      OBVIOUS
    <3>2. wCmd' = 0 /\ wasFresh' = FALSE /\ curveOut' = None /\ latOut' = StopTwist
          /\ prevPathIdx' = prevPathIdx
      BY <2>2 DEF StopOnStaleLong
    <3>3. QED
      BY <1>2, <3>1, <3>2 DEF LatTypeOK
  <2>3. CASE KeepLane
    <3>1. longV \in Speed
      BY <2>3 DEF KeepLane, NotReady
    <3>2. latOut' \in [v : Speed, w : WMin..WMax]
      BY <2>3, <3>1, KeepLaneType
    <3>3. wasFresh' = TRUE /\ curveOut' \in Curves
      BY <2>3 DEF KeepLane
    <3>4. path # None /\ path.n \in Nat \ {0}
      BY <2>3 DEF KeepLane, NotReady, LatTypeOK
    <3>5. QED
      BY <2>3, <3>2, <3>3, <3>4, KeepLaneType
  <2>4. QED
    BY <2>1, <2>2, <2>3 DEF LatControlStep
<1>4. latOut' \in [v : Int, w : WMin..WMax] \cup {None}
  BY <1>3
<1>5. QED
  BY <1>1, <1>3, <1>4 DEF LatTypeOK, latInputs

=============================================================================
