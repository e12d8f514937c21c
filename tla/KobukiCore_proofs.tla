-------------------------- MODULE KobukiCore_proofs --------------------------
(***************************************************************************)
(* What the parts of the Kobuki driver keep, for every number of goals,    *)
(* wheels, outputs and payloads: a goal succeeds only on a robot that      *)
(* docked after its start, wheels and outputs mirror the base, the pose    *)
(* published does not jump, the limiter never passes the speed asked for,  *)
(* and the packets of the base are found and taken apart as it made them,  *)
(* those that follow a disturbance included.                               *)
(***************************************************************************)
EXTENDS KobukiCore, FiniteSetTheorems, WellFoundedInduction, TLAPS

----------------------------------------------------------------------------
(* Each part moves its own variables and leaves the others. *)

LEMMA PartsAlone ==
  ASSUME [CoreNext]_coreVars
  PROVE  /\ [DockingNext]_dockingVars
         /\ [OdometryNext]_odometryVars
         /\ [PinsNext]_pinVars
         /\ [LimiterNext]_limiterVars
         /\ [PayloadNext]_payloadVars
         /\ [FinderNext]_finderVars
<1>1. CASE CoreNext
  BY <1>1 DEF CoreNext, Others
<1>2. CASE UNCHANGED coreVars
  BY <1>2 DEF coreVars
<1>3. QED
  BY <1>1, <1>2

----------------------------------------------------------------------------
(* Docking. *)

HasState(d) == "state" \in DOMAIN d

\* No step of the search loses the state.
LEMMA StateKept ==
  ASSUME NEW d, HasState(d), NEW signal, NEW turn, NEW bumper, NEW charger
  PROVE  HasState(Update(d, signal, turn, bumper, charger))
<1>1. ASSUME NEW e, HasState(e), NEW state, NEW v, NEW w
      PROVE  HasState(To(e, state, v, w))
  BY <1>1 DEF HasState, To
<1>2. ASSUME NEW e, HasState(e)
      PROVE  /\ HasState(Off(e)) /\ HasState(Forget(e))
             /\ \A x : HasState([e EXCEPT !.stabilizer = x])
             /\ \A x : HasState([e EXCEPT !.bumpRemainder = x])
             /\ \A x : HasState([e EXCEPT !.rotated = x])
             /\ \A x : HasState([e EXCEPT !.detector = x])
             /\ \A x : HasState([e EXCEPT !.past = x])
  BY <1>2 DEF HasState, Off, Forget
<1>3. HasState(BumpOrCharge(d, bumper, charger))
  BY <1>1, <1>2 DEF BumpOrCharge
<1>4. ASSUME NEW e, HasState(e), NEW seen
      PROVE  HasState(Steer(e, seen, turn))
  <2>1. HasState(Scan(e, seen["mid"], turn))
    <3> DEFINE r == [e EXCEPT !.rotated = @ + turn]
    <3>1. HasState(r)
      BY <1>4 DEF HasState
    <3>2. /\ HasState([r EXCEPT !.detector = @ - 1])
          /\ HasState([r EXCEPT !.detector = @ + 1])
      BY <3>1 DEF HasState
    <3> HIDE DEF r
    <3>3. /\ HasState(To(r, "ALIGNED", 50, 0)) /\ HasState(To(r, "FIND_STREAM", 0, 0))
          /\ HasState(To(r, "SCAN", 0, 660))
      BY <1>1, <3>1
    <3>4. /\ HasState(To([r EXCEPT !.detector = @ - 1], "SCAN", 0, 660))
          /\ HasState(To([r EXCEPT !.detector = @ + 1], "SCAN", 0, 660))
      BY <1>1, <3>2
    <3>5. QED
      BY <3>3, <3>4 DEF Scan, r
  <2>2. HasState(FindStream(e, seen)) /\ HasState(GetStream(e, seen))
    BY <1>1, <1>2, <1>4 DEF FindStream, GetStream
  <2>3. HasState(Aligned(e, seen["mid"]))
    BY <1>1, <1>4 DEF Aligned
  <2>4. HasState(Bumped(e))
    BY <1>1, <1>2, <1>4 DEF Bumped
  <2>5. HasState(To(Forget(e), "SCAN", 0, 660)) /\ HasState(To(e, e.state, 0, 0))
    BY <1>1, <1>2, <1>4
  <2>6. QED
    BY <2>1, <2>2, <2>3, <2>4, <2>5 DEF Steer
<1>5. QED
  BY <1>2, <1>3, <1>4 DEF Update

NotDone(d) == HasState(d) /\ d.state # "DONE"

\* Only contacts with the charger end a search: without them, an update decides
\* for DONE only when it has read DONE.
LEMMA ContactsEnd ==
  ASSUME NEW d, NotDone(d), NEW signal, NEW turn, NEW bumper, NEW charger, ~charger
  PROVE  NotDone(Update(d, signal, turn, bumper, charger))
<1>1. ASSUME NEW e, HasState(e), NEW state, state # "DONE", NEW v, NEW w
      PROVE  NotDone(To(e, state, v, w))
  BY <1>1 DEF NotDone, HasState, To
<1>2. ASSUME NEW e, HasState(e)
      PROVE  /\ HasState(Forget(e))
             /\ \A x : HasState([e EXCEPT !.bumpRemainder = x])
             /\ \A x : HasState([e EXCEPT !.rotated = x])
             /\ \A x : HasState([e EXCEPT !.detector = x])
  BY <1>2 DEF HasState, Forget
<1>3. NotDone(BumpOrCharge(d, bumper, charger))
  BY <1>1, <1>2 DEF BumpOrCharge, NotDone
<1>4. ASSUME NEW e, NotDone(e), NEW seen
      PROVE  NotDone(Steer(e, seen, turn))
  <2> HasState(e)
    BY <1>4 DEF NotDone
  <2>1. NotDone(Scan(e, seen["mid"], turn))
    <3> DEFINE r == [e EXCEPT !.rotated = @ + turn]
    <3>1. HasState(r)
      BY DEF HasState
    <3>2. /\ HasState([r EXCEPT !.detector = @ - 1])
          /\ HasState([r EXCEPT !.detector = @ + 1])
      BY <3>1 DEF HasState
    <3> HIDE DEF r
    <3>3. /\ NotDone(To(r, "ALIGNED", 50, 0)) /\ NotDone(To(r, "FIND_STREAM", 0, 0))
          /\ NotDone(To(r, "SCAN", 0, 660))
      BY <1>1, <3>1
    <3>4. /\ NotDone(To([r EXCEPT !.detector = @ - 1], "SCAN", 0, 660))
          /\ NotDone(To([r EXCEPT !.detector = @ + 1], "SCAN", 0, 660))
      BY <1>1, <3>2
    <3>5. QED
      BY <3>3, <3>4 DEF Scan, r
  <2>2. NotDone(FindStream(e, seen)) /\ NotDone(GetStream(e, seen))
    BY <1>1, <1>2 DEF FindStream, GetStream
  <2>3. NotDone(Aligned(e, seen["mid"]))
    BY <1>1 DEF Aligned
  <2>4. NotDone(Bumped(e))
    BY <1>1, <1>2 DEF Bumped
  <2>5. NotDone(To(Forget(e), "SCAN", 0, 660)) /\ NotDone(To(e, e.state, 0, 0))
    BY <1>1, <1>2, <1>4 DEF NotDone
  <2>6. QED
    BY <2>1, <2>2, <2>3, <2>4, <2>5 DEF Steer
<1>5. \A x : NotDone([d EXCEPT !.past = x])
  BY DEF NotDone, HasState
<1>6. QED
  BY <1>3, <1>4, <1>5 DEF Update

\* Contacts ended the search of goal g, or its reset was overtaken by an update.
Excused(g) == doneSince[g] \/ overtaken[g]

\* While a thread looks for the end of its search, a drive that is done, or that
\* an update is about to make so, is done because of this search or was so when
\* the thread reset it.
DockInv ==
  /\ HasState(dock)
  /\ DOMAIN thread = Goals /\ DOMAIN status = Goals
  /\ DOMAIN doneSince = Goals /\ DOMAIN overtaken = Goals
  /\ \A g \in Goals :
       /\ thread[g] \in {"loop", "check"} /\ (dock.state = "DONE" \/ DoneUnderWay) => Excused(g)
       /\ thread[g] = "succeed" => Excused(g)
       /\ status[g] = "succeeded" => Excused(g) /\ thread[g] \in {"disable", "ended"}

LEMMA DockStep ==
  ASSUME DockInv, [DockingNext]_dockingVars
  PROVE  DockInv'
<1> USE DEF DockInv, Excused
<1>1. ASSUME NEW g \in Goals, HandleGoal(g)
      PROVE  DockInv'
  BY <1>1 DEF HandleGoal, Step, DoneUnderWay, syncVars
<1>2. ASSUME NEW g \in Goals, HandleCancel(g)
      PROVE  DockInv'
  <2>1. HasState(dock') /\ dock'.state = dock.state
    BY <1>2 DEF HandleCancel, Off, HasState
  <2>2. QED
    BY <1>2, <2>1 DEF HandleCancel, DoneUnderWay, syncVars
<1>3. ASSUME NEW g \in Goals, RaiseFlags(g)
      PROVE  DockInv'
  <2>1. HasState(dock') /\ dock'.state = dock.state
    BY <1>3 DEF RaiseFlags, On, HasState
  <2>2. QED
    BY <1>3, <2>1 DEF RaiseFlags, Step, DoneUnderWay, syncVars
<1>4. ASSUME NEW g \in Goals, ResetState(g)
      PROVE  DockInv'
  <2>1. HasState(dock') /\ dock'.state # "DONE"
    BY <1>4 DEF ResetState, Idled, HasState
  <2>2. DoneUnderWay' <=> DoneUnderWay
    BY <1>4 DEF ResetState, DoneUnderWay, syncVars
  <2>3. /\ DOMAIN overtaken' = Goals /\ (DoneUnderWay => doneSince[g] \/ overtaken'[g])
        /\ \A h \in Goals \ {g} : overtaken'[h] = overtaken[h]
    <3>1. overtaken' = [overtaken EXCEPT ![g] = DoneUnderWay /\ ~doneSince[g]]
      BY <1>4 DEF ResetState
    <3>2. QED
      BY <3>1, Zenon
  <2>4. /\ thread[g] = "reset" /\ thread' = [thread EXCEPT ![g] = "loop"]
        /\ UNCHANGED <<status, doneSince>>
    BY <1>4 DEF ResetState, Step
  <2>5. QED
    BY <2>1, <2>2, <2>3, <2>4
<1>5. ASSUME NEW g \in Goals, ReadState(g)
      PROVE  DockInv'
  BY <1>5 DEF ReadState, Step, DoneUnderWay, syncVars
<1>6. ASSUME NEW g \in Goals, CheckEnabled(g)
      PROVE  DockInv'
  BY <1>6 DEF CheckEnabled, Step, DoneUnderWay, syncVars
<1>7. ASSUME NEW g \in Goals, End(g, "abort", "aborted") \/ End(g, "succeed", "succeeded")
      PROVE  DockInv'
  BY <1>7 DEF End, Step, DoneUnderWay, syncVars
<1>8. ASSUME NEW g \in Goals, DisableDrive(g)
      PROVE  DockInv'
  <2>1. HasState(dock') /\ dock'.state = dock.state
    BY <1>8 DEF DisableDrive, Off, HasState
  <2>2. QED
    BY <1>8, <2>1 DEF DisableDrive, Step, DoneUnderWay, syncVars
<1>9. CASE SyncCb
  BY <1>9 DEF SyncCb, DoneUnderWay
<1>10. ASSUME NEW s \in Signals, NEW turn \in Turns, NEW bumper \in BOOLEAN,
              NEW charger \in BOOLEAN, Decide(s, turn, bumper, charger)
       PROVE  DockInv'
  <2> DEFINE d == Update(dock, s, turn, bumper, charger)
  <2>1. HasState(d)
    BY StateKept
  <2>2. ~charger /\ d.state = "DONE" => dock.state = "DONE"
    BY ContactsEnd DEF NotDone
  <2>3. /\ dock' = [d EXCEPT !.state = dock.state] /\ newState' = d.state
        /\ UNCHANGED <<thread, status, overtaken>>
        /\ doneSince' = [g \in Goals |->
                          doneSince[g] \/ (charger /\ d.state = "DONE" /\ g \in Searching)]
    BY <1>10 DEF Decide
  <2> HIDE DEF d
  <2>4. HasState(dock') /\ dock'.state = dock.state
    BY <2>1, <2>3 DEF HasState
  <2>5. /\ DOMAIN doneSince' = Goals
        /\ \A g \in Goals :
             doneSince[g] \/ (charger /\ d.state = "DONE" /\ g \in Searching) => doneSince'[g]
    BY <2>3, Zenon
  <2>6. \A g \in Goals : thread[g] \in {"loop", "check"} => g \in Searching
    BY DEF Searching
  <2>7. DoneUnderWay' => d.state = "DONE"
    BY <2>3 DEF DoneUnderWay
  <2>8. \A g \in Goals : Excused(g) => Excused(g)'
    BY <2>3, <2>5
  <2>9. ASSUME NEW g \in Goals, thread'[g] \in {"loop", "check"},
               dock'.state = "DONE" \/ DoneUnderWay'
        PROVE  Excused(g)'
    BY <2>2, <2>3, <2>4, <2>5, <2>6, <2>7, <2>8, <2>9
  <2>10. QED
    BY <2>3, <2>4, <2>5, <2>8, <2>9
<1>11. CASE SetState
  <2>1. HasState(dock') /\ dock'.state = newState /\ ~DoneUnderWay' /\ sync = "set"
    BY <1>11 DEF SetState, HasState, DoneUnderWay
  <2>2. QED
    BY <1>11, <2>1 DEF SetState, DoneUnderWay
<1>12. ASSUME NEW mode \in Modes, DebugCb(mode)
       PROVE  DockInv'
  <2>1. HasState(dock') /\ (dock'.state = dock.state \/ dock'.state # "DONE")
    BY <1>12 DEF DebugCb, ModeShift, Idled, On, Off, HasState
  <2>2. QED
    BY <1>12, <2>1 DEF DebugCb, DoneUnderWay, syncVars
<1>13. CASE UNCHANGED dockingVars
  BY <1>13 DEF dockingVars, syncVars, DoneUnderWay
<1>14. QED
  BY <1>1, <1>2, <1>3, <1>4, <1>5, <1>6, <1>7, <1>8, <1>9, <1>10, <1>11, <1>12, <1>13
  DEF DockingNext, ThreadStep

\* A goal succeeds only when contacts ended the search after it was accepted,
\* or when an update wrote the DONE of an earlier search over the reset of its
\* thread, for any number of goals whose threads share the drive with updates
\* that take several steps (auto_docking_ros.cpp:137, dock_drive.cpp:229).
THEOREM DockedOrOvertaken == CoreSpec => []SucceededDocked
<1>1. CoreInit => DockInv
  BY DEF CoreInit, DockingInit, DockInit, DockInv, HasState, Excused
<1>2. DockInv /\ [CoreNext]_coreVars => DockInv'
  BY PartsAlone, DockStep
<1>3. DockInv => SucceededDocked
  BY DEF DockInv, SucceededDocked, Excused
<1>4. QED
  BY <1>1, <1>2, <1>3, PTL DEF CoreSpec


----------------------------------------------------------------------------
(* The wheels. *)

\* What is at most one turn of the counter away from its range.
LEMMA NearModulus ==
  ASSUME NEW x \in Int, -Modulus <= x, x <= Modulus
  PROVE  /\ x % Modulus \in 0 .. Modulus - 1
         /\ x < 0 => x % Modulus = x + Modulus
         /\ 0 <= x /\ x < Modulus => x % Modulus = x
         /\ x = Modulus => x % Modulus = 0
BY OdometryAssumption, Z3


\* The counter e is where m ticks after c lead, over one end of its range at most.
Wraps(e, c, m) == e = c + m \/ e = c + m + Modulus \/ e + Modulus = c + m

Ticks == 0 .. Modulus - 1

LEMMA RolledWraps ==
  ASSUME 2 * MaxMove < Modulus, NEW e \in Ticks, NEW c \in Ticks, NEW m \in Int,
         NEW d \in {-1, 1}, AbsTicks(m + d) <= MaxMove, Wraps(e, c, m)
  PROVE  (e + d) % Modulus \in Ticks /\ Wraps((e + d) % Modulus, c, m + d)
<1> DEFINE r == (e + d) % Modulus
<1>1. Modulus \in Nat \ {0} /\ MaxMove \in Nat
  BY OdometryAssumption
<1>2. e \in Int /\ c \in Int /\ d \in Int /\ 0 <= e /\ e < Modulus /\ 0 <= c /\ c < Modulus
  BY <1>1 DEF Ticks
<1>3. e + d \in Int /\ -Modulus <= e + d /\ e + d <= Modulus
  BY <1>1, <1>2
<1>4. /\ r \in 0 .. Modulus - 1
      /\ e + d < 0 => r = e + d + Modulus
      /\ 0 <= e + d /\ e + d < Modulus => r = e + d
      /\ e + d = Modulus => r = 0
  BY <1>3, NearModulus
<1> HIDE DEF r
<1>5. r = e + d \/ r = e + d + Modulus \/ r + Modulus = e + d
  BY <1>1, <1>2, <1>3, <1>4
<1>6. m + d <= MaxMove /\ -MaxMove <= m + d
  BY <1>1, <1>2 DEF AbsTicks
<1>7. Wraps(r, c, m + d)
  BY <1>1, <1>2, <1>4, <1>5, <1>6 DEF Wraps
<1>8. QED
  BY <1>4, <1>7 DEF r, Ticks

LEMMA TickDiffOfMove ==
  ASSUME 2 * MaxMove < Modulus, NEW e \in Ticks, NEW c \in Ticks, NEW m \in Int,
         -MaxMove <= m, m <= MaxMove, Wraps(e, c, m)
  PROVE  TickDiff(e, c) = m
<1> DEFINE r == (e - c) % Modulus
<1>1. Modulus \in Nat \ {0} /\ MaxMove \in Nat
  BY OdometryAssumption
<1>2. e \in Int /\ c \in Int /\ 0 <= e /\ e < Modulus /\ 0 <= c /\ c < Modulus
  BY <1>1 DEF Ticks
<1>3. e - c \in Int /\ -Modulus <= e - c /\ e - c <= Modulus
  BY <1>1, <1>2
<1>4. /\ r \in 0 .. Modulus - 1
      /\ e - c < 0 => r = e - c + Modulus
      /\ 0 <= e - c /\ e - c < Modulus => r = e - c
  BY <1>3, NearModulus
<1>5. TickDiff(e, c) = IF 2 * r >= Modulus THEN r - Modulus ELSE r
  BY DEF TickDiff
<1> HIDE DEF r
<1>6. m < 0 => r = m + Modulus
  BY <1>1, <1>2, <1>4 DEF Wraps
<1>7. 0 <= m => r = m
  BY <1>1, <1>2, <1>4 DEF Wraps
<1>8. QED
  BY <1>1, <1>5, <1>6, <1>7

LEMMA TickDiffType ==
  ASSUME NEW e \in Ticks, NEW c \in Ticks
  PROVE  TickDiff(e, c) \in Int /\ TickDiff(c, c) = 0
<1>1. Modulus \in Nat \ {0}
  BY OdometryAssumption
<1>2. e \in Int /\ c \in Int /\ 0 <= e /\ e < Modulus /\ 0 <= c /\ c < Modulus
  BY <1>1 DEF Ticks
<1>3. e - c \in Int /\ -Modulus <= e - c /\ e - c <= Modulus /\ c - c = 0
  BY <1>1, <1>2
<1>4. (e - c) % Modulus \in Int
  BY <1>3, NearModulus
<1>5. 0 % Modulus = 0
  BY <1>1, NearModulus
<1>6. TickDiff(e, c) \in Int
  BY <1>1, <1>4 DEF TickDiff
<1>7. TickDiff(c, c) = 0
  BY <1>1, <1>3, <1>5 DEF TickDiff
<1>8. QED
  BY <1>6, <1>7

WheelTypes ==
  /\ encoder \in [Wheels -> Ticks] /\ core \in [Wheels -> Ticks]
  /\ lastTick \in [Wheels -> Ticks]
  /\ moved \in [Wheels -> Int] /\ lastRad \in [Wheels -> Int]
  /\ travelled \in [Wheels -> Int]

\* The encoders are ahead of the last packet by what the wheels moved since,
\* unless the robot was started anew or no packet was read.
EncodersAhead ==
  \A w \in Wheels :
    /\ -MaxMove <= moved[w] /\ moved[w] <= MaxMove
    /\ ~rebooted /\ (initialised \/ odomPc # "idle") =>
         Wraps(encoder[w], core[w], moved[w])

\* A packet that is read and not taken over will bring the angles to the way.
AnglesFollow ==
  \A w \in Wheels :
    /\ odomPc # "wheels" /\ initialised => lastTick[w] = core[w]
    /\ ~shifted =>
         travelled[w] = lastRad[w] + (IF odomPc = "wheels" /\ initialised
                                      THEN TickDiff(core[w], lastTick[w]) ELSE 0)

WheelInv == WheelTypes /\ EncodersAhead /\ AnglesFollow

LEMMA RollKeeps ==
  ASSUME 2 * MaxMove < Modulus, WheelInv, NEW w \in Wheels, NEW d \in {-1, 1}, Roll(w, d)
  PROVE  WheelInv'
<1>1. /\ AbsTicks(moved[w] + d) <= MaxMove
      /\ encoder' = [encoder EXCEPT ![w] = (encoder[w] + d) % Modulus]
      /\ moved' = [moved EXCEPT ![w] = moved[w] + d]
      /\ UNCHANGED <<core, initialised, lastTick, lastRad, odomPc, travelled, rebooted, shifted>>
  BY DEF Roll
<1>2. /\ encoder[w] \in Ticks /\ core[w] \in Ticks /\ moved[w] \in Int
      /\ d \in Int /\ MaxMove \in Nat
  BY OdometryAssumption DEF WheelInv, WheelTypes
<1>3. (encoder[w] + d) % Modulus \in Ticks
  <2>1. encoder[w] \in Int /\ 0 <= encoder[w] /\ encoder[w] < Modulus /\ Modulus \in Nat \ {0}
    BY <1>2, OdometryAssumption DEF Ticks
  <2>2. encoder[w] + d \in Int /\ -Modulus <= encoder[w] + d /\ encoder[w] + d <= Modulus
    BY <1>2, <2>1
  <2>3. QED
    BY <2>2, NearModulus DEF Ticks
<1>4. moved[w] + d \in Int /\ -MaxMove <= moved[w] + d /\ moved[w] + d <= MaxMove
  BY <1>1, <1>2 DEF AbsTicks
<1>5. WheelTypes'
  BY <1>1, <1>3, <1>4 DEF WheelInv, WheelTypes
<1>6. ASSUME NEW u \in Wheels
      PROVE  /\ -MaxMove <= moved'[u] /\ moved'[u] <= MaxMove
             /\ ~rebooted' /\ (initialised' \/ odomPc' # "idle") =>
                  Wraps(encoder'[u], core'[u], moved'[u])
  <2>1. CASE u = w
    <3>1. /\ encoder'[u] = (encoder[w] + d) % Modulus /\ moved'[u] = moved[w] + d
          /\ core'[u] = core[w]
      BY <1>1, <2>1 DEF WheelInv, WheelTypes
    <3>2. Wraps(encoder[w], core[w], moved[w])
          => Wraps((encoder[w] + d) % Modulus, core[w], moved[w] + d)
      BY <1>1, <1>2, RolledWraps
    <3>3. QED
      BY <1>1, <1>4, <3>1, <3>2 DEF WheelInv, EncodersAhead
  <2>2. CASE u # w
    <3>1. encoder'[u] = encoder[u] /\ moved'[u] = moved[u] /\ core'[u] = core[u]
      BY <1>1, <2>2 DEF WheelInv, WheelTypes
    <3>2. QED
      BY <1>1, <3>1 DEF WheelInv, EncodersAhead
  <2>3. QED
    BY <2>1, <2>2
<1>7. EncodersAhead'
  BY <1>6 DEF EncodersAhead
<1>8. AnglesFollow'
  BY <1>1 DEF WheelInv, AnglesFollow
<1>9. QED
  BY <1>5, <1>7, <1>8 DEF WheelInv


\* A packet that is read: its ticks are what the wheels moved since the last one.
LEMMA StreamKeeps ==
  ASSUME 2 * MaxMove < Modulus, WheelInv, NEW fresh \in BOOLEAN, Stream(fresh)
  PROVE  WheelInv'
<1>1. /\ odomPc = "idle" /\ odomPc' = "wheels"
      /\ UNCHANGED <<encoder, initialised, lastTick, lastRad>>
  BY DEF Stream
<1>2. MaxMove \in Nat
  BY OdometryAssumption
<1>3. CASE fresh
  <2>1. core' = encoder /\ moved' = Zero
    BY <1>3 DEF Stream
  <2>2. travelled' = IF initialised THEN [w \in Wheels |-> travelled[w] + moved[w]]
                     ELSE travelled
    BY <1>3 DEF Stream
  <2>3. ~shifted' => ~shifted /\ ~rebooted
    BY <1>3 DEF Stream
  <2>4. \A w \in Wheels : moved'[w] = 0 /\ core'[w] = encoder[w]
    BY <2>1 DEF Zero
  <2>5. \A w \in Wheels :
          travelled'[w] = travelled[w] + (IF initialised THEN moved[w] ELSE 0)
    BY <2>2 DEF WheelInv, WheelTypes
  <2>6. WheelTypes'
    <3>1. moved' \in [Wheels -> Int]
      BY <2>1 DEF Zero
    <3>2. travelled' \in [Wheels -> Int]
      BY <2>2 DEF WheelInv, WheelTypes
    <3>3. QED
      BY <1>1, <2>1, <3>1, <3>2 DEF WheelInv, WheelTypes
  <2>7. EncodersAhead'
    <3>1. \A w \in Wheels : encoder'[w] \in Int
      BY <1>1, OdometryAssumption DEF WheelInv, WheelTypes, Ticks
    <3>2. \A w \in Wheels : Wraps(encoder'[w], core'[w], moved'[w])
      BY <1>1, <2>4, <3>1 DEF Wraps
    <3>3. \A w \in Wheels : -MaxMove <= moved'[w] /\ moved'[w] <= MaxMove
      BY <1>2, <2>4
    <3>4. QED
      BY <3>2, <3>3 DEF EncodersAhead
  <2>8. ASSUME NEW w \in Wheels, ~shifted'
        PROVE  travelled'[w] = lastRad'[w] + (IF odomPc' = "wheels" /\ initialised'
                                              THEN TickDiff(core'[w], lastTick'[w]) ELSE 0)
    <3>1. ~shifted /\ ~rebooted
      BY <2>3, <2>8
    <3>2. travelled[w] = lastRad[w] + 0
      BY <1>1, <3>1 DEF WheelInv, AnglesFollow
    <3>3. travelled[w] \in Int /\ lastRad[w] \in Int /\ moved[w] \in Int
          /\ encoder[w] \in Ticks /\ core[w] \in Ticks
      BY DEF WheelInv, WheelTypes
    <3>4. CASE initialised
      <4>1. lastTick[w] = core[w] /\ Wraps(encoder[w], core[w], moved[w])
            /\ -MaxMove <= moved[w] /\ moved[w] <= MaxMove
        BY <1>1, <3>1, <3>4 DEF WheelInv, AnglesFollow, EncodersAhead
      <4>2. TickDiff(encoder[w], core[w]) = moved[w]
        BY <3>3, <4>1, TickDiffOfMove
      <4>3. TickDiff(core'[w], lastTick'[w]) = moved[w]
        BY <1>1, <2>4, <4>1, <4>2
      <4>4. travelled'[w] = lastRad'[w] + moved[w]
        BY <1>1, <2>5, <3>2, <3>3, <3>4
      <4>5. QED
        BY <1>1, <3>4, <4>3, <4>4
    <3>5. CASE ~initialised
      BY <1>1, <2>5, <3>2, <3>3, <3>5
    <3>6. QED
      BY <3>4, <3>5
  <2>9. AnglesFollow'
    BY <1>1, <2>8 DEF AnglesFollow
  <2>10. QED
    BY <2>6, <2>7, <2>9 DEF WheelInv
<1>4. CASE ~fresh
  <2>1. /\ initialised /\ UNCHANGED <<core, moved, travelled>>
        /\ (rebooted' <=> rebooted) /\ (~shifted' => ~shifted)
    BY <1>4 DEF Stream
  <2>2. WheelTypes' /\ EncodersAhead'
    BY <1>1, <2>1 DEF WheelInv, WheelTypes, EncodersAhead
  <2>3. ASSUME NEW w \in Wheels
        PROVE  ~shifted' =>
                 travelled'[w] = lastRad'[w] + (IF odomPc' = "wheels" /\ initialised'
                                                THEN TickDiff(core'[w], lastTick'[w]) ELSE 0)
    <3>1. core[w] \in Ticks /\ lastTick[w] = core[w] /\ lastRad[w] \in Int
      BY <1>1, <2>1 DEF WheelInv, WheelTypes, AnglesFollow
    <3>2. TickDiff(core'[w], lastTick'[w]) = 0
      BY <1>1, <2>1, <3>1, TickDiffType
    <3>3. ~shifted => travelled[w] = lastRad[w] + 0
      BY <1>1 DEF WheelInv, AnglesFollow
    <3>4. QED
      BY <1>1, <2>1, <3>1, <3>2, <3>3
  <2>4. AnglesFollow'
    BY <1>1, <2>3 DEF AnglesFollow
  <2>5. QED
    BY <2>2, <2>4 DEF WheelInv
<1>5. QED
  BY <1>3, <1>4

LEMMA WheelsKeep ==
  ASSUME WheelInv, UpdateWheels
  PROVE  WheelInv'
<1>1. /\ odomPc = "wheels" /\ odomPc' = "joints" /\ initialised' /\ lastTick' = core
      /\ lastRad' = [w \in Wheels |-> lastRad[w] +
                      (IF initialised THEN TickDiff(core[w], lastTick[w]) ELSE 0)]
      /\ UNCHANGED <<encoder, core, moved, travelled, rebooted, shifted>>
  BY DEF UpdateWheels
<1>2. ASSUME NEW w \in Wheels
      PROVE  (IF initialised THEN TickDiff(core[w], lastTick[w]) ELSE 0) \in Int
  <2>1. core[w] \in Ticks /\ lastTick[w] \in Ticks
    BY DEF WheelInv, WheelTypes
  <2>2. TickDiff(core[w], lastTick[w]) \in Int
    BY <2>1, TickDiffType
  <2>3. QED
    BY <2>2
<1>3. WheelTypes'
  BY <1>1, <1>2 DEF WheelInv, WheelTypes
<1>4. EncodersAhead'
  BY <1>1 DEF WheelInv, EncodersAhead
<1>5. ASSUME NEW w \in Wheels, ~shifted'
      PROVE  travelled'[w] = lastRad'[w] + 0
  <2>1. travelled[w] = lastRad[w] + (IF initialised THEN TickDiff(core[w], lastTick[w]) ELSE 0)
    BY <1>1, <1>5 DEF WheelInv, AnglesFollow
  <2>2. lastRad'[w] = lastRad[w] + (IF initialised THEN TickDiff(core[w], lastTick[w]) ELSE 0)
    BY <1>1
  <2>3. lastRad'[w] \in Int
    BY <1>3 DEF WheelTypes
  <2>4. QED
    BY <1>1, <2>1, <2>2, <2>3
<1>6. AnglesFollow'
  BY <1>1, <1>5 DEF AnglesFollow
<1>7. QED
  BY <1>3, <1>4, <1>6 DEF WheelInv

\* A reset; a packet that is not taken over counts from zero.
LEMMA ResetKeeps ==
  ASSUME WheelInv, ResetWheels
  PROVE  WheelInv'
<1>1. /\ lastRad' = Zero /\ (~shifted' => odomPc # "wheels" \/ ~shifted)
      /\ travelled' = IF odomPc = "wheels" /\ initialised
                      THEN [w \in Wheels |-> TickDiff(core[w], lastTick[w])] ELSE Zero
      /\ UNCHANGED <<encoder, core, initialised, lastTick, odomPc, moved, rebooted>>
  BY DEF ResetWheels
<1>2. \A w \in Wheels : TickDiff(core[w], lastTick[w]) \in Int
  BY TickDiffType DEF WheelInv, WheelTypes
<1>3. lastRad' \in [Wheels -> Int] /\ travelled' \in [Wheels -> Int]
  BY <1>1, <1>2 DEF Zero
<1>4. WheelTypes' /\ EncodersAhead'
  BY <1>1, <1>3 DEF WheelInv, WheelTypes, EncodersAhead
<1>5. \A w \in Wheels : lastRad'[w] = 0
  BY <1>1 DEF Zero
<1>6. \A w \in Wheels :
        travelled'[w] = 0 + (IF odomPc = "wheels" /\ initialised
                             THEN TickDiff(core[w], lastTick[w]) ELSE 0)
  BY <1>1, <1>2 DEF Zero
<1>7. AnglesFollow'
  BY <1>1, <1>5, <1>6 DEF WheelInv, AnglesFollow
<1>8. QED
  BY <1>4, <1>7 DEF WheelInv

LEMMA WheelStep ==
  ASSUME 2 * MaxMove < Modulus, WheelInv, [OdometryNext]_odometryVars
  PROVE  WheelInv'
<1>1. CASE SwitchedOffAndOn
  <2>1. /\ encoder' = Zero /\ rebooted' /\ initialised
        /\ UNCHANGED <<core, initialised, lastTick, lastRad, odomPc, moved, travelled, shifted>>
    BY <1>1 DEF SwitchedOffAndOn
  <2>2. 0 \in Ticks
    BY OdometryAssumption DEF Ticks
  <2>3. encoder' \in [Wheels -> Ticks]
    BY <2>1, <2>2 DEF Zero
  <2>4. QED
    BY <2>1, <2>3 DEF WheelInv, WheelTypes, EncodersAhead, AnglesFollow
<1>2. CASE ReadJoints \/ ExtendPose \/ StorePose
  BY <1>2 DEF ReadJoints, ExtendPose, StorePose, WheelInv, WheelTypes, EncodersAhead,
              AnglesFollow
<1>3. CASE PublishOdometry
  <2>1. /\ odomPc = "publish" /\ odomPc' = "idle"
        /\ UNCHANGED <<encoder, core, initialised, lastTick, lastRad, moved, travelled,
                       rebooted, shifted>>
    BY <1>3 DEF PublishOdometry
  <2>2. QED
    BY <2>1 DEF WheelInv, WheelTypes, EncodersAhead, AnglesFollow
<1>4. CASE ResetPose \/ UNCHANGED odometryVars
  BY <1>4 DEF ResetPose, odometryVars, WheelInv, WheelTypes, EncodersAhead, AnglesFollow
<1>5. QED
  BY <1>1, <1>2, <1>3, <1>4, RollKeeps, StreamKeeps, WheelsKeep, ResetKeeps DEF OdometryNext

LEMMA WheelStart == OdometryInit => WheelInv
<1> SUFFICES ASSUME OdometryInit
             PROVE  WheelInv
  OBVIOUS
<1>1. 0 \in Ticks /\ Modulus - 1 \in Ticks /\ MaxMove \in Nat
  BY OdometryAssumption DEF Ticks
<1>2. WheelTypes
  BY <1>1 DEF OdometryInit, WheelTypes, Zero
<1>3. EncodersAhead /\ AnglesFollow
  BY <1>1 DEF OdometryInit, EncodersAhead, AnglesFollow, Zero
<1>4. QED
  BY <1>2, <1>3 DEF WheelInv

LEMMA WheelInvExact == WheelInv => WheelsExact
<1> SUFFICES ASSUME WheelInv, odomPc # "wheels", ~shifted
             PROVE  lastRad = travelled
  BY DEF WheelsExact
<1>1. \A w \in Wheels : travelled[w] = lastRad[w] + 0 /\ lastRad[w] \in Int
  BY DEF WheelInv, WheelTypes, AnglesFollow
<1>2. QED
  BY <1>1 DEF WheelInv, WheelTypes


----------------------------------------------------------------------------
(* Induction and recursion without operators for parameters. *)

\* Of some subsets of a finite set one holds no other.
LEMMA LeastSet ==
  ASSUME NEW S, IsFiniteSet(S), NEW B, B \subseteq SUBSET S, B # {}
  PROVE  \E T \in B : \A U \in B : ~(U \subseteq T /\ U # T)
<1>1. FiniteSubsetsOf(S) = SUBSET S
  BY FS_FiniteSubsetsOfFinite
<1>2. IsWellFoundedOn(StrictSubsetOrdering(S), SUBSET S)
  BY <1>1, FS_StrictSubsetOrderingWellFounded
<1>3. \E T \in B : \A U \in B : ~(<<U, T>> \in StrictSubsetOrdering(S))
  BY <1>2, WFMin
<1>4. PICK T \in B : \A U \in B : ~(<<U, T>> \in StrictSubsetOrdering(S))
  BY <1>3
<1>5. ASSUME NEW U \in B PROVE ~(U \subseteq T /\ U # T)
  <2>1. U \in SUBSET S /\ T \in SUBSET S /\ ~(<<U, T>> \in StrictSubsetOrdering(S))
    BY <1>4
  <2>2. QED
    BY ONLY <2>1, ZenonT(30) DEF StrictSubsetOrdering
<1>6. QED
  BY <1>5

\* What a fold is made of: pick chooses an element of a set, step a value for
\* that element and the value of the others.
Picks(pick, D)       == \A s \in SUBSET D : s # {} => pick[s] \in s
FoldSteps(step, D, Acc)  == \A x \in D, a \in Acc : step[x][a] \in Acc

\* A fold, with a value for every subset.
IsFold(g, D, Acc, base, pick, step) ==
  /\ g \in [SUBSET D -> Acc] /\ g[{}] = base
  /\ \A s \in SUBSET D : s # {} => g[s] = step[pick[s]][g[s \ {pick[s]}]]

LEMMA FoldExists ==
  ASSUME NEW D, IsFiniteSet(D), NEW Acc, NEW base \in Acc,
         NEW pick, Picks(pick, D), NEW step, FoldSteps(step, D, Acc)
  PROVE  \E g : IsFold(g, D, Acc, base, pick, step)
<1> USE DEF Picks, FoldSteps
<1> DEFINE Value(g, u) == IF u = {} THEN base ELSE step[pick[u]][g[u \ {pick[u]}]]
           Sol(s) == {g \in [SUBSET s -> Acc] : \A u \in SUBSET s : g[u] = Value(g, u)}
           Bad == {s \in SUBSET D : ~\E g : Sol(s) = {g}}
\* A fold of a set gives one of each subset.
<1>1. ASSUME NEW s \in SUBSET D, NEW g \in Sol(s), NEW u \in SUBSET s
      PROVE  [w \in SUBSET u |-> g[w]] \in Sol(u)
  <2> DEFINE r == [w \in SUBSET u |-> g[w]]
  <2>1. g \in [SUBSET s -> Acc] /\ \A w \in SUBSET s : g[w] = Value(g, w)
    OBVIOUS
  <2>2. r \in [SUBSET u -> Acc] /\ \A w \in SUBSET u : r[w] = g[w]
    BY <2>1
  <2>3. \A w \in SUBSET u : Value(r, w) = Value(g, w)
    BY <2>2
  <2>4. QED
    BY <2>1, <2>2, <2>3
<1>2. SUFFICES ASSUME Bad # {} PROVE FALSE
  <2>1. ASSUME Bad = {} PROVE \E g : g \in Sol(D)
    <3> HIDE DEF Sol
    <3>1. D \in SUBSET D /\ D \notin Bad
      BY <2>1
    <3>2. \E g : Sol(D) = {g}
      BY <3>1
    <3>3. QED
      BY <3>2
  <2>2. \A g \in Sol(D) : IsFold(g, D, Acc, base, pick, step)
    BY DEF IsFold
  <2> HIDE DEF Sol, Bad
  <2>3. QED
    BY <2>1, <2>2
<1>3. PICK s \in Bad : \A u \in Bad : ~(u \subseteq s /\ u # s)
  <2> HIDE DEF Sol
  <2>1. Bad \subseteq SUBSET D
    OBVIOUS
  <2> HIDE DEF Bad
  <2>2. QED
    BY <1>2, <2>1, LeastSet
<1>4. s \in SUBSET D
  OBVIOUS
<1> DEFINE G(u) == CHOOSE g : Sol(u) = {g}
<1>5. ASSUME NEW u \in SUBSET s, u # s PROVE Sol(u) = {G(u)}
  <2> HIDE DEF Sol
  <2>1. \E g : Sol(u) = {g}
    BY <1>3, <1>4, <1>5
  <2>2. QED
    BY <2>1
<1>6. ASSUME NEW u \in SUBSET s, u # s, NEW w \in SUBSET u PROVE G(u)[w] = G(w)[w]
  <2> HIDE DEF G, Sol
  <2>1. w \in SUBSET s /\ w # s /\ u \in SUBSET D /\ G(u) \in Sol(u)
    BY <1>4, <1>5, <1>6
  <2>2. [v \in SUBSET w |-> G(u)[v]] \in Sol(w)
    BY <2>1, <1>1
  <2>3. Sol(w) = {G(w)}
    BY <2>1, <1>5
  <2>4. G(w) = [v \in SUBSET w |-> G(u)[v]]
    BY <2>2, <2>3
  <2>5. QED
    BY <2>4
<1>7. ASSUME NEW u \in SUBSET s, u # s
      PROVE  G(u)[u] \in Acc /\ G(u)[u] = Value(G(u), u)
  <2> HIDE DEF G
  <2>1. G(u) \in Sol(u)
    BY <1>5, <1>7
  <2>2. QED
    BY <2>1
<1> DEFINE top == IF s = {} THEN base ELSE step[pick[s]][G(s \ {pick[s]})[s \ {pick[s]}]]
           h == [u \in SUBSET s |-> IF u = s THEN top ELSE G(u)[u]]
<1>8. \A u \in SUBSET s : u # {} => /\ pick[u] \in u /\ u \ {pick[u]} \in SUBSET u
                                    /\ u \ {pick[u]} \in SUBSET s /\ u \ {pick[u]} # s
                                    /\ pick[u] \in D
  <2>1. ASSUME NEW u \in SUBSET s, u # {} PROVE pick[u] \in u
    BY <1>4, <2>1
  <2>2. QED
    BY <1>4, <2>1
<1> HIDE DEF G
<1>9. top \in Acc
  <2>1. CASE s = {}
    BY <2>1
  <2>2. CASE s # {}
    <3>1. G(s \ {pick[s]})[s \ {pick[s]}] \in Acc /\ pick[s] \in D
      BY <2>2, <1>7, <1>8
    <3>2. QED
      BY <2>2, <3>1
  <2>3. QED
    BY <2>1, <2>2
<1> HIDE DEF top
<1>10. h \in [SUBSET s -> Acc]
  BY <1>7, <1>9
<1>11. \A u \in SUBSET s : h[u] = IF u = s THEN top ELSE G(u)[u]
  OBVIOUS
<1> HIDE DEF h
<1>12. ASSUME NEW u \in SUBSET s PROVE h[u] = Value(h, u)
  <2>1. CASE u = s
    <3>1. CASE s = {}
      BY <2>1, <3>1, <1>11 DEF top
    <3>2. CASE s # {}
      <4>1. h[s \ {pick[s]}] = G(s \ {pick[s]})[s \ {pick[s]}]
        BY <3>2, <1>8, <1>11
      <4>2. QED
        BY <2>1, <3>2, <4>1, <1>11 DEF top
    <3>3. QED
      BY <3>1, <3>2
  <2>2. CASE u # s
    <3>1. h[u] = Value(G(u), u)
      BY <2>2, <1>7, <1>11
    <3>2. CASE u = {}
      BY <3>1, <3>2
    <3>3. CASE u # {}
      <4>1. h[u \ {pick[u]}] = G(u \ {pick[u]})[u \ {pick[u]}]
        BY <3>3, <1>8, <1>11
      <4>2. G(u)[u \ {pick[u]}] = G(u \ {pick[u]})[u \ {pick[u]}]
        BY <2>2, <3>3, <1>6, <1>8
      <4>3. QED
        BY <3>1, <3>3, <4>1, <4>2
    <3>4. QED
      BY <3>2, <3>3
  <2>3. QED
    BY <2>1, <2>2
<1>13. h \in Sol(s)
  BY <1>10, <1>12
\* And there is one only.
<1>14. ASSUME NEW g \in Sol(s) PROVE g = h
  <2>1. ASSUME NEW u \in SUBSET s, u # s PROVE g[u] = h[u]
    <3> HIDE DEF Sol
    <3>1. [v \in SUBSET u |-> g[v]] \in Sol(u)
      BY <1>1, <1>4, <1>14
    <3>2. [v \in SUBSET u |-> g[v]] = G(u)
      BY <3>1, <2>1, <1>5
    <3>3. G(u)[u] = g[u]
      BY <3>2
    <3>4. QED
      BY <3>3, <2>1, <1>11
  <2>2. g[s] = h[s]
    <3>1. g[s] = Value(g, s) /\ h[s] = Value(h, s)
      BY <1>12
    <3>2. CASE s = {}
      BY <3>1, <3>2
    <3>3. CASE s # {}
      <4>1. g[s \ {pick[s]}] = h[s \ {pick[s]}]
        BY <2>1, <3>3, <1>8
      <4>2. QED
        BY <3>1, <3>3, <4>1
    <3>4. QED
      BY <3>2, <3>3
  <2>3. \A u \in SUBSET s : g[u] = h[u]
    BY <2>1, <2>2
  <2>4. g \in [SUBSET s -> Acc]
    OBVIOUS
  <2>5. QED
    BY <2>3, <2>4, <1>10
<1>15. Sol(s) = {h}
  <2> HIDE DEF Sol
  <2>1. QED
    BY <1>13, <1>14
<1>16. QED
  <2> HIDE DEF Sol
  <2>1. s \in Bad /\ \E g : Sol(s) = {g}
    BY <1>15
  <2>2. QED
    BY <2>1

----------------------------------------------------------------------------
(* The published pose. *)

\* A sum over the wheels lies between those of a bound and of its negative.
LEMMA TotalBounded ==
  ASSUME IsFiniteSet(Wheels), NEW f \in [Wheels -> Int], NEW b \in [Wheels -> Nat],
         \A w \in Wheels : -b[w] <= f[w] /\ f[w] <= b[w]
  PROVE  /\ Total(f) \in Int /\ Total(b) \in Nat
         /\ -Total(b) <= Total(f) /\ Total(f) <= Total(b)
<1> DEFINE pick == [s \in SUBSET Wheels |-> CHOOSE x \in s : TRUE]
           Value(h, g, s) == IF s = {} THEN 0
                             ELSE LET x == CHOOSE x \in s : TRUE IN h[x] + g[s \ {x}]
           Sum(h) == CHOOSE g : g = [s \in SUBSET Wheels |-> Value(h, g, s)]
<1>1. ASSUME NEW h \in [Wheels -> Int]
      PROVE  /\ Sum(h) = [s \in SUBSET Wheels |-> Value(h, Sum(h), s)]
             /\ Total(h) = Sum(h)[Wheels]
  <2> DEFINE step == [x \in Wheels |-> [a \in Int |-> h[x] + a]]
  <2>1. Picks(pick, Wheels)
    BY DEF Picks
  <2>2. FoldSteps(step, Wheels, Int) /\ \A x \in Wheels, a \in Int : step[x][a] = h[x] + a
    BY DEF FoldSteps
  <2> HIDE DEF step
  <2>3. PICK g : IsFold(g, Wheels, Int, 0, pick, step)
    <3>1. 0 \in Int
      OBVIOUS
    <3> HIDE DEF pick
    <3>2. QED
      BY <2>1, <2>2, <3>1, FoldExists
  <2>4. ASSUME NEW s \in SUBSET Wheels
        PROVE  g[s] = Value(h, g, s)
    <3>1. CASE s = {}
      BY <2>3, <3>1 DEF IsFold
    <3>2. CASE s # {}
      <4>1. pick[s] \in s /\ pick[s] = CHOOSE x \in s : TRUE
        BY <3>2
      <4>2. g[s \ {pick[s]}] \in Int /\ g[s] = step[pick[s]][g[s \ {pick[s]}]]
        BY <2>3, <2>4, <3>2 DEF IsFold
      <4>3. g[s] = h[pick[s]] + g[s \ {pick[s]}]
        BY <2>2, <2>4, <4>1, <4>2
      <4>4. QED
        BY <3>2, <4>1, <4>3
    <3>3. QED
      BY <3>1, <3>2
  <2>5. g \in [SUBSET Wheels -> Int]
    BY <2>3 DEF IsFold
  <2>6. g = [s \in SUBSET Wheels |-> Value(h, g, s)]
    <3> HIDE DEF Value
    <3>1. QED
      BY <2>4, <2>5
  <2>7. Sum(h) = [s \in SUBSET Wheels |-> Value(h, Sum(h), s)]
    <3> HIDE DEF Value
    <3>1. QED
      BY <2>6
  <2>8. Total(h) = Sum(h)[Wheels]
    BY DEF Total, MapThenSumSet, MapThenFoldSet
  <2>9. QED
    BY <2>7, <2>8
<1>2. b \in [Wheels -> Int]
  OBVIOUS
<1> DEFINE F == Sum(f)
           B == Sum(b)
           Good(s) == F[s] \in Int /\ B[s] \in Nat /\ -B[s] <= F[s] /\ F[s] <= B[s]
<1>3. ASSUME NEW s \in SUBSET Wheels
      PROVE  F[s] = Value(f, F, s) /\ B[s] = Value(b, B, s)
  <2>1. /\ F = [t \in SUBSET Wheels |-> Value(f, F, t)]
        /\ B = [t \in SUBSET Wheels |-> Value(b, B, t)]
    BY <1>1, <1>2
  <2> HIDE DEF F, B, Value
  <2>2. QED
    BY <2>1
<1>4. Total(f) = F[Wheels] /\ Total(b) = B[Wheels]
  BY <1>1, <1>2
<1> HIDE DEF F, B
<1> DEFINE Bad == {s \in SUBSET Wheels : ~Good(s)}
<1>5. Bad = {}
  <2>1. SUFFICES ASSUME Bad # {} PROVE FALSE
    OBVIOUS
  <2>2. PICK s \in Bad : \A t \in Bad : ~(t \subseteq s /\ t # s)
    <3>1. Bad \subseteq SUBSET Wheels
      OBVIOUS
    <3> HIDE DEF Bad
    <3>2. QED
      BY <2>1, <3>1, LeastSet
  <2>3. s \in SUBSET Wheels /\ ~Good(s)
    BY <2>2
  <2>4. s # {}
    <3>1. CASE s = {}
      <4>1. F[s] = 0 /\ B[s] = 0
        BY <1>3, <2>3, <3>1
      <4>2. QED
        BY <2>3, <4>1
    <3>2. QED
      BY <3>1
  <2> DEFINE x == CHOOSE x \in s : TRUE
             rest == s \ {x}
  <2>5. x \in s
    BY <2>4
  <2> HIDE DEF x
  <2>6. rest \in SUBSET Wheels /\ rest \subseteq s /\ rest # s
    BY <2>3, <2>5
  <2>7. Good(rest)
    <3> HIDE DEF Good, rest
    <3>1. QED
      BY <2>2, <2>6
  <2>8. F[s] = f[x] + F[rest] /\ B[s] = b[x] + B[rest]
    BY <1>3, <2>3, <2>4 DEF x
  <2>9. f[x] \in Int /\ b[x] \in Nat /\ -b[x] <= f[x] /\ f[x] <= b[x]
    BY <2>3, <2>5
  <2> HIDE DEF rest, Bad
  <2>10. Good(s)
    BY ONLY <2>7, <2>8, <2>9
  <2>11. QED
    BY <2>3, <2>10
<1>6. Good(Wheels)
  <2> HIDE DEF Good
  <2>1. QED
    BY <1>5
<1>7. QED
  BY <1>4, <1>6

\* The longest way of a packet.
MostTicks == Total([w \in Wheels |-> MaxMove])

Within(x) == -MostTicks <= x /\ x <= MostTicks

\* What is published next: a packet's way from the last, or from zero.
NextTo(x) == Within(x - published) \/ Within(x)

\* The pose follows what was published through the places of the driver thread,
\* and a reset only sets it to zero.
StepsInv ==
  /\ {pose, poseReg, poseUpdate, published} \subseteq Int
  /\ odomPc # "publish" => pose \in {published, 0}
  /\ ~jumped =>
       /\ odomPc = "wheels" /\ initialised =>
            \A w \in Wheels : -MaxMove <= TickDiff(core[w], lastTick[w])
                              /\ TickDiff(core[w], lastTick[w]) <= MaxMove
       /\ odomPc \in {"joints", "extend"} => Within(poseUpdate)
       /\ odomPc = "store" => NextTo(poseReg)
       /\ odomPc = "publish" => NextTo(pose)

LEMMA MostTicksNat == IsFiniteSet(Wheels) => MostTicks \in Nat /\ Within(0)
<1> SUFFICES ASSUME IsFiniteSet(Wheels) PROVE MostTicks \in Nat /\ Within(0)
  OBVIOUS
<1> DEFINE f == [w \in Wheels |-> 0]
           b == [w \in Wheels |-> MaxMove]
<1>1. MaxMove \in Nat
  BY OdometryAssumption
<1>2. /\ f \in [Wheels -> Int] /\ b \in [Wheels -> Nat]
      /\ \A w \in Wheels : -b[w] <= f[w] /\ f[w] <= b[w]
  BY <1>1
<1> HIDE DEF f, b
<1>3. Total(b) \in Nat
  BY <1>2, TotalBounded
<1>4. MostTicks \in Nat
  BY <1>3 DEF MostTicks, b
<1>5. QED
  BY <1>4 DEF Within

\* A packet that is read.
LEMMA ReadInSteps ==
  ASSUME 2 * MaxMove < Modulus, WheelInv, StepsInv, NEW fresh \in BOOLEAN, Stream(fresh)
  PROVE  StepsInv'
<1>1. /\ odomPc = "idle" /\ odomPc' = "wheels" /\ (initialised \/ fresh)
      /\ core' = IF fresh THEN encoder ELSE core
      /\ jumped' = (rebooted /\ fresh)
      /\ UNCHANGED <<initialised, lastTick, poseUpdate, pose, poseReg, published>>
  BY DEF Stream
<1>2. MaxMove \in Nat
  BY OdometryAssumption
<1>3. ASSUME ~jumped', initialised, NEW w \in Wheels
      PROVE  /\ -MaxMove <= TickDiff(core'[w], lastTick[w])
             /\ TickDiff(core'[w], lastTick[w]) <= MaxMove
  <2>1. /\ encoder[w] \in Ticks /\ core[w] \in Ticks /\ moved[w] \in Int
        /\ lastTick[w] = core[w] /\ -MaxMove <= moved[w] /\ moved[w] <= MaxMove
    BY <1>1, <1>3 DEF WheelInv, WheelTypes, AnglesFollow, EncodersAhead
  <2>2. CASE fresh
    <3>1. ~rebooted /\ core' = encoder
      BY <1>1, <1>3, <2>2
    <3>2. Wraps(encoder[w], core[w], moved[w])
      BY <1>3, <3>1 DEF WheelInv, EncodersAhead
    <3>3. TickDiff(encoder[w], core[w]) = moved[w]
      BY <2>1, <3>2, TickDiffOfMove
    <3>4. QED
      BY <2>1, <3>1, <3>3
  <2>3. CASE ~fresh
    <3>1. TickDiff(core[w], core[w]) = 0
      BY <2>1, TickDiffType
    <3>2. QED
      BY <1>1, <1>2, <2>1, <2>3, <3>1
  <2>4. QED
    BY <2>2, <2>3
<1>4. QED
  BY <1>1, <1>3 DEF StepsInv

\* The way of a packet.
LEMMA WayInSteps ==
  ASSUME IsFiniteSet(Wheels), WheelInv, StepsInv, UpdateWheels
  PROVE  StepsInv'
<1> DEFINE diff == [w \in Wheels |-> IF initialised THEN TickDiff(core[w], lastTick[w]) ELSE 0]
           b == [w \in Wheels |-> MaxMove]
<1>1. /\ odomPc = "wheels" /\ odomPc' = "joints" /\ poseUpdate' = Total(diff)
      /\ UNCHANGED <<pose, poseReg, published, jumped>>
  BY DEF UpdateWheels
<1>2. MaxMove \in Nat
  BY OdometryAssumption
<1>3. diff \in [Wheels -> Int]
  BY TickDiffType DEF WheelInv, WheelTypes
<1>4. Total(diff) \in Int
  <2> DEFINE c == [w \in Wheels |-> IF diff[w] < 0 THEN -diff[w] ELSE diff[w]]
  <2>1. c \in [Wheels -> Nat] /\ \A w \in Wheels : -c[w] <= diff[w] /\ diff[w] <= c[w]
    <3> HIDE DEF diff
    <3>1. \A w \in Wheels : diff[w] \in Int
      BY <1>3
    <3>2. QED
      BY <3>1
  <2> HIDE DEF diff, c
  <2>2. QED
    BY <1>3, <2>1, TotalBounded
<1>5. ~jumped => Within(Total(diff))
  <2> SUFFICES ASSUME ~jumped PROVE Within(Total(diff))
    OBVIOUS
  <2>1. \A w \in Wheels : -b[w] <= diff[w] /\ diff[w] <= b[w]
    BY <1>1, <1>2 DEF StepsInv
  <2>2. b \in [Wheels -> Nat]
    BY <1>2
  <2> HIDE DEF diff
  <2>3. -Total(b) <= Total(diff) /\ Total(diff) <= Total(b)
    <3> HIDE DEF b
    <3>1. QED
      BY <1>3, <2>1, <2>2, TotalBounded
  <2>4. QED
    BY <2>3 DEF Within, MostTicks
<1> HIDE DEF diff
<1>6. QED
  BY <1>1, <1>4, <1>5 DEF StepsInv, Within, MostTicks

LEMMA StepsKeep ==
  ASSUME 2 * MaxMove < Modulus, IsFiniteSet(Wheels), WheelInv, StepsInv,
         [OdometryNext]_odometryVars
  PROVE  StepsInv'
<1>1. /\ MostTicks \in Nat /\ Within(0)
      /\ pose \in Int /\ poseReg \in Int /\ poseUpdate \in Int /\ published \in Int
  BY MostTicksNat DEF StepsInv
<1> USE DEF StepsInv, NextTo
<1>2. CASE \/ \E w \in Wheels, d \in {-1, 1} : Roll(w, d)
           \/ SwitchedOffAndOn \/ ResetWheels \/ UNCHANGED odometryVars
  BY <1>2, <1>1 DEF Roll, SwitchedOffAndOn, ResetWheels, odometryVars, Within, MostTicks
<1>3. CASE ReadJoints
  BY <1>3 DEF ReadJoints, Within, MostTicks
<1>4. CASE ExtendPose
  <2>1. /\ odomPc = "extend" /\ odomPc' = "store" /\ poseReg' = pose + poseUpdate
        /\ UNCHANGED <<poseUpdate, pose, published, jumped>>
    BY <1>4 DEF ExtendPose
  <2>2. ~jumped => Within(poseUpdate)
    BY <2>1
  <2>3. pose + poseUpdate \in Int /\ (pose = published \/ pose = 0)
    BY <1>1, <2>1
  <2>4. Within(poseUpdate) => Within(pose + poseUpdate - published) \/ Within(pose + poseUpdate)
    BY <1>1, <2>3 DEF Within
  <2>5. QED
    BY <2>1, <2>2, <2>3, <2>4 DEF Within, MostTicks
<1>5. CASE StorePose
  BY <1>5, <1>1 DEF StorePose, Within, MostTicks
<1>6. CASE PublishOdometry
  BY <1>6, <1>1 DEF PublishOdometry
<1>7. CASE ResetPose
  <2>1. pose' = 0 /\ UNCHANGED <<odomPc, initialised, core, lastTick, poseReg, poseUpdate,
                                 published, jumped>>
    BY <1>7 DEF ResetPose
  <2>2. QED
    BY <1>1, <2>1 DEF Within, MostTicks
<1>8. QED
  BY <1>2, <1>3, <1>4, <1>5, <1>6, <1>7, ReadInSteps, WayInSteps DEF OdometryNext

LEMMA StepsStart == OdometryInit => StepsInv
BY DEF OdometryInit, StepsInv

\* Nothing is published but what is near, or follows a restart of the robot.
LEMMA PublishedNear ==
  ASSUME IsFiniteSet(Wheels), StepsInv, PublishOdometry
  PROVE  \/ jumped
         \/ AbsTicks(published' - published) <= MostTicks
         \/ AbsTicks(published') <= MostTicks
<1>1. odomPc = "publish" /\ published' = pose /\ pose \in Int /\ published \in Int
  BY DEF PublishOdometry, StepsInv
<1>2. MostTicks \in Nat
  BY MostTicksNat
<1>3. jumped \/ Within(pose - published) \/ Within(pose)
  BY <1>1 DEF StepsInv, NextTo
<1>4. QED
  BY <1>1, <1>2, <1>3 DEF Within, AbsTicks

----------------------------------------------------------------------------
(* The outputs. *)

\* What was wanted of every output is in the word of the outputs; the base has the
\* same word after one request that reached it.
WantedInv ==
  /\ gpOut \subseteq Int
  /\ wanted = [o \in Outputs |-> wanted[o]]
  /\ \A i \in Pins : /\ wanted[<<"digital", i>>] = gpOut \cap {i}
                     /\ wanted[<<"power", i>>] = IF i + 4 \in gpOut THEN {i} ELSE {}
  /\ wanted[<<"led", 1>>] = gpOut \cap {8, 9}
  /\ wanted[<<"led", 2>>] = {b \in {8, 9} : b + 2 \in gpOut}
  /\ ~stale => listening /\ baseOut = gpOut

LEMMA ShownBits ==
  ASSUME NEW bits \in SUBSET Int
  PROVE  /\ \A i \in Pins : /\ Shown(bits, <<"digital", i>>) = bits \cap {i}
                            /\ Shown(bits, <<"power", i>>) = IF i + 4 \in bits THEN {i} ELSE {}
         /\ Shown(bits, <<"led", 1>>) = bits \cap {8, 9}
         /\ Shown(bits, <<"led", 2>>) = {b \in {8, 9} : b + 2 \in bits}
<1>1. ASSUME NEW i \in Pins
      PROVE  /\ Shown(bits, <<"digital", i>>) = bits \cap {i}
             /\ Shown(bits, <<"power", i>>) = IF i + 4 \in bits THEN {i} ELSE {}
  <2>1. i \in Int
    BY PinsAssumption
  <2>2. Shown(bits, <<"digital", i>>) = bits \cap {i}
    BY DEF Shown
  <2>3. Shown(bits, <<"power", i>>) = Shift(bits \cap {i + 4}, -4)
    BY DEF Shown
  <2>4. (i + 4) + (-4) = i
    BY <2>1
  <2>5. QED
    BY <2>2, <2>3, <2>4 DEF Shift
<1>2. Shown(bits, <<"led", 1>>) = bits \cap {8, 9}
  <2>1. /\ \A b \in Int : b + 2 * (1 - 1) = b
        /\ \A b \in Int : b + (-2 * (1 - 1)) = b
    OBVIOUS
  <2>2. ASSUME NEW x \in SUBSET Int
        PROVE  Shift(x, 2 * (1 - 1)) = x /\ Shift(x, -2 * (1 - 1)) = x
    BY <2>1 DEF Shift
  <2>3. Shown(bits, <<"led", 1>>) = Shift(bits \cap Shift({8, 9}, 2 * (1 - 1)), -2 * (1 - 1))
    BY DEF Shown
  <2>4. QED
    BY <2>2, <2>3
<1>3. Shown(bits, <<"led", 2>>) = {b \in {8, 9} : b + 2 \in bits}
  <2>1. 2 * (2 - 1) = 2 /\ -2 * (2 - 1) = -2 /\ 10 + (-2) = 8 /\ 11 + (-2) = 9
        /\ 8 + 2 = 10 /\ 9 + 2 = 11
    OBVIOUS
  <2>2. Shown(bits, <<"led", 2>>) = Shift(bits \cap Shift({8, 9}, 2 * (2 - 1)), -2 * (2 - 1))
    BY DEF Shown
  <2>3. Shift({8, 9}, 2) = {10, 11}
    BY <2>1 DEF Shift
  <2>4. Shown(bits, <<"led", 2>>) = Shift(bits \cap {10, 11}, -2)
    BY <2>1, <2>2, <2>3
  <2>5. QED
    BY <2>1, <2>4 DEF Shift
<1>4. QED
  BY <1>1, <1>2, <1>3

LEMMA ReachesBase ==
  ASSUME NEW bits, Transmit(bits), WantedInv
  PROVE  gpOut' = bits /\ (~stale' => listening' /\ baseOut' = gpOut')
BY DEF Transmit, WantedInv

\* A request for lamps, for outputs or for a source leaves the bits of the others.
LEMMA LedKeeps ==
  ASSUME WantedInv, NEW n \in 1 .. 2, NEW c \in Colours, SetLed(n, c)
  PROVE  WantedInv'
<1>1. c \subseteq {8, 9}
  BY PinsAssumption
<1>2. \A i \in Pins : i \in Int /\ i # 8 /\ i # 9 /\ i # 10 /\ i # 11
                      /\ i + 4 # 8 /\ i + 4 # 9 /\ i + 4 # 10 /\ i + 4 # 11
  BY PinsAssumption
<1>3. wanted' = [wanted EXCEPT ![<<"led", n>>] = c]
  BY DEF SetLed
<1>4. ~stale' => listening' /\ baseOut' = gpOut'
  BY ReachesBase DEF SetLed
<1>5. \A i \in Pins : /\ wanted'[<<"digital", i>>] = wanted[<<"digital", i>>]
                      /\ wanted'[<<"power", i>>] = wanted[<<"power", i>>]
  <2> TAKE i \in Pins
  <2>1. <<"digital", i>> \in Outputs /\ <<"power", i>> \in Outputs
    BY DEF Outputs
  <2>2. <<"digital", i>> # <<"led", n>> /\ <<"power", i>> # <<"led", n>>
    OBVIOUS
  <2>3. QED
    BY <1>3, <2>1, <2>2 DEF WantedInv
<1>6. wanted' = [o \in Outputs |-> wanted'[o]]
  BY <1>3 DEF WantedInv
<1>7. CASE n = 1
  <2>1. gpOut' = (gpOut \ {8, 9}) \cup c
    BY <1>7, ReachesBase DEF SetLed
  <2>2. wanted'[<<"led", 1>>] = c /\ wanted'[<<"led", 2>>] = wanted[<<"led", 2>>]
    BY <1>3, <1>7 DEF WantedInv, Outputs, Lamps
  <2>3. 8 + 2 = 10 /\ 9 + 2 = 11 /\ 8 # 10 /\ 8 # 11 /\ 9 # 10 /\ 9 # 11
    OBVIOUS
  <2>4. (10 \in gpOut' <=> 10 \in gpOut) /\ (11 \in gpOut' <=> 11 \in gpOut)
    BY <1>1, <2>1, <2>3
  <2>5. {b \in {8, 9} : b + 2 \in gpOut'} = {b \in {8, 9} : b + 2 \in gpOut}
    BY <2>3, <2>4
  <2>6. gpOut' \cap {8, 9} = c
    BY <1>1, <2>1
  <2>7. \A i \in Pins : (i \in gpOut' <=> i \in gpOut) /\ (i + 4 \in gpOut' <=> i + 4 \in gpOut)
    BY <1>1, <1>2, <2>1
  <2>8. gpOut' \subseteq Int
    BY <1>1, <2>1 DEF WantedInv
  <2>9. \A i \in Pins : gpOut' \cap {i} = gpOut \cap {i}
    BY <2>7
  <2>10. QED
    BY <1>4, <1>5, <1>6, <2>2, <2>5, <2>6, <2>7, <2>8, <2>9 DEF WantedInv
<1>8. CASE n = 2
  <2>1. gpOut' = (gpOut \ {10, 11}) \cup Shift(c, 2)
    BY <1>8, ReachesBase DEF SetLed
  <2>2. wanted'[<<"led", 2>>] = c /\ wanted'[<<"led", 1>>] = wanted[<<"led", 1>>]
    BY <1>3, <1>8 DEF WantedInv, Outputs, Lamps
  <2>3. 8 + 2 = 10 /\ 9 + 2 = 11 /\ 8 # 10 /\ 8 # 11 /\ 9 # 10 /\ 9 # 11
    OBVIOUS
  <2>4. Shift(c, 2) \subseteq {10, 11}
        /\ (10 \in Shift(c, 2) <=> 8 \in c) /\ (11 \in Shift(c, 2) <=> 9 \in c)
    BY <1>1, <2>3 DEF Shift
  <2>5. (10 \in gpOut' <=> 8 \in c) /\ (11 \in gpOut' <=> 9 \in c)
    BY <2>1, <2>4
  <2>6. {b \in {8, 9} : b + 2 \in gpOut'} = c
    BY <1>1, <2>3, <2>5
  <2>7. gpOut' \cap {8, 9} = gpOut \cap {8, 9}
    BY <2>1, <2>3, <2>4
  <2>8. \A i \in Pins : (i \in gpOut' <=> i \in gpOut) /\ (i + 4 \in gpOut' <=> i + 4 \in gpOut)
    BY <1>2, <2>1, <2>4
  <2>9. gpOut' \subseteq Int
    BY <2>1, <2>4 DEF WantedInv
  <2>10. \A i \in Pins : gpOut' \cap {i} = gpOut \cap {i}
    BY <2>8
  <2>11. QED
    BY <1>4, <1>5, <1>6, <2>2, <2>6, <2>7, <2>8, <2>9, <2>10 DEF WantedInv
<1>9. QED
  BY <1>7, <1>8


LEMMA DigitalKeeps ==
  ASSUME WantedInv, NEW values \in SUBSET Pins, NEW mask \in SUBSET Pins,
         SetDigitalOutput(values, mask)
  PROVE  WantedInv'
<1>1. \A i \in Pins : i \in Int /\ 0 <= i /\ i <= 3 /\ i + 0 = i
  BY PinsAssumption
<1>2. Shift(mask, 0) = mask /\ Shift(values \cap mask, 0) = values \cap mask
  BY <1>1 DEF Shift
<1>3. gpOut' = (gpOut \ mask) \cup (values \cap mask)
  BY <1>2, ReachesBase DEF SetDigitalOutput, Overlay
<1>4. ~stale' => listening' /\ baseOut' = gpOut'
  BY ReachesBase DEF SetDigitalOutput
<1>5. wanted' = [o \in Outputs |-> IF o[1] = "digital" /\ o[2] \in mask
                                   THEN {o[2]} \cap values ELSE wanted[o]]
  BY DEF SetDigitalOutput
<1>6. \A b \in Int : b > 3 => (b \in gpOut' <=> b \in gpOut)
  BY <1>1, <1>3
<1>7. ASSUME NEW i \in Pins
      PROVE  /\ wanted'[<<"digital", i>>] = gpOut' \cap {i}
             /\ wanted'[<<"power", i>>] = IF i + 4 \in gpOut' THEN {i} ELSE {}
  <2>1. <<"digital", i>> \in Outputs /\ <<"power", i>> \in Outputs
    BY DEF Outputs
  <2>2. wanted'[<<"digital", i>>] = IF i \in mask THEN {i} \cap values ELSE wanted[<<"digital", i>>]
    BY <1>5, <2>1
  <2>3. wanted[<<"digital", i>>] = gpOut \cap {i}
    BY DEF WantedInv
  <2>4. wanted'[<<"digital", i>>] = gpOut' \cap {i}
    BY <1>3, <2>2, <2>3
  <2>5. wanted'[<<"power", i>>] = wanted[<<"power", i>>]
    BY <1>5, <2>1
  <2>6. i + 4 \in Int /\ i + 4 > 3
    BY <1>1
  <2>7. i + 4 \in gpOut' <=> i + 4 \in gpOut
    BY <1>6, <2>6
  <2>8. QED
    BY <2>4, <2>5, <2>7 DEF WantedInv
<1>8. wanted'[<<"led", 1>>] = wanted[<<"led", 1>>] /\ wanted'[<<"led", 2>>] = wanted[<<"led", 2>>]
  BY <1>5 DEF Outputs, Lamps
<1>9. /\ gpOut' \cap {8, 9} = gpOut \cap {8, 9}
      /\ {b \in {8, 9} : b + 2 \in gpOut'} = {b \in {8, 9} : b + 2 \in gpOut}
  BY <1>6
<1>10. gpOut' \subseteq Int
  BY <1>1, <1>3 DEF WantedInv
<1>11. wanted' = [o \in Outputs |-> wanted'[o]]
  BY <1>5
<1>12. QED
  BY <1>4, <1>7, <1>8, <1>9, <1>10, <1>11 DEF WantedInv

LEMMA PowerKeeps ==
  ASSUME WantedInv, NEW s \in Pins, NEW on \in BOOLEAN, SetExternalPower(s, on)
  PROVE  WantedInv'
<1>1. \A i \in Pins : i \in Int /\ 0 <= i /\ i <= 3
  BY PinsAssumption
<1>2. PICK source \in {{s}, {}} :
        /\ Transmit(Overlay(gpOut, 4, source, {s}))
        /\ wanted' = [wanted EXCEPT ![<<"power", s>>] = source]
  BY DEF SetExternalPower
<1>3. gpOut' = (gpOut \ {s + 4}) \cup (IF source = {s} THEN {s + 4} ELSE {})
  BY <1>2, ReachesBase DEF Overlay, Shift
<1>4. ~stale' => listening' /\ baseOut' = gpOut'
  BY <1>2, ReachesBase
<1>5. \A o \in Outputs : wanted'[o] = IF o = <<"power", s>> THEN source ELSE wanted[o]
  BY <1>2 DEF WantedInv
<1>6. s + 4 \in Int /\ s + 4 > 3 /\ s + 4 < 8
  BY <1>1
<1>7. \A b \in Int : b # s + 4 => (b \in gpOut' <=> b \in gpOut)
  BY <1>3
<1>8. ASSUME NEW i \in Pins
      PROVE  /\ wanted'[<<"digital", i>>] = gpOut' \cap {i}
             /\ wanted'[<<"power", i>>] = IF i + 4 \in gpOut' THEN {i} ELSE {}
  <2>1. <<"digital", i>> \in Outputs /\ <<"power", i>> \in Outputs
    BY DEF Outputs
  <2>2. <<"digital", i>> # <<"power", s>> /\ (<<"power", i>> = <<"power", s>> <=> i = s)
    OBVIOUS
  <2>3. wanted'[<<"digital", i>>] = wanted[<<"digital", i>>]
    BY <1>5, <2>1, <2>2
  <2>4. i \in Int /\ i # s + 4 /\ i + 4 \in Int /\ (i # s => i + 4 # s + 4)
    BY <1>1
  <2>5. wanted'[<<"digital", i>>] = gpOut' \cap {i}
    <3>1. i \in gpOut' <=> i \in gpOut
      BY <1>7, <2>4
    <3>2. gpOut' \cap {i} = gpOut \cap {i}
      BY <3>1
    <3>3. QED
      BY <2>3, <3>2 DEF WantedInv
  <2>6. CASE i = s
    <3>1. wanted'[<<"power", i>>] = source
      BY <1>5, <2>1, <2>6
    <3>2. i + 4 \in gpOut' <=> source = {s}
      BY <1>3, <2>6
    <3>3. QED
      BY <1>2, <2>5, <2>6, <3>1, <3>2
  <2>7. CASE i # s
    <3>1. wanted'[<<"power", i>>] = wanted[<<"power", i>>]
      BY <1>5, <2>1, <2>2, <2>7
    <3>2. i + 4 \in gpOut' <=> i + 4 \in gpOut
      BY <1>7, <2>4, <2>7
    <3>3. QED
      BY <2>5, <3>1, <3>2 DEF WantedInv
  <2>8. QED
    BY <2>6, <2>7
<1>9. wanted'[<<"led", 1>>] = wanted[<<"led", 1>>] /\ wanted'[<<"led", 2>>] = wanted[<<"led", 2>>]
  <2>1. <<"led", 1>> \in Outputs /\ <<"led", 2>> \in Outputs
    BY DEF Outputs, Lamps
  <2>2. <<"led", 1>> # <<"power", s>> /\ <<"led", 2>> # <<"power", s>>
    OBVIOUS
  <2>3. QED
    BY <1>5, <2>1, <2>2
<1>10. /\ gpOut' \cap {8, 9} = gpOut \cap {8, 9}
       /\ {b \in {8, 9} : b + 2 \in gpOut'} = {b \in {8, 9} : b + 2 \in gpOut}
  <2>1. \A b \in {8, 9} : b \in Int /\ b # s + 4 /\ b + 2 \in Int /\ b + 2 # s + 4
    BY <1>6
  <2>2. QED
    BY <1>7, <2>1
<1>11. gpOut' \subseteq Int
  BY <1>3, <1>6 DEF WantedInv
<1>12. wanted' = [o \in Outputs |-> wanted'[o]]
  BY <1>2 DEF WantedInv
<1>13. QED
  BY <1>4, <1>8, <1>9, <1>10, <1>11, <1>12 DEF WantedInv

LEMMA WantedStep ==
  ASSUME WantedInv, [PinsNext]_pinVars
  PROVE  WantedInv'
<1>1. CASE Reach
  BY <1>1 DEF Reach, WantedInv
<1>2. CASE UNCHANGED pinVars
  BY <1>2 DEF pinVars, WantedInv
<1>3. QED
  BY <1>1, <1>2, LedKeeps, DigitalKeeps, PowerKeeps DEF PinsNext

LEMMA WantedStart == PinsInit => WantedInv
<1> SUFFICES ASSUME PinsInit
             PROVE  WantedInv
  OBVIOUS
<1>1. gpOut = 4 .. 7 /\ stale /\ gpOut \subseteq Int
  BY DEF PinsInit
<1>2. wanted = [o \in Outputs |-> IF o[1] = "power" THEN {o[2]} ELSE {}]
  BY DEF PinsInit
<1>3. ASSUME NEW i \in Pins
      PROVE  /\ wanted[<<"digital", i>>] = gpOut \cap {i}
             /\ wanted[<<"power", i>>] = IF i + 4 \in gpOut THEN {i} ELSE {}
  <2>1. <<"digital", i>> \in Outputs /\ <<"power", i>> \in Outputs
    BY DEF Outputs
  <2>2. wanted[<<"digital", i>>] = {} /\ wanted[<<"power", i>>] = {i}
    BY <1>2, <2>1
  <2>3. i \notin gpOut /\ i + 4 \in gpOut
    BY <1>1, PinsAssumption
  <2>4. QED
    BY <2>2, <2>3
<1>4. wanted[<<"led", 1>>] = {} /\ wanted[<<"led", 2>>] = {}
  BY <1>2 DEF Outputs, Lamps
<1>5. gpOut \cap {8, 9} = {} /\ {b \in {8, 9} : b + 2 \in gpOut} = {}
  BY <1>1
<1>6. wanted = [o \in Outputs |-> wanted[o]]
  BY <1>2
<1>7. QED
  BY <1>1, <1>3, <1>4, <1>5, <1>6 DEF WantedInv

LEMMA WantedInvShown == WantedInv => OutputsAsWanted
<1> SUFFICES ASSUME WantedInv
             PROVE  OutputsAsWanted
  OBVIOUS
<1>1. gpOut \in SUBSET Int
  BY DEF WantedInv
<1>2. \A o \in Outputs : Shown(gpOut, o) = wanted[o]
  <2> TAKE o \in Outputs
  <2>1. CASE o = <<"led", 1>> \/ o = <<"led", 2>>
    BY <1>1, <2>1, ShownBits DEF WantedInv
  <2>2. ASSUME NEW i \in Pins, o = <<"digital", i>> \/ o = <<"power", i>>
        PROVE  Shown(gpOut, o) = wanted[o]
    <3>1. Shown(gpOut, <<"digital", i>>) = wanted[<<"digital", i>>]
      <4>1. Shown(gpOut, <<"digital", i>>) = gpOut \cap {i}
        BY <1>1, ShownBits
      <4>2. QED
        BY <4>1 DEF WantedInv
    <3>2. Shown(gpOut, <<"power", i>>) = wanted[<<"power", i>>]
      <4>1. Shown(gpOut, <<"power", i>>) = IF i + 4 \in gpOut THEN {i} ELSE {}
        BY <1>1, ShownBits
      <4>2. wanted[<<"power", i>>] = IF i + 4 \in gpOut THEN {i} ELSE {}
        BY Zenon DEF WantedInv
      <4>3. QED
        BY <4>1, <4>2, Zenon
    <3>3. QED
      BY <2>2, <3>1, <3>2, Zenon
  <2>3. QED
    BY <2>1, <2>2 DEF Outputs, Lamps
<1>3. ~stale => \A o \in Outputs : Shown(baseOut, o) = wanted[o]
  BY <1>2 DEF WantedInv
<1>4. QED
  BY <1>2, <1>3 DEF OutputsAsWanted

----------------------------------------------------------------------------
\* What the driver keeps of the base agrees with the base, if no wheel moves half
\* the range of its encoder between two packets that are read: the wheel angles are
\* the ways the wheels went, under resets, wraps and lost packets, and one request
\* that reaches the base brings every output to what was asked of it last
\* (diff_drive.cpp:51, command.cpp:53).
THEOREM BaseIsMirrored ==
  ASSUME 2 * MaxMove < Modulus
  PROVE  CoreSpec => []BaseMirrored
<1>1. CoreInit => WheelInv /\ WantedInv
  BY WheelStart, WantedStart DEF CoreInit
<1>2. WheelInv /\ WantedInv /\ [CoreNext]_coreVars => (WheelInv /\ WantedInv)'
  BY PartsAlone, WheelStep, WantedStep
<1>3. WheelInv /\ WantedInv => BaseMirrored
  BY WheelInvExact, WantedInvShown DEF BaseMirrored
<1>4. QED
  BY <1>1, <1>2, <1>3, PTL DEF CoreSpec


----------------------------------------------------------------------------
(* The limiter. *)

LimiterTypes == askedSpeed \in Int /\ lastSpeed \in Int /\ elapsed \in Nat

LEMMA LimitType ==
  ASSUME LimiterTypes
  PROVE  /\ Limit(lastSpeed, askedSpeed, elapsed) \in Int
         /\ lastSpeed <= askedSpeed
              => /\ lastSpeed <= Limit(lastSpeed, askedSpeed, elapsed)
                 /\ Limit(lastSpeed, askedSpeed, elapsed) <= askedSpeed
         /\ askedSpeed <= lastSpeed
              => /\ askedSpeed <= Limit(lastSpeed, askedSpeed, elapsed)
                 /\ Limit(lastSpeed, askedSpeed, elapsed) <= lastSpeed
<1> DEFINE up == AccelMax * elapsed
           down == DecelMax * elapsed
<1>1. AccelMax \in Nat /\ DecelMax \in Int /\ DecelMax < 0 /\ elapsed \in Nat
  BY LimiterAssumption DEF LimiterTypes
<1>2. up \in Int /\ up >= 0
  BY <1>1
<1>3. down \in Int /\ down <= 0
  BY <1>1
<1>4. Limit(lastSpeed, askedSpeed, elapsed) =
        IF askedSpeed - lastSpeed > up THEN lastSpeed + up
        ELSE IF askedSpeed - lastSpeed < down THEN lastSpeed + down ELSE askedSpeed
  BY DEF Limit
<1> HIDE DEF up, down
<1>5. QED
  BY <1>2, <1>3, <1>4 DEF LimiterTypes

LEMMA LimiterStep ==
  ASSUME LimiterTypes, [LimiterNext]_limiterVars
  PROVE  /\ LimiterTypes'
         /\ SendLimited =>
              lastSpeed' \in (IF lastSpeed < askedSpeed THEN lastSpeed ELSE askedSpeed)
                             .. (IF lastSpeed < askedSpeed THEN askedSpeed ELSE lastSpeed)
<1>1. ASSUME NEW v \in Speeds, AskSpeed(v)
      PROVE  LimiterTypes'
  BY <1>1, LimiterAssumption DEF AskSpeed, LimiterTypes
<1>2. CASE TimePasses \/ UNCHANGED limiterVars
  BY <1>2 DEF TimePasses, limiterVars, LimiterTypes
<1>3. ASSUME SendLimited
      PROVE  /\ LimiterTypes'
             /\ lastSpeed' \in (IF lastSpeed < askedSpeed THEN lastSpeed ELSE askedSpeed)
                               .. (IF lastSpeed < askedSpeed THEN askedSpeed ELSE lastSpeed)
  <2> DEFINE next == Limit(lastSpeed, askedSpeed, elapsed)
  <2>1. lastSpeed' = next /\ elapsed' = 0 /\ UNCHANGED askedSpeed
    BY <1>3 DEF SendLimited
  <2>2. /\ next \in Int
        /\ lastSpeed <= askedSpeed => lastSpeed <= next /\ next <= askedSpeed
        /\ askedSpeed <= lastSpeed => askedSpeed <= next /\ next <= lastSpeed
    BY LimitType
  <2> HIDE DEF next
  <2>3. LimiterTypes'
    BY <2>1, <2>2 DEF LimiterTypes
  <2>4. QED
    BY <2>1, <2>2, <2>3 DEF LimiterTypes
<1>4. QED
  BY <1>1, <1>2, <1>3 DEF LimiterNext

\* What the base is sent stays between what it was sent before and what is asked
\* for, for all limits and pauses (acceleration_limiter.hpp:95).
THEOREM LimiterStaysBetween == CoreSpec => NoOvershoot
<1>1. CoreInit => LimiterTypes
  BY LimiterAssumption DEF CoreInit, LimiterInit, LimiterTypes
<1>2. LimiterTypes /\ [CoreNext]_coreVars => LimiterTypes'
  BY PartsAlone, LimiterStep
<1>3. LimiterTypes /\ [CoreNext]_coreVars
      => [SendLimited => LET lo == IF lastSpeed < askedSpeed THEN lastSpeed ELSE askedSpeed
                             hi == IF lastSpeed < askedSpeed THEN askedSpeed ELSE lastSpeed
                         IN lastSpeed' \in lo .. hi]_limiterVars
  BY PartsAlone, LimiterStep
<1>4. QED
  BY <1>1, <1>2, <1>3, PTL DEF CoreSpec, NoOvershoot

----------------------------------------------------------------------------
\* What may never happen in one step: a published pose that jumps by more than a
\* packet's way, unless it was reset or the robot restarted, for any number of
\* wheels, resets and lost packets; and a speed that passes the one asked for
\* (odometry.cpp:113, acceleration_limiter.hpp:80).
THEOREM CoreStepsSmall ==
  ASSUME 2 * MaxMove < Modulus, IsFiniteSet(Wheels)
  PROVE  CoreSpec => CoreSteps
<1>1. CoreInit => WheelInv /\ StepsInv
  BY WheelStart, StepsStart DEF CoreInit
<1>2. WheelInv /\ StepsInv /\ [CoreNext]_coreVars => (WheelInv /\ StepsInv)'
  BY PartsAlone, WheelStep, StepsKeep
<1>3. WheelInv /\ StepsInv /\ [CoreNext]_coreVars
      => [PublishOdometry =>
            \/ jumped
            \/ AbsTicks(published' - published) <= Total([w \in Wheels |-> MaxMove])
            \/ AbsTicks(published') <= Total([w \in Wheels |-> MaxMove])]_odometryVars
  BY PublishedNear DEF MostTicks
<1>4. CoreSpec => PublishedSteps
  BY <1>1, <1>2, <1>3, PTL DEF CoreSpec, PublishedSteps
<1>5. QED
  BY <1>4, LimiterStaysBetween, PTL DEF CoreSteps

----------------------------------------------------------------------------
(* The sub-payloads. *)

AllWellFormed(p) == \A i \in Starts(p) : WellFormed(p, i)

\* After d of the payload p remains, r holds the headers of what came before,
\* and the next sub-payload starts where d does.
ReadSoFar(p, d, r) ==
  LET place == Len(p) - Len(d) + 1
  IN /\ d \in Seq(DataBytes) /\ Len(d) <= Len(p) /\ r \in Seq(DataBytes)
     /\ \A i \in 1 .. Len(d) : d[i] = p[place - 1 + i]
     /\ d # <<>> => place \in Starts(p)
     /\ \A i \in Starts(p) : i < place => After(p, i) <= place
     /\ HeadersAt(r, p, {i \in KnownStarts(p) : i < place})

PayloadInv ==
  /\ payload \in Seq(DataBytes)
  /\ AllWellFormed(payload) => ReadSoFar(payload, dataBuffer, readers)

LEMMA PayloadBytes ==
  ASSUME NEW p \in Seq(DataBytes)
  PROVE  /\ Len(p) \in Nat /\ DOMAIN p = 1 .. Len(p)
         /\ \A i \in 1 .. Len(p) : p[i] \in Nat
<1>1. Len(p) \in Nat /\ DOMAIN p = 1 .. Len(p) /\ \A i \in 1 .. Len(p) : p[i] \in DataBytes
  OBVIOUS
<1>2. DataBytes \subseteq Nat
  BY ONLY SubPayloadAssumption
<1>3. QED
  BY ONLY <1>1, <1>2

\* The starts hold the first byte and what follows each of them, and every set
\* that does holds them.
LEMMA StartsClosed ==
  ASSUME NEW p \in Seq(DataBytes)
  PROVE  /\ Starts(p) \subseteq 1 .. Len(p)
         /\ p # <<>> => 1 \in Starts(p)
         /\ \A i \in Starts(p) :
              i < Len(p) /\ After(p, i) <= Len(p) => After(p, i) \in Starts(p)
<1>1. Len(p) \in Nat /\ \A i \in 1 .. Len(p) : p[i] \in Nat
  BY PayloadBytes
<1>2. Starts(p) \subseteq 1 .. Len(p)
  BY DEF Starts
<1>3. p # <<>> => 1 \in 1 .. Len(p)
  BY <1>1
<1>4. ASSUME NEW i \in Starts(p), i < Len(p), After(p, i) <= Len(p)
      PROVE  After(p, i) \in 1 .. Len(p)
  <2>1. i \in 1 .. Len(p) /\ p[i + 1] \in Nat
    BY <1>1, <1>2, <1>4
  <2>2. QED
    BY <1>1, <1>4, <2>1 DEF After
<1>5. QED
  BY <1>2, <1>3, <1>4 DEF Starts

LEMMA StartsLeast ==
  ASSUME NEW p, NEW S \in SUBSET (1 .. Len(p)), 1 \in S,
         \A i \in S : i < Len(p) /\ After(p, i) <= Len(p) => After(p, i) \in S
  PROVE  Starts(p) \subseteq S
BY DEF Starts

\* When what came before ends at a start, nothing starts inside that one.
LEMMA NoStartInside ==
  ASSUME NEW p \in Seq(DataBytes), NEW place \in Starts(p), WellFormed(p, place),
         \A i \in Starts(p) : i < place => After(p, i) <= place
  PROVE  \A i \in Starts(p) : i <= place \/ After(p, place) <= i
<1> DEFINE S == {i \in Starts(p) : i <= place \/ After(p, place) <= i}
<1>1. /\ Len(p) \in Nat /\ Starts(p) \subseteq 1 .. Len(p) /\ place \in 1 .. Len(p)
      /\ \A i \in 1 .. Len(p) : p[i] \in Nat
  BY StartsClosed, PayloadBytes
<1>2. 1 \in S
  BY <1>1, StartsClosed
<1>3. ASSUME NEW i \in S, i < Len(p), After(p, i) <= Len(p) PROVE After(p, i) \in S
  <2>1. After(p, i) \in Starts(p) /\ i \in 1 .. Len(p) /\ p[i + 1] \in Nat
    BY <1>1, <1>3, StartsClosed
  <2>2. After(p, i) \in Nat /\ i <= After(p, i)
    BY <1>1, <2>1 DEF After
  <2>3. CASE i < place
    BY <2>1, <2>3
  <2>4. CASE i = place
    BY <2>1, <2>2, <2>4
  <2>5. CASE place < i
    <3>1. After(p, place) <= i /\ After(p, place) \in Nat
      <4>1. p[place + 1] \in Nat
        BY <1>1, <2>1, <2>5, <1>3
      <4>2. After(p, place) \in Nat
        BY <1>1, <4>1 DEF After
      <4>3. QED
        BY <4>2, <2>5, <1>1, <2>1
    <3>2. QED
      BY <2>1, <2>2, <3>1
  <2>6. QED
    BY <1>1, <2>1, <2>3, <2>4, <2>5
<1>4. S \in SUBSET (1 .. Len(p))
  BY <1>1
<1> HIDE DEF S
<1>5. Starts(p) \subseteq S
  BY <1>2, <1>3, <1>4, StartsLeast
<1>6. QED
  BY <1>5 DEF S

\* One pass of the loop takes a well-formed sub-payload from the front whole,
\* and takes it over when its header is known.
LEMMA FrontTaken ==
  ASSUME NEW d \in Seq(DataBytes), d # <<>>, WellFormed(d, 1)
  PROVE  /\ 3 <= 2 + d[2] /\ 2 + d[2] <= Len(d) /\ d[2] \in Nat
         /\ d[1] \in Known => Reader(d) = Taken(Skip(d, 2 + d[2]))
         /\ d[1] \notin Known => Reader(d) = Refused(d)
         /\ FixPayload(d) = Skip(d, 2 + d[2])
<1>1. /\ Len(d) \in Nat /\ Len(d) > 1
      /\ \A i \in 1 .. Len(d) : d[i] \in Nat
  BY PayloadBytes DEF WellFormed
<1>2. /\ d[2] \in Nat /\ d[2] > 0 /\ 2 + d[2] <= Len(d)
      /\ d[1] = FixedHeader => d[2] = FixedLength
      /\ d[1] = TwoHeader => d[2] \in {1, 2}
      /\ d[1] = CountedHeader => d[2] = 1 + d[3] /\ d[3] > 0
  BY <1>1 DEF WellFormed, After
<1>3. d[3] \in Nat
  BY <1>1, <1>2
<1> DEFINE rest == Skip(d, 2 + d[2])
<1>4. d[1] = FixedHeader => FixedReader(d) = Taken(rest)
  BY <1>1, <1>2 DEF FixedReader, FixedLength
<1>5. d[1] = TwoHeader => TwoReader(d) = Taken(rest)
  BY <1>1, <1>2 DEF TwoReader
<1>6. d[1] = CountedHeader => CountedReader(d) = Taken(rest)
  <2> SUFFICES ASSUME d[1] = CountedHeader PROVE CountedReader(d) = Taken(rest)
    OBVIOUS
  <2>1. d[2] = 1 + d[3] /\ d[3] > 0
    BY <1>2
  <2>2. /\ ~(Len(d) < 4) /\ ~(d[2] < 2) /\ ~(Len(d) < 2 + d[2]) /\ 3 + d[3] = 2 + d[2]
    BY ONLY <2>1, <1>1, <1>2, <1>3
  <2>3. QED
    BY <2>1, <2>2 DEF CountedReader
<1>7. FixPayload(d) = rest
  BY <1>1, <1>2 DEF FixPayload
<1> HIDE DEF rest
<1>8. /\ d[1] \in Known => Reader(d) = Taken(rest)
      /\ d[1] \notin Known => Reader(d) = Refused(d)
  BY <1>4, <1>5, <1>6, Zenon DEF Reader, Known
<1>9. QED
  BY <1>1, <1>2, <1>7, <1>8 DEF rest

\* One more place behind the others is one more header behind the others.
LEMMA HeaderAppended ==
  ASSUME NEW p \in Seq(DataBytes), NEW r \in Seq(DataBytes),
         NEW S \in SUBSET Nat, NEW place \in Nat, \A i \in S : i < place,
         HeadersAt(r, p, S)
  PROVE  HeadersAt(Append(r, p[place]), p, S \cup {place})
<1> DEFINE n == Len(r)
           q == Append(r, p[place])
           T == S \cup {place}
<1>1. PICK f \in [1 .. n -> S] :
        /\ \A i, k \in 1 .. n : i < k => f[i] < f[k]
        /\ \A x \in S : \E i \in 1 .. n : f[i] = x
        /\ \A i \in 1 .. n : r[i] = p[f[i]]
  BY DEF HeadersAt
<1>2. /\ n \in Nat /\ Len(q) = n + 1 /\ q[n + 1] = p[place]
      /\ \A i \in 1 .. n : q[i] = r[i]
  OBVIOUS
<1> HIDE DEF n, q
<1> DEFINE g == [i \in 1 .. n + 1 |-> IF i = n + 1 THEN place ELSE f[i]]
<1>3. \A i \in 1 .. n + 1 : i = n + 1 \/ i \in 1 .. n
  BY <1>2
<1>4. g \in [1 .. n + 1 -> T] /\ g[n + 1] = place /\ \A i \in 1 .. n : g[i] = f[i] /\ f[i] \in S
  <2>1. n + 1 \in 1 .. n + 1 /\ \A i \in 1 .. n : i \in 1 .. n + 1 /\ i # n + 1
    BY <1>2
  <2>2. QED
    BY <2>1, <1>3
<1> HIDE DEF g
<1>5. ASSUME NEW i \in 1 .. n + 1, NEW k \in 1 .. n + 1, i < k PROVE g[i] < g[k]
  <2>1. i \in 1 .. n
    BY <1>2, <1>5
  <2>2. CASE k = n + 1
    BY <1>4, <2>1, <2>2
  <2>3. CASE k \in 1 .. n
    BY <1>1, <1>4, <1>5, <2>1, <2>3
  <2>4. QED
    BY <1>3, <2>2, <2>3
<1>6. \A x \in T : \E i \in 1 .. n + 1 : g[i] = x
  <2>1. n + 1 \in 1 .. n + 1 /\ \A i \in 1 .. n : i \in 1 .. n + 1
    BY <1>2
  <2>2. QED
    BY <1>1, <1>4, <2>1
<1>7. \A i \in 1 .. n + 1 : q[i] = p[g[i]]
  BY <1>1, <1>2, <1>3, <1>4
<1> HIDE DEF T
<1>8. HeadersAt(q, p, T)
  <2>1. Len(q) = n + 1
    BY <1>2
  <2>2. /\ g \in [1 .. Len(q) -> T]
        /\ \A i, k \in 1 .. Len(q) : i < k => g[i] < g[k]
        /\ \A x \in T : \E i \in 1 .. Len(q) : g[i] = x
        /\ \A i \in 1 .. Len(q) : q[i] = p[g[i]]
    BY <2>1, <1>4, <1>5, <1>6, <1>7
  <2>3. QED
    BY ONLY <2>2 DEF HeadersAt
<1>9. QED
  BY <1>8 DEF q, T

\* Nothing is read of a payload that just came.
LEMMA CopiedUnread ==
  ASSUME NEW p \in Seq(DataBytes), NEW r, HeadersAt(r, <<>>, {i \in KnownStarts(<<>>) : i < 1}),
         r \in Seq(DataBytes)
  PROVE  ReadSoFar(p, p, r)
<1>1. /\ Len(p) \in Nat /\ Starts(p) \subseteq 1 .. Len(p) /\ Starts(<<>>) = {}
      /\ p # <<>> => 1 \in Starts(p)
  <2>1. Starts(<<>>) = {}
    BY DEF Starts
  <2>2. QED
    BY <2>1, StartsClosed, PayloadBytes
<1>2. Len(p) - Len(p) + 1 = 1 /\ \A i \in Starts(p) : ~(i < 1)
  BY <1>1
<1>3. Len(r) = 0
  <2>1. [1 .. Len(r) -> {}] # {}
    BY <1>1 DEF HeadersAt, KnownStarts
  <2>2. 1 \notin 1 .. Len(r) /\ Len(r) \in Nat
    BY <2>1
  <2>3. QED
    BY <2>2
<1>4. HeadersAt(r, p, {i \in KnownStarts(p) : i < 1})
  <2>1. {i \in KnownStarts(p) : i < 1} = {}
    BY <1>2 DEF KnownStarts
  <2>2. [i \in {} |-> i] \in [1 .. Len(r) -> {}] /\ 1 .. Len(r) = {}
    BY <1>3
  <2>3. QED
    BY <2>1, <2>2 DEF HeadersAt
<1>5. \A i \in 1 .. Len(p) : p[i] = p[1 - 1 + i]
  BY <1>1
<1>6. QED
  BY <1>1, <1>2, <1>4, <1>5 DEF ReadSoFar

\* The front of what remains is the start that it stands at.
LEMMA FrontIsStart ==
  ASSUME NEW p \in Seq(DataBytes), AllWellFormed(p), NEW d, NEW r,
         ReadSoFar(p, d, r), d # <<>>
  PROVE  LET place == Len(p) - Len(d) + 1
         IN /\ place \in Starts(p) /\ WellFormed(p, place) /\ WellFormed(d, 1)
            /\ d[1] = p[place] /\ After(p, place) = place + 2 + d[2]
<1> DEFINE place == Len(p) - Len(d) + 1
<1>1. /\ d \in Seq(DataBytes) /\ Len(d) <= Len(p) /\ place \in Starts(p)
      /\ \A i \in 1 .. Len(d) : d[i] = p[place - 1 + i]
  BY DEF ReadSoFar
<1>2. /\ Len(p) \in Nat /\ Len(d) \in Nat /\ place \in 1 .. Len(p)
      /\ \A i \in 1 .. Len(p) : p[i] \in Nat
  BY <1>1, PayloadBytes, StartsClosed
<1>3. WellFormed(p, place)
  BY <1>1 DEF AllWellFormed
<1>4. Len(d) = Len(p) - place + 1
  BY <1>2
<1> HIDE DEF place
<1>5. /\ place < Len(p) /\ p[place + 1] \in Nat /\ p[place + 1] > 0
      /\ place + 2 + p[place + 1] <= Len(p) + 1
  BY <1>2, <1>3 DEF WellFormed, After
<1>6. /\ 1 \in 1 .. Len(d) /\ 2 \in 1 .. Len(d) /\ 3 \in 1 .. Len(d)
      /\ 3 + p[place + 1] <= Len(d) + 1
  BY ONLY <1>2, <1>4, <1>5
<1>7. d[1] = p[place] /\ d[2] = p[place + 1] /\ d[3] = p[place + 2]
  <2>1. d[1] = p[place - 1 + 1] /\ d[2] = p[place - 1 + 2] /\ d[3] = p[place - 1 + 3]
    BY <1>1, <1>6
  <2>2. place - 1 + 1 = place /\ place - 1 + 2 = place + 1 /\ place - 1 + 3 = place + 2
    BY <1>2
  <2>3. QED
    BY <2>1, <2>2
<1>8. WellFormed(d, 1)
  <2>1. 1 < Len(d) /\ d[1 + 1] = d[2] /\ d[1 + 2] = d[3] /\ 1 + 2 + d[2] <= Len(d) + 1
    BY <1>2, <1>6, <1>7
  <2>2. /\ p[place + 1] > 0
        /\ p[place] = FixedHeader => p[place + 1] = FixedLength
        /\ p[place] = TwoHeader => p[place + 1] \in {1, 2}
        /\ p[place] = CountedHeader => p[place + 1] = 1 + p[place + 2] /\ p[place + 2] > 0
    BY <1>3 DEF WellFormed
  <2>3. QED
    BY <1>7, <2>1, <2>2 DEF WellFormed, After
<1>9. After(p, place) = place + 2 + d[2]
  BY <1>7 DEF After
<1>10. QED
  BY <1>1, <1>3, <1>7, <1>8, <1>9 DEF place

\* Reading goes on from start to start.
LEMMA ReadOn ==
  ASSUME NEW p \in Seq(DataBytes), AllWellFormed(p), NEW d, NEW r,
         ReadSoFar(p, d, r), d # <<>>
  PROVE  ReadSoFar(p, Skip(d, 2 + d[2]), IF d[1] \in Known THEN Append(r, d[1]) ELSE r)
<1> DEFINE place == Len(p) - Len(d) + 1
           n == 2 + d[2]
           next == place + n
           rest == Skip(d, n)
           s == IF d[1] \in Known THEN Append(r, d[1]) ELSE r
           Before(x) == {i \in KnownStarts(p) : i < x}
<1>1. /\ d \in Seq(DataBytes) /\ Len(d) <= Len(p) /\ r \in Seq(DataBytes)
      /\ \A i \in 1 .. Len(d) : d[i] = p[place - 1 + i]
      /\ \A i \in Starts(p) : i < place => After(p, i) <= place
      /\ HeadersAt(r, p, Before(place))
  BY DEF ReadSoFar
<1>2. /\ place \in Starts(p) /\ WellFormed(p, place) /\ WellFormed(d, 1)
      /\ d[1] = p[place] /\ After(p, place) = place + 2 + d[2]
  BY FrontIsStart
<1>3. /\ Len(p) \in Nat /\ Len(d) \in Nat /\ place \in 1 .. Len(p) /\ d[1] \in DataBytes
      /\ Starts(p) \subseteq 1 .. Len(p)
  BY <1>1, <1>2, PayloadBytes, StartsClosed
<1>4. d[2] \in Nat /\ n \in Nat /\ 3 <= n /\ n <= Len(d)
  BY <1>1, <1>2, FrontTaken
<1>5. After(p, place) = next
  <2> HIDE DEF place
  <2>1. place \in Nat /\ place + 2 + d[2] = place + (2 + d[2])
    BY ONLY <1>3, <1>4
  <2>2. QED
    BY <1>2, <2>1
<1>6. Len(d) = Len(p) - place + 1
  BY <1>3
<1> HIDE DEF n, place
<1>7. /\ rest \in Seq(DataBytes) /\ Len(rest) = Len(d) - n
      /\ \A i \in 1 .. Len(rest) : rest[i] = d[n + i]
  <2>1. n + 1 \in 1 .. Len(d) + 1 /\ n + 1 \in Nat
    BY <1>3, <1>4
  <2>2. /\ rest = [i \in 1 .. Len(d) - n |-> d[n + i]] /\ Len(rest) = Len(d) - n
        /\ rest \in Seq(DataBytes)
    BY <1>1, <1>3, <1>4, <2>1 DEF Skip
  <2>3. QED
    BY <2>2
<1> HIDE DEF rest
<1>8. Len(rest) \in Nat /\ Len(rest) <= Len(p) /\ Len(p) - Len(rest) + 1 = next /\ next \in Nat
  <2>1. /\ Len(p) \in Nat /\ Len(d) \in Nat /\ n \in Nat /\ place \in Nat /\ n <= Len(d)
        /\ Len(d) = Len(p) - place + 1 /\ 1 <= place /\ Len(rest) = Len(d) - n
    BY <1>3, <1>4, <1>6, <1>7
  <2>2. QED
    BY ONLY <2>1
<1>9. \A i \in 1 .. Len(rest) : rest[i] = p[next - 1 + i]
  <2> SUFFICES ASSUME NEW i \in 1 .. Len(rest) PROVE rest[i] = p[next - 1 + i]
    OBVIOUS
  <2>1. n + i \in 1 .. Len(d) /\ place - 1 + (n + i) = next - 1 + i
    BY <1>3, <1>4, <1>7, <1>8
  <2>2. QED
    BY <1>1, <1>7, <2>1
<1>10. rest # <<>> => next \in Starts(p)
  <2> SUFFICES ASSUME rest # <<>> PROVE next \in Starts(p)
    OBVIOUS
  <2>1. Len(rest) > 0
    BY <1>7, <1>8
  <2>2. next <= Len(p) /\ place < Len(p)
    BY ONLY <2>1, <1>3, <1>4, <1>7, <1>8
  <2>3. QED
    BY <1>2, <1>5, <2>2, StartsClosed
<1>11. \A i \in Starts(p) : i < next => i <= place
  <2>1. \A i \in Starts(p) : i <= place \/ next <= i
    BY <1>1, <1>2, <1>5, NoStartInside
  <2>2. QED
    BY <1>3, <1>8, <2>1
<1>12. \A i \in Starts(p) : i < next => After(p, i) <= next
  <2> SUFFICES ASSUME NEW i \in Starts(p), i < next PROVE After(p, i) <= next
    OBVIOUS
  <2>1. CASE i = place
    BY <1>5, <1>8, <2>1
  <2>2. CASE i # place
    <3>1. i < place /\ i < Len(p)
      BY <1>3, <1>11, <2>2
    <3>2. After(p, i) <= place /\ After(p, i) \in Int
      <4>1. p[i + 1] \in Nat
        BY <1>3, <3>1, PayloadBytes
      <4>2. QED
        BY <1>1, <1>3, <3>1, <4>1 DEF After
    <3>3. QED
      BY <1>3, <1>4, <3>2
  <2>3. QED
    BY <2>1, <2>2
<1>13. HeadersAt(s, p, Before(next)) /\ s \in Seq(DataBytes)
  <2>1. place < next /\ Before(place) \in SUBSET Nat
    BY <1>3, <1>4 DEF KnownStarts
  <2>2. \A i : i \in Before(next) <=> i \in Before(place) \/ (i = place /\ p[place] \in Known)
    <3> SUFFICES ASSUME NEW i \in Starts(p), p[i] \in Known
                 PROVE  i < next <=> i < place \/ i = place
      BY <1>2 DEF KnownStarts
    <3>1. QED
      BY <1>3, <1>8, <1>11, <2>1
  <2>3. CASE d[1] \in Known
    <3>1. Before(next) = Before(place) \cup {place}
      BY <1>2, <2>2, <2>3
    <3>2. HeadersAt(Append(r, p[place]), p, Before(place) \cup {place})
      <4> DEFINE B == Before(place)
      <4>1. B \in SUBSET Nat /\ (\A i \in B : i < place) /\ HeadersAt(r, p, B) /\ place \in Nat
        BY <1>1, <1>3, <2>1
      <4> HIDE DEF B
      <4>2. HeadersAt(Append(r, p[place]), p, B \cup {place})
        BY <1>1, <4>1, HeaderAppended
      <4>3. QED
        BY <4>2 DEF B
    <3>3. Append(r, d[1]) \in Seq(DataBytes) /\ s = Append(r, p[place])
      BY <1>1, <1>2, <1>3, <2>3
    <3> HIDE DEF s, Before
    <3>4. QED
      BY <1>2, <3>1, <3>2, <3>3
  <2>4. CASE d[1] \notin Known
    <3>1. Before(next) = Before(place)
      BY <1>2, <2>2, <2>4
    <3>2. QED
      BY <1>1, <2>4, <3>1
  <2>5. QED
    BY <2>3, <2>4
<1> HIDE DEF s, next
<1>14. ReadSoFar(p, rest, s)
  BY <1>7, <1>8, <1>9, <1>10, <1>12, <1>13 DEF ReadSoFar
<1>15. QED
  BY <1>14 DEF rest, s, n

LEMMA PayloadStep ==
  ASSUME PayloadInv, [PayloadNext]_payloadVars
  PROVE  PayloadInv'
<1>1. CASE PayloadCopied
  <2>1. /\ payload = <<>> /\ payload' \in UNION {[1 .. n -> DataBytes] : n \in 1 .. MaxPayload}
        /\ dataBuffer' = payload' /\ readers' = readers
    BY <1>1 DEF PayloadCopied
  <2>2. payload' \in Seq(DataBytes)
    BY <2>1, SubPayloadAssumption
  <2>3. AllWellFormed(<<>>)
    BY DEF AllWellFormed, Starts
  <2>4. readers \in Seq(DataBytes) /\ HeadersAt(readers, <<>>, {i \in KnownStarts(<<>>) : i < 1})
    <3>1. ReadSoFar(<<>>, dataBuffer, readers)
      BY <2>1, <2>3 DEF PayloadInv
    <3>2. Len(dataBuffer) = 0
      BY <3>1 DEF ReadSoFar
    <3>3. Len(<<>>) - Len(dataBuffer) + 1 = 1
      BY <3>2
    <3>4. QED
      BY <3>1, <3>3 DEF ReadSoFar
  <2>5. ReadSoFar(payload', payload', readers)
    BY <2>2, <2>4, CopiedUnread
  <2>6. QED
    BY <2>1, <2>2, <2>5 DEF PayloadInv
<1>2. CASE SubPayload
  <2>1. /\ dataBuffer # <<>> /\ payload' = payload
        /\ dataBuffer' = IF Reader(dataBuffer).taken THEN Reader(dataBuffer).rest
                         ELSE FixPayload(Reader(dataBuffer).rest)
        /\ readers' = IF Reader(dataBuffer).taken THEN Append(readers, dataBuffer[1])
                      ELSE readers
    BY <1>2 DEF SubPayload
  <2>2. payload \in Seq(DataBytes)
    BY DEF PayloadInv
  <2>3. ASSUME AllWellFormed(payload) PROVE ReadSoFar(payload, dataBuffer', readers')
    <3>1. ReadSoFar(payload, dataBuffer, readers)
      BY <2>3 DEF PayloadInv
    <3>2. dataBuffer \in Seq(DataBytes) /\ WellFormed(dataBuffer, 1)
      BY <2>1, <2>2, <2>3, <3>1, FrontIsStart DEF ReadSoFar
    <3> DEFINE rest == Skip(dataBuffer, 2 + dataBuffer[2])
    <3>3. /\ dataBuffer[1] \in Known => Reader(dataBuffer) = Taken(rest)
          /\ dataBuffer[1] \notin Known => Reader(dataBuffer) = Refused(dataBuffer)
          /\ FixPayload(dataBuffer) = rest
      BY <2>1, <3>2, FrontTaken
    <3> HIDE DEF rest
    <3>4. /\ dataBuffer' = rest
          /\ readers' = IF dataBuffer[1] \in Known THEN Append(readers, dataBuffer[1]) ELSE readers
      BY <2>1, <3>3 DEF Taken, Refused
    <3>5. ReadSoFar(payload, rest, IF dataBuffer[1] \in Known THEN Append(readers, dataBuffer[1])
                                   ELSE readers)
      BY <2>1, <2>2, <2>3, <3>1, ReadOn DEF rest
    <3>6. QED
      BY <3>4, <3>5
  <2>4. QED
    BY <2>1, <2>2, <2>3 DEF PayloadInv
<1>3. CASE UNCHANGED payloadVars
  BY <1>3 DEF payloadVars, PayloadInv
<1>4. QED
  BY <1>1, <1>2, <1>3 DEF PayloadNext

LEMMA PayloadStart == PayloadInit => PayloadInv
<1> SUFFICES ASSUME PayloadInit PROVE PayloadInv
  OBVIOUS
<1>1. payload = <<>> /\ dataBuffer = <<>> /\ readers = <<>>
  BY DEF PayloadInit
<1>2. <<>> \in Seq(DataBytes) /\ Len(<<>>) = 0 /\ Starts(<<>>) = {}
  BY DEF Starts
<1>3. HeadersAt(<<>>, <<>>, {i \in KnownStarts(<<>>) : i < 1})
  <2>1. {i \in KnownStarts(<<>>) : i < 1} = {}
    BY <1>2 DEF KnownStarts
  <2>2. [i \in {} |-> i] \in [1 .. Len(<<>>) -> {}] /\ 1 .. Len(<<>>) = {}
    BY <1>2
  <2>3. QED
    BY <2>1, <2>2 DEF HeadersAt
<1>4. ReadSoFar(<<>>, <<>>, <<>>)
  BY <1>2, <1>3, CopiedUnread
<1>5. QED
  BY <1>1, <1>2, <1>4 DEF PayloadInv

LEMMA PayloadInvTaken == PayloadInv => KnownTaken
<1> SUFFICES ASSUME PayloadInv, dataBuffer = <<>>, AllWellFormed(payload)
             PROVE  HeadersAt(readers, payload, KnownStarts(payload))
  BY DEF KnownTaken, AllWellFormed
<1>1. payload \in Seq(DataBytes) /\ ReadSoFar(payload, <<>>, readers)
  BY DEF PayloadInv
<1>2. /\ Len(payload) \in Nat /\ Starts(payload) \subseteq 1 .. Len(payload)
      /\ Len(payload) - Len(<<>>) + 1 = Len(payload) + 1
  BY <1>1, PayloadBytes, StartsClosed
<1>3. {i \in KnownStarts(payload) : i < Len(payload) + 1} = KnownStarts(payload)
  BY <1>2 DEF KnownStarts
<1>4. QED
  BY <1>1, <1>2, <1>3 DEF ReadSoFar

\* Of a payload of well-formed sub-payloads, with any bytes and of any length,
\* the driver takes every sub-payload that it knows, in order, and nothing
\* else (kobuki.cpp:282, kobuki.cpp:382).
THEOREM KnownAreTaken == CoreSpec => []KnownTaken
<1>1. CoreInit => PayloadInv
  BY PayloadStart DEF CoreInit
<1>2. PayloadInv /\ [CoreNext]_coreVars => PayloadInv'
  BY PartsAlone, PayloadStep
<1>3. PayloadInv => KnownTaken
  BY PayloadInvTaken
<1>4. QED
  BY <1>1, <1>2, <1>3, PTL DEF CoreSpec

----------------------------------------------------------------------------
(* Induction up to a number, and folds of sequences. *)

\* A set of natural numbers has a least one: of the intervals below its elements
\* one holds no other.
LEMMA LeastNatural ==
  ASSUME NEW S, S \subseteq Nat, S # {}
  PROVE  \E m \in S : \A k \in S : m <= k
<1>1. PICK n \in S : TRUE
  OBVIOUS
<1> DEFINE Below(k) == IF k = 0 THEN {} ELSE 0 .. k - 1
           B == {Below(k) : k \in {k \in S : k <= n}}
<1>2. IsFiniteSet(0 .. n - 1)
  BY FS_Interval
<1>3. B \subseteq SUBSET (0 .. n - 1) /\ B # {}
  <2>1. n \in {k \in S : k <= n}
    BY <1>1
  <2>2. \A k \in Nat : k <= n => Below(k) \subseteq 0 .. n - 1
    BY <1>1
  <2>3. QED
    BY <2>1, <2>2
<1>4. \E T \in B : \A U \in B : ~(U \subseteq T /\ U # T)
  <2> DEFINE whole == 0 .. n - 1
  <2>1. IsFiniteSet(whole) /\ B \subseteq SUBSET whole /\ B # {}
    BY <1>2, <1>3
  <2> HIDE DEF B, whole
  <2>2. QED
    BY <2>1, LeastSet
<1>5. PICK m \in S : m <= n /\ \A U \in B : ~(U \subseteq Below(m) /\ U # Below(m))
  BY <1>4
<1>6. ASSUME NEW k \in S, k < m PROVE FALSE
  <2>1. k \in Nat /\ m \in Nat /\ n \in Nat /\ k <= n
    BY <1>1, <1>5, <1>6
  <2>2. Below(k) \in B /\ Below(k) \subseteq Below(m) /\ k \in Below(m) /\ k \notin Below(k)
    BY <1>6, <2>1
  <2>3. QED
    BY <1>5, <2>2
<1>7. QED
  BY <1>5, <1>6

\* What is bounded has a greatest element.
LEMMA GreatestNatural ==
  ASSUME NEW S, S \subseteq Nat, S # {}, NEW b \in Nat, \A k \in S : k <= b
  PROVE  Max(S) \in S /\ \A k \in S : k <= Max(S)
<1> DEFINE Bounds == {c \in Nat : \A k \in S : k <= c}
<1>1. Bounds \subseteq Nat /\ Bounds # {}
  OBVIOUS
<1>2. PICK c \in Bounds : \A d \in Bounds : c <= d
  <2> HIDE DEF Bounds
  <2>1. QED
    BY <1>1, LeastNatural
<1>3. c \in S
  <2>1. SUFFICES ASSUME c \notin S PROVE FALSE
    OBVIOUS
  <2>2. PICK k \in S : TRUE
    OBVIOUS
  <2>3. k <= c /\ k # c /\ k \in Nat
    BY <2>1, <2>2
  <2>4. c - 1 \in Nat /\ \A j \in S : j <= c - 1
    BY <2>1, <2>3
  <2>5. QED
    BY <1>2, <2>4
<1>4. \E x \in S : \A k \in S : x >= k
  BY <1>3
<1>5. QED
  BY <1>4 DEF Max


\* Induction up to a number, over a set.
LEMMA UpTo ==
  ASSUME NEW n \in Nat, NEW P, 0 \in P, \A k \in 0 .. n - 1 : k \in P => k + 1 \in P
  PROVE  \A k \in 0 .. n : k \in P
<1> DEFINE S == {k \in 0 .. n : k \notin P}
<1>1. SUFFICES ASSUME S # {} PROVE FALSE
  OBVIOUS
<1>2. PICK m \in S : \A k \in S : m <= k
  <2>1. S \subseteq Nat
    OBVIOUS
  <2> HIDE DEF S
  <2>2. QED
    BY <1>1, <2>1, LeastNatural
<1>3. m # 0 /\ m - 1 \in 0 .. n - 1 /\ m - 1 + 1 = m
  OBVIOUS
<1>4. m - 1 \in P
  BY <1>2, <1>3
<1>5. QED
  BY <1>3, <1>4

LEMMA MaxOfInterval ==
  ASSUME NEW n \in Nat, NEW s \in SUBSET (1 .. n), s # {}
  PROVE  Max(s) \in s /\ \A k \in s : k <= Max(s)
<1>1. s \subseteq Nat /\ \A k \in s : k <= n
  OBVIOUS
<1>2. QED
  BY <1>1, GreatestNatural

LEMMA LastOfInterval ==
  ASSUME NEW k \in Nat \ {0}
  PROVE  Max(1 .. k) = k /\ (1 .. k) \ {k} = 1 .. k - 1 /\ 1 .. k # {}
<1>1. 1 .. k \in SUBSET (1 .. k) /\ 1 .. k # {} /\ k \in 1 .. k
  OBVIOUS
<1>2. Max(1 .. k) \in 1 .. k /\ k <= Max(1 .. k)
  BY <1>1, MaxOfInterval
<1>3. QED
  BY <1>2

LEMMA NextOfInterval ==
  ASSUME NEW k \in Nat
  PROVE  Max(1 .. k + 1) = k + 1 /\ (1 .. k + 1) \ {k + 1} = 1 .. k /\ 1 .. k + 1 # {}
<1>1. k + 1 \in Nat \ {0} /\ k + 1 - 1 = k
  OBVIOUS
<1>2. QED
  BY <1>1, LastOfInterval

\* The same for a fold over a sequence, whose last element is picked first.
Lasts(n) == [s \in SUBSET (1 .. n) |-> Max(s)]

LEMMA SeqFoldExists ==
  ASSUME NEW n \in Nat, NEW Acc, NEW base \in Acc,
         NEW step, FoldSteps(step, 1 .. n, Acc)
  PROVE  \E g : IsFold(g, 1 .. n, Acc, base, Lasts(n), step)
<1>1. Picks(Lasts(n), 1 .. n)
  BY MaxOfInterval DEF Picks, Lasts
<1>2. IsFiniteSet(1 .. n)
  BY FS_Interval
<1>3. QED
  BY <1>1, <1>2, FoldExists


----------------------------------------------------------------------------
(* The checksum. *)

\* The XOR of a sequence as the fold it is.
XorSteps(s) == [i \in 1 .. Len(s) |-> [a \in Bytes |-> Xor(a, s[i])]]

\* The sums of the beginnings of a sequence.
IsSums(h, s) ==
  /\ h \in [0 .. Len(s) -> Bytes] /\ h[0] = 0
  /\ \A k \in 0 .. Len(s) - 1 : h[k + 1] = Xor(h[k], s[k + 1])

LEMMA CheckSumSteps ==
  ASSUME NEW s \in Seq(Bytes)
  PROVE  \E h : IsSums(h, s) /\ CheckSum(s) = h[Len(s)]
<1> DEFINE n == Len(s)
           step == XorSteps(s)
<1>1. n \in Nat /\ DOMAIN s = 1 .. n /\ \A i \in 1 .. n : s[i] \in Bytes
  OBVIOUS
<1>2. 0 \in Bytes /\ \A a, b \in Bytes : Xor(a, b) \in Bytes
  BY BytesAssumption
<1> HIDE DEF n
<1>3. \A i \in 1 .. n, a \in Bytes : step[i][a] = Xor(a, s[i]) /\ step[i][a] \in Bytes
  BY <1>1, <1>2 DEF XorSteps, n
<1> HIDE DEF step
<1>4. FoldSteps(step, 1 .. n, Bytes)
  BY <1>3 DEF FoldSteps
<1>5. PICK f : IsFold(f, 1 .. n, Bytes, 0, Lasts(n), step)
  BY <1>1, <1>2, <1>4, SeqFoldExists
<1>6. f = [x \in SUBSET (DOMAIN s) |->
             IF x = {} THEN 0 ELSE LET m == Max(x) IN Xor(f[x \ {m}], s[m])]
  <2>1. ASSUME NEW x \in SUBSET (1 .. n), x # {}
        PROVE  f[x] = Xor(f[x \ {Max(x)}], s[Max(x)])
    <3>1. Max(x) \in 1 .. n /\ f[x \ {Max(x)}] \in Bytes
      BY <1>1, <1>5, <2>1, MaxOfInterval DEF IsFold
    <3>2. f[x] = step[Max(x)][f[x \ {Max(x)}]]
      BY <1>5, <2>1 DEF IsFold, Lasts
    <3>3. QED
      BY <3>1, <3>2, <1>3
  <2>2. f \in [SUBSET (1 .. n) -> Bytes] /\ f[{}] = 0
    BY <1>5 DEF IsFold
  <2>3. QED
    BY <1>1, <2>1, <2>2
<1> DEFINE g == CHOOSE g : g = [x \in SUBSET (DOMAIN s) |->
                  IF x = {} THEN 0 ELSE LET m == Max(x) IN Xor(g[x \ {m}], s[m])]
<1>7. g = [x \in SUBSET (DOMAIN s) |->
             IF x = {} THEN 0 ELSE LET m == Max(x) IN Xor(g[x \ {m}], s[m])]
  BY <1>6
<1>8. CheckSum(s) = g[DOMAIN s]
  BY DEF CheckSum, FoldLeft, MapThenFoldSet
<1> HIDE DEF g
<1>9. ASSUME NEW k \in 0 .. n - 1 PROVE g[1 .. k + 1] = Xor(g[1 .. k], s[k + 1])
  <2>1. /\ 1 .. k + 1 \in SUBSET (1 .. n) /\ k \in Nat
    BY <1>1
  <2>2. Max(1 .. k + 1) = k + 1 /\ (1 .. k + 1) \ {k + 1} = 1 .. k /\ 1 .. k + 1 # {}
    BY <2>1, NextOfInterval
  <2>3. QED
    BY <1>1, <1>7, <2>1, <2>2
<1>10. g[{}] = 0 /\ {} = 1 .. 0
  BY <1>1, <1>7
<1> DEFINE P == {k \in 0 .. n : g[1 .. k] \in Bytes}
<1>11. 0 \in P
  BY <1>1, <1>2, <1>10
<1>12. ASSUME NEW k \in 0 .. n - 1, k \in P PROVE k + 1 \in P
  <2>1. k + 1 \in 0 .. n /\ s[k + 1] \in Bytes
    BY <1>1
  <2>2. QED
    BY <1>2, <1>9, <1>12, <2>1
<1> HIDE DEF P
<1>13. \A k \in 0 .. n : k \in P
  BY <1>1, <1>11, <1>12, UpTo
<1> DEFINE h == [k \in 0 .. n |-> g[1 .. k]]
<1>14. h \in [0 .. n -> Bytes]
  BY <1>13 DEF P
<1>15. \A k \in 0 .. n : h[k] = g[1 .. k]
  OBVIOUS
<1> HIDE DEF h
<1>16. ASSUME NEW k \in 0 .. n - 1 PROVE h[k + 1] = Xor(h[k], s[k + 1])
  <2>1. k \in 0 .. n /\ k + 1 \in 0 .. n
    BY <1>1
  <2>2. QED
    BY <1>9, <1>15, <2>1
<1>17. h[0] = 0 /\ CheckSum(s) = h[n]
  <2>1. 0 \in 0 .. n /\ n \in 0 .. n
    BY <1>1
  <2>2. QED
    BY <1>1, <1>8, <1>10, <1>15, <2>1
<1>18. IsSums(h, s)
  BY <1>14, <1>16, <1>17 DEF IsSums, n
<1>19. QED
  BY <1>17, <1>18 DEF n

\* One more byte is one more XOR.
LEMMA CheckSumAppend ==
  ASSUME NEW s \in Seq(Bytes), NEW b \in Bytes
  PROVE  /\ CheckSum(s) \in Bytes
         /\ CheckSum(Append(s, b)) = Xor(CheckSum(s), b)
<1> DEFINE n == Len(s)
           t == Append(s, b)
<1>1. /\ n \in Nat /\ t \in Seq(Bytes) /\ Len(t) = n + 1 /\ t[n + 1] = b
      /\ \A i \in 1 .. n : t[i] = s[i]
  OBVIOUS
<1>2. PICK h : IsSums(h, s) /\ CheckSum(s) = h[n]
  BY CheckSumSteps
<1>3. PICK j : IsSums(j, t) /\ CheckSum(t) = j[n + 1]
  <2> HIDE DEF t
  <2>1. \E j : IsSums(j, t) /\ CheckSum(t) = j[Len(t)]
    BY <1>1, CheckSumSteps
  <2>2. QED
    BY <1>1, <2>1
<1> HIDE DEF t, n
<1>4. /\ h \in [0 .. n -> Bytes] /\ h[0] = 0 /\ j[0] = 0
      /\ \A k \in 0 .. n - 1 : h[k + 1] = Xor(h[k], s[k + 1])
      /\ \A k \in 0 .. n : j[k + 1] = Xor(j[k], t[k + 1])
  <2>1. \A k \in 0 .. n : k \in 0 .. n + 1 - 1
    BY <1>1
  <2>2. QED
    BY <1>1, <1>2, <1>3, <2>1 DEF IsSums, n
<1> DEFINE P == {k \in 0 .. n : j[k] = h[k]}
<1>5. 0 \in P
  BY <1>1, <1>4
<1>6. ASSUME NEW k \in 0 .. n - 1, k \in P PROVE k + 1 \in P
  <2>1. k \in 0 .. n /\ k + 1 \in 0 .. n /\ k + 1 \in 1 .. n
    BY <1>1
  <2>2. QED
    BY <1>1, <1>4, <1>6, <2>1
<1> HIDE DEF P
<1>7. \A k \in 0 .. n : k \in P
  BY <1>1, <1>5, <1>6, UpTo
<1>8. n \in 0 .. n
  BY <1>1
<1>9. CheckSum(s) \in Bytes
  BY <1>2, <1>4, <1>8
<1>10. j[n + 1] = Xor(h[n], b)
  BY <1>1, <1>4, <1>7, <1>8 DEF P
<1>11. QED
  BY <1>2, <1>3, <1>9, <1>10 DEF t

\* A byte differs from itself in no bit.
LEMMA XorSelf == ASSUME NEW a PROVE Xor(a, a) = 0
<1> DEFINE S == {n \in 0 .. 7 : Bit(a, n) # Bit(a, n)}
           it == CHOOSE it : it = [s \in SUBSET S |->
                   IF s = {} THEN 0
                   ELSE LET x == (CHOOSE x \in s : TRUE) IN 2 ^ x + it[s \ {x}]]
<1>1. S = {}
  OBVIOUS
<1>2. Xor(a, a) = it[S]
  BY DEF Xor, MapThenSumSet, MapThenFoldSet
<1> HIDE DEF S
<1> DEFINE zero == [s \in SUBSET S |-> 0]
<1>3. zero = [s \in SUBSET S |->
                IF s = {} THEN 0
                ELSE LET x == (CHOOSE x \in s : TRUE) IN 2 ^ x + zero[s \ {x}]]
  BY <1>1
<1>4. it = [s \in SUBSET S |->
              IF s = {} THEN 0
              ELSE LET x == (CHOOSE x \in s : TRUE) IN 2 ^ x + it[s \ {x}]]
  BY <1>3
<1> HIDE DEF it
<1>5. QED
  BY <1>1, <1>2, <1>4

----------------------------------------------------------------------------
(* The packets. *)

LEMMA Concatenated ==
  ASSUME NEW S, NEW s \in Seq(S), NEW t \in Seq(S)
  PROVE  /\ s \o t \in Seq(S) /\ Len(s \o t) = Len(s) + Len(t)
         /\ \A i \in 1 .. Len(s) : (s \o t)[i] = s[i]
         /\ \A i \in 1 .. Len(t) : (s \o t)[Len(s) + i] = t[i]
OBVIOUS

BodyOf(p) == <<Len(p)>> \o p

\* A packet byte by byte.
LEMMA FramedBytes ==
  ASSUME NEW p \in Payloads
  PROVE  LET n == Len(p) + 4
             f == Framed(p)
         IN /\ n \in Nat /\ Len(p) \in Bytes /\ Len(p) \in Nat /\ n = Len(f)
            /\ f \in Seq(Bytes)
            /\ f[1] = STX[1] /\ f[2] = STX[2] /\ f[3] = Len(p)
            /\ \A i \in 1 .. Len(p) : f[i + 3] = p[i]
            /\ SubSeq(f, 3, n) = Append(BodyOf(p), CheckSum(BodyOf(p)))
            /\ CheckSum(SubSeq(f, 3, n)) = 0
            /\ SubSeq(f, 4, n - 1) = p
<1> DEFINE m == Len(p)
           n == m + 4
           body == BodyOf(p)
           sum == CheckSum(body)
           f == Framed(p)
<1>1. p \in Seq(Bytes) /\ m \in Bytes /\ m \in Nat /\ STX \in Seq(Bytes) /\ Len(STX) = 2
  BY BytesAssumption, FinderAssumption
<1> HIDE DEF m
<1>2. /\ body \in Seq(Bytes) /\ Len(body) = m + 1 /\ body[1] = m
      /\ \A i \in 1 .. m : body[i + 1] = p[i]
  <2>1. <<m>> \in Seq(Bytes) /\ Len(<<m>>) = 1 /\ <<m>>[1] = m
    BY <1>1
  <2>2. body = <<m>> \o p
    BY DEF BodyOf, m
  <2>3. QED
    BY ONLY <1>1, <2>1, <2>2 DEF m
<1>3. sum \in Bytes /\ CheckSum(Append(body, sum)) = 0
  <2>1. 0 \in Bytes
    BY BytesAssumption
  <2> HIDE DEF body
  <2>2. sum \in Bytes
    BY <1>2, <2>1, CheckSumAppend
  <2>3. CheckSum(Append(body, sum)) = Xor(CheckSum(body), sum)
    BY <1>2, <2>2, CheckSumAppend
  <2>4. Xor(CheckSum(body), sum) = 0
    BY XorSelf
  <2>5. QED
    BY <2>2, <2>3, <2>4
<1>4. f = STX \o body \o <<sum>>
  BY DEF Framed, BodyOf, m
<1> HIDE DEF body, sum, f
<1>5. /\ f \in Seq(Bytes) /\ Len(f) = n
      /\ f[1] = STX[1] /\ f[2] = STX[2]
      /\ \A i \in 1 .. m + 1 : f[i + 2] = body[i]
      /\ f[n] = sum
  <2> DEFINE front == STX \o body
  <2>1. /\ front \in Seq(Bytes) /\ Len(front) = m + 3
        /\ front[1] = STX[1] /\ front[2] = STX[2]
        /\ \A i \in 1 .. m + 1 : front[i + 2] = body[i]
    <3>1. /\ STX \in Seq(Bytes) /\ Len(STX) = 2 /\ m \in Nat
          /\ body \in Seq(Bytes) /\ Len(body) = m + 1
      BY <1>1, <1>2
    <3> HIDE DEF front
    <3>2. /\ front \in Seq(Bytes) /\ Len(front) = Len(STX) + Len(body)
          /\ \A i \in 1 .. Len(STX) : front[i] = STX[i]
          /\ \A i \in 1 .. Len(body) : front[Len(STX) + i] = body[i]
      <4>1. STX \in Seq(Bytes) /\ body \in Seq(Bytes)
        BY <3>1
      <4>2. QED
        BY ONLY <4>1, Concatenated DEF front
    <3>3. Len(front) = m + 3 /\ 1 \in 1 .. Len(STX) /\ 2 \in 1 .. Len(STX)
      BY <3>1, <3>2
    <3>4. ASSUME NEW i \in 1 .. m + 1 PROVE front[i + 2] = body[i]
      <4>1. front[Len(STX) + i] = body[i]
        BY <3>1, <3>2
      <4>2. Len(STX) + i = i + 2
        BY <3>1
      <4>3. QED
        BY <4>1, <4>2
    <3>5. QED
      BY <3>2, <3>3, <3>4
  <2>2. f = front \o <<sum>>
    BY <1>4
  <2> HIDE DEF front
  <2>3. <<sum>> \in Seq(Bytes) /\ Len(<<sum>>) = 1 /\ <<sum>>[1] = sum
    BY <1>3
  <2>4. /\ f \in Seq(Bytes) /\ Len(f) = n /\ f[n] = sum
        /\ \A i \in 1 .. m + 3 : f[i] = front[i]
    BY ONLY <1>1, <2>1, <2>2, <2>3
  <2>5. 1 \in 1 .. m + 3 /\ 2 \in 1 .. m + 3 /\ \A i \in 1 .. m + 1 : i + 2 \in 1 .. m + 3
    BY <1>1
  <2>6. QED
    BY <2>1, <2>4, <2>5
<1>6. f[3] = m /\ \A i \in 1 .. m : f[i + 3] = p[i]
  <2>1. 1 \in 1 .. m + 1 /\ 1 + 2 = 3
        /\ \A i \in 1 .. m : i + 1 \in 1 .. m + 1 /\ i + 1 + 2 = i + 3
    BY <1>1
  <2>2. f[1 + 2] = body[1] /\ \A i \in 1 .. m : f[i + 1 + 2] = body[i + 1]
    BY <1>5, <2>1
  <2>3. QED
    BY <1>2, <2>1, <2>2
<1>7. SubSeq(f, 3, n) = Append(body, sum)
  <2> DEFINE t == SubSeq(f, 3, n)
             u == Append(body, sum)
  <2>1. t \in Seq(Bytes) /\ Len(t) = m + 2 /\ \A i \in 1 .. m + 2 : t[i] = f[i + 2]
    BY <1>1, <1>5
  <2>2. /\ u \in Seq(Bytes) /\ Len(u) = m + 2 /\ u[m + 2] = sum
        /\ \A i \in 1 .. m + 1 : u[i] = body[i]
    BY <1>1, <1>2, <1>3
  <2>3. \A i \in 1 .. m + 2 : i \in 1 .. m + 1 \/ (i = m + 2 /\ i + 2 = n)
    BY <1>1
  <2> HIDE DEF t, u
  <2>4. \A i \in 1 .. m + 2 : t[i] = u[i]
    BY <1>5, <2>1, <2>2, <2>3
  <2>5. t = u
    BY ONLY <2>1, <2>2, <2>4
  <2>6. QED
    BY <2>5 DEF t, u
<1>8. SubSeq(f, 4, n - 1) = p
  <2> DEFINE t == SubSeq(f, 4, n - 1)
  <2>1. t \in Seq(Bytes) /\ Len(t) = m /\ \A i \in 1 .. m : t[i] = f[i + 3]
    BY <1>1, <1>5
  <2> HIDE DEF t
  <2>2. Len(p) = m /\ \A i \in 1 .. m : t[i] = p[i]
    BY <1>6, <2>1 DEF m
  <2>3. t = p
    BY ONLY <1>1, <2>1, <2>2
  <2>4. QED
    BY <2>3 DEF t
<1>9. n \in Nat
  BY <1>1
<1>10. QED
  BY <1>1, <1>3, <1>5, <1>6, <1>7, <1>8, <1>9 DEF f, body, sum, m

\* The types of the finder; while it waits for the size it holds STX.
FinderInv ==
  /\ FinderTypeOK /\ disturbed \in Nat
  /\ finder = "size" => buffer = STX

LEMMA ReadKeepsTypes ==
  ASSUME FinderInv, NEW n \in 1 .. Len(line), ReadBytes(n)
  PROVE  FinderInv'
<1> DEFINE in == SubSeq(line, 1, n)
<1>1. /\ line \in Seq(Bytes) /\ buffer \in Seq(Bytes) /\ sizePayload \in Bytes
      /\ disturbed \in Nat /\ (finder = "size" => buffer = STX)
      /\ sent \in Payloads \cup {Nothing} /\ since \in 0 .. Recovery + 1
  BY DEF FinderInv, FinderTypeOK
<1>2. /\ in \in Seq(Bytes) /\ Len(in) = n /\ n \in Nat /\ n >= 1 /\ in[1] \in Bytes
      /\ SubSeq(line, n + 1, Len(line)) \in Seq(Bytes)
  BY <1>1
<1>3. line' \in Seq(Bytes) /\ UNCHANGED <<sent, since, disturbed>>
  BY <1>2 DEF ReadBytes
<1>4. WaitForStx(in) \/ WaitForPayloadSize(in) \/ WaitForPayloadAndEtx(in)
  BY DEF ReadBytes
<1> HIDE DEF in
<1>5. ASSUME NEW b \in Seq(Bytes)
      PROVE  /\ b \o in \in Seq(Bytes) /\ Len(b \o in) >= 1
             /\ (b \o in)[Len(b) + 1] = in[1]
  <2>1. /\ b \o in \in Seq(Bytes) /\ Len(b \o in) = Len(b) + Len(in)
        /\ \A i \in 1 .. Len(in) : (b \o in)[Len(b) + i] = in[i]
    <3>1. in \in Seq(Bytes)
      BY <1>2
    <3>2. QED
      BY ONLY <1>5, <3>1, Concatenated
  <2>2. 1 \in 1 .. Len(in) /\ Len(b) \in Nat
    BY <1>2
  <2>3. QED
    BY <1>2, <2>1, <2>2
<1>6. CASE WaitForStx(in)
  <2> DEFINE b == (IF finder = "clear" THEN <<>> ELSE buffer) \o in
  <2>1. /\ buffer' = StxKept(b) /\ finder' = (IF buffer' = STX THEN "size" ELSE "stx")
        /\ UNCHANGED sizePayload
    BY <1>6 DEF WaitForStx
  <2>2. b \in Seq(Bytes) /\ Len(b) >= 1
    <3>1. <<>> \in Seq(Bytes)
      OBVIOUS
    <3>2. QED
      BY <1>1, <1>5, <3>1
  <2> HIDE DEF b
  <2>3. StxKept(b) \in Seq(Bytes)
    BY <2>2 DEF StxKept
  <2>4. QED
    BY <1>1, <1>3, <2>1, <2>3 DEF FinderInv, FinderTypeOK, FinderStates
<1>7. CASE WaitForPayloadSize(in)
  <2>1. /\ finder' = "payload" /\ buffer' = STX \o in /\ sizePayload' = (STX \o in)[Len(STX) + 1]
    <3>1. /\ finder = "size" /\ finder' = "payload"
          /\ buffer' = buffer \o in /\ sizePayload' = buffer'[Len(STX) + 1]
      BY <1>7 DEF WaitForPayloadSize
    <3>2. buffer = STX
      BY <1>1, <3>1
    <3>3. QED
      BY ONLY <3>1, <3>2
  <2>2. STX \o in \in Seq(Bytes) /\ (STX \o in)[Len(STX) + 1] \in Bytes
    <3>1. STX \in Seq(Bytes)
      BY BytesAssumption
    <3>2. QED
      BY <1>2, <1>5, <3>1
  <2>3. QED
    BY <1>1, <1>3, <2>1, <2>2 DEF FinderInv, FinderTypeOK, FinderStates
<1>8. CASE WaitForPayloadAndEtx(in)
  <2>1. /\ finder' \in {"clear", "payload"} /\ buffer' = buffer \o in /\ UNCHANGED sizePayload
    BY <1>8 DEF WaitForPayloadAndEtx
  <2>2. QED
    BY <1>1, <1>3, <1>5, <2>1 DEF FinderInv, FinderTypeOK, FinderStates
<1>9. QED
  BY <1>4, <1>6, <1>7, <1>8

LEMMA FinderTypesStep ==
  ASSUME FinderInv, [FinderNext]_finderVars
  PROVE  FinderInv'
<1>1. /\ line \in Seq(Bytes) /\ buffer \in Seq(Bytes) /\ sizePayload \in Bytes
      /\ disturbed \in Nat /\ (finder = "size" => buffer = STX)
      /\ finder \in FinderStates /\ sent \in Payloads \cup {Nothing} /\ since \in 0 .. Recovery + 1
      /\ Recovery \in Nat
  BY FinderAssumption DEF FinderInv, FinderTypeOK
<1>2. ASSUME NEW p \in Payloads, RobotSends(p) \/ ReadLate(p) \/ Damaged(p)
      PROVE  FinderInv'
  <2>1. /\ sent' = p /\ UNCHANGED <<finder, buffer, sizePayload>>
        /\ disturbed' \in {disturbed, disturbed + 1}
        /\ since' = (IF since > Recovery THEN since ELSE since + 1) \/ since' = 0
    BY <1>2 DEF RobotSends, ReadLate, Damaged, Disturb, Calm
  <2>2. since' \in 0 .. Recovery + 1 /\ disturbed' \in Nat
    <3>1. since' \in 0 .. Recovery + 1
      BY <1>1, <2>1
    <3>2. disturbed' \in Nat
      BY <1>1, <2>1
    <3>3. QED
      BY <3>1, <3>2
  <2> DEFINE f == Framed(p)
  <2>3. f \in Seq(Bytes)
    BY FramedBytes
  <2>4. line' \in {f, line \o f} \/ \E i \in DOMAIN f : (\E b \in Bytes : line' = ReplaceAt(f, i, b))
                                                         \/ line' = RemoveAt(f, i)
    BY <1>2 DEF RobotSends, ReadLate, Damaged
  <2> HIDE DEF f
  <2>5. line' \in Seq(Bytes)
    <3>1. CASE line' \in {f, line \o f}
      BY <1>1, <2>3, <3>1, Concatenated
    <3>2. ASSUME NEW i \in DOMAIN f, NEW b \in Bytes, line' = ReplaceAt(f, i, b)
          PROVE  line' \in Seq(Bytes)
      BY <2>3, <3>2 DEF ReplaceAt
    <3>3. ASSUME NEW i \in DOMAIN f, line' = RemoveAt(f, i)
          PROVE  line' \in Seq(Bytes)
      <4>1. i \in 1 .. Len(f) /\ Len(f) \in Nat
        BY <2>3
      <4>2. SubSeq(f, 1, i - 1) \in Seq(Bytes) /\ SubSeq(f, i + 1, Len(f)) \in Seq(Bytes)
        BY <2>3, <4>1
      <4>3. QED
        BY <3>3, <4>2, Concatenated DEF RemoveAt
    <3>4. QED
      BY <2>4, <3>1, <3>2, <3>3
  <2>6. QED
    BY <1>1, <2>1, <2>2, <2>5 DEF FinderInv, FinderTypeOK
<1>3. ASSUME NEW n \in 1 .. Len(line), ReadBytes(n)
      PROVE  FinderInv'
  BY <1>3, ReadKeepsTypes
<1>4. CASE UNCHANGED finderVars
  BY <1>4 DEF finderVars, FinderInv, FinderTypeOK
<1>5. QED
  BY <1>2, <1>3, <1>4 DEF FinderNext

\* What remains of a sequence, cut once more.
LEMMA CutOn ==
  ASSUME NEW S, NEW f \in Seq(S), NEW k \in Nat, NEW n \in Nat, k + n <= Len(f)
  PROVE  LET rest == SubSeq(f, k + 1, Len(f))
         IN /\ rest \in Seq(S) /\ Len(rest) = Len(f) - k
            /\ SubSeq(rest, 1, n) = SubSeq(f, k + 1, k + n)
            /\ SubSeq(rest, n + 1, Len(rest)) = SubSeq(f, k + n + 1, Len(f))
            /\ SubSeq(f, 1, k) \o SubSeq(f, k + 1, k + n) = SubSeq(f, 1, k + n)
<1> DEFINE L == Len(f)
           rest == SubSeq(f, k + 1, L)
           in == SubSeq(f, k + 1, k + n)
           head == SubSeq(f, 1, k)
<1>1. L \in Nat
  OBVIOUS
<1>2. rest \in Seq(S) /\ Len(rest) = L - k /\ \A i \in 1 .. L - k : rest[i] = f[k + i]
  BY <1>1
<1>3. in \in Seq(S) /\ Len(in) = n /\ \A i \in 1 .. n : in[i] = f[k + i]
  BY <1>1
<1>4. head \in Seq(S) /\ Len(head) = k /\ \A i \in 1 .. k : head[i] = f[i]
  BY <1>1
<1> HIDE DEF rest, in, head
<1>5. SubSeq(rest, 1, n) = in
  <2> DEFINE a == SubSeq(rest, 1, n)
  <2>1. a \in Seq(S) /\ Len(a) = n /\ \A i \in 1 .. n : a[i] = rest[i]
    BY <1>1, <1>2
  <2>2. \A i \in 1 .. n : i \in 1 .. L - k
    BY <1>1
  <2> HIDE DEF a
  <2>3. \A i \in 1 .. n : a[i] = in[i]
    BY <1>2, <1>3, <2>1, <2>2
  <2>4. a = in
    BY ONLY <1>3, <2>1, <2>3
  <2>5. QED
    BY <2>4 DEF a
<1>6. SubSeq(rest, n + 1, Len(rest)) = SubSeq(f, k + n + 1, L)
  <2> DEFINE a == SubSeq(rest, n + 1, Len(rest))
             b == SubSeq(f, k + n + 1, L)
             m == L - k - n
  <2>1. a \in Seq(S) /\ Len(a) = m /\ \A i \in 1 .. m : a[i] = rest[n + i]
    BY <1>1, <1>2
  <2>2. b \in Seq(S) /\ Len(b) = m /\ \A i \in 1 .. m : b[i] = f[k + n + i]
    BY <1>1
  <2>3. \A i \in 1 .. m : n + i \in 1 .. L - k /\ k + (n + i) = k + n + i
    BY <1>1
  <2> HIDE DEF a, b, m
  <2>4. ASSUME NEW i \in 1 .. m PROVE a[i] = b[i]
    <3>1. a[i] = rest[n + i] /\ b[i] = f[k + n + i]
      BY ONLY <2>1, <2>2, <2>4
    <3>2. rest[n + i] = f[k + (n + i)] /\ k + (n + i) = k + n + i
      BY ONLY <1>2, <2>3, <2>4
    <3>3. QED
      BY ONLY <3>1, <3>2
  <2>5. a = b
    BY ONLY <2>1, <2>2, <2>4
  <2>6. QED
    BY <2>5 DEF a, b
<1>7. head \o in = SubSeq(f, 1, k + n)
  <2> DEFINE a == head \o in
             b == SubSeq(f, 1, k + n)
  <2>1. /\ a \in Seq(S) /\ Len(a) = k + n
        /\ \A i \in 1 .. k : a[i] = head[i]
        /\ \A i \in 1 .. n : a[k + i] = in[i]
    <3>1. head \in Seq(S) /\ in \in Seq(S)
      BY <1>3, <1>4
    <3>2. /\ a \in Seq(S) /\ Len(a) = Len(head) + Len(in)
          /\ \A i \in 1 .. Len(head) : a[i] = head[i]
          /\ \A i \in 1 .. Len(in) : a[Len(head) + i] = in[i]
      BY <3>1, Concatenated
    <3> HIDE DEF a
    <3>3. QED
      BY <1>3, <1>4, <3>2
  <2>2. b \in Seq(S) /\ Len(b) = k + n /\ \A i \in 1 .. k + n : b[i] = f[i]
    BY <1>1
  <2> HIDE DEF a, b
  <2>3. ASSUME NEW i \in 1 .. k + n PROVE a[i] = b[i]
    <3>1. CASE i <= k
      BY <1>4, <2>1, <2>2, <3>1
    <3>2. CASE ~(i <= k)
      <4>1. i - k \in 1 .. n /\ k + (i - k) = i
        BY <3>2
      <4>2. QED
        BY <1>3, <2>1, <2>2, <4>1
    <3>3. QED
      BY <3>1, <3>2
  <2>4. a = b
    BY ONLY <2>1, <2>2, <2>3
  <2>5. QED
    BY <2>4 DEF a, b
<1>8. QED
  BY <1>2, <1>5, <1>6, <1>7 DEF rest, in, head

LEMMA SameSequence ==
  ASSUME NEW S, NEW s \in Seq(S), NEW t \in Seq(S), Len(s) = Len(t),
         \A i \in 1 .. Len(s) : s[i] = t[i]
  PROVE  s = t
OBVIOUS

LEMMA FirstOf ==
  ASSUME NEW S, NEW s \in Seq(S), 1 <= Len(s)
  PROVE  /\ SubSeq(s, 1, 1) \in Seq(S) /\ Len(SubSeq(s, 1, 1)) = 1
         /\ SubSeq(s, 1, 1)[1] = s[1]
OBVIOUS

LEMMA NothingLeft ==
  ASSUME NEW S, NEW f \in Seq(S), NEW k \in 0 .. Len(f), SubSeq(f, k + 1, Len(f)) = <<>>
  PROVE  k = Len(f)
<1> DEFINE t == SubSeq(f, k + 1, Len(f))
<1>1. Len(f) \in Nat /\ Len(t) = Len(f) - k
  OBVIOUS
<1>2. t = <<>> /\ Len(<<>>) = 0
  OBVIOUS
<1> HIDE DEF t
<1>3. Len(t) = 0
  BY <1>2
<1>4. QED
  BY <1>1, <1>3

\* After k bytes of the packet f with the payload p the finder stands where they
\* lead, and has found the payload with the last one.
AtByte(k, f, p) ==
  /\ line = SubSeq(f, k + 1, Len(f))
  /\ k <= 1 => (finder = "stx" /\ buffer = SubSeq(f, 1, k)) \/ (finder = "clear" /\ k = 0)
  /\ k = 2 => finder = "size" /\ buffer = STX
  /\ k >= 3 /\ k < Len(f) => /\ finder = "payload" /\ buffer = SubSeq(f, 1, k)
                             /\ sizePayload = Len(p)
  /\ k = Len(f) => finder = "clear" /\ got = p

InFrame ==
  disturbed = 0 =>
    \/ line = <<>> /\ finder = "stx" /\ buffer = <<>> /\ got = sent
    \/ sent \in Payloads /\ \E k \in 0 .. Len(Framed(sent)) : AtByte(k, Framed(sent), sent)

\* What was found of the packets that came undisturbed.
UndisturbedFound == disturbed = 0 /\ line = <<>> => got = sent

LEMMA InFrameFound ==
  ASSUME InFrame PROVE UndisturbedFound
<1> SUFFICES ASSUME disturbed = 0, line = <<>>, sent \in Payloads,
                    NEW k \in 0 .. Len(Framed(sent)), AtByte(k, Framed(sent), sent)
             PROVE  got = sent
  BY DEF InFrame, UndisturbedFound
<1> DEFINE f == Framed(sent)
<1>1. f \in Seq(Bytes) /\ Len(f) \in Nat
  BY FramedBytes
<1>2. <<>> = SubSeq(f, k + 1, Len(f))
  BY DEF AtByte
<1>3. k = Len(f)
  <2>1. k \in 0 .. Len(f)
    OBVIOUS
  <2> HIDE DEF f
  <2>2. QED
    BY <1>1, <1>2, <2>1, NothingLeft
<1>4. QED
  BY <1>3 DEF AtByte

\* A packet comes when the one before it was read.
LEMMA SentInFrame ==
  ASSUME FinderInv, InFrame, NEW p \in Payloads, RobotSends(p)
  PROVE  InFrame'
<1> SUFFICES ASSUME disturbed = 0 PROVE \E k \in 0 .. Len(Framed(p)) : AtByte(k, Framed(p), p)'
  BY DEF InFrame, RobotSends
<1> DEFINE f == Framed(p)
<1>1. /\ line = <<>> /\ line' = f /\ UNCHANGED <<finder, buffer, sizePayload>>
  BY DEF RobotSends
<1>2. f \in Seq(Bytes) /\ Len(f) \in Nat /\ Len(f) >= 4
  BY FramedBytes
<1>3. (finder = "stx" /\ buffer = <<>>) \/ finder = "clear"
  <2> SUFFICES ASSUME sent \in Payloads, NEW k \in 0 .. Len(Framed(sent)),
                      AtByte(k, Framed(sent), sent)
               PROVE  finder = "clear"
    BY DEF InFrame
  <2> DEFINE g == Framed(sent)
  <2>1. g \in Seq(Bytes) /\ Len(g) \in Nat
    BY FramedBytes
  <2>2. <<>> = SubSeq(g, k + 1, Len(g))
    BY <1>1 DEF AtByte
  <2>3. k = Len(g)
    <3>1. k \in 0 .. Len(g)
      OBVIOUS
    <3> HIDE DEF g
    <3>2. QED
      BY <2>1, <2>2, <3>1, NothingLeft
  <2>4. QED
    BY <2>3 DEF AtByte
<1> HIDE DEF f
<1>4. SubSeq(f, 0 + 1, Len(f)) = f /\ SubSeq(f, 1, 0) = <<>>
  BY <1>2
<1>5. 0 \in 0 .. Len(f) /\ ~(0 >= 3) /\ 0 # 2 /\ 0 # Len(f)
  BY <1>2
<1>6. AtByte(0, f, p)'
  BY <1>1, <1>3, <1>4, <1>5 DEF AtByte
<1>7. QED
  BY <1>5, <1>6 DEF f

\* A read goes on in the packet by as many bytes as it brought.
LEMMA ReadAtByte ==
  ASSUME FinderInv, NEW n \in 1 .. Len(line), ReadBytes(n), NEW p \in Payloads,
         NEW k \in 0 .. Len(Framed(p)), AtByte(k, Framed(p), p)
  PROVE  k + n \in 0 .. Len(Framed(p)) /\ AtByte(k + n, Framed(p), p)'
<1>1. line \in Seq(Bytes) /\ n \in Nat /\ n >= 1 /\ line # <<>> /\ Len(line) >= 1
  BY DEF FinderInv, FinderTypeOK
<1>2. /\ line' = SubSeq(line, n + 1, Len(line))
      /\ n <= Len(line) /\ n <= NumberOfDataToRead
  BY DEF ReadBytes
<1> DEFINE f == Framed(p)
           L == Len(f)
           in == SubSeq(f, k + 1, k + n)
<1>3. /\ f \in Seq(Bytes) /\ L \in Nat /\ Len(p) \in Nat /\ L = Len(p) + 4
      /\ f[1] = STX[1] /\ f[2] = STX[2] /\ f[3] = Len(p)
      /\ CheckSum(SubSeq(f, 3, L)) = 0 /\ SubSeq(f, 4, L - 1) = p
  BY FramedBytes
<1>4. STX \in Seq(Bytes) /\ Len(STX) = 2
  BY FinderAssumption, BytesAssumption
<1>5. AtByte(k, f, p) /\ k \in 0 .. L
  OBVIOUS
<1> SUFFICES k + n \in 0 .. L /\ AtByte(k + n, f, p)'
  OBVIOUS
<1> HIDE DEF f
<1>6. k \in Nat /\ k + n \in 0 .. L /\ k + n <= L /\ k < L
  <2>1. line = SubSeq(f, k + 1, L)
    BY <1>5 DEF AtByte
  <2>2. k \in Nat /\ Len(SubSeq(f, k + 1, L)) = L - k
    BY <1>3, <1>5
  <2>3. Len(line) = L - k
    BY <2>1, <2>2
  <2>4. QED
    BY <1>1, <1>2, <1>3, <2>2, <2>3
<1>7. /\ line' = SubSeq(f, k + n + 1, L) /\ SubSeq(line, 1, n) = in
      /\ SubSeq(f, 1, k) \o in = SubSeq(f, 1, k + n)
  <2>1. line = SubSeq(f, k + 1, L)
    BY <1>5 DEF AtByte
  <2>2. /\ SubSeq(line, 1, n) = SubSeq(f, k + 1, k + n)
        /\ SubSeq(line, n + 1, Len(line)) = SubSeq(f, k + n + 1, L)
        /\ SubSeq(f, 1, k) \o SubSeq(f, k + 1, k + n) = SubSeq(f, 1, k + n)
    <3>1. f \in Seq(Bytes) /\ k \in Nat /\ n \in Nat /\ k + n <= Len(f)
      BY <1>1, <1>3, <1>6
    <3>2. LET rest == SubSeq(f, k + 1, Len(f))
          IN /\ SubSeq(rest, 1, n) = SubSeq(f, k + 1, k + n)
             /\ SubSeq(rest, n + 1, Len(rest)) = SubSeq(f, k + n + 1, Len(f))
             /\ SubSeq(f, 1, k) \o SubSeq(f, k + 1, k + n) = SubSeq(f, 1, k + n)
      BY ONLY <3>1, CutOn
    <3>3. QED
      BY <2>1, <3>2
  <2>3. QED
    BY <1>2, <2>2
<1>8. WaitForStx(in) \/ WaitForPayloadSize(in) \/ WaitForPayloadAndEtx(in)
  BY <1>7 DEF ReadBytes
<1> DEFINE next == SubSeq(f, 1, k + n)
<1>9. /\ next \in Seq(Bytes) /\ Len(next) = k + n
      /\ \A i \in 1 .. k + n : next[i] = f[i]
  BY <1>1, <1>3, <1>6
<1>10. k <= 1 => n = 1 /\ WaitForStx(in) /\ buffer' = StxKept(next)
  <2> SUFFICES ASSUME k <= 1 PROVE n = 1 /\ WaitForStx(in) /\ buffer' = StxKept(next)
    OBVIOUS
  <2>1. (finder = "stx" /\ buffer = SubSeq(f, 1, k)) \/ (finder = "clear" /\ k = 0)
    BY <1>5 DEF AtByte
  <2>2. WaitForStx(in)
    BY <1>8, <2>1 DEF WaitForPayloadSize, WaitForPayloadAndEtx
  <2>3. n = 1
    BY <1>1, <1>2, <2>1 DEF NumberOfDataToRead
  <2>4. SubSeq(f, 1, k) = <<>> \/ k # 0
    BY <1>3
  <2>5. (IF finder = "clear" THEN <<>> ELSE buffer) = SubSeq(f, 1, k)
    BY <2>1, <2>4
  <2>6. buffer' = StxKept(SubSeq(f, 1, k) \o in)
    BY <2>2, <2>5 DEF WaitForStx
  <2>7. QED
    BY <1>7, <2>2, <2>3, <2>6
<1> HIDE DEF next, in
<1>11. CASE k = 0
  <2>1. n = 1 /\ WaitForStx(in) /\ buffer' = StxKept(next) /\ k + n = 1
    BY <1>10, <1>11
  <2>2. next = SubSeq(STX, 1, 1) /\ Len(next) = 1
    <3> DEFINE t == SubSeq(STX, 1, 1)
    <3>1. t \in Seq(Bytes) /\ Len(t) = 1 /\ t[1] = STX[1]
      <4>1. 1 \in Nat /\ 1 <= Len(STX) /\ STX \in Seq(Bytes)
        BY <1>4
      <4>2. QED
        BY ONLY <4>1, FirstOf
    <3> HIDE DEF t
    <3>2. Len(next) = 1 /\ next[1] = STX[1]
      BY <1>3, <1>9, <2>1
    <3>3. \A i \in 1 .. Len(next) : next[i] = t[i]
      BY <3>1, <3>2
    <3>4. next = t
      BY <1>9, <3>1, <3>2, <3>3, SameSequence
    <3>5. QED
      BY <3>2, <3>4 DEF t
  <2>3. buffer' = next /\ buffer' # STX
    <3>1. StxKept(next) = next
      <4>1. next = SubSeq(STX, 1, Len(next))
        BY <2>2
      <4>2. QED
        BY ONLY <4>1 DEF StxKept
    <3>2. next # STX
      <4>1. Len(next) # Len(STX)
        BY <1>4, <2>2
      <4>2. QED
        BY ONLY <4>1
    <3>3. QED
      BY <2>1, <3>1, <3>2
  <2>4. finder' = "stx"
    BY <2>1, <2>3 DEF WaitForStx
  <2>5. 1 # 2 /\ ~(1 >= 3) /\ L # 1 /\ 1 <= 1
    BY <1>3
  <2>6. QED
    BY <1>6, <1>7, <2>1, <2>3, <2>4, <2>5 DEF AtByte, next
<1>12. CASE k = 1
  <2>1. n = 1 /\ WaitForStx(in) /\ buffer' = StxKept(next) /\ k + n = 2
    BY <1>10, <1>12
  <2>2. next = STX
    <3>1. Len(next) = 2 /\ next[1] = STX[1] /\ next[2] = STX[2]
      BY <1>3, <1>9, <2>1
    <3>2. \A i \in 1 .. 2 : next[i] = STX[i]
      BY <3>1
    <3>3. QED
      BY <1>4, <1>9, <3>1, <3>2
  <2>3. StxKept(STX) = STX
    <3>1. SubSeq(STX, 1, Len(STX)) = STX
      BY <1>4
    <3>2. QED
      BY <3>1 DEF StxKept
  <2>4. finder' = "size" /\ buffer' = STX
    BY <2>1, <2>2, <2>3 DEF WaitForStx
  <2>5. ~(2 <= 1) /\ ~(2 >= 3) /\ L # 2
    BY <1>3
  <2>6. QED
    BY <1>6, <1>7, <2>1, <2>4, <2>5 DEF AtByte
<1>13. CASE k = 2
  <2>1. finder = "size" /\ buffer = STX
    BY <1>5, <1>13 DEF AtByte
  <2>2. n = 1 /\ k + n = 3
    BY <1>1, <1>2, <1>13, <2>1 DEF NumberOfDataToRead
  <2>3. WaitForPayloadSize(in)
    BY <1>8, <2>1 DEF WaitForStx, WaitForPayloadAndEtx
  <2>4. SubSeq(f, 1, 2) = STX
    <3>1. SubSeq(f, 1, 2) \in Seq(Bytes) /\ Len(SubSeq(f, 1, 2)) = 2
          /\ SubSeq(f, 1, 2)[1] = f[1] /\ SubSeq(f, 1, 2)[2] = f[2]
      BY <1>3
    <3>2. \A i \in 1 .. 2 : SubSeq(f, 1, 2)[i] = STX[i]
      BY <1>3, <3>1
    <3>3. QED
      BY <1>4, <3>1, <3>2
  <2>5. finder' = "payload" /\ buffer' = next /\ sizePayload' = next[3]
    <3>1. STX \o in = next
      BY <1>7, <1>13, <2>4 DEF next
    <3>2. Len(STX) + 1 = 3
      BY <1>4
    <3>3. /\ finder' = "payload" /\ buffer' = STX \o in
          /\ sizePayload' = buffer'[Len(STX) + 1]
      BY <2>1, <2>3 DEF WaitForPayloadSize
    <3>4. QED
      BY <3>1, <3>2, <3>3
  <2>6. sizePayload' = Len(p)
    BY <1>3, <1>9, <2>2, <2>5
  <2>7. ~(3 <= 1) /\ 3 # 2 /\ 3 # L
    BY <1>3
  <2>8. QED
    BY <1>2, <1>6, <1>7, <2>2, <2>5, <2>6, <2>7 DEF AtByte, next
<1>14. CASE k >= 3
  <2>1. finder = "payload" /\ buffer = SubSeq(f, 1, k) /\ sizePayload = Len(p)
    BY <1>5, <1>6, <1>14 DEF AtByte
  <2>2. WaitForPayloadAndEtx(in)
    BY <1>8, <2>1 DEF WaitForStx, WaitForPayloadSize
  <2>3. /\ buffer' = next /\ UNCHANGED sizePayload
        /\ LET enough == Len(next) >= Len(STX) + 2 + sizePayload
               valid  == CheckSum(SubSeq(next, Len(STX) + 1, Len(next))) = 0
           IN /\ finder' = IF enough THEN "clear" ELSE "payload"
              /\ got' = IF enough /\ valid THEN GetPayload(next) ELSE got
    <3>1. buffer' = next
      BY <1>7, <2>1, <2>2 DEF WaitForPayloadAndEtx, next
    <3>2. QED
      BY <2>2, <3>1 DEF WaitForPayloadAndEtx
  <2>4. Len(next) >= Len(STX) + 2 + sizePayload <=> k + n = L
    BY <1>3, <1>4, <1>6, <1>9, <2>1
  <2>5. k + n >= 3 /\ ~(k + n <= 1) /\ k + n # 2
    BY <1>1, <1>6, <1>14
  <2>6. CASE k + n < L
    <3>1. finder' = "payload"
      BY <1>3, <1>6, <2>3, <2>4, <2>6
    <3>2. k + n # L
      BY <1>3, <1>6, <2>6
    <3>3. QED
      BY <1>2, <1>6, <1>7, <2>1, <2>3, <2>5, <3>1, <3>2 DEF AtByte, next
  <2>7. CASE k + n = L
    <3>1. next = f
      BY <1>3, <2>7 DEF next
    <3>2. CheckSum(SubSeq(next, Len(STX) + 1, Len(next))) = 0
      <4>1. Len(STX) + 1 = 3
        BY <1>4
      <4>2. QED
        BY <1>3, <3>1, <4>1
    <3>3. GetPayload(next) = p
      <4>1. Len(STX) + 2 = 4
        BY <1>4
      <4>2. QED
        BY <1>3, <3>1, <4>1 DEF GetPayload
    <3>4. finder' = "clear" /\ got' = p
      BY <2>3, <2>4, <2>7, <3>2, <3>3
    <3>5. ~(k + n < L)
      BY <1>3, <2>7
    <3>6. QED
      BY <1>2, <1>6, <1>7, <2>5, <2>7, <3>4, <3>5 DEF AtByte
  <2>8. QED
    BY <1>3, <1>6, <2>6, <2>7
<1>15. QED
  BY <1>6, <1>11, <1>12, <1>13, <1>14

LEMMA ReadInFrame ==
  ASSUME FinderInv, InFrame, NEW n \in 1 .. Len(line), ReadBytes(n)
  PROVE  InFrame'
<1>1. line # <<>> /\ UNCHANGED <<sent, disturbed>>
  BY DEF ReadBytes, FinderInv, FinderTypeOK
<1> SUFFICES ASSUME disturbed = 0, sent \in Payloads, NEW k \in 0 .. Len(Framed(sent)),
                    AtByte(k, Framed(sent), sent)
             PROVE  \E j \in 0 .. Len(Framed(sent)) : AtByte(j, Framed(sent), sent)'
  BY <1>1 DEF InFrame
<1> DEFINE Reads(p) == \A i \in 0 .. Len(Framed(p)) :
                         AtByte(i, Framed(p), p)
                         => i + n \in 0 .. Len(Framed(p)) /\ AtByte(i + n, Framed(p), p)'
<1>2. \A p \in Payloads : Reads(p)
  BY ReadAtByte
<1>3. QED
  BY <1>1, <1>2

LEMMA InFrameStep ==
  ASSUME FinderInv, InFrame, [FinderNext]_finderVars
  PROVE  InFrame'
<1>1. ASSUME NEW p \in Payloads, RobotSends(p) PROVE InFrame'
  BY <1>1, SentInFrame
<1>2. ASSUME NEW p \in Payloads, ReadLate(p) \/ Damaged(p) PROVE InFrame'
  <2>1. disturbed \in Nat /\ disturbed' = disturbed + 1
    BY <1>2 DEF FinderInv, ReadLate, Damaged, Disturb
  <2>2. disturbed' # 0
    BY <2>1
  <2>3. QED
    BY <2>2 DEF InFrame
<1>3. ASSUME NEW n \in 1 .. Len(line), ReadBytes(n) PROVE InFrame'
  BY <1>3, ReadInFrame
<1>4. CASE UNCHANGED finderVars
  BY <1>4 DEF finderVars, InFrame, AtByte
<1>5. QED
  BY <1>1, <1>2, <1>3, <1>4 DEF FinderNext

LEMMA FinderStart == FinderInit => FinderInv /\ InFrame
<1> SUFFICES ASSUME FinderInit PROVE FinderInv /\ InFrame
  OBVIOUS
<1>1. <<>> \in Seq(Bytes) /\ 0 \in Bytes /\ Recovery \in Nat
  BY FinderAssumption, BytesAssumption
<1>2. FinderInv
  BY <1>1 DEF FinderInit, FinderInv, FinderTypeOK, FinderStates
<1>3. InFrame
  BY DEF FinderInit, InFrame
<1>4. QED
  BY <1>2, <1>3

\* As long as nothing was damaged and no read came late, every packet is found
\* as it was sent, for any payloads, also those that hold STX, whatever number
\* of bytes each read brings (packet_finder.cpp:131).
THEOREM UndisturbedIsFound == CoreSpec => []UndisturbedFound
<1>1. CoreInit => FinderInv /\ InFrame
  BY FinderStart DEF CoreInit
<1>2. FinderInv /\ InFrame /\ [CoreNext]_coreVars => (FinderInv /\ InFrame)'
  BY PartsAlone, FinderTypesStep, InFrameStep
<1>3. InFrame => UndisturbedFound
  BY InFrameFound
<1>4. QED
  BY <1>1, <1>2, <1>3, PTL DEF CoreSpec


----------------------------------------------------------------------------
(* The types of the other parts. *)

LEMMA EncoderStep ==
  ASSUME OdometryTypeOK, [OdometryNext]_odometryVars
  PROVE  OdometryTypeOK'
<1>1. Modulus \in Nat \ {0} /\ 0 \in 0 .. Modulus - 1
  BY OdometryAssumption
<1>2. Zero \in [Wheels -> 0 .. Modulus - 1]
  BY <1>1 DEF Zero
<1>3. ASSUME NEW w \in Wheels, NEW d \in {-1, 1}, Roll(w, d) PROVE OdometryTypeOK'
  <2>1. encoder' = [encoder EXCEPT ![w] = (encoder[w] + d) % Modulus]
    BY <1>3 DEF Roll
  <2>2. (encoder[w] + d) % Modulus \in 0 .. Modulus - 1
    <3>1. encoder[w] + d \in Int
      BY <1>1 DEF OdometryTypeOK
    <3>2. QED
      BY <1>1, <3>1
  <2>3. encoder' \in [Wheels -> 0 .. Modulus - 1]
    BY <2>1, <2>2 DEF OdometryTypeOK
  <2>4. QED
    BY <1>3, <2>3 DEF Roll, OdometryTypeOK
<1>4. CASE SwitchedOffAndOn
  BY <1>2, <1>4 DEF SwitchedOffAndOn, OdometryTypeOK
<1>5. ASSUME NEW fresh \in BOOLEAN, Stream(fresh) PROVE OdometryTypeOK'
  BY <1>5 DEF Stream, OdometryTypeOK
<1>6. CASE UpdateWheels
  BY <1>6 DEF UpdateWheels, OdometryTypeOK
<1>7. CASE ReadJoints \/ ExtendPose \/ StorePose \/ PublishOdometry
  BY <1>7 DEF ReadJoints, ExtendPose, StorePose, PublishOdometry, OdometryTypeOK
<1>8. CASE ResetPose \/ ResetWheels
  BY <1>8 DEF ResetPose, ResetWheels, OdometryTypeOK
<1>9. CASE UNCHANGED odometryVars
  BY <1>9 DEF odometryVars, OdometryTypeOK
<1>10. QED
  BY <1>3, <1>4, <1>5, <1>6, <1>7, <1>8, <1>9 DEF OdometryNext

LEMMA EncoderStart == OdometryInit => OdometryTypeOK
<1>1. Modulus \in Nat \ {0}
  BY OdometryAssumption
<1>2. 0 \in 0 .. Modulus - 1 /\ Modulus - 1 \in 0 .. Modulus - 1
  BY <1>1
<1>3. QED
  BY <1>2 DEF OdometryInit, OdometryTypeOK, Zero

\* The outputs are bits of the word.
LEMMA WordStep ==
  ASSUME gpOut \subseteq 0 .. 15, [PinsNext]_pinVars
  PROVE  gpOut' \subseteq 0 .. 15
<1>1. Pins \subseteq 0 .. 3 /\ Colours \subseteq SUBSET {8, 9}
  BY PinsAssumption
<1>2. ASSUME NEW number \in 1 .. 2, NEW c \in Colours, SetLed(number, c)
      PROVE  gpOut' \subseteq 0 .. 15
  <2>1. c \subseteq {8, 9} /\ Shift(c, 2) \subseteq {10, 11}
    <3>1. c \subseteq {8, 9}
      BY <1>1
    <3>2. \A b \in c : b + 2 \in {10, 11}
      BY <3>1
    <3>3. QED
      BY <3>1, <3>2 DEF Shift
  <2>2. gpOut' = (gpOut \ {8, 9}) \cup c \/ gpOut' = (gpOut \ {10, 11}) \cup Shift(c, 2)
    BY <1>2 DEF SetLed, Transmit
  <2>3. {8, 9} \subseteq 0 .. 15 /\ {10, 11} \subseteq 0 .. 15
    OBVIOUS
  <2> QED
    BY ONLY gpOut \subseteq 0 .. 15, <2>1, <2>2, <2>3
<1>3. ASSUME NEW values, NEW mask \in SUBSET (0 .. 3), NEW base \in {0, 4}
      PROVE  Overlay(gpOut, base, values, mask) \subseteq 0 .. 15
  <2>1. \A b \in 0 .. 3 : b + base \in 0 .. 15
    OBVIOUS
  <2>2. QED
    BY <2>1 DEF Overlay, Shift
<1>4. ASSUME NEW values \in SUBSET Pins, NEW mask \in SUBSET Pins, SetDigitalOutput(values, mask)
      PROVE  gpOut' \subseteq 0 .. 15
  <2>1. gpOut' = Overlay(gpOut, 0, values, mask) /\ mask \in SUBSET (0 .. 3)
    BY <1>1, <1>4 DEF SetDigitalOutput, Transmit
  <2>2. QED
    BY <2>1, <1>3
<1>5. ASSUME NEW source \in Pins, NEW on \in BOOLEAN, SetExternalPower(source, on)
      PROVE  gpOut' \subseteq 0 .. 15
  <2>1. /\ gpOut' = Overlay(gpOut, 4, IF on THEN {source} ELSE {}, {source})
        /\ {source} \in SUBSET (0 .. 3)
    BY <1>1, <1>5 DEF SetExternalPower, Transmit
  <2>2. QED
    BY <2>1, <1>3
<1>6. CASE Reach \/ UNCHANGED pinVars
  BY <1>6 DEF Reach, pinVars
<1>7. QED
  BY <1>2, <1>4, <1>5, <1>6 DEF PinsNext

DockFields == {"isEnabled", "canRun", "state", "vel", "past", "bumpRemainder", "stabilizer",
               "detector", "rotated"}

DockTypes(d) ==
  /\ DOMAIN d = DockFields
  /\ d.state \in DockStates /\ d.past \in Seq(Signals) /\ Len(d.past) < Window
  /\ d.bumpRemainder \in 0 .. BumpSteps /\ d.stabilizer \in 0 .. Contacts

Slow(vel) == vel.v \in -50 .. 500 /\ vel.w \in -330 .. 660

LEMMA ToTypes ==
  ASSUME NEW d, DockTypes(d), NEW state \in DockStates, NEW v \in -50 .. 500,
         NEW w \in -330 .. 660
  PROVE  DockTypes(To(d, state, v, w)) /\ Slow(To(d, state, v, w).vel)
BY DEF DockTypes, DockFields, To, Vel, Slow

LEMMA FieldTypes ==
  ASSUME NEW d, DockTypes(d)
  PROVE  /\ DockTypes(Off(d)) /\ Off(d).vel = d.vel /\ DockTypes(On(d)) /\ DockTypes(Forget(d))
         /\ DockTypes(Idled(d)) /\ On(d).vel = d.vel /\ Idled(d).vel = d.vel
         /\ \A x : /\ DockTypes([d EXCEPT !.detector = x]) /\ DockTypes([d EXCEPT !.rotated = x])
                   /\ DockTypes([d EXCEPT !.vel = x]) /\ DockTypes([d EXCEPT !.canRun = x])
         /\ \A x \in 0 .. BumpSteps : DockTypes([d EXCEPT !.bumpRemainder = x])
         /\ \A x \in 0 .. Contacts : DockTypes([d EXCEPT !.stabilizer = x])
         /\ \A x \in Seq(Signals) : Len(x) < Window => DockTypes([d EXCEPT !.past = x])
<1> USE DEF DockTypes, DockFields
<1>1. DockTypes(Off(d)) /\ Off(d).vel = d.vel /\ DockTypes(On(d)) /\ On(d).vel = d.vel
  BY DEF Off, On
<1>2. DockTypes(Forget(d)) /\ DockTypes(Idled(d)) /\ Idled(d).vel = d.vel
  BY DEF Forget, Idled, DockStates
<1>3. \A x : /\ DockTypes([d EXCEPT !.detector = x]) /\ DockTypes([d EXCEPT !.rotated = x])
             /\ DockTypes([d EXCEPT !.vel = x]) /\ DockTypes([d EXCEPT !.canRun = x])
  OBVIOUS
<1>4. \A x \in 0 .. BumpSteps : DockTypes([d EXCEPT !.bumpRemainder = x])
  OBVIOUS
<1>5. \A x \in 0 .. Contacts : DockTypes([d EXCEPT !.stabilizer = x])
  OBVIOUS
<1>6. \A x \in Seq(Signals) : Len(x) < Window => DockTypes([d EXCEPT !.past = x])
  OBVIOUS
<1>7. QED
  BY <1>1, <1>2, <1>3, <1>4, <1>5, <1>6

LEMMA BumpTypes ==
  ASSUME NEW d, DockTypes(d), NEW bumper \in BOOLEAN, NEW charger \in BOOLEAN
  PROVE  LET e == BumpOrCharge(d, bumper, charger) IN DockTypes(e) /\ Slow(e.vel)
<1>1. /\ 0 \in 0 .. BumpSteps /\ 0 \in 0 .. Contacts /\ d.stabilizer \in 0 .. Contacts
      /\ Contacts \in Nat
  BY DockAssumption DEF DockTypes
<1>2. {"BUMPED_DOCK", "DONE", "DOCKED_IN", "BUMPED"} \subseteq DockStates
      /\ {-10, 0, -50} \subseteq -50 .. 500 /\ 0 \in -330 .. 660
  BY DEF DockStates
<1>3. DockTypes(To(d, "BUMPED_DOCK", -10, 0)) /\ Slow(To(d, "BUMPED_DOCK", -10, 0).vel)
  BY <1>2, ToTypes
<1>4. LET e == Off(To([d EXCEPT !.stabilizer = 0], "DONE", 0, 0)) IN DockTypes(e) /\ Slow(e.vel)
  <2> DEFINE a == [d EXCEPT !.stabilizer = 0]
             b == To(a, "DONE", 0, 0)
  <2>1. DockTypes(a)
    BY <1>1, FieldTypes
  <2> HIDE DEF a
  <2>2. DockTypes(b) /\ Slow(b.vel)
    BY <1>2, <2>1, ToTypes
  <2> HIDE DEF b
  <2>3. DockTypes(Off(b)) /\ Slow(Off(b).vel)
    BY <2>2, FieldTypes
  <2>4. QED
    BY <2>3 DEF a, b
<1>5. d.stabilizer + 1 <= Contacts
      => LET e == To([d EXCEPT !.stabilizer = @ + 1], "DOCKED_IN", 0, 0)
         IN DockTypes(e) /\ Slow(e.vel)
  <2> SUFFICES ASSUME d.stabilizer + 1 <= Contacts
               PROVE  LET e == To([d EXCEPT !.stabilizer = @ + 1], "DOCKED_IN", 0, 0)
                      IN DockTypes(e) /\ Slow(e.vel)
    OBVIOUS
  <2> DEFINE a == [d EXCEPT !.stabilizer = @ + 1]
  <2>1. d.stabilizer + 1 \in 0 .. Contacts
    BY <1>1
  <2>2. DockTypes(a)
    BY <2>1, FieldTypes
  <2> HIDE DEF a
  <2>3. DockTypes(To(a, "DOCKED_IN", 0, 0)) /\ Slow(To(a, "DOCKED_IN", 0, 0).vel)
    BY <1>2, <2>2, ToTypes
  <2>4. QED
    BY <2>3 DEF a
<1>6. LET e == To([d EXCEPT !.bumpRemainder = 0], "BUMPED", -50, 0) IN DockTypes(e) /\ Slow(e.vel)
  <2> DEFINE a == [d EXCEPT !.bumpRemainder = 0]
  <2>1. DockTypes(a)
    BY <1>1, FieldTypes
  <2> HIDE DEF a
  <2>2. DockTypes(To(a, "BUMPED", -50, 0)) /\ Slow(To(a, "BUMPED", -50, 0).vel)
    BY <1>2, <2>1, ToTypes
  <2>3. QED
    BY <2>2 DEF a
<1>7. ~(d.stabilizer + 1 > Contacts) => d.stabilizer + 1 <= Contacts
  BY <1>1
<1>8. QED
  BY <1>3, <1>4, <1>5, <1>6, <1>7 DEF BumpOrCharge

LEMMA SteerTypes ==
  ASSUME NEW d, DockTypes(d), NEW seen, NEW turn
  PROVE  LET e == Steer(d, seen, turn) IN DockTypes(e) /\ Slow(e.vel)
<1> DEFINE Good(e) == DockTypes(e) /\ Slow(e.vel)
<1>1. /\ {0, 50, 100, 500, -50} \subseteq -50 .. 500
      /\ {0, 100, -100, 300, -300, 330, -330, 660} \subseteq -330 .. 660
  OBVIOUS
<1>2. ASSUME NEW e, DockTypes(e), NEW state \in DockStates,
             NEW v \in {0, 50, 100, 500, -50},
             NEW w \in {0, 100, -100, 300, -300, 330, -330, 660}
      PROVE  Good(To(e, state, v, w))
  <2>1. v \in -50 .. 500 /\ w \in -330 .. 660
    BY <1>1
  <2>2. DockTypes(e) /\ state \in DockStates
    BY <1>2
  <2>3. DockTypes(To(e, state, v, w)) /\ Slow(To(e, state, v, w).vel)
    BY ONLY <2>1, <2>2 DEF DockTypes, DockFields, To, Vel, Slow
  <2>4. QED
    BY <2>3
<1> HIDE DEF Good
<1>3. Good(To(Forget(d), "SCAN", 0, 660)) /\ Good(To(Forget(d), "SCAN", 0, 100))
  <2>1. DockTypes(Forget(d)) /\ "SCAN" \in DockStates
    BY FieldTypes DEF DockStates
  <2>2. QED
    BY <1>2, <2>1
<1>4. Good(Scan(d, seen["mid"], turn))
  <2> DEFINE r == [d EXCEPT !.rotated = @ + turn]
             less == [r EXCEPT !.detector = @ - 1]
             more == [r EXCEPT !.detector = @ + 1]
  <2>1. DockTypes(r)
    BY FieldTypes
  <2>2. DockTypes(less) /\ DockTypes(more)
    <3> HIDE DEF r
    <3>1. QED
      BY <2>1, FieldTypes
  <2>3. {"ALIGNED", "SCAN", "FIND_STREAM"} \subseteq DockStates
    BY DEF DockStates
  <2>4. Scan(d, seen["mid"], turn) \in
          {To(r, "ALIGNED", 50, 0), To(less, "SCAN", 0, 660), To(more, "SCAN", 0, 660),
           To(r, "FIND_STREAM", 0, 0), To(r, "SCAN", 0, 660)}
    BY DEF Scan
  <2> HIDE DEF r, less, more
  <2>5. /\ Good(To(r, "ALIGNED", 50, 0)) /\ Good(To(less, "SCAN", 0, 660))
        /\ Good(To(more, "SCAN", 0, 660)) /\ Good(To(r, "FIND_STREAM", 0, 0))
        /\ Good(To(r, "SCAN", 0, 660))
    BY <1>2, <2>1, <2>2, <2>3
  <2>6. QED
    BY <2>4, <2>5
<1>5. Good(FindStream(d, seen))
  <2>1. {"GET_STREAM", "FIND_STREAM"} \subseteq DockStates
    BY DEF DockStates
  <2>2. FindStream(d, seen) \in
          {To(d, "GET_STREAM", 500, 0), To(d, "FIND_STREAM", 0, -330), To(d, "FIND_STREAM", 0, 330)}
    BY DEF FindStream
  <2>3. /\ Good(To(d, "GET_STREAM", 500, 0)) /\ Good(To(d, "FIND_STREAM", 0, -330))
        /\ Good(To(d, "FIND_STREAM", 0, 330))
    BY <1>2, <2>1
  <2>4. QED
    BY <2>2, <2>3
<1>6. Good(GetStream(d, seen))
  <2>1. "GET_STREAM" \in DockStates
    BY DEF DockStates
  <2>2. Good(To(d, "GET_STREAM", 50, 0))
    BY <1>2, <2>1
  <2>3. QED
    BY <1>3, <2>2 DEF GetStream
<1>7. Good(Aligned(d, seen["mid"]))
  <2>1. {"ALIGNED_NEAR", "ALIGNED_FAR", "SCAN"} \subseteq DockStates
    BY DEF DockStates
  <2>2. Aligned(d, seen["mid"]) \in
          {To(d, "ALIGNED_NEAR", 50, 0), To(d, "ALIGNED_NEAR", 50, 100),
           To(d, "ALIGNED_NEAR", 50, -100), To(d, "ALIGNED_FAR", 100, 0),
           To(d, "ALIGNED_FAR", 100, 300), To(d, "ALIGNED_FAR", 100, -300),
           To(d, "SCAN", 0, 660)}
    BY DEF Aligned
  <2>3. /\ Good(To(d, "ALIGNED_NEAR", 50, 0)) /\ Good(To(d, "ALIGNED_NEAR", 50, 100))
        /\ Good(To(d, "ALIGNED_NEAR", 50, -100)) /\ Good(To(d, "ALIGNED_FAR", 100, 0))
        /\ Good(To(d, "ALIGNED_FAR", 100, 300)) /\ Good(To(d, "ALIGNED_FAR", 100, -300))
        /\ Good(To(d, "SCAN", 0, 660))
    BY <1>2, <2>1
  <2>4. QED
    BY <2>2, <2>3
<1>8. Good(Bumped(d))
  <2>1. {"BUMPED", "SCAN"} \subseteq DockStates
    BY DEF DockStates
  <2>2. /\ BumpSteps \in Nat /\ d.bumpRemainder \in 0 .. BumpSteps
    BY DockAssumption DEF DockTypes
  <2> DEFINE on == [d EXCEPT !.bumpRemainder = @ + 1]
             off == [d EXCEPT !.bumpRemainder = 0]
  <2>3. DockTypes(off)
    <3>1. 0 \in 0 .. BumpSteps
      BY <2>2
    <3>2. QED
      BY <3>1, FieldTypes
  <2>4. d.bumpRemainder < BumpSteps => DockTypes(on)
    <3>1. d.bumpRemainder < BumpSteps => d.bumpRemainder + 1 \in 0 .. BumpSteps
      BY <2>2
    <3>2. QED
      BY <3>1, FieldTypes
  <2>5. Bumped(d) = IF d.bumpRemainder < BumpSteps THEN To(on, "BUMPED", -50, 0)
                    ELSE To(off, "SCAN", 0, 0)
    BY DEF Bumped
  <2> HIDE DEF on, off
  <2>6. /\ d.bumpRemainder < BumpSteps => Good(To(on, "BUMPED", -50, 0))
        /\ Good(To(off, "SCAN", 0, 0))
    BY <1>2, <2>1, <2>3, <2>4
  <2>7. QED
    BY <2>5, <2>6
<1>9. Good(To(d, d.state, 0, 0))
  <2>1. d.state \in DockStates
    BY DEF DockTypes
  <2>2. QED
    BY <1>2, <2>1
<1>10. Good(Steer(d, seen, turn))
  BY <1>3, <1>4, <1>5, <1>6, <1>7, <1>8, <1>9 DEF Steer
<1>11. QED
  BY <1>10 DEF Good

LEMMA UpdateTypes ==
  ASSUME NEW d, DockTypes(d), NEW signal \in Signals, NEW turn, NEW bumper \in BOOLEAN,
         NEW charger \in BOOLEAN
  PROVE  LET e == Update(d, signal, turn, bumper, charger) IN DockTypes(e) /\ Slow(e.vel)
<1> DEFINE past == Append(d.past, signal)
           kept == IF Len(past) < Window THEN past ELSE Tail(past)
           c == [d EXCEPT !.past = kept]
<1>1. /\ past \in Seq(Signals) /\ Len(past) \in 1 .. Window /\ Window \in Nat \ {0}
  BY DockAssumption DEF DockTypes
<1> HIDE DEF past
<1>2. kept \in Seq(Signals) /\ Len(kept) < Window
  <2>1. Tail(past) \in Seq(Signals) /\ Len(Tail(past)) = Len(past) - 1
    <3>1. past # << >>
      BY <1>1
    <3>2. QED
      BY <1>1, <3>1
  <2>2. QED
    BY <1>1, <2>1
<1> HIDE DEF kept
<1>3. DockTypes(c)
  BY <1>2, FieldTypes
<1> HIDE DEF c
<1>4. /\ DockTypes(Steer(c, Seen(past), turn)) /\ Slow(Steer(c, Seen(past), turn).vel)
  BY <1>3, SteerTypes
<1>5. Update(d, signal, turn, bumper, charger) =
        IF bumper \/ charger THEN BumpOrCharge(d, bumper, charger)
        ELSE Steer(c, Seen(past), turn)
  BY DEF Update, c, kept, past
<1>6. LET e == BumpOrCharge(d, bumper, charger) IN DockTypes(e) /\ Slow(e.vel)
  BY BumpTypes
<1>7. QED
  BY <1>4, <1>5, <1>6

ThreadStates == {"none", "start", "reset", "loop", "check", "abort", "succeed", "disable", "ended"}
GoalStates   == Ended \cup {"none", "executing"}

DockingTypes ==
  /\ DockTypes(dock) /\ Slow(dock.vel)
  /\ sync \in {"idle", "update", "set"} /\ newState \in DockStates
  /\ thread \in [Goals -> ThreadStates] /\ status \in [Goals -> GoalStates]

LEMMA DockingTypesStep ==
  ASSUME DockingTypes, [DockingNext]_dockingVars
  PROVE  DockingTypes'
<1> USE DEF DockingTypes
<1>1. ASSUME NEW g \in Goals, HandleGoal(g) PROVE DockingTypes'
  BY <1>1 DEF HandleGoal, Step, ThreadStates, GoalStates, Ended, syncVars
<1>2. ASSUME NEW g \in Goals, HandleCancel(g) PROVE DockingTypes'
  BY <1>2, FieldTypes DEF HandleCancel, syncVars
<1>3. ASSUME NEW g \in Goals, RaiseFlags(g) \/ ResetState(g) \/ DisableDrive(g)
      PROVE  DockingTypes'
  <2>1. dock' \in {On(dock), Idled(dock), Off(dock)} /\ UNCHANGED <<syncVars, status>>
        /\ thread' \in [Goals -> ThreadStates]
    BY <1>3 DEF RaiseFlags, ResetState, DisableDrive, Step, ThreadStates
  <2>2. QED
    BY <2>1, FieldTypes DEF syncVars
<1>4. ASSUME NEW g \in Goals, ReadState(g) \/ CheckEnabled(g) PROVE DockingTypes'
  BY <1>4 DEF ReadState, CheckEnabled, Step, ThreadStates, syncVars
<1>5. ASSUME NEW g \in Goals, End(g, "abort", "aborted") \/ End(g, "succeed", "succeeded")
      PROVE  DockingTypes'
  BY <1>5 DEF End, Step, ThreadStates, GoalStates, Ended, syncVars
<1>6. ASSUME NEW s \in Signals, NEW turn \in Turns, NEW bumper \in BOOLEAN,
             NEW charger \in BOOLEAN, Decide(s, turn, bumper, charger)
      PROVE  DockingTypes'
  <2> DEFINE d == Update(dock, s, turn, bumper, charger)
  <2>1. /\ dock' = [d EXCEPT !.state = dock.state] /\ newState' = d.state
        /\ sync' = "set" /\ UNCHANGED <<thread, status>>
    BY <1>6 DEF Decide
  <2>2. DockTypes(d) /\ Slow(d.vel)
    BY UpdateTypes
  <2> HIDE DEF d
  <2>3. DockTypes(dock') /\ Slow(dock'.vel) /\ newState' \in DockStates
    BY <2>1, <2>2 DEF DockTypes, DockFields
  <2>4. QED
    BY <2>1, <2>3
<1>7. ASSUME NEW mode \in Modes, DebugCb(mode) PROVE DockingTypes'
  <2>1. /\ dock' = ModeShift(dock, mode) /\ UNCHANGED <<syncVars, thread, status>>
    BY <1>7 DEF DebugCb
  <2>2. /\ DockTypes(Idled(On(dock))) /\ Slow(Idled(On(dock)).vel)
        /\ DockTypes(Off(dock)) /\ Slow(Off(dock).vel)
        /\ \A x : DockTypes([dock EXCEPT !.canRun = x]) /\ [dock EXCEPT !.canRun = x].vel = dock.vel
    <3>1. DockTypes(On(dock)) /\ On(dock).vel = dock.vel
      BY FieldTypes
    <3>2. DockTypes(Idled(On(dock))) /\ Idled(On(dock)).vel = On(dock).vel
      BY <3>1, FieldTypes
    <3>3. \A x : [dock EXCEPT !.canRun = x].vel = dock.vel
      BY DEF DockTypes, DockFields
    <3>4. QED
      BY <3>1, <3>2, <3>3, FieldTypes
  <2>3. DockTypes(ModeShift(dock, mode)) /\ Slow(ModeShift(dock, mode).vel)
    BY <2>2 DEF ModeShift
  <2>4. QED
    BY <2>1, <2>3 DEF syncVars
<1>8. CASE SyncCb
  BY <1>8 DEF SyncCb
<1>9. CASE SetState
  <2>1. /\ dock' = [dock EXCEPT !.state = newState, !.vel = Vel(0, 0)]
        /\ newState' = "IDLE" /\ sync' = "idle" /\ UNCHANGED <<thread, status>>
    BY <1>9 DEF SetState
  <2>2. DockTypes(dock') /\ Slow(dock'.vel) /\ newState' \in DockStates
    BY <2>1 DEF DockTypes, DockFields, DockStates, Slow, Vel
  <2>3. QED
    BY <2>1, <2>2
<1>10. CASE UNCHANGED dockingVars
  BY <1>10 DEF dockingVars, syncVars
<1>11. QED
  BY <1>1, <1>2, <1>3, <1>4, <1>5, <1>6, <1>7, <1>8, <1>9, <1>10
  DEF DockingNext, ThreadStep

LEMMA DockingTypesStart == DockingInit => DockingTypes
<1>1. /\ 0 \in 0 .. BumpSteps /\ 0 \in 0 .. Contacts /\ 0 < Window
      /\ 0 \in -50 .. 500 /\ 0 \in -330 .. 660
  BY DockAssumption
<1> SUFFICES ASSUME DockingInit PROVE DockingTypes
  OBVIOUS
<1>2. DockTypes(dock) /\ Slow(dock.vel) /\ newState \in DockStates /\ sync = "idle"
  BY <1>1 DEF DockingInit, DockInit, DockTypes, DockFields, DockStates, Slow, Vel
<1>3. thread \in [Goals -> ThreadStates] /\ status \in [Goals -> GoalStates]
  BY DEF DockingInit, ThreadStates, GoalStates
<1>4. QED
  BY <1>2, <1>3 DEF DockingTypes

\* Every part keeps its types: among them the counters of the docking within
\* their limits and the window, and the velocities within what the search asks
\* for (dock_drive.cpp:161).
THEOREM CoreTypesKept == CoreSpec => []CoreTypeOK
<1> DEFINE Types == /\ part \in Parts /\ FinderInv /\ OdometryTypeOK /\ DockingTypes
                    /\ gpOut \subseteq 0 .. 15
<1>1. CoreInit => Types
  <2>1. CoreInit => gpOut \subseteq 0 .. 15
    BY DEF CoreInit, PinsInit
  <2>2. QED
    BY <2>1, FinderStart, EncoderStart, DockingTypesStart DEF CoreInit
<1>2. Types /\ [CoreNext]_coreVars => Types'
  <2> SUFFICES ASSUME Types, [CoreNext]_coreVars PROVE Types'
    OBVIOUS
  <2>1. part' = part
    BY DEF CoreNext, Others, coreVars
  <2>2. QED
    BY <2>1, PartsAlone, FinderTypesStep, EncoderStep, DockingTypesStep, WordStep
<1>3. Types => CoreTypeOK
  <2> SUFFICES ASSUME Types PROVE CoreTypeOK
    OBVIOUS
  <2>1. DockingTypeOK
    BY DEF DockingTypes, DockTypes, Slow, DockingTypeOK, DockTypeOK, ThreadStates, GoalStates
  <2>2. QED
    BY <2>1 DEF CoreTypeOK, FinderInv
<1>4. QED
  BY <1>1, <1>2, <1>3, PTL DEF CoreSpec


----------------------------------------------------------------------------
(* The finder after a disturbance. *)

\* How many bytes the packet under construction still needs.
Rest == Len(STX) + 2 + sizePayload - Len(buffer)

FinderShape ==
  /\ finder = "stx" => Len(buffer) <= 1
  /\ finder = "payload" => 1 <= Rest /\ Rest <= sizePayload + 1

\* STX begins a packet and nothing else, in a packet or across two.
NoFalseStart ==
  /\ STX[1] # STX[2]
  /\ \A p \in Payloads : \A i \in 2 .. Len(p) + 3 : <<Framed(p)[i], Framed(p)[i + 1]>> # STX

\* The finder is ready for a packet.
Ready == finder = "clear" \/ (finder = "stx" /\ Len(buffer) <= 1)

\* After k bytes of the packet with the payload p: the finder follows it; or it is
\* past the start of the packet and looks for STX; or it counts on, by what it took
\* for a size, and has counted since the disturbance so that n packets of the length
\* short and a size of most bound what is left.
Following(k, p) == IF k = 0 THEN Ready ELSE AtByte(k, Framed(p), p)

Looking(k, p, n, short, most) ==
  /\ k >= 1 /\ short * n <= most + 1
  /\ \/ finder = "clear"
     \/ finder = "stx" /\ (buffer = <<>> \/ (k >= 2 /\ buffer = <<Framed(p)[k]>>))

Counting(k, n, short, most) ==
  \/ finder = "size" /\ k = 0 /\ n = 0
  \/ finder = "payload" /\ Rest + k + short * n <= most + 2

Catching(k, p, n, short, most) ==
  /\ line = SubSeq(Framed(p), k + 1, Len(Framed(p)))
  /\ Following(k, p) \/ Looking(k, p, n, short, most) \/ Counting(k, n, short, most)

CatchingUp(short, most) ==
  since >= 1 =>
    /\ sent \in Payloads
    /\ \E k \in 0 .. Len(Framed(sent)) : Catching(k, sent, since - 1, short, most)

\* The bounds: short bytes are a packet at least, most is the largest byte, and as many
\* packets as Recovery allows are longer than what a wrong size makes the finder take.
Bounds(short, most) ==
  /\ short \in Nat /\ most \in Nat /\ most + 2 <= short * Recovery
  /\ \A b \in Bytes : b <= most
  /\ \A p \in Payloads : short <= Len(p) + 4

LEMMA Multiples ==
  ASSUME NEW short \in Nat, NEW a \in Nat, NEW b \in Nat
  PROVE  /\ short * a \in Nat /\ short * (a + 1) = short * a + short /\ short * 0 = 0
         /\ a <= b => short * a <= short * b
<1>1. short * a \in Nat /\ short * (a + 1) = short * a + short /\ short * 0 = 0
  OBVIOUS
<1>2. ASSUME a <= b PROVE short * a <= short * b
  <2>1. PICK c \in Nat : b = a + c
    <3>1. b - a \in Nat /\ b = a + (b - a)
      BY <1>2
    <3>2. QED
      BY <3>1
  <2>2. short * b = short * a + short * c /\ short * c \in Nat /\ short * a \in Nat
    BY <2>1
  <2>3. QED
    BY <2>2
<1>3. QED
  BY <1>1, <1>2

\* One byte at the end of a buffer of one at most, while the finder waits for STX.
LEMMA KeptOfTwo ==
  ASSUME NEW b \in Seq(Bytes), Len(b) <= 1, NEW x \in Bytes
  PROVE  /\ StxKept(b \o <<x>>) \in Seq(Bytes)
         /\ StxKept(b \o <<x>>) # STX => Len(StxKept(b \o <<x>>)) <= 1
         /\ b = <<>> => StxKept(b \o <<x>>) = IF x = STX[1] THEN <<x>> ELSE <<>>
         /\ b # <<>> /\ <<b[1], x>> # STX => StxKept(b \o <<x>>) = <<x>>
         /\ b # <<>> /\ <<b[1], x>> = STX => StxKept(b \o <<x>>) = STX
<1>1. STX \in Seq(Bytes) /\ Len(STX) = 2 /\ STX = <<STX[1], STX[2]>>
  <2>1. STX \in Seq(Bytes) /\ Len(STX) = 2
    BY FinderAssumption, BytesAssumption
  <2>2. QED
    BY <2>1
<1>2. SubSeq(STX, 1, 1) = <<STX[1]>> /\ SubSeq(STX, 1, 2) = STX
  <2> DEFINE t == SubSeq(STX, 1, 1)
             u == <<STX[1]>>
             w == SubSeq(STX, 1, 2)
  <2>1. t \in Seq(Bytes) /\ Len(t) = 1 /\ t[1] = STX[1]
    BY <1>1
  <2>2. u \in Seq(Bytes) /\ Len(u) = 1 /\ u[1] = STX[1]
    BY <1>1
  <2>3. w \in Seq(Bytes) /\ Len(w) = 2 /\ w[1] = STX[1] /\ w[2] = STX[2]
    BY <1>1
  <2> HIDE DEF t, u, w
  <2>4. \A i \in 1 .. Len(t) : t[i] = u[i]
    BY <2>1, <2>2
  <2>5. t = u
    BY <2>1, <2>2, <2>4, SameSequence
  <2>6. \A i \in 1 .. Len(w) : w[i] = STX[i]
    BY <2>3
  <2>7. w = STX
    BY <1>1, <2>3, <2>6, SameSequence
  <2>8. QED
    BY <2>5, <2>7 DEF t, u, w
<1>3. CASE b = <<>>
  <2>1. b \o <<x>> = <<x>> /\ Len(<<x>>) = 1 /\ Tail(<<x>>) = <<>>
    BY <1>3
  <2>2. <<x>> = SubSeq(STX, 1, Len(<<x>>)) <=> x = STX[1]
    BY <1>2, <2>1
  <2>3. StxKept(b \o <<x>>) = IF x = STX[1] THEN <<x>> ELSE <<>>
    BY <2>1, <2>2 DEF StxKept
  <2>4. <<x>> \in Seq(Bytes) /\ <<>> \in Seq(Bytes) /\ Len(<<x>>) <= 1 /\ Len(<<>>) <= 1
    OBVIOUS
  <2>5. QED
    BY <1>3, <2>3, <2>4
<1>4. CASE b # <<>>
  <2>1. Len(b) = 1 /\ b[1] \in Bytes
    <3> DEFINE m == Len(b)
    <3>1. m \in Nat /\ (m = 0 => b = <<>>) /\ m <= 1
      OBVIOUS
    <3>2. m # 0
      BY <1>4, <3>1
    <3> HIDE DEF m
    <3>3. m = 1
      BY <3>1, <3>2
    <3>4. b \in Seq(Bytes)
      OBVIOUS
    <3>5. \A i \in 1 .. m : b[i] \in Bytes
      BY ONLY <3>4 DEF m
    <3>6. QED
      BY <3>3, <3>5 DEF m
  <2>2. b \o <<x>> = <<b[1], x>> /\ Len(<<b[1], x>>) = 2 /\ Tail(<<b[1], x>>) = <<x>>
    <3> DEFINE s == b \o <<x>>
               t == <<b[1], x>>
    <3>1. s \in Seq(Bytes) /\ Len(s) = 2 /\ s[1] = b[1] /\ s[2] = x
      <4> DEFINE u == <<x>>
      <4>1. u \in Seq(Bytes) /\ Len(u) = 1 /\ u[1] = x
        OBVIOUS
      <4> HIDE DEF u
      <4>2. /\ b \o u \in Seq(Bytes) /\ Len(b \o u) = Len(b) + Len(u)
            /\ \A i \in 1 .. Len(b) : (b \o u)[i] = b[i]
            /\ \A i \in 1 .. Len(u) : (b \o u)[Len(b) + i] = u[i]
        BY <4>1, Concatenated
      <4>3. (b \o u)[1] = b[1] /\ (b \o u)[2] = u[1] /\ Len(b \o u) = 2
        <5>1. 1 \in 1 .. Len(b) /\ 1 \in 1 .. Len(u) /\ Len(b) + 1 = 2
          BY <2>1, <4>1
        <5>2. QED
          BY <2>1, <4>1, <4>2, <5>1
      <4>4. QED
        BY <4>1, <4>2, <4>3 DEF u
    <3>2. t \in Seq(Bytes) /\ Len(t) = 2 /\ t[1] = b[1] /\ t[2] = x /\ Tail(t) = <<x>>
      BY <2>1
    <3> HIDE DEF s, t
    <3>3. \A i \in 1 .. Len(s) : s[i] = t[i]
      BY <3>1, <3>2
    <3>4. s = t
      BY <3>1, <3>2, <3>3, SameSequence
    <3>5. QED
      BY <3>2, <3>4 DEF s, t
  <2>3. StxKept(b \o <<x>>) = IF <<b[1], x>> = STX THEN STX ELSE <<x>>
    BY <1>2, <2>2 DEF StxKept
  <2>4. <<x>> \in Seq(Bytes) /\ Len(<<x>>) <= 1
    OBVIOUS
  <2>5. QED
    BY <1>1, <1>4, <2>3, <2>4
<1>5. QED
  BY <1>3, <1>4

\* What a read does to the finder, in each of its states.
LEMMA ReadEffect ==
  ASSUME FinderInv, FinderShape, NEW n \in 1 .. Len(line), ReadBytes(n)
  PROVE  /\ line[1] \in Bytes
         /\ finder \in {"clear", "stx"} =>
              /\ n = 1
              /\ buffer' = StxKept((IF finder = "clear" THEN <<>> ELSE buffer) \o <<line[1]>>)
              /\ finder' = IF buffer' = STX THEN "size" ELSE "stx"
         /\ finder = "size" => n = 1 /\ finder' = "payload" /\ Rest' = line[1] + 1
                               /\ sizePayload' = line[1]
         /\ finder = "payload" => /\ Rest' = Rest - n /\ sizePayload' = sizePayload
                                  /\ finder' = IF Rest' >= 1 THEN "payload" ELSE "clear"
<1> DEFINE in == SubSeq(line, 1, n)
           x == line[1]
<1>1. /\ line \in Seq(Bytes) /\ buffer \in Seq(Bytes) /\ sizePayload \in Bytes
      /\ (finder = "size" => buffer = STX) /\ finder \in FinderStates /\ Bytes \subseteq Nat
      /\ STX \in Seq(Bytes) /\ Len(STX) = 2
  BY FinderAssumption, BytesAssumption DEF FinderInv, FinderTypeOK
<1>2. in \in Seq(Bytes) /\ Len(in) = n /\ n \in Nat /\ n >= 1 /\ in[1] = x /\ x \in Bytes
  BY <1>1
<1>3. n <= NumberOfDataToRead /\ sizePayload \in Nat
  BY <1>1 DEF ReadBytes
<1>4. WaitForStx(in) \/ WaitForPayloadSize(in) \/ WaitForPayloadAndEtx(in)
  BY DEF ReadBytes
<1>5. ASSUME n = 1 PROVE in = <<x>>
  <2> DEFINE t == <<x>>
  <2>1. t \in Seq(Bytes) /\ Len(t) = 1 /\ t[1] = x
    BY <1>2
  <2> HIDE DEF t, in
  <2>2. \A i \in 1 .. Len(in) : in[i] = t[i]
    BY <1>2, <1>5, <2>1
  <2>3. in = t
    BY <1>2, <1>5, <2>1, <2>2, SameSequence
  <2>4. QED
    BY <2>3 DEF t
<1> HIDE DEF in, x
<1>6. ASSUME NEW b \in Seq(Bytes)
      PROVE  /\ b \o in \in Seq(Bytes) /\ Len(b \o in) = Len(b) + n
             /\ (b \o in)[Len(b) + 1] = x
  <2>1. /\ b \o in \in Seq(Bytes) /\ Len(b \o in) = Len(b) + Len(in)
        /\ \A i \in 1 .. Len(in) : (b \o in)[Len(b) + i] = in[i]
    <3>1. in \in Seq(Bytes)
      BY <1>2
    <3>2. QED
      BY ONLY <1>6, <3>1, Concatenated
  <2>2. 1 \in 1 .. Len(in)
    BY <1>2
  <2>3. QED
    BY <1>2, <2>1, <2>2
<1>7. CASE finder \in {"clear", "stx"}
  <2>1. n = 1
    BY <1>2, <1>3, <1>7 DEF NumberOfDataToRead
  <2>2. WaitForStx(in)
    BY <1>4, <1>7 DEF WaitForPayloadSize, WaitForPayloadAndEtx
  <2>3. in = <<x>>
    BY <1>5, <2>1
  <2>4. /\ buffer' = StxKept((IF finder = "clear" THEN <<>> ELSE buffer) \o <<x>>)
        /\ finder' = IF buffer' = STX THEN "size" ELSE "stx"
    BY <2>2, <2>3 DEF WaitForStx
  <2>5. finder # "size" /\ finder # "payload"
    BY <1>7
  <2>6. QED
    BY <1>2, <2>1, <2>4, <2>5 DEF x
<1>8. CASE finder = "size"
  <2>1. n = 1
    BY <1>2, <1>3, <1>8 DEF NumberOfDataToRead
  <2>2. WaitForPayloadSize(in)
    BY <1>4, <1>8 DEF WaitForStx, WaitForPayloadAndEtx
  <2>3. finder' = "payload" /\ buffer' = STX \o in /\ sizePayload' = buffer'[Len(STX) + 1]
    BY <1>1, <1>8, <2>2 DEF WaitForPayloadSize
  <2>4. Len(STX \o in) = Len(STX) + n /\ (STX \o in)[Len(STX) + 1] = x
    BY <1>1, <1>6
  <2>5. Len(buffer') = 3 /\ sizePayload' = x
    BY <1>1, <2>1, <2>3, <2>4
  <2>6. Rest' = x + 1
    BY <1>1, <1>2, <2>5 DEF Rest
  <2>7. QED
    BY <1>2, <1>8, <2>1, <2>3, <2>5, <2>6 DEF x
<1>9. CASE finder = "payload"
  <2>1. WaitForPayloadAndEtx(in)
    BY <1>4, <1>9 DEF WaitForStx, WaitForPayloadSize
  <2>2. buffer' = buffer \o in /\ sizePayload' = sizePayload
        /\ finder' = IF Len(buffer') >= Len(STX) + 2 + sizePayload THEN "clear" ELSE "payload"
    BY <2>1 DEF WaitForPayloadAndEtx
  <2>3. Len(buffer') = Len(buffer) + n /\ Len(buffer) \in Nat
    BY <1>1, <1>6, <2>2
  <2>4. Rest' = Rest - n /\ (Rest' >= 1 <=> ~(Len(buffer') >= Len(STX) + 2 + sizePayload))
    BY <1>1, <1>2, <1>3, <2>2, <2>3 DEF Rest
  <2>5. QED
    BY <1>2, <1>9, <2>2, <2>4 DEF x
<1>10. QED
  BY <1>1, <1>7, <1>8, <1>9 DEF FinderStates

LEMMA ShapeStep ==
  ASSUME FinderInv, FinderShape, [FinderNext]_finderVars
  PROVE  FinderShape'
<1>1. ASSUME NEW n \in 1 .. Len(line), ReadBytes(n) PROVE FinderShape'
  <2> DEFINE x == line[1]
             b == IF finder = "clear" THEN <<>> ELSE buffer
  <2>1. /\ x \in Bytes
        /\ finder \in {"clear", "stx"} =>
              /\ n = 1 /\ buffer' = StxKept(b \o <<x>>)
              /\ finder' = IF buffer' = STX THEN "size" ELSE "stx"
        /\ finder = "size" => finder' = "payload" /\ Rest' = x + 1 /\ sizePayload' = x
        /\ finder = "payload" => /\ Rest' = Rest - n /\ sizePayload' = sizePayload
                                 /\ finder' = IF Rest' >= 1 THEN "payload" ELSE "clear"
    BY <1>1, ReadEffect
  <2>2. /\ buffer \in Seq(Bytes) /\ sizePayload \in Nat /\ finder \in FinderStates
        /\ Len(STX) = 2 /\ n \in Nat /\ n >= 1 /\ x \in Nat
    <3>1. x \in Bytes
      BY <2>1
    <3>2. /\ line \in Seq(Bytes) /\ buffer \in Seq(Bytes) /\ sizePayload \in Bytes
          /\ finder \in FinderStates
      BY DEF FinderInv, FinderTypeOK
    <3>3. Len(line) \in Nat
      BY <3>2
    <3> HIDE DEF x, b
    <3>4. n \in Nat /\ n >= 1
      BY <3>3
    <3>5. QED
      BY <3>1, <3>2, <3>4, FinderAssumption, BytesAssumption
  <2>3. Rest \in Int
    BY <2>2 DEF Rest
  <2>4. CASE finder \in {"clear", "stx"}
    <3>1. b \in Seq(Bytes) /\ Len(b) <= 1
      BY <2>2, <2>4 DEF FinderShape
    <3> HIDE DEF b, x
    <3>2. StxKept(b \o <<x>>) # STX => Len(StxKept(b \o <<x>>)) <= 1
      BY ONLY <2>1, <3>1, KeptOfTwo
    <3>3. QED
      BY <2>1, <2>4, <3>2 DEF FinderShape
  <2>5. CASE finder = "size"
    <3> HIDE DEF b, x
    <3>1. finder' = "payload" /\ Rest' = x + 1 /\ sizePayload' = x
      BY <2>1, <2>5
    <3>2. QED
      BY <2>2, <3>1 DEF FinderShape
  <2>6. CASE finder = "payload"
    <3> HIDE DEF b, x
    <3>1. Rest' = Rest - n /\ sizePayload' = sizePayload /\ Rest <= sizePayload + 1
          /\ finder' = IF Rest' >= 1 THEN "payload" ELSE "clear"
      BY <2>1, <2>6 DEF FinderShape
    <3>2. Rest' <= sizePayload' + 1
      BY <2>2, <2>3, <3>1
    <3>3. QED
      BY <3>1, <3>2 DEF FinderShape
  <2>7. QED
    BY <2>2, <2>4, <2>5, <2>6 DEF FinderStates
<1>2. CASE UNCHANGED <<finder, buffer, sizePayload>>
  BY <1>2 DEF FinderShape, Rest
<1>3. ASSUME NEW p \in Payloads, RobotSends(p) \/ ReadLate(p) \/ Damaged(p)
      PROVE  UNCHANGED <<finder, buffer, sizePayload>>
  BY <1>3 DEF RobotSends, ReadLate, Damaged
<1>4. QED
  BY <1>1, <1>2, <1>3 DEF FinderNext, finderVars

LEMMA NextByte ==
  ASSUME NEW S, NEW f \in Seq(S), NEW k \in 0 .. Len(f)
  PROVE  /\ Len(SubSeq(f, k + 1, Len(f))) = Len(f) - k
         /\ k < Len(f) => SubSeq(f, k + 1, Len(f))[1] = f[k + 1]
OBVIOUS

\* A read on the way through a packet.
LEMMA ReadCatches ==
  ASSUME FinderInv, FinderShape, NoFalseStart, NEW short, NEW most, Bounds(short, most),
         NEW n \in 1 .. Len(line), ReadBytes(n), NEW p \in Payloads, NEW i \in Nat,
         NEW k \in 0 .. Len(Framed(p)), Catching(k, p, i, short, most)
  PROVE  k + n \in 0 .. Len(Framed(p)) /\ Catching(k + n, p, i, short, most)'
<1> DEFINE f == Framed(p)
           L == Len(f)
           b == IF finder = "clear" THEN <<>> ELSE buffer
<1>1. /\ f \in Seq(Bytes) /\ L \in Nat /\ L = Len(p) + 4 /\ Len(p) \in Nat /\ f[1] = STX[1]
  BY FramedBytes
<1>2. /\ line \in Seq(Bytes) /\ buffer \in Seq(Bytes) /\ sizePayload \in Nat
      /\ Len(STX) = 2 /\ finder \in FinderStates /\ STX = <<STX[1], STX[2]>>
      /\ Bytes \subseteq Nat /\ n \in Nat /\ n >= 1
  <2>1. STX \in Seq(Bytes) /\ Len(STX) = 2 /\ Bytes \subseteq Nat
    BY FinderAssumption, BytesAssumption
  <2>2. STX = <<STX[1], STX[2]>>
    BY <2>1
  <2>3. /\ line \in Seq(Bytes) /\ buffer \in Seq(Bytes) /\ sizePayload \in Bytes
        /\ finder \in FinderStates
    BY DEF FinderInv, FinderTypeOK
  <2>4. QED
    BY <2>1, <2>2, <2>3
<1>3. short * i \in Nat /\ short \in Nat /\ most \in Nat
  BY Multiples DEF Bounds
<1>4. Rest \in Int
  BY <1>2 DEF Rest
<1>5. line = SubSeq(f, k + 1, L) /\ line' = SubSeq(line, n + 1, Len(line))
  BY DEF Catching, ReadBytes
<1>6. \A m \in 2 .. L - 1 : <<f[m], f[m + 1]>> # STX
  BY <1>1 DEF NoFalseStart
<1>7. /\ finder \in {"clear", "stx"} =>
              n = 1 /\ buffer' = StxKept(b \o <<line[1]>>)
              /\ finder' = IF buffer' = STX THEN "size" ELSE "stx"
      /\ finder = "size" => n = 1 /\ finder' = "payload" /\ Rest' = line[1] + 1
      /\ finder = "payload" => /\ Rest' = Rest - n
                               /\ finder' = IF Rest' >= 1 THEN "payload" ELSE "clear"
      /\ line[1] \in Bytes
  BY ReadEffect
<1>8. finder \in {"clear", "stx"} => b \in Seq(Bytes) /\ Len(b) <= 1
  BY <1>2 DEF FinderShape
<1>9. Following(k, p) \/ Looking(k, p, i, short, most) \/ Counting(k, i, short, most)
  BY DEF Catching
<1> SUFFICES k + n \in 0 .. L /\ Catching(k + n, p, i, short, most)'
  OBVIOUS
<1>10. k \in Nat /\ k + n \in 0 .. L /\ line[1] = f[k + 1]
       /\ line' = SubSeq(f, k + n + 1, L)
  <2> HIDE DEF f
  <2>1. k \in 0 .. L /\ k \in Nat
    BY <1>1 DEF f
  <2>2. Len(line) = L - k /\ (k < L => line[1] = f[k + 1])
    <3>1. f \in Seq(Bytes) /\ k \in 0 .. Len(f)
      BY <1>1, <2>1
    <3>2. /\ Len(SubSeq(f, k + 1, Len(f))) = Len(f) - k
          /\ k < Len(f) => SubSeq(f, k + 1, Len(f))[1] = f[k + 1]
      BY ONLY <3>1, NextByte
    <3>3. QED
      BY <1>5, <3>2
  <2>3. n <= Len(line) /\ L - k \in Nat
    BY <1>1, <1>2, <2>1, <2>2
  <2>4. k + n <= L
    BY <1>1, <1>2, <2>1, <2>2, <2>3
  <2>5. LET rest == SubSeq(f, k + 1, Len(f))
        IN SubSeq(rest, n + 1, Len(rest)) = SubSeq(f, k + n + 1, Len(f))
    <3>1. f \in Seq(Bytes) /\ k \in Nat /\ n \in Nat /\ k + n <= Len(f)
      BY <1>1, <1>2, <2>1, <2>4
    <3>2. QED
      BY ONLY <3>1, CutOn
  <2>6. line' = SubSeq(f, k + n + 1, L)
    BY <1>5, <2>5
  <2>7. k < L /\ k + n \in 0 .. L
    BY <1>1, <1>2, <2>1, <2>4
  <2>8. QED
    BY <2>1, <2>2, <2>6, <2>7
<1>11. SUFFICES \/ Following(k + n, p)' \/ Looking(k + n, p, i, short, most)'
                \/ Counting(k + n, i, short, most)'
  BY <1>10 DEF Catching
<1>12. k + n >= 1 /\ k + n # 0
  <2>1. k \in Nat /\ n \in Nat /\ n >= 1
    BY <1>2, <1>10
  <2>2. QED
    BY ONLY <2>1
<1>13. CASE Following(k, p) /\ k # 0
  <2>1. AtByte(k, f, p)
    BY <1>13 DEF Following
  <2>2. AtByte(k + n, f, p)'
    BY <2>1, ReadAtByte
  <2>3. QED
    BY <1>12, <2>2 DEF Following
<1> HIDE DEF f, b
<1>14. CASE Following(k, p) /\ k = 0
  <2>1. finder \in {"clear", "stx"} /\ k = 0
    BY <1>14 DEF Following, Ready
  <2>2. /\ b \in Seq(Bytes) /\ Len(b) <= 1 /\ STX[1] \in Bytes /\ line[1] = STX[1]
        /\ STX[1] # STX[2]
    BY <1>1, <1>7, <1>8, <1>10, <2>1 DEF NoFalseStart
  <2>3. n = 1 /\ buffer' = StxKept(b \o <<STX[1]>>)
    BY <1>7, <2>1, <2>2
  <2>4. <<b[1], STX[1]>> # STX
    BY <1>2, <2>2
  <2>5. StxKept(b \o <<STX[1]>>) = <<STX[1]>>
    <3>1. /\ b = <<>> => StxKept(b \o <<STX[1]>>) = <<STX[1]>>
          /\ b # <<>> => StxKept(b \o <<STX[1]>>) = <<STX[1]>>
      BY <2>2, <2>4, KeptOfTwo
    <3>2. QED
      BY <3>1
  <2>6. SubSeq(f, 1, 1) = <<STX[1]>>
    <3> DEFINE t == SubSeq(f, 1, 1)
               u == <<STX[1]>>
    <3>1. t \in Seq(Bytes) /\ Len(t) = 1 /\ t[1] = STX[1]
      BY <1>1, FirstOf
    <3>2. u \in Seq(Bytes) /\ Len(u) = 1 /\ u[1] = STX[1]
      BY <2>2
    <3> HIDE DEF t, u
    <3>3. \A m \in 1 .. Len(t) : t[m] = u[m]
      BY <3>1, <3>2
    <3>4. t = u
      BY <3>1, <3>2, <3>3, SameSequence
    <3>5. QED
      BY <3>4 DEF t, u
  <2>7. <<STX[1]>> # STX
    <3>1. Len(<<STX[1]>>) # Len(STX)
      BY <1>2
    <3>2. QED
      BY ONLY <3>1
  <2>8. finder' = "stx" /\ buffer' = SubSeq(f, 1, 1)
    BY <1>7, <2>1, <2>3, <2>5, <2>6, <2>7
  <2>9. line' = SubSeq(f, 1 + 1, L) /\ k + n = 1
    BY <1>10, <2>1, <2>3
  <2>10. AtByte(1, f, p)'
    <3>1. 1 # 2 /\ ~(1 >= 3) /\ 1 # L
      BY <1>1
    <3>2. QED
      BY <2>8, <2>9, <3>1 DEF AtByte
  <2>11. QED
    BY <2>9, <2>10 DEF Following, f
<1>15. CASE Looking(k, p, i, short, most)
  <2>1. /\ k >= 1 /\ short * i <= most + 1
        /\ finder \in {"clear", "stx"}
        /\ b = <<>> \/ (k >= 2 /\ b = <<f[k]>>)
    BY <1>15 DEF Looking, b, f
  <2>2. n = 1 /\ buffer' = StxKept(b \o <<f[k + 1]>>) /\ f[k + 1] \in Bytes
    BY <1>7, <1>10, <2>1
  <2>3. buffer' = <<>> \/ buffer' = <<f[k + 1]>>
    <3>1. b \in Seq(Bytes) /\ Len(b) <= 1
      BY <1>8, <2>1
    <3>2. CASE b = <<>>
      BY <2>2, <3>1, <3>2, KeptOfTwo
    <3>3. CASE b # <<>>
      <4>1. k \in 2 .. L - 1 /\ b = <<f[k]>>
        BY <1>1, <1>10, <2>1, <2>2, <3>3
      <4>2. b[1] = f[k]
        BY <4>1
      <4>3. <<b[1], f[k + 1]>> # STX
        BY <1>6, <4>1, <4>2
      <4>4. QED
        BY <2>2, <3>1, <3>3, <4>3, KeptOfTwo
    <3>4. QED
      BY <3>2, <3>3
  <2>4. buffer' # STX
    <3>1. Len(<<>>) # Len(STX) /\ Len(<<f[k + 1]>>) # Len(STX)
      BY <1>2
    <3>2. <<>> # STX /\ <<f[k + 1]>> # STX
      BY ONLY <3>1
    <3>3. QED
      BY <2>3, <3>2
  <2>5. finder' = "stx"
    BY <1>7, <2>1, <2>4
  <2>6. k + n = k + 1 /\ k + 1 >= 2 /\ k + n >= 1
    BY <1>10, <2>1, <2>2
  <2>7. Looking(k + n, p, i, short, most)'
    BY <2>1, <2>3, <2>5, <2>6 DEF Looking, f
  <2>8. QED
    BY <2>7
<1>16. CASE Counting(k, i, short, most) /\ finder = "size"
  <2>1. k = 0 /\ i = 0
    BY <1>16 DEF Counting
  <2>2. n = 1 /\ finder' = "payload" /\ Rest' = line[1] + 1 /\ line[1] \in Nat /\ line[1] <= most
    BY <1>2, <1>7, <1>16 DEF Bounds
  <2>3. short * i = 0
    BY <1>3, <2>1, Multiples
  <2>4. Rest' + (k + n) + short * i <= most + 2
    BY <1>3, <2>1, <2>2, <2>3
  <2>5. QED
    BY <2>2, <2>4 DEF Counting
<1>17. CASE Counting(k, i, short, most) /\ finder # "size"
  <2>1. finder = "payload" /\ Rest + k + short * i <= most + 2 /\ Rest >= 1
    BY <1>17 DEF Counting, FinderShape
  <2>2. Rest' = Rest - n /\ finder' = IF Rest' >= 1 THEN "payload" ELSE "clear"
    BY <1>7, <2>1
  <2>3. CASE Rest' >= 1
    <3>1. Rest' + (k + n) + short * i <= most + 2
      BY <1>2, <1>3, <1>4, <1>10, <2>1, <2>2
    <3>2. QED
      BY <2>2, <2>3, <3>1 DEF Counting
  <2>4. CASE ~(Rest' >= 1)
    <3> DEFINE s == short * i
    <3>1. s \in Nat /\ most \in Nat /\ Rest \in Int /\ k \in Nat
          /\ Rest + k + s <= most + 2 /\ Rest >= 1
      BY <1>3, <1>4, <1>10, <2>1
    <3> HIDE DEF s
    <3>2. s <= most + 1
      BY ONLY <3>1
    <3>3. QED
      BY <1>12, <2>2, <2>4, <3>2 DEF Looking, s
  <2>5. QED
    BY <2>3, <2>4
<1>18. QED
  BY <1>9, <1>13, <1>14, <1>15, <1>16, <1>17

\* The packet was read to its end: the finder is ready for the next one, or counts on.
LEMMA AtEnd ==
  ASSUME FinderInv, FinderShape, line = <<>>, NEW short, NEW most, Bounds(short, most),
         NEW p \in Payloads, NEW i \in Nat, NEW k \in 0 .. Len(Framed(p)),
         Catching(k, p, i, short, most)
  PROVE  \/ finder = "clear" /\ got = p
         \/ Ready /\ short * i <= most + 1
         \/ finder = "payload" /\ Rest + short * (i + 1) <= most + 2
<1> DEFINE f == Framed(p)
<1>1. f \in Seq(Bytes) /\ Len(f) \in Nat /\ Len(f) = Len(p) + 4 /\ k \in 0 .. Len(f)
  BY FramedBytes
<1>2. <<>> = SubSeq(f, k + 1, Len(f))
  BY DEF Catching
<1>3. Following(k, p) \/ Looking(k, p, i, short, most) \/ Counting(k, i, short, most)
  BY DEF Catching
<1>4. short \in Nat /\ short * i \in Nat /\ short * (i + 1) = short * i + short /\ most \in Nat
      /\ short <= Len(f)
  BY <1>1, Multiples DEF Bounds
<1>5. Rest \in Int
  <2>1. buffer \in Seq(Bytes) /\ sizePayload \in Nat /\ Len(STX) = 2
    BY FinderAssumption, BytesAssumption DEF FinderInv, FinderTypeOK
  <2>2. QED
    BY <2>1 DEF Rest
<1>6. k = Len(f) /\ k # 0
  <2>1. k = Len(f)
    <3> HIDE DEF f
    <3>1. QED
      BY <1>1, <1>2, NothingLeft
  <2>2. QED
    BY <1>1, <2>1, FramedBytes
<1>7. CASE Following(k, p)
  BY <1>6, <1>7 DEF Following, AtByte
<1>8. CASE Looking(k, p, i, short, most)
  BY <1>8 DEF Looking, Ready, FinderShape
<1>9. CASE Counting(k, i, short, most)
  <2>1. finder = "payload" /\ Rest + k + short * i <= most + 2
    BY <1>6, <1>9 DEF Counting
  <2> HIDE DEF f
  <2>2. Rest + short * (i + 1) <= most + 2
    BY <1>1, <1>4, <1>5, <1>6, <2>1
  <2>3. QED
    BY <2>1, <2>2
<1>10. QED
  BY <1>3, <1>7, <1>8, <1>9

\* The next packet comes: what was counted is less by the length of the last one.
LEMMA SentCatching ==
  ASSUME FinderInv, FinderShape, NEW short, NEW most, Bounds(short, most),
         CatchingUp(short, most), NEW p \in Payloads, RobotSends(p)
  PROVE  CatchingUp(short, most)'
<1> DEFINE f == Framed(p)
           i == since' - 1
<1>1. /\ line = <<>> /\ line' = f /\ sent' = p /\ UNCHANGED <<finder, buffer, sizePayload>>
      /\ since' = IF since > Recovery THEN since ELSE since + 1
  BY DEF RobotSends, Calm
<1>2. f \in Seq(Bytes) /\ Len(f) \in Nat
  BY FramedBytes
<1>3. /\ buffer \in Seq(Bytes) /\ sizePayload \in Bytes /\ sizePayload \in Nat /\ Len(STX) = 2
      /\ finder \in FinderStates /\ since \in Nat /\ Recovery \in Nat
  BY FinderAssumption, BytesAssumption DEF FinderInv, FinderTypeOK
<1>4. short \in Nat /\ most \in Nat /\ most + 2 <= short * Recovery /\ sizePayload <= most
  BY <1>3 DEF Bounds
<1>5. Rest \in Int /\ Rest' = Rest
  BY <1>1, <1>3 DEF Rest
<1>6. Ready \/ (finder = "size" /\ i = 0)
      \/ (finder = "payload" /\ Rest + short * i <= most + 2)
  <2>1. CASE since = 0
    <3>1. i = 0 /\ short * i = 0
      <4>1. i = 0
        BY <1>1, <1>3, <2>1
      <4> HIDE DEF i
      <4>2. QED
        BY <1>4, <4>1, Multiples
    <3>2. Ready \/ finder = "size" \/ (finder = "payload" /\ Rest <= sizePayload + 1)
      BY <1>3 DEF Ready, FinderShape, FinderStates
    <3> HIDE DEF i
    <3>3. Rest <= sizePayload + 1 => Rest + short * i <= most + 2
      BY <1>3, <1>4, <1>5, <3>1
    <3>4. QED
      BY <3>1, <3>2, <3>3
  <2>2. CASE since # 0
    <3> DEFINE j == since - 1
    <3>1. since >= 1 /\ j \in Nat /\ j + 1 = since
      BY <1>3, <2>2
    <3>2. PICK k \in 0 .. Len(Framed(sent)) : Catching(k, sent, j, short, most)
      BY <3>1 DEF CatchingUp
    <3>3. sent \in Payloads
      BY <3>1 DEF CatchingUp
    <3> HIDE DEF j
    <3>4. finder = "clear" \/ Ready \/ (finder = "payload" /\ Rest + short * (j + 1) <= most + 2)
      BY <1>1, <3>1, <3>2, <3>3, AtEnd
    <3>5. CASE finder = "payload" /\ Rest + short * (j + 1) <= most + 2
      <4>1. Rest + short * since <= most + 2 /\ Rest >= 1
        BY <3>1, <3>5 DEF FinderShape
      <4>2. since <= Recovery
        <5>1. short * since \in Nat /\ (Recovery <= since => short * Recovery <= short * since)
          BY <1>3, <1>4, Multiples
        <5> DEFINE a == short * since
                   r == short * Recovery
        <5>2. a \in Nat /\ Rest + a <= most + 2 /\ most + 2 <= r /\ (Recovery <= since => r <= a)
          BY <1>4, <4>1, <5>1
        <5>3. r \in Nat
          BY <1>3, <1>4, Multiples
        <5> HIDE DEF a, r
        <5>4. ~(Recovery <= since)
          BY <1>4, <1>5, <4>1, <5>2, <5>3
        <5>5. QED
          BY <1>3, <5>4
      <4>3. i = since
        BY <1>1, <1>3, <4>2
      <4>4. QED
        BY <3>5, <4>1, <4>3
    <3>6. QED
      BY <3>4, <3>5 DEF Ready
  <2>3. QED
    BY <2>1, <2>2
<1>7. 0 \in 0 .. Len(f) /\ line' = SubSeq(f, 0 + 1, Len(f))
  <2> HIDE DEF f
  <2>1. SubSeq(f, 0 + 1, Len(f)) = f
    BY <1>2
  <2>2. QED
    BY <1>1, <1>2, <2>1
<1>8. short * i \in Nat
  <2>1. i \in Nat
    BY <1>1, <1>3
  <2> HIDE DEF i
  <2>2. QED
    BY <1>4, <2>1, Multiples
<1>9. Following(0, p)' \/ Counting(0, since - 1, short, most)'
  <2> HIDE DEF i
  <2>1. Rest + short * i <= most + 2 => Rest' + 0 + short * i <= most + 2
    BY <1>4, <1>5, <1>8
  <2>2. CASE Ready
    BY <1>1, <2>2 DEF Following, Ready
  <2>3. CASE finder = "size" /\ i = 0
    BY <1>1, <2>3 DEF Counting, i
  <2>4. CASE finder = "payload" /\ Rest + short * i <= most + 2
    BY <1>1, <2>1, <2>4 DEF Counting, i
  <2>5. QED
    BY <1>6, <2>2, <2>3, <2>4
<1>10. Catching(0, p, since - 1, short, most)'
  BY <1>7, <1>9 DEF Catching
<1>11. QED
  BY <1>1, <1>7, <1>10 DEF CatchingUp

LEMMA CatchingStep ==
  ASSUME FinderInv, FinderShape, NoFalseStart, NEW short, NEW most, Bounds(short, most),
         CatchingUp(short, most), [FinderNext]_finderVars
  PROVE  CatchingUp(short, most)'
<1>1. ASSUME NEW p \in Payloads, RobotSends(p) PROVE CatchingUp(short, most)'
  BY <1>1, SentCatching
<1>2. ASSUME NEW p \in Payloads, ReadLate(p) \/ Damaged(p) PROVE CatchingUp(short, most)'
  <2>1. since' = 0
    BY <1>2 DEF ReadLate, Damaged, Disturb
  <2>2. ~(since' >= 1)
    BY <2>1
  <2>3. QED
    BY <2>2 DEF CatchingUp
<1>3. ASSUME NEW n \in 1 .. Len(line), ReadBytes(n) PROVE CatchingUp(short, most)'
  <2>1. UNCHANGED <<sent, since>>
    BY <1>3 DEF ReadBytes
  <2> SUFFICES ASSUME since >= 1, sent \in Payloads, NEW k \in 0 .. Len(Framed(sent)),
                      Catching(k, sent, since - 1, short, most)
               PROVE  \E j \in 0 .. Len(Framed(sent)) :
                        Catching(j, sent, since - 1, short, most)'
    BY <2>1 DEF CatchingUp
  <2> DEFINE Reads(p, i) ==
               \A m \in 0 .. Len(Framed(p)) :
                 Catching(m, p, i, short, most)
                 => m + n \in 0 .. Len(Framed(p)) /\ Catching(m + n, p, i, short, most)'
  <2>2. \A p \in Payloads : \A i \in Nat : Reads(p, i)
    BY <1>3, ReadCatches
  <2>3. since - 1 \in Nat
    BY DEF FinderInv, FinderTypeOK
  <2>4. PICK p \in Payloads : p = sent
    OBVIOUS
  <2>5. PICK i \in Nat : i = since - 1
    BY <2>3
  <2>6. k \in 0 .. Len(Framed(p)) /\ Catching(k, p, i, short, most)
    BY <2>4, <2>5
  <2>7. k + n \in 0 .. Len(Framed(p)) /\ Catching(k + n, p, i, short, most)'
    BY <2>2, <2>6
  <2>8. p = sent' /\ i = since' - 1
    BY <2>1, <2>4, <2>5
  <2>9. Catching(k + n, sent, since - 1, short, most)'
    BY <2>7, <2>8 DEF Catching, Following, Looking, Counting
  <2>10. k + n \in 0 .. Len(Framed(sent))
    BY <2>4, <2>7
  <2>11. QED
    BY <2>9, <2>10
<1>4. CASE UNCHANGED finderVars
  BY <1>4 DEF finderVars, CatchingUp, Catching, Following, AtByte, Ready, Looking, Counting, Rest
<1>5. QED
  BY <1>1, <1>2, <1>3, <1>4 DEF FinderNext

LEMMA CaughtUp ==
  ASSUME FinderInv, FinderShape, NEW short, NEW most, Bounds(short, most),
         CatchingUp(short, most)
  PROVE  InStep
<1> SUFFICES ASSUME since > Recovery, line = <<>> PROVE got = sent
  BY DEF InStep
<1>1. since \in Nat /\ Recovery \in Nat /\ buffer \in Seq(Bytes) /\ sizePayload \in Nat
      /\ Len(STX) = 2
  BY FinderAssumption, BytesAssumption DEF FinderInv, FinderTypeOK
<1> DEFINE i == since - 1
<1>2. i \in Nat /\ Recovery <= i /\ since >= 1
  BY <1>1
<1>3. sent \in Payloads /\ \E k \in 0 .. Len(Framed(sent)) : Catching(k, sent, i, short, most)
  BY <1>2 DEF CatchingUp
<1> HIDE DEF i
<1>4. \/ finder = "clear" /\ got = sent
      \/ Ready /\ short * i <= most + 1
      \/ finder = "payload" /\ Rest + short * (i + 1) <= most + 2
  BY <1>2, <1>3, AtEnd
<1> DEFINE a == short * i
           c == short * (i + 1)
           r == short * Recovery
<1>5. /\ a \in Nat /\ c = a + short /\ r \in Nat /\ r <= a /\ most + 2 <= r
      /\ short \in Nat /\ most \in Nat
  BY <1>1, <1>2, Multiples DEF Bounds
<1>6. Rest \in Int /\ (finder = "payload" => Rest >= 1)
  BY <1>1 DEF Rest, FinderShape
<1> HIDE DEF a, c, r
<1>7. ~(a <= most + 1)
  BY <1>5
<1>8. finder = "payload" => ~(Rest + c <= most + 2)
  BY <1>5, <1>6
<1>9. QED
  BY <1>4, <1>7, <1>8 DEF a, c

LEMMA CatchingStart ==
  FinderInit => FinderShape /\ \A short, most : CatchingUp(short, most)
<1> SUFFICES ASSUME FinderInit PROVE FinderShape /\ \A short, most : CatchingUp(short, most)
  OBVIOUS
<1>1. since = 0 /\ finder = "stx" /\ Len(buffer) = 0
  BY DEF FinderInit
<1>2. ~(since >= 1) /\ Len(buffer) <= 1
  BY <1>1
<1>3. QED
  BY <1>1, <1>2 DEF FinderShape, CatchingUp

\* The stream is read as the base framed it: after the last damage or late read the
\* finder is in step again as soon as the packets that followed are longer than what
\* the largest size makes it take for one, whatever payloads are sent and whatever
\* the reads bring; and every sub-payload the driver knows is taken over
\* (packet_finder.cpp:225, kobuki.cpp:282).  It needs payloads that hold no STX.
THEOREM StreamIsRead ==
  ASSUME NEW short, NEW most, Bounds(short, most), NoFalseStart
  PROVE  CoreSpec => []StreamRead
<1> DEFINE Inv == FinderInv /\ FinderShape /\ CatchingUp(short, most)
<1>1. CoreInit => Inv
  BY FinderStart, CatchingStart DEF CoreInit
<1>2. Inv /\ [CoreNext]_coreVars => Inv'
  BY PartsAlone, FinderTypesStep, ShapeStep, CatchingStep
<1>3. Inv => InStep
  BY CaughtUp
<1>4. CoreSpec => []InStep
  BY <1>1, <1>2, <1>3, PTL DEF CoreSpec
<1>5. (CoreTypeOK /\ InStep /\ KnownTaken) <=> StreamRead
  BY DEF StreamRead
<1>6. QED
  BY <1>4, <1>5, CoreTypesKept, KnownAreTaken, PTL

==============================================================================
