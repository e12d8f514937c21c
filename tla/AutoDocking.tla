---------------------------- MODULE AutoDocking ----------------------------
(***************************************************************************)
(* The auto docking node: an action server whose executor thread answers   *)
(* goals and feeds the sensors to DockDrive, and which starts a detached   *)
(* thread for every goal it accepts.  The threads and the executor share   *)
(* the DockDrive without a lock: an update reads the state of the search   *)
(* in one step and writes it in another.  The action library ends the      *)
(* program when a goal that is executing is declared canceled (external).  *)
(***************************************************************************)
EXTENDS Integers, Sequences, SequencesExt

(***************************************************************************)
(* DockDrive, the search for the docking station, as one call of update()  *)
(* per set of sensors.  Velocities are in mm/s and mrad/s; a signal gives  *)
(* for each of the three infrared receivers the regions it sees, and turns *)
(* are counted in parts of a full one.                                     *)
(***************************************************************************)

CONSTANTS
  Signals,      \* readings of the receivers that may arrive
  Window,       \* signal_window, 20
  BumpSteps,    \* 10: iterations backwards after a bump
  Contacts,     \* 20: contacts with the charger before docking is done
  FullTurn,     \* parts of a full turn
  DetectorCap   \* bound on how far dock_detector counts

ASSUME DockAssumption ==
  {Window, BumpSteps, Contacts, FullTurn, DetectorCap} \subseteq Nat \ {0}

VARIABLE
  dock         \* the fields of the DockDrive object

Receivers == {"right", "mid", "left"}
Regions   == {"NL", "NC", "NR", "FL", "FC", "FR"}
Near      == {"NL", "NC", "NR"}
Far       == {"FL", "FC", "FR"}
Vel(v, w) == [v |-> v, w |-> w]

DockStates == {"IDLE", "DONE", "DOCKED_IN", "BUMPED_DOCK", "BUMPED", "SCAN",
               "FIND_STREAM", "GET_STREAM", "ALIGNED", "ALIGNED_FAR", "ALIGNED_NEAR"}

DockInit ==
  dock = [isEnabled |-> FALSE, canRun |-> FALSE, state |-> "IDLE", vel |-> Vel(0, 0),
          past |-> <<>>, bumpRemainder |-> 0, stabilizer |-> 0, detector |-> 0,
          rotated |-> 0]

\* modeShift; enable() is On and then Idled, see AutoDocking.
On(d)    == [d EXCEPT !.isEnabled = TRUE, !.canRun = TRUE]
Idled(d) == [d EXCEPT !.state = "IDLE"]
Off(d)   == [d EXCEPT !.isEnabled = FALSE, !.canRun = FALSE]

ModeShift(d, mode) ==
  CASE mode = "enable"  -> Idled(On(d))
    [] mode = "disable" -> Off(d)
    [] mode = "run"     -> [d EXCEPT !.canRun = TRUE]
    [] mode = "stop"    -> [d EXCEPT !.canRun = FALSE]
    [] OTHER            -> d

To(d, state, v, w) == [d EXCEPT !.state = state, !.vel = Vel(v, w)]

\* processBumpChargeEvent
BumpOrCharge(d, bumper, charger) ==
  IF charger /\ bumper THEN To(d, "BUMPED_DOCK", -10, 0)
  ELSE IF charger /\ d.stabilizer + 1 > Contacts
       THEN Off(To([d EXCEPT !.stabilizer = 0], "DONE", 0, 0))
  ELSE IF charger THEN To([d EXCEPT !.stabilizer = @ + 1], "DOCKED_IN", 0, 0)
  ELSE To([d EXCEPT !.bumpRemainder = 0], "BUMPED", -50, 0)

\* filterIRSensor: what each receiver has seen within the window.  Of the
\* signals the window holds, past keeps those that the next call still uses.
Seen(past) == [r \in Receivers |-> UNION {past[i][r] : i \in DOMAIN past}]

Forget(d) == [d EXCEPT !.detector = 0, !.rotated = 0]

Scan(d, mid, turn) ==
  LET r == [d EXCEPT !.rotated = @ + turn]
  IN IF mid \cap {"FC", "NC"} # {} THEN To(r, "ALIGNED", 50, 0)
     ELSE IF mid \cap {"FL", "NL"} # {}
          THEN To([r EXCEPT !.detector = @ - 1], "SCAN", 0, 660)
     ELSE IF mid \cap {"FR", "NR"} # {}
          THEN To([r EXCEPT !.detector = @ + 1], "SCAN", 0, 660)
     ELSE IF r.rotated > FullTurn \/ r.rotated < -FullTurn THEN To(r, "FIND_STREAM", 0, 0)
     ELSE To(r, "SCAN", 0, 660)

FindStream(d, seen) ==
  LET onTheRight == d.detector > 0
      edge == IF onTheRight THEN seen["left"] \cap {"FR", "NR"}
              ELSE seen["right"] \cap {"FL", "NL"}
  IN IF edge # {} THEN To(d, "GET_STREAM", 500, 0)
     ELSE To(d, "FIND_STREAM", 0, IF onTheRight THEN -330 ELSE 330)

GetStream(d, seen) ==
  LET edge == IF d.detector > 0 THEN seen["left"] \cap {"FL", "NL"}
              ELSE seen["right"] \cap {"FR", "NR"}
  IN IF edge # {} THEN To(Forget(d), "SCAN", 0, 100) ELSE To(d, "GET_STREAM", 50, 0)

Aligned(d, mid) ==
  LET near == mid \cap Near
      far  == mid \cap Far
      Side(seen, l, w) == IF l \in seen THEN w ELSE -w
  IN IF near \in {{"NC"}, Near} THEN To(d, "ALIGNED_NEAR", 50, 0)
     ELSE IF near \cap {"NL", "NR"} # {} THEN To(d, "ALIGNED_NEAR", 50, Side(near, "NL", 100))
     ELSE IF far \in {{"FC"}, Far} THEN To(d, "ALIGNED_FAR", 100, 0)
     ELSE IF far \cap {"FL", "FR"} # {} THEN To(d, "ALIGNED_FAR", 100, Side(far, "FL", 300))
     ELSE To(d, "SCAN", 0, 660)

Bumped(d) ==
  IF d.bumpRemainder < BumpSteps
  THEN To([d EXCEPT !.bumpRemainder = @ + 1], "BUMPED", -50, 0)
  ELSE To([d EXCEPT !.bumpRemainder = 0], "SCAN", 0, 0)

\* updateVelocity; DOCKED_IN, BUMPED_DOCK and DONE have no case of their own:
\* the robot stands still and the state is kept.
Steer(d, seen, turn) ==
  CASE d.state = "IDLE"        -> To(Forget(d), "SCAN", 0, 660)
    [] d.state = "SCAN"        -> Scan(d, seen["mid"], turn)
    [] d.state = "FIND_STREAM" -> FindStream(d, seen)
    [] d.state = "GET_STREAM"  -> GetStream(d, seen)
    [] d.state \in {"ALIGNED", "ALIGNED_FAR", "ALIGNED_NEAR"} -> Aligned(d, seen["mid"])
    [] d.state = "BUMPED"      -> Bumped(d)
    [] OTHER                   -> To(d, d.state, 0, 0)

\* update: a bump or a contact is processed before everything else.
Update(d, signal, turn, bumper, charger) ==
  IF bumper \/ charger THEN BumpOrCharge(d, bumper, charger)
  ELSE LET past == Append(d.past, signal)
           next == IF Len(past) < Window THEN past ELSE Tail(past)
       IN Steer([d EXCEPT !.past = next], Seen(past), turn)

DockTypeOK ==
  /\ dock.state \in DockStates /\ Len(dock.past) < Window
  /\ dock.bumpRemainder \in 0 .. BumpSteps /\ dock.stabilizer \in 0 .. Contacts
  /\ dock.vel.v \in -50 .. 500 /\ dock.vel.w \in -330 .. 660

----------------------------------------------------------------------------
CONSTANTS
  Goals,      \* goals sent to the action server
  Turns,      \* parts of a turn between two calls
  Modes       \* words that arrive on debug/mode_shift

VARIABLES
  sync,       \* where the executor stands in syncCb
  newState,   \* new_state of the update that is under way
  thread,     \* where the thread of each goal stands
  status,     \* the status of each goal
  crashed,
  doneSince,  \* history: contacts ended the search after the goal was accepted
  overtaken   \* history: without that, an update was to write DONE over its reset

syncVars    == <<sync, newState>>
dockingVars == <<dock, syncVars, thread, status, crashed, doneSince, overtaken>>

Ended == {"rejected", "succeeded", "aborted"}

DockingInit ==
  /\ DockInit
  /\ sync = "idle" /\ newState = "IDLE"
  /\ thread = [g \in Goals |-> "none"] /\ status = [g \in Goals |-> "none"]
  /\ crashed = FALSE
  /\ doneSince = [g \in Goals |-> FALSE] /\ overtaken = [g \in Goals |-> FALSE]

Step(g, from, to) ==
  /\ ~crashed /\ thread[g] = from
  /\ thread' = [thread EXCEPT ![g] = to]

\* handle_goal and handle_accepted: a goal is refused while the drive is enabled.
\* The executor has one thread: no other callback runs while syncCb does.
HandleGoal(g) ==
  /\ sync = "idle" /\ status[g] = "none"
  /\ status' = [status EXCEPT ![g] = IF dock.isEnabled THEN "rejected" ELSE "executing"]
  /\ Step(g, "none", IF dock.isEnabled THEN "none" ELSE "start")
  /\ UNCHANGED <<dock, syncVars, crashed, doneSince, overtaken>>

\* execute: enable() raises the flags and then resets the state.
RaiseFlags(g) ==
  /\ Step(g, "start", "reset")
  /\ dock' = On(dock)
  /\ UNCHANGED <<syncVars, status, crashed, doneSince, overtaken>>

\* An update has read the state, and will write DONE.
DoneUnderWay == sync = "set" /\ newState = "DONE"

\* Mutant: the state of the last search is kept.
KeepState(g) ==
  /\ Step(g, "reset", "loop")
  /\ overtaken' = [overtaken EXCEPT ![g] = DoneUnderWay /\ ~doneSince[g]]
  /\ UNCHANGED <<dock, syncVars, status, crashed, doneSince>>

ResetState(g) ==
  /\ Step(g, "reset", "loop")
  /\ dock' = Idled(dock)
  /\ overtaken' = [overtaken EXCEPT ![g] = DoneUnderWay /\ ~doneSince[g]]
  /\ UNCHANGED <<syncVars, status, crashed, doneSince>>

ReadState(g) ==
  /\ Step(g, "loop", IF dock.state = "DONE" THEN "succeed" ELSE "check")
  /\ UNCHANGED <<dock, syncVars, status, crashed, doneSince, overtaken>>

\* A goal is never seen canceling: the cancel has ended the program.
CheckEnabled(g) ==
  /\ Step(g, "check", IF dock.isEnabled THEN "loop" ELSE "abort")
  /\ UNCHANGED <<dock, syncVars, status, crashed, doneSince, overtaken>>

\* The result is sent first, the drive disabled after it.  The history of a goal
\* that is aborted is of no more use.
End(g, at, result) ==
  /\ Step(g, at, "disable")
  /\ status' = [status EXCEPT ![g] = result]
  /\ doneSince' = [doneSince EXCEPT ![g] = @ /\ result = "succeeded"]
  /\ overtaken' = [overtaken EXCEPT ![g] = @ /\ result = "succeeded"]
  /\ UNCHANGED <<dock, syncVars, crashed>>

DisableDrive(g) ==
  /\ Step(g, "disable", "ended")
  /\ dock' = Off(dock)
  /\ UNCHANGED <<syncVars, status, crashed, doneSince, overtaken>>

\* syncCb goes on only when the drive is enabled.
SyncCb ==
  /\ ~crashed /\ sync = "idle" /\ dock.isEnabled
  /\ sync' = "update"
  /\ UNCHANGED <<dock, newState, thread, status, crashed, doneSince, overtaken>>

\* Goals that are accepted and whose thread has not seen the end of the search.
Searching == {g \in Goals : thread[g] \in {"start", "reset", "loop", "check"}}

\* update() up to setStateVel: it reads the state, and clears the flags when the
\* contacts are enough; only the executor reads the other fields.
Decide(signal, turn, bumper, charger) ==
  LET d == Update(dock, signal, turn, bumper, charger)
  IN
  /\ ~crashed /\ sync = "update" /\ sync' = "set"
  /\ d.detector \in -DetectorCap .. DetectorCap /\ d.rotated <= FullTurn + 1
  /\ dock' = [d EXCEPT !.state = dock.state]
  /\ newState' = d.state
  /\ doneSince' = [g \in Goals |->
                    doneSince[g] \/ (charger /\ d.state = "DONE" /\ g \in Searching)]
  /\ UNCHANGED <<thread, status, crashed, overtaken>>

\* setStateVel, and the rest of syncCb: it publishes the velocity if the drive
\* can run, which none of the parts modelled here hears and no later call reads.
SetState ==
  /\ ~crashed /\ sync = "set" /\ sync' = "idle"
  /\ dock' = [dock EXCEPT !.state = newState, !.vel = Vel(0, 0)]
  /\ newState' = "IDLE"
  /\ UNCHANGED <<thread, status, crashed, doneSince, overtaken>>

DebugCb(mode) ==
  /\ ~crashed /\ sync = "idle"
  /\ dock' = ModeShift(dock, mode)
  /\ UNCHANGED <<syncVars, thread, status, crashed, doneSince, overtaken>>

\* handle_cancel disables the drive and declares the goal canceled, which the
\* library refuses for a goal that is executing.
HandleCancel(g) ==
  /\ ~crashed /\ sync = "idle" /\ status[g] = "executing"
  /\ dock' = Off(dock) /\ crashed' = TRUE
  /\ UNCHANGED <<syncVars, thread, status, doneSince, overtaken>>

ThreadStep(g) ==
  \/ RaiseFlags(g) \/ ResetState(g) \/ ReadState(g) \/ CheckEnabled(g)
  \/ End(g, "abort", "aborted") \/ End(g, "succeed", "succeeded") \/ DisableDrive(g)

DockingNext ==
  \/ \E g \in Goals : HandleGoal(g) \/ HandleCancel(g) \/ ThreadStep(g)
  \/ SyncCb \/ SetState
  \/ \E s \in Signals, turn \in Turns, bumper, charger \in BOOLEAN :
       Decide(s, turn, bumper, charger)
  \/ \E mode \in Modes : DebugCb(mode)

----------------------------------------------------------------------------
DockingTypeOK ==
  /\ DockTypeOK
  /\ sync \in {"idle", "update", "set"} /\ newState \in DockStates
  /\ \A g \in Goals :
       /\ thread[g] \in {"none", "start", "reset", "loop", "check", "abort", "succeed",
                         "disable", "ended"}
       /\ status[g] \in Ended \cup {"none", "executing"}

\* A goal succeeds only when contacts with the charger ended the search after
\* it was accepted, or when an update that had read the state of an earlier
\* search wrote DONE over the reset of this thread: not on the state an earlier
\* goal left, whatever else two threads, the sensors and the debug messages do
\* to the drive (auto_docking_ros.cpp:137, dock_drive.cpp:72, 229 and 257).
SucceededDocked ==
  \A g \in Goals : status[g] = "succeeded" => doneSince[g] \/ overtaken[g]

\* A goal that has succeeded has arrived on the docking station: contacts ended
\* the search after it was accepted (auto_docking_ros.cpp:166).
ArrivedOnStation == \A g \in Goals : status[g] = "succeeded" => doneSince[g]

\* No goal is left executing on a drive that is not enabled: its thread notices
\* and ends it, also when another thread or a debug message disabled the drive
\* (auto_docking_ros.cpp:145).
GoalsEnd ==
  \A g \in Goals :
    (status[g] = "executing" /\ ~dock.isEnabled) ~>
      (status[g] \in Ended \/ dock.isEnabled \/ crashed)

=============================================================================
