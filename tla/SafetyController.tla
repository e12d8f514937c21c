-------------------------- MODULE SafetyController --------------------------
(***************************************************************************)
(* The safety controller node: event callbacks, enable, disable and reset, *)
(* and the timer of 100 ms that turns its flags into an escape command.    *)
(* Time is counted in periods of that timer.                               *)
(***************************************************************************)
EXTENDS RobotEvents

CONSTANTS
  Extend,         \* time_to_extend_bump_cliff_events
  SafetyWorlds    \* states of the sensors

ASSUME SafetyAssumption == Extend \in Nat /\ SafetyWorlds \subseteq SUBSET Sensors

VARIABLES
  msg,    \* msg_, the twist published last
  said,   \* what the last period of the timer published: msg, or nothing
  age     \* periods since last_event_time_, at most Extend

safetyVars == <<msg, said, age>>

Escapes == {"zero", "back", "backRight", "backLeft"}

SafetyInit == msg = "zero" /\ said = "nothing" /\ age = 0

\* Mutant: events are only noted while the controller is enabled.
SafetyEventWhenActive(t) ==
  LET e == Head(queue[t])
  IN /\ TakeFrom(t)
     /\ flags' = IF active THEN Noted(e) ELSE flags
     /\ age' = IF e.on /\ t # "wheel" THEN 0 ELSE age
     /\ unsure' = unsure \ {e.sensor}
     /\ UNCHANGED <<lastState, active, msg, said>>

\* bumperEventCB, cliffEventCB and wheelEventCB, enabled or not.
SafetyEvent(t) ==
  LET e == Head(queue[t])
  IN /\ TakeFrom(t)
     /\ flags' = Noted(e)
     /\ age' = IF e.on /\ t # "wheel" THEN 0 ELSE age
     /\ unsure' = unsure \ {e.sensor}
     /\ UNCHANGED <<lastState, active, msg, said>>

\* The flags are forgotten; of a sensor that stays set no event will come.
SafetyReset ==
  /\ flags' = {}
  /\ unsure' = {s \in lastState : \A t \in Topics : s \notin SensorsIn(queue[t])}
  /\ UNCHANGED <<lastState, queue, active, safetyVars>>

\* The command for a set of sensors, by decreasing severity.
Escape(set) ==
  LET Wheel == \E s \in set : s[1] = "wheel"
      At(side) == \E s \in set : s[1] # "wheel" /\ s[2] = side
  IN CASE Wheel -> "zero"
       [] ~Wheel /\ At("center") -> "back"
       [] ~Wheel /\ ~At("center") /\ At("left") -> "backRight"
       [] ~Wheel /\ ~At("center") /\ ~At("left") /\ At("right") -> "backLeft"
       [] OTHER -> "nothing"

\* With no flag set the last command goes on for the time of the extension.
SafetySpin ==
  LET wanted == Escape(flags)
  IN /\ msg' = IF active /\ wanted # "nothing" THEN wanted ELSE msg
     /\ said' = CASE ~active -> "nothing"
                  [] active /\ wanted # "nothing" -> wanted
                  [] active /\ wanted = "nothing" ->
                       IF age < Extend THEN msg ELSE "nothing"
     /\ age' = IF age < Extend THEN age + 1 ELSE age
     /\ UNCHANGED eventVars

SafetyNext ==
  \/ \E new \in SafetyWorlds : CorePacket(new) /\ UNCHANGED safetyVars
  \/ \E t \in Topics : SafetyEvent(t)
  \/ SafetyReset \/ SafetySpin
  \/ (Enable \/ Disable) /\ UNCHANGED safetyVars

----------------------------------------------------------------------------
SafetyTypeOK ==
  msg \in Escapes /\ said \in Escapes \cup {"nothing"} /\ age \in 0..Extend

Drained == \A t \in Topics : queue[t] = <<>>

\* What a period of an enabled controller publishes is the escape from what
\* the robot senses, the most severe first, whatever the controller missed
\* while it was disabled (safety_controller.cpp:250).
EscapesFromSensed ==
  [][SafetySpin /\ active /\ Drained /\ unsure = {} /\ Escape(lastState) # "nothing"
       => said' = Escape(lastState)]_<<eventVars, safetyVars>>

=============================================================================
