---------------------------- MODULE KobukiNodes ----------------------------
(***************************************************************************)
(* The nodes around the Kobuki that live on its events and topics, each by *)
(* itself: part, chosen once, is the one that runs, and the state of the   *)
(* others stays as it was.  The safety controller and the random walker    *)
(* share the path of the events.                                           *)
(***************************************************************************)
EXTENDS SafetyController, KeyOp

(***************************************************************************)
(* The random walker node: it drives on until a bumper or a cliff sensor   *)
(* is set, then turns for a random time, and stands while a wheel hangs in *)
(* the air.  Time is counted in periods of its timer of 100 ms.            *)
(***************************************************************************)

CONSTANTS
  TurnMax,         \* periods of the longest turn, half a revolution
  WalkerWorlds     \* states of the sensors

ASSUME WalkerAssumption == TurnMax \in Nat /\ WalkerWorlds \subseteq SUBSET Sensors

VARIABLES
  changeDirection, stop, turning,
  turnLeft,        \* periods of turning_duration_ that are left
  ledOn,           \* topics whose led_..._on_ is set
  walk             \* what the last period of the timer published

walkerVars == <<changeDirection, stop, turning, turnLeft, ledOn, walk>>

WalkerInit ==
  /\ changeDirection = FALSE /\ stop = FALSE
  /\ turning = FALSE /\ turnLeft = 0
  /\ ledOn = {} /\ walk = "nothing"

\* The LED of a topic changes when its first sensor is set and when its last
\* one is released.
Lights(t) == ledOn' = IF TopicFlags(t)' # {} THEN ledOn \cup {t} ELSE ledOn \ {t}

\* bumperEventCB and cliffEventCB; a flag that was set already is no bump.
\* Events of a bumper are ignored while the controller is disabled.
BumpEvent(t) ==
  LET e == Head(queue[t])
      heard == t = "cliff" \/ active
  IN /\ t # "wheel" /\ TakeFrom(t)
     /\ IF heard
        THEN /\ flags' = Noted(e)
             /\ changeDirection' = (changeDirection \/ (e.on /\ e.sensor \notin flags))
             /\ Lights(t)
        ELSE UNCHANGED <<flags, changeDirection, ledOn>>
     /\ unsure' = IF (e.sensor \in flags') = e.on
                  THEN unsure \ {e.sensor} ELSE unsure \cup {e.sensor}
     /\ UNCHANGED <<lastState, active, stop, turning, turnLeft, walk>>

\* wheelDropEventCB
WheelEvent ==
  LET e == Head(queue["wheel"])
  IN /\ TakeFrom("wheel")
     /\ flags' = Noted(e)
     /\ Lights("wheel")
     /\ stop' = IF ledOn' = ledOn THEN stop ELSE "wheel" \in ledOn'
     /\ unsure' = unsure \ {e.sensor}
     /\ UNCHANGED <<lastState, active, changeDirection, turning, turnLeft, walk>>

WalkerIdle ==
  /\ ~active \/ stop
  /\ walk' = IF active THEN "zero" ELSE "nothing"
  /\ turnLeft' = IF turnLeft > 0 THEN turnLeft - 1 ELSE 0
  /\ UNCHANGED <<eventVars, changeDirection, stop, turning, ledOn>>

\* Mutant: the request for a turn survives the turn.
WalkerTurnAgain(duration) ==
  LET left == IF changeDirection THEN duration ELSE turnLeft
  IN /\ active /\ ~stop /\ (changeDirection \/ turning)
     /\ turning' = (left > 0)
     /\ turnLeft' = IF left > 0 THEN left - 1 ELSE 0
     /\ walk' = IF left > 0 THEN "turn" ELSE "nothing"
     /\ UNCHANGED <<eventVars, changeDirection, stop, ledOn>>

\* A new turn starts, or the one under way goes on or ends; the period that
\* ends it publishes nothing.
WalkerTurn(duration) ==
  LET left == IF changeDirection THEN duration ELSE turnLeft
  IN /\ active /\ ~stop /\ (changeDirection \/ turning)
     /\ changeDirection' = FALSE
     /\ turning' = (left > 0)
     /\ turnLeft' = IF left > 0 THEN left - 1 ELSE 0
     /\ walk' = IF left > 0 THEN "turn" ELSE "nothing"
     /\ UNCHANGED <<eventVars, stop, ledOn>>

WalkerForward ==
  /\ active /\ ~stop /\ ~changeDirection /\ ~turning
  /\ walk' = "forward"
  /\ UNCHANGED <<eventVars, changeDirection, stop, turning, turnLeft, ledOn>>

WalkerSpin ==
  WalkerIdle \/ WalkerForward \/ \E d \in 0..TurnMax : WalkerTurn(d)

WalkerNext ==
  \/ \E new \in WalkerWorlds : CorePacket(new) /\ UNCHANGED walkerVars
  \/ BumpEvent("bumper") \/ BumpEvent("cliff") \/ WheelEvent
  \/ WalkerSpin
  \/ (Enable \/ Disable) /\ UNCHANGED walkerVars

----------------------------------------------------------------------------
WalkerTypeOK ==
  /\ {changeDirection, stop, turning} \subseteq BOOLEAN
  /\ turnLeft \in 0..TurnMax /\ ledOn \subseteq Topics
  /\ walk \in {"nothing", "zero", "turn", "forward"}

----------------------------------------------------------------------------
(***************************************************************************)
(* The bumper2pc node turns bumpers and cliffs into a cloud of three       *)
(* points, one per side, near the robot or far away.  It is silent without *)
(* listeners, and after one cloud that shows everything far it is silent   *)
(* until a sensor is set again.                                            *)
(***************************************************************************)

CONSTANTS
  CloudWorlds,    \* states of the sensors, sets of [topic, side]
  Radii           \* values of pointcloud_radius

VARIABLES
  listeners,      \* somebody subscribes to the cloud
  prev,           \* prev_bumper_ or prev_cliff_ is not zero
  radius,         \* the parameter
  sideRadius,     \* the radius p_side_x_, p_side_y_ and n_side_y_ stand for
  cloud,          \* the cloud published last
  heard           \* history: sides set in the last message that was not skipped

cloudVars == <<listeners, prev, radius, sideRadius, cloud, heard>>

CloudSides == {"left", "center", "right"}
Far == 0

ASSUME CloudAssumption ==
  CloudWorlds \subseteq SUBSET Sensors /\ Radii \subseteq Nat \ {Far}

CloudInit ==
  /\ listeners = FALSE /\ prev = FALSE
  /\ radius \in Radii /\ sideRadius = radius
  /\ cloud = [s \in CloudSides |-> Far] /\ heard = {}

SidesOf(sensors) == {s[2] : s \in {x \in sensors : x[1] # "wheel"}}

\* coreSensorCB; the center takes the radius from the parameter.
CoreSensors(sensors) ==
  LET near == SidesOf(sensors)
  IN /\ heard' = IF listeners THEN near ELSE heard
     /\ IF listeners /\ (near # {} \/ prev)
        THEN /\ prev' = (near # {})
             /\ cloud' = [s \in CloudSides |->
                           IF s \notin near THEN Far
                           ELSE IF s = "center" THEN radius ELSE sideRadius]
        ELSE UNCHANGED <<prev, cloud>>
     /\ UNCHANGED <<listeners, radius, sideRadius>>

ListenersChange ==
  listeners' = ~listeners /\ UNCHANGED <<prev, radius, sideRadius, cloud, heard>>

SetRadius ==
  radius' \in Radii /\ UNCHANGED <<listeners, prev, sideRadius, cloud, heard>>

\* onParameterEvent and reconfigurePointCloud
Reconfigure ==
  sideRadius' = radius /\ UNCHANGED <<listeners, prev, radius, cloud, heard>>

CloudNext ==
  \/ \E sensors \in CloudWorlds : CoreSensors(sensors)
  \/ ListenersChange \/ SetRadius \/ Reconfigure

----------------------------------------------------------------------------
CloudTypeOK ==
  /\ {listeners, prev} \subseteq BOOLEAN
  /\ {radius, sideRadius} \subseteq Radii
  /\ cloud \in [CloudSides -> Radii \cup {Far}]

\* The node publishes no more often than it must, and yet the cloud a listener
\* got last shows the sides that are set and no other, also across times
\* without listeners (kobuki_bumper2pc.cpp:41).
CloudCurrent == {s \in CloudSides : cloud[s] # Far} = heard

----------------------------------------------------------------------------
VARIABLE part

nodesVars == <<part, eventVars, safetyVars, walkerVars, cloudVars, powerVars, keyVars>>

Parts == {"safety", "walker", "cloud", "power", "keys"}

NodesInit ==
  /\ part \in Parts
  /\ EventsInit /\ SafetyInit /\ WalkerInit /\ CloudInit /\ PowerInit /\ KeyInit

Others(p) ==
  /\ part = p /\ UNCHANGED part
  /\ p \notin {"safety", "walker"} => UNCHANGED eventVars
  /\ p # "safety" => UNCHANGED safetyVars
  /\ p # "walker" => UNCHANGED walkerVars
  /\ p # "cloud"  => UNCHANGED cloudVars
  /\ p # "power"  => UNCHANGED powerVars
  /\ p # "keys"   => UNCHANGED keyVars

NodesNext ==
  \/ Others("safety") /\ SafetyNext
  \/ Others("walker") /\ WalkerNext
  \/ Others("cloud") /\ CloudNext
  \/ Others("power") /\ PowerNext
  \/ Others("keys") /\ KeyNext

\* Executors take what has arrived and serve their timers; a callback, a thread
\* or a destructor that has begun goes on.
NodesFairness ==
  /\ WF_nodesVars(Others("safety") /\ SafetySpin)
  /\ \A t \in Topics : WF_nodesVars(Others("safety") /\ SafetyEvent(t))
  /\ WF_nodesVars(Others("walker") /\ WalkerSpin)
  /\ WF_nodesVars(Others("walker") /\
                  (BumpEvent("bumper") \/ BumpEvent("cliff") \/ WheelEvent))
  /\ WF_nodesVars(Others("keys") /\ KeySpin)
  /\ WF_nodesVars(Others("keys") /\ KeyboardStep)
  /\ WF_nodesVars(Others("keys") /\ TakeVelocity)
  /\ WF_nodesVars(Others("keys") /\ TakePower)

NodesSpec == NodesInit /\ [][NodesNext]_nodesVars /\ NodesFairness

----------------------------------------------------------------------------
NodesTypeOK ==
  /\ part \in Parts
  /\ EventsTypeOK /\ SafetyTypeOK /\ WalkerTypeOK /\ CloudTypeOK /\ PowerTypeOK /\ KeyTypeOK

\* "All commands stop when the event condition disappears"
\* (safety_controller.hpp): however often sensors were set and released, a
\* robot that is free again is left to the other controllers.
FallsSilent ==
  (part = "safety" /\ lastState = {} /\ unsure = {}) ~>
    (said = "nothing" \/ lastState # {} \/ unsure # {})

\* The robot is to stand exactly as long as one of its wheels hangs in the
\* air, also when the two wheels drop and are set down in turn
\* (random_walker.cpp:245).
StandsWhileDropped ==
  part = "walker" => (stop <=> TopicFlags("wheel") # {})

\* Bumps on the way restart the turn, but a walker that meets no more of them
\* drives on: no request for a turn survives its turn (random_walker.cpp:297).
DrivesOn ==
  (part = "walker" /\ active /\ lastState = {}) ~>
    (walk = "forward" \/ ~active \/ lastState # {} \/ unsure # {})

\* The controllers picture the sensors as they are although they see only
\* edges, through queues: the flags of both, and the stop of the walker
\* (safety_controller.cpp:150, random_walker.cpp:126).
ControllersFollow == FlagsFollow /\ StandsWhileDropped

\* A keyboard node that has ended leaves the base at rest, and its belief of
\* the motors' power is the base's once the messages have arrived
\* (keyop.cpp:121, keyop.cpp:305).
KeyboardStops == ExitStops /\ PowerAgrees

\* Listeners of the bumper cloud hold the current one and the plug is reported
\* as it is, whatever came and went before (bumper2pc.cpp:33,
\* event_manager.cpp:207).
SensorsTold == NodesTypeOK /\ CloudCurrent /\ PlugTold

\* What happens at last: a safety controller without cause falls silent, a
\* walker without obstacles drives on, a base follows the last key
\* (safety_controller.cpp:250, random_walker.cpp:297, keyop.cpp:138).
NodesProgress == FallsSilent /\ DrivesOn /\ BaseFollows

=============================================================================
