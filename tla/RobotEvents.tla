---------------------------- MODULE RobotEvents ----------------------------
(***************************************************************************)
(* The path of a bumper, cliff or wheel event: EventManager compares every *)
(* packet of the core sensors with the one before and emits the edges, the *)
(* Kobuki node publishes them on one topic per kind of sensor, and a       *)
(* subscriber keeps the last Depth of each topic until its executor takes  *)
(* them.  A sensor is a pair of its topic and its side.  The safety        *)
(* controller and the random walker both rebuild the state of the sensors  *)
(* from the edges alone: flags stands for their eight Boolean members.     *)
(***************************************************************************)
EXTENDS Integers, Sequences

CONSTANT Depth       \* history depth of a subscription

ASSUME EventsAssumption == Depth \in Nat \ {0}

VARIABLES
  lastState,    \* EventManager's last_state: the sensors that were set
  queue,        \* per topic, the events the subscriber has not taken
  active,       \* controller_active_ of the subscriber
  flags,        \* the sensors the subscriber takes for set
  unsure        \* history: sensors of which the last event was lost

eventVars == <<lastState, queue, active, flags, unsure>>

Topics  == {"bumper", "cliff", "wheel"}
Sensors == Topics \X {"left", "center", "right"}
Event   == [sensor : Sensors, on : BOOLEAN]

EventsInit ==
  /\ lastState = {} /\ queue = [t \in Topics |-> <<>>]
  /\ active = TRUE /\ flags = {} /\ unsure = {}

\* The edges of one topic between the last state and the new one, by side.
Edge(topic, side, new) ==
  IF (<<topic, side>> \in new) = (<<topic, side>> \in lastState) THEN <<>>
  ELSE <<[sensor |-> <<topic, side>>, on |-> <<topic, side>> \in new]>>

Edges(topic, new) ==
  Edge(topic, "left", new) \o Edge(topic, "center", new) \o Edge(topic, "right", new)

KeepLast(q) == SubSeq(q, IF Len(q) > Depth THEN Len(q) - Depth + 1 ELSE 1, Len(q))

\* The node publishes every event of the driver on the topic of its sensor.
Publish(topic, new) == KeepLast(queue[topic] \o Edges(topic, new))

SensorsIn(q) == {q[i].sensor : i \in DOMAIN q}

\* Mutant: the state that the edges are taken from is that of the first edge.
PacketKeepsPressed(new) ==
  /\ queue' = [t \in Topics |-> Publish(t, new)]
  /\ lastState' = lastState \cup new
  /\ unsure' = unsure \cup
       UNION {SensorsIn(queue[t] \o Edges(t, new)) \ SensorsIn(queue'[t])
              : t \in Topics}
  /\ UNCHANGED <<active, flags>>

\* A packet of the core sensors.
CorePacket(new) ==
  /\ queue' = [t \in Topics |-> Publish(t, new)]
  /\ lastState' = new
  /\ unsure' = unsure \cup
       UNION {SensorsIn(queue[t] \o Edges(t, new)) \ SensorsIn(queue'[t])
              : t \in Topics}
  /\ UNCHANGED <<active, flags>>

\* What the subscriber does with the flag of an event.
Noted(e) == IF e.on THEN flags \cup {e.sensor} ELSE flags \ {e.sensor}

TakeFrom(t) == queue[t] # <<>> /\ queue' = [queue EXCEPT ![t] = Tail(@)]

Enable  == active' = TRUE /\ UNCHANGED <<lastState, queue, flags, unsure>>
Disable == active' = FALSE /\ UNCHANGED <<lastState, queue, flags, unsure>>

TopicFlags(topic) == {s \in flags : s[1] = topic}

----------------------------------------------------------------------------
EventsTypeOK ==
  /\ lastState \subseteq Sensors
  /\ \A t \in Topics : queue[t] \in Seq(Event) /\ Len(queue[t]) <= Depth
  /\ active \in BOOLEAN
  /\ flags \subseteq Sensors
  /\ unsure \subseteq Sensors

Sensed(s) ==
  LET events == queue[s[1]]
      of     == {i \in DOMAIN events : events[i].sensor = s}
  IN IF of = {} THEN s \in flags
     ELSE \E i \in of : events[i].on /\ \A j \in of : j <= i

\* A subscriber that only sees edges still knows every sensor: for each sensor
\* whose last edge was not lost, ignored or reset, the last event on its way,
\* or else the flag it left, is what the robot senses (event_manager.cpp:43,
\* safety_controller.cpp:150, random_walker.cpp:126).
FlagsFollow ==
  \A s \in Sensors :
    s \notin unsure => (Sensed(s) <=> s \in lastState)

----------------------------------------------------------------------------
(***************************************************************************)
(* The power events of EventManager: every packet carries the charger flag *)
(* and the voltage of the battery, and the differences to the last packet  *)
(* become events.  A voltage is counted in steps of the sensor.            *)
(***************************************************************************)

CONSTANTS
  Volts,        \* readings of the battery
  LowVolts,     \* Battery::low
  DeadVolts     \* Battery::dangerous

ASSUME PowerAssumption ==
  Volts \cup {LowVolts, DeadVolts} \subseteq Nat /\ DeadVolts < LowVolts

VARIABLES
  charger, battery,    \* of last_state
  emitted,             \* the power events of the last packet
  told,                \* history: the last event with the kind of a plug event
  garbled              \* history: an event without a kind came after the last
                       \* plug event

powerVars == <<charger, battery, emitted, told, garbled>>

\* Charging and charged have a source; the flag for the charged state does
\* not say more.
Chargers == {"discharging", "charged", "adapter", "dock"}
ChargingState(c) == IF c \in {"adapter", "dock"} THEN "charging" ELSE c

PlugKinds == {"unplugged", "pluggedToAdapter", "pluggedToDockbase", "chargeCompleted"}
Kinds == PlugKinds \cup {"batteryLow", "batteryCritical"}

PowerInit ==
  /\ charger = "discharging" /\ battery = 0
  /\ emitted = <<>> /\ told = "unplugged" /\ garbled = FALSE

Level(c, v) ==
  CASE c = "charged"                        -> "maximum"
    [] c # "charged" /\ v > LowVolts        -> "healthy"
    [] c # "charged" /\ v \in DeadVolts + 1 .. LowVolts -> "low"
    [] c # "charged" /\ v <= DeadVolts      -> "dangerous"

\* Mutant: only a charger that comes or goes is an event.
PlugEventComesOrGoes(c) ==
  IF (c = "discharging") = (charger = "discharging") THEN <<>>
  ELSE <<CASE c = "discharging" -> "unplugged"
           [] c = "charged"     -> "chargeCompleted"
           [] c = "adapter"     -> "pluggedToAdapter"
           [] c = "dock"        -> "pluggedToDockbase">>

PlugEvent(c) ==
  IF ChargingState(c) = ChargingState(charger) THEN <<>>
  ELSE <<CASE c = "discharging" -> "unplugged"
           [] c = "charged"     -> "chargeCompleted"
           [] c = "adapter"     -> "pluggedToAdapter"
           [] c = "dock"        -> "pluggedToDockbase">>

\* The level has changed with a falling voltage.  The switch has no case for
\* a level that is now healthy or maximum: the event goes out with whatever
\* kind its memory holds.
LevelChanged(c, v) == battery > v /\ Level(c, v) # Level(charger, battery)
UnsetKind(c, v) == LevelChanged(c, v) /\ Level(c, v) \in {"healthy", "maximum"}
LevelEvents(c, v) ==
  IF ~LevelChanged(c, v) THEN {<<>>}
  ELSE CASE Level(c, v) = "low"       -> {<<"batteryLow">>}
         [] Level(c, v) = "dangerous" -> {<<"batteryCritical">>}
         [] UnsetKind(c, v)           -> {<<k>> : k \in Kinds}

PowerPacket(c, v) ==
  /\ \E level \in LevelEvents(c, v) :
       /\ emitted' = PlugEvent(c) \o level
       /\ told' = IF level # <<>> /\ level[1] \in PlugKinds THEN level[1]
                  ELSE IF PlugEvent(c) # <<>> THEN PlugEvent(c)[1] ELSE told
  /\ garbled' = (UnsetKind(c, v) \/ (garbled /\ PlugEvent(c) = <<>>))
  /\ charger' = c /\ battery' = v

PowerNext == \E c \in Chargers, v \in Volts : PowerPacket(c, v)

----------------------------------------------------------------------------
PowerTypeOK ==
  /\ charger \in Chargers /\ battery \in Volts \cup {0}
  /\ emitted \in Seq(Kinds) /\ told \in PlugKinds /\ garbled \in BOOLEAN

\* Whoever follows the plug events knows the charging state of the robot; only
\* an event of no kind can mislead (event_manager.cpp:211).
PlugTold ==
  ~garbled => CASE charger = "discharging" -> told = "unplugged"
                [] charger = "charged"     -> told = "chargeCompleted"
                [] OTHER -> told \in {"pluggedToAdapter", "pluggedToDockbase"}

=============================================================================
