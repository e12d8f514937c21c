---------------------------- MODULE KobukiDriver ----------------------------
(***************************************************************************)
(* The Kobuki driver as two threads run it: the driver thread of           *)
(* Kobuki::spin, which opens the port, reads packets and answers each with *)
(* the base command, and the ROS executor, whose callbacks set velocities  *)
(* and switch the motors.  They share point_velocity, which no lock        *)
(* protects, and speed and radius, which a lock protects one access at a   *)
(* time.  The cable, the power of the base and its answers belong to the   *)
(* environment.                                                            *)
(***************************************************************************)
EXTENDS Integers

(***************************************************************************)
(* The base command of the Kobuki: DiffDrive::velocityCommands turns a     *)
(* forward velocity v and a turn rate w into the speed and radius that the *)
(* firmware takes.  Lengths are in mm, rates in mrad/s, so that the        *)
(* arithmetic is that of integers; the last conversion of the code, from   *)
(* double to short, drops the fraction and saturates.                      *)
(***************************************************************************)

CONSTANTS
  Bias,       \* distance between the wheels
  ShortMax    \* SHRT_MAX

ASSUME DriveAssumption == Bias \in Nat \ {0} /\ ShortMax \in Nat \ {0}

Abs(x) == IF x < 0 THEN -x ELSE x

\* Division that drops the fraction, for any signs.
Trunc(a, b) ==
  LET q == Abs(a) \div Abs(b) IN IF (a < 0) = (b < 0) THEN q ELSE -q

Bound(x) == IF x > ShortMax THEN ShortMax
            ELSE IF x < -ShortMax - 1 THEN -ShortMax - 1 ELSE x

Stop == [speed |-> 0, radius |-> 0]

\* The radius is that of the middle of the robot, the speed that of its
\* faster wheel; radius 0 means straight on and radius 1 on the spot.
Encode(v, w) ==
  LET OnTheSpot == v = 0 \/ Abs(v * 1000) <= Abs(w)
      toTheLeft == (v > 0) = (w > 0)
      outer == IF toTheLeft THEN Bias * w ELSE -Bias * w
  IN IF w = 0 THEN [speed |-> Bound(v), radius |-> 0]
     ELSE IF OnTheSpot
     THEN [speed |-> Bound(Trunc(Bias * w, 2000)), radius |-> 1]
     ELSE [speed  |-> Bound(Trunc(2000 * v + outer, 2000)),
           radius |-> Bound(Trunc(v * 1000, w))]

----------------------------------------------------------------------------
CONSTANTS
  Twists,      \* velocities [v, w] that reach commands/velocity
  Requests,    \* what is asked of the base: version info, controller gains
  StaleCap     \* bound of the history variable staleSends

ASSUME DriverAssumption ==
  /\ StaleCap \in Nat \ {0}
  /\ \A twist \in Twists : twist \in [v : Int, w : Int]

VARIABLES
  plugged, powered,      \* the cable; the base and its firmware
  asked,                 \* requests the base has not answered yet
  open,                  \* serial.open()
  isConnected, isAlive,
  quiet,                 \* more than the timeout since last_signal_time
  due,                   \* requests with a reminder above zero
  shutdown,              \* shutdown_requested
  robotState,            \* last_robot_state, the one published last
  isEnabled,
  point,                 \* point_velocity
  drive,                 \* speed and radius of DiffDrive
  pc,                    \* where each thread stands
  reg,                   \* what each thread has read or is to write
  wire,                  \* the base command the base received last
  staleSends             \* history: moving commands sent since disable() ended

linkVars == <<plugged, powered, asked, open, isConnected, isAlive, quiet, due,
              shutdown, robotState>>
cmdVars  == <<isEnabled, point, drive, pc, reg, wire, staleSends>>
driverVars == <<linkVars, cmdVars>>

Threads  == {"ros", "spin"}
Rest     == [v |-> 0, w |-> 0]

DriverInit ==
  /\ plugged \in BOOLEAN /\ open = plugged /\ isConnected = plugged
  /\ powered = FALSE /\ asked = {} /\ isAlive = FALSE /\ quiet = TRUE
  /\ due = Requests
  /\ shutdown = FALSE /\ robotState = "Unknown"
  /\ isEnabled = TRUE /\ point = Rest /\ drive = Stop
  /\ pc = [t \in Threads |-> IF t = "ros" THEN "idle" ELSE "loop"]
  /\ reg = [t \in Threads |-> Rest]
  /\ wire = Stop /\ staleSends = 0

----------------------------------------------------------------------------
(* The environment. *)

CableMoves ==
  /\ plugged' = ~plugged
  /\ UNCHANGED <<powered, asked, open, isConnected, isAlive, quiet, due,
                 shutdown, robotState, cmdVars>>

\* A base that loses its power forgets its command and its requests.
PowerMoves ==
  /\ powered' = ~powered
  /\ asked' = {} /\ wire' = Stop
  /\ UNCHANGED <<plugged, open, isConnected, isAlive, quiet, due, shutdown,
                 robotState, isEnabled, point, drive, pc, reg, staleSends>>

SilencePasses ==
  /\ ~quiet /\ quiet' = TRUE
  /\ UNCHANGED <<plugged, powered, asked, open, isConnected, isAlive, due,
                 shutdown, robotState, cmdVars>>

Reachable == plugged /\ powered

----------------------------------------------------------------------------
(* The driver thread up to the base command. *)

RobotStateOf(connected, alive) ==
  IF connected /\ alive THEN "Online" ELSE "Offline"

AtLoop == pc["spin"] = "loop" /\ ~shutdown

OpenPort ==
  /\ AtLoop /\ ~open /\ plugged
  /\ open' = TRUE /\ isConnected' = TRUE
  /\ robotState' = RobotStateOf(TRUE, isAlive)
  /\ due' = Requests
  /\ UNCHANGED <<plugged, powered, asked, isAlive, quiet, shutdown, cmdVars>>

\* The port is found closed, or its device gone, and cannot be opened.
PortMissing ==
  /\ AtLoop /\ ~plugged /\ (open \/ isConnected \/ isAlive)
  /\ open' = FALSE /\ isConnected' = FALSE /\ isAlive' = FALSE
  /\ UNCHANGED <<plugged, powered, asked, quiet, due, shutdown, robotState,
                 cmdVars>>

ReadNothing ==
  /\ AtLoop /\ open
  /\ isAlive' = (isAlive /\ ~quiet)
  /\ due' = IF isAlive /\ quiet THEN Requests ELSE due
  /\ robotState' = RobotStateOf(isConnected, isAlive')
  /\ UNCHANGED <<plugged, powered, asked, open, isConnected, quiet, shutdown,
                 cmdVars>>

\* Bytes that complete no packet: the watchdog does not tell the event manager.
ReadPart ==
  /\ AtLoop /\ open /\ Reachable /\ isAlive /\ quiet
  /\ isAlive' = FALSE
  /\ UNCHANGED <<plugged, powered, asked, open, isConnected, quiet, due,
                 shutdown, robotState, cmdVars>>

\* A packet with the answers of the base to some of the pending requests; an
\* incompatible firmware version ends the loop after this packet.
Packet(answers, compatible) ==
  /\ AtLoop /\ open /\ Reachable
  /\ answers \subseteq asked
  /\ asked' = asked \ answers
  /\ due' = due \ answers
  /\ shutdown' = ~compatible
  /\ isAlive' = TRUE /\ quiet' = FALSE
  /\ robotState' = RobotStateOf(isConnected, TRUE)
  /\ pc' = [pc EXCEPT !["spin"] = "readV"]
  /\ UNCHANGED <<plugged, powered, open, isConnected, isEnabled, point, drive,
                 reg, wire, staleSends>>

----------------------------------------------------------------------------
(* sendBaseControlCommand, in the thread t that calls it: the copy of      *)
(* point_velocity, the update of speed and radius, and their transmission. *)

Goto(t, l) == pc' = [pc EXCEPT ![t] = l]

ReadV(t) ==
  /\ pc[t] = "readV" /\ Goto(t, "readW")
  /\ reg' = [reg EXCEPT ![t].v = point.v]
  /\ UNCHANGED <<linkVars, isEnabled, point, drive, wire, staleSends>>

ReadW(t) ==
  /\ pc[t] = "readW" /\ Goto(t, "encode")
  /\ reg' = [reg EXCEPT ![t].w = point.w]
  /\ UNCHANGED <<linkVars, isEnabled, point, drive, wire, staleSends>>

EncodeDrive(t) ==
  /\ pc[t] = "encode" /\ Goto(t, "send")
  /\ drive' = Encode(reg[t].v, reg[t].w)
  /\ reg' = [reg EXCEPT ![t] = Rest]
  /\ UNCHANGED <<linkVars, isEnabled, point, wire, staleSends>>

\* Mutant: a driver thread with disabled motors sends nothing.
SendWhenEnabled(t) ==
  LET received == isAlive /\ isConnected /\ Reachable
                  /\ (t = "spin" => isEnabled)
      isStale == t = "spin" /\ ~isEnabled /\ pc["ros"] = "idle"
                 /\ drive # Stop
  IN /\ pc[t] = "send"
     /\ Goto(t, IF t = "ros" THEN "disabled" ELSE "ask")
     /\ wire' = IF received THEN drive ELSE wire
     /\ staleSends' = IF received /\ isStale /\ staleSends < StaleCap
                      THEN staleSends + 1 ELSE staleSends
     /\ UNCHANGED <<linkVars, isEnabled, point, drive, reg>>

\* sendCommand: nothing is written while the base is not alive or connected;
\* what is written reaches a base that is plugged and powered.
Send(t) ==
  LET received == isAlive /\ isConnected /\ Reachable
      isStale == t = "spin" /\ ~isEnabled /\ pc["ros"] = "idle"
                 /\ drive # Stop
  IN /\ pc[t] = "send"
     /\ Goto(t, IF t = "ros" THEN "disabled" ELSE "ask")
     /\ wire' = IF received THEN drive ELSE wire
     /\ staleSends' = IF received /\ isStale /\ staleSends < StaleCap
                      THEN staleSends + 1 ELSE staleSends
     /\ UNCHANGED <<linkVars, isEnabled, point, drive, reg>>

\* The requests with a reminder go out after every packet; each may be lost.
Ask ==
  /\ pc["spin"] = "ask" /\ Goto("spin", "loop")
  /\ \E lost \in SUBSET due :
       asked' = IF isAlive /\ isConnected /\ Reachable
                THEN asked \cup (due \ lost) ELSE asked
  /\ UNCHANGED <<plugged, powered, open, isConnected, isAlive, quiet, due,
                 shutdown, robotState, isEnabled, point, drive, reg, wire,
                 staleSends>>

----------------------------------------------------------------------------
(* The callbacks of the ROS executor. *)

\* Mutant: the command is taken whether or not the motors are enabled.
VelocityTaken(twist) ==
  /\ pc["ros"] = "idle"
  /\ Goto("ros", "writeV") /\ reg' = [reg EXCEPT !["ros"] = twist]
  /\ UNCHANGED <<linkVars, isEnabled, point, drive, wire, staleSends>>

VelocityReceived(twist) ==
  /\ pc["ros"] = "idle" /\ isEnabled
  /\ Goto("ros", "writeV") /\ reg' = [reg EXCEPT !["ros"] = twist]
  /\ UNCHANGED <<linkVars, isEnabled, point, drive, wire, staleSends>>

MotorsOn ==
  /\ pc["ros"] = "idle"
  /\ isEnabled' = TRUE /\ staleSends' = 0
  /\ UNCHANGED <<linkVars, point, drive, pc, reg, wire>>

MotorsOff ==
  /\ pc["ros"] = "idle"
  /\ Goto("ros", "zeroV")
  /\ UNCHANGED <<linkVars, isEnabled, point, drive, reg, wire, staleSends>>

\* The assignment to point_velocity, element by element.
WriteV ==
  /\ pc["ros"] \in {"writeV", "zeroV"}
  /\ Goto("ros", IF pc["ros"] = "writeV" THEN "writeW" ELSE "zeroW")
  /\ point' = [point EXCEPT !.v = reg["ros"].v]
  /\ UNCHANGED <<linkVars, isEnabled, drive, reg, wire, staleSends>>

\* Mutant: the turn rate of the last command is kept when the motors stop.
WriteWUnlessZero ==
  /\ pc["ros"] \in {"writeW", "zeroW"}
  /\ Goto("ros", IF pc["ros"] = "writeW" THEN "idle" ELSE "readV")
  /\ point' = [point EXCEPT !.w = IF pc["ros"] = "writeW" THEN reg["ros"].w
                                  ELSE @]
  /\ reg' = [reg EXCEPT !["ros"] = Rest]
  /\ UNCHANGED <<linkVars, isEnabled, drive, wire, staleSends>>

WriteW ==
  /\ pc["ros"] \in {"writeW", "zeroW"}
  /\ Goto("ros", IF pc["ros"] = "writeW" THEN "idle" ELSE "readV")
  /\ point' = [point EXCEPT !.w = reg["ros"].w]
  /\ reg' = [reg EXCEPT !["ros"] = Rest]
  /\ UNCHANGED <<linkVars, isEnabled, drive, wire, staleSends>>

Disabled ==
  /\ pc["ros"] = "disabled" /\ Goto("ros", "idle")
  /\ isEnabled' = FALSE
  /\ UNCHANGED <<linkVars, point, drive, reg, wire, staleSends>>

----------------------------------------------------------------------------
SpinStep ==
  \/ OpenPort \/ PortMissing \/ ReadNothing \/ ReadPart
  \/ \E answers \in SUBSET asked, compatible \in BOOLEAN :
       Packet(answers, compatible)
  \/ ReadV("spin") \/ ReadW("spin") \/ EncodeDrive("spin") \/ Send("spin")
  \/ Ask

RosContinues ==
  WriteV \/ WriteW \/ ReadV("ros") \/ ReadW("ros") \/ EncodeDrive("ros")
  \/ Send("ros") \/ Disabled

RosCallback ==
  MotorsOn \/ MotorsOff \/ \E twist \in Twists : VelocityReceived(twist)

Environment == CableMoves \/ PowerMoves \/ SilencePasses

DriverNext == SpinStep \/ RosContinues \/ RosCallback \/ Environment

DriverSpec == DriverInit /\ [][DriverNext]_driverVars

\* Weak fairness for whoever runs by itself: the loop of the driver thread, the
\* rest of a callback, the stream of a base that is plugged and powered, the
\* clock.  Strong fairness for what is tried again and again: a request that
\* is sent with every packet arrives at last, and an asked base answers.
DriverFairness ==
  /\ WF_driverVars(OpenPort)
  /\ WF_driverVars(ReadNothing /\ ~Reachable)
  /\ WF_driverVars(Packet({}, TRUE))
  /\ WF_driverVars(ReadV("spin") \/ ReadW("spin") \/ EncodeDrive("spin")
                   \/ Send("spin") \/ Ask)
  /\ WF_driverVars(RosContinues)
  /\ WF_driverVars(SilencePasses)
  /\ SF_driverVars(Ask /\ due \subseteq asked')
  /\ \A r \in Requests : SF_driverVars(\E a \in SUBSET asked :
                                         r \in a /\ Packet(a, TRUE))

DriverFairSpec == DriverSpec /\ DriverFairness

----------------------------------------------------------------------------
(* Properties. *)

DriverTypeOK ==
  /\ {plugged, powered, open, isConnected, isAlive, quiet, shutdown,
      isEnabled} \subseteq BOOLEAN
  /\ asked \subseteq Requests /\ due \subseteq Requests
  /\ robotState \in {"Unknown", "Online", "Offline"}
  /\ \A c \in {drive.speed, drive.radius, wire.speed, wire.radius} :
       c \in -ShortMax - 1 .. ShortMax
  /\ pc["ros"] \in {"idle", "writeV", "writeW", "zeroV", "zeroW", "readV",
                    "readW", "encode", "send", "disabled"}
  /\ pc["spin"] \in {"loop", "readV", "readW", "encode", "send", "ask"}

\* The threads share point_velocity without a lock: the driver thread may have
\* copied a moving command before disable() overwrote it and send it after
\* disable() returned.  It does so at most once: the next packet is answered
\* with the zero that disable() left (kobuki.cpp:568, diff_drive.cpp:126).
AtMostOneStaleSend == staleSends <= 1

\* While the motors are disabled and no callback is under way the driver holds
\* the zero command, both halves of it: nothing that is sent from now on moves
\* the robot (kobuki.cpp:633, kobuki_ros.cpp:362).
DisabledHoldsZero == ~isEnabled /\ pc["ros"] = "idle" => point = Rest

Disturbed == shutdown \/ ~isAlive \/ ~Reachable

\* Whatever the interleaving of the two threads has mixed - halves of two
\* commands, the speed of one thread and the radius of the other - a base that
\* stays in contact is given the command that was set last (kobuki.cpp:568).
Settles ==
  pc["ros"] = "idle" ~>
    (wire = Encode(point.v, point.w) \/ pc["ros"] # "idle" \/ Disturbed)

\* A base that loses its power is reported offline, also when its bytes stopped
\* in the middle of a packet, whose watchdog reports nothing (kobuki.cpp:247).
OfflineReported ==
  (robotState = "Online" /\ ~powered) ~>
    (robotState # "Online" \/ powered \/ ~plugged \/ shutdown)

\* Version and gains are asked for with every packet until they come: requests
\* and answers may be lost any number of times (kobuki.cpp:395).
AnswersArrive ==
  \A r \in Requests : (isAlive /\ r \in due) ~> (r \notin due \/ Disturbed)

\* The driver's state stays within its types, and a robot switched off is
\* moved by one command at most that the driver thread had copied before
\* (kobuki.cpp:568).
DriverSafety == DriverTypeOK /\ AtMostOneStaleSend

\* What the driver owes its callers while the base is in contact: the command
\* set last, the report of its loss, the answers to what it asked
\* (kobuki.cpp:201).
DriverProgress == Settles /\ OfflineReported /\ AnswersArrive

=============================================================================
