----------------------------- MODULE KobukiCore -----------------------------
(***************************************************************************)
(* The Kobuki driver beside its threads, and the docking node: parts that  *)
(* share no state, each by itself: part, chosen once, is the one that      *)
(* runs, and the state of the others stays as it was.                      *)
(***************************************************************************)
EXTENDS Integers, PacketFinder, WheelOdometry, AutoDocking

(***************************************************************************)
(* The lamps, digital outputs and power sources of the Kobuki share the    *)
(* sixteen bits of gp_out.  A command names one of them; the driver        *)
(* overlays it on the bits it keeps in kobuki_command.data and sends all   *)
(* sixteen.  The bits are kept even when sendCommand drops the command.    *)
(* gp_out is the set of the bits that are one.                             *)
(***************************************************************************)

CONSTANTS
  Colours,   \* colours of a lamp asked for, each a set of bits of 8 .. 9
  Pins       \* numbers of outputs and of sources asked for, of 0 .. 3

ASSUME PinsAssumption == Pins \subseteq 0 .. 3 /\ Colours \subseteq SUBSET {8, 9}

VARIABLES
  gpOut,       \* kobuki_command.data.gp_out
  baseOut,     \* the bits in force in the base
  listening,   \* the base is alive, connected and in reach
  wanted,      \* history: the last valid request for each output
  stale        \* history: no request has arrived since the base was reached

pinVars == <<gpOut, baseOut, listening, wanted, stale>>

Lamps   == {<<"led", 1>>, <<"led", 2>>}
Outputs == Lamps \cup {<<k, i>> : k \in {"digital", "power"}, i \in Pins}

\* Every power source is on until a request says otherwise.
PinsInit ==
  /\ gpOut = 4 .. 7 /\ baseOut = {} /\ listening = FALSE /\ stale = TRUE
  /\ wanted = [o \in Outputs |-> IF o[1] = "power" THEN {o[2]} ELSE {}]

Shift(bits, n) == {b + n : b \in bits}

\* sendCommand with SetDigitalOut.
Transmit(bits) ==
  /\ gpOut' = bits
  /\ baseOut' = IF listening THEN bits ELSE baseOut
  /\ stale' = (stale /\ ~listening)
  /\ UNCHANGED listening

\* subscribeLed1Command, subscribeLed2Command and SetLedArray.
SetLed(number, colour) ==
  /\ Transmit(IF number = 1 THEN (gpOut \ {8, 9}) \cup colour
              ELSE (gpOut \ {10, 11}) \cup Shift(colour, 2))
  /\ wanted' = [wanted EXCEPT ![<<"led", number>>] = colour]

Overlay(bits, base, values, mask) ==
  (bits \ Shift(mask, base)) \cup Shift(values \cap mask, base)

\* subscribeDigitalOutputCommand names any of the four outputs.
SetDigitalOutput(values, mask) ==
  /\ Transmit(Overlay(gpOut, 0, values, mask))
  /\ wanted' = [o \in Outputs |->
                  IF o[1] = "digital" /\ o[2] \in mask
                  THEN {o[2]} \cap values ELSE wanted[o]]

\* subscribeExternalPowerCommand names one source; an unknown source or state
\* is refused.
SetExternalPower(source, on) ==
  /\ source \in 0 .. 3
  /\ Transmit(Overlay(gpOut, 4, IF on THEN {source} ELSE {}, {source}))
  /\ wanted' = [wanted EXCEPT ![<<"power", source>>] = IF on THEN {source} ELSE {}]

\* The base goes out of reach, or comes back; it may have lost its outputs.
Reach ==
  /\ listening' = ~listening /\ stale' = TRUE
  /\ baseOut' \in {baseOut, {}}
  /\ UNCHANGED <<gpOut, wanted>>

PinsNext ==
  \/ \E n \in 1 .. 2, c \in Colours : SetLed(n, c)
  \/ \E values \in SUBSET Pins, mask \in SUBSET Pins : SetDigitalOutput(values, mask)
  \/ \E s \in Pins, on \in BOOLEAN : SetExternalPower(s, on)
  \/ Reach

----------------------------------------------------------------------------
\* The bits that carry an output, as a request for it names them.
Shown(bits, o) ==
  CASE o[1] = "led"     -> Shift(bits \cap Shift({8, 9}, 2 * (o[2] - 1)), -2 * (o[2] - 1))
    [] o[1] = "digital" -> bits \cap {o[2]}
    [] o[1] = "power"   -> Shift(bits \cap {o[2] + 4}, -4)

\* One request that reaches the base brings every output to what was asked of
\* it last, those that were asked for while the base was out of reach and those
\* it lost with its power included; no request for one output disturbs another
\* (command.cpp:53, kobuki.cpp:598).
OutputsAsWanted ==
  /\ \A o \in Outputs : Shown(gpOut, o) = wanted[o]
  /\ ~stale => \A o \in Outputs : Shown(baseOut, o) = wanted[o]

----------------------------------------------------------------------------
(***************************************************************************)
(* The acceleration limiter of the Kobuki driver, for one axis: what the   *)
(* base is sent follows what was asked for no faster than the limits allow *)
(* for the time since the last command.  sendBaseControlCommand calls it   *)
(* with the velocity asked for last, whenever that is.                     *)
(***************************************************************************)

CONSTANTS
  Speeds,     \* velocities asked for
  AccelMax,   \* the limits, per unit of time; the second is negative
  DecelMax,
  MaxPause    \* bound on the time between two commands

ASSUME LimiterAssumption ==
  /\ Speeds \subseteq Int /\ AccelMax \in Nat \ {0} /\ MaxPause \in Nat
  /\ DecelMax \in Int /\ DecelMax < 0

VARIABLES
  askedSpeed, \* point_velocity
  lastSpeed,  \* last_vx, what the base was sent last
  elapsed     \* the time since last_timestamp

limiterVars == <<askedSpeed, lastSpeed, elapsed>>

LimiterInit == askedSpeed = 0 /\ lastSpeed = 0 /\ elapsed = MaxPause

\* Mutant: a limit that is exceeded is added, whatever the sign.
LimitOneWay(last, speed, duration) ==
  IF speed - last > AccelMax * duration \/ speed - last < DecelMax * duration
  THEN last + AccelMax * duration ELSE speed

\* limit(): the acceleration is the change of the speed per duration.
Limit(last, speed, duration) ==
  IF speed - last > AccelMax * duration THEN last + AccelMax * duration
  ELSE IF speed - last < DecelMax * duration THEN last + DecelMax * duration
  ELSE speed

AskSpeed(v) == askedSpeed' = v /\ UNCHANGED <<lastSpeed, elapsed>>

TimePasses ==
  /\ elapsed < MaxPause /\ elapsed' = elapsed + 1
  /\ UNCHANGED <<askedSpeed, lastSpeed>>

SendLimited ==
  /\ elapsed > 0 /\ elapsed' = 0
  /\ lastSpeed' = Limit(lastSpeed, askedSpeed, elapsed)
  /\ UNCHANGED askedSpeed

LimiterNext == (\E v \in Speeds : AskSpeed(v)) \/ TimePasses \/ SendLimited

----------------------------------------------------------------------------
\* What is sent stays between what was sent before and what is asked for: the
\* limiter overshoots in neither direction, at no pause between two commands,
\* although its two limits differ (acceleration_limiter.hpp:95).
NoOvershoot ==
  [][SendLimited =>
       LET lo == IF lastSpeed < askedSpeed THEN lastSpeed ELSE askedSpeed
           hi == IF lastSpeed < askedSpeed THEN askedSpeed ELSE lastSpeed
       IN lastSpeed' \in lo .. hi]_limiterVars

\* A speed that is asked for and not replaced is reached.
SpeedReached ==
  []<>(lastSpeed = askedSpeed) \/ []<><<askedSpeed' # askedSpeed>>_limiterVars

----------------------------------------------------------------------------
VARIABLE part

coreVars == <<part, finderVars, payloadVars, odometryVars, pinVars,
              dockingVars, limiterVars>>

Parts == {"finder", "payload", "odometry", "pins", "docking", "limiter"}

CoreInit ==
  /\ part \in Parts
  /\ FinderInit /\ PayloadInit /\ OdometryInit /\ PinsInit
  /\ DockingInit /\ LimiterInit

Others(p) ==
  /\ part = p /\ UNCHANGED part
  /\ p # "finder"   => UNCHANGED finderVars
  /\ p # "payload"  => UNCHANGED payloadVars
  /\ p # "odometry" => UNCHANGED odometryVars
  /\ p # "pins"     => UNCHANGED pinVars
  /\ p # "docking"  => UNCHANGED dockingVars
  /\ p # "limiter"  => UNCHANGED limiterVars

CoreNext ==
  \/ Others("finder") /\ FinderNext
  \/ Others("payload") /\ PayloadNext
  \/ Others("odometry") /\ OdometryNext
  \/ Others("pins") /\ PinsNext
  \/ Others("docking") /\ DockingNext
  \/ Others("limiter") /\ LimiterNext

\* The loops and threads go on by themselves.
CoreFairness ==
  /\ WF_coreVars(Others("payload") /\ SubPayload)
  /\ \A g \in Goals : WF_coreVars(Others("docking") /\ ThreadStep(g))
  /\ WF_coreVars(Others("limiter") /\ TimePasses)
  /\ WF_coreVars(Others("limiter") /\ SendLimited)

CoreSpec == CoreInit /\ [][CoreNext]_coreVars /\ CoreFairness

----------------------------------------------------------------------------
CoreTypeOK ==
  /\ part \in Parts
  /\ FinderTypeOK /\ OdometryTypeOK /\ DockingTypeOK
  /\ (stale \/ gpOut \subseteq 0 .. 15)

\* The stream is read as the base framed it: within a bounded number of bytes
\* after the last damage the finder is in step again, and every known
\* sub-payload is taken whatever stands before it (packet_finder.cpp:131,
\* kobuki.cpp:282).
StreamRead == CoreTypeOK /\ InStep /\ KnownTaken

\* What the driver keeps of the base agrees with the base: wheel travel under
\* resets, wraps and lost packets, and the word of the outputs across its
\* absences (diff_drive.cpp:51, command.cpp:53).
BaseMirrored == WheelsExact /\ OutputsAsWanted

\* What may never happen in one step: an odometry message that jumps by more
\* than the robot moved or was reset, and a speed that passes the one asked for
\* or changes faster than its limit (odometry.cpp:113,
\* acceleration_limiter.hpp:80).
CoreSteps == PublishedSteps /\ NoOvershoot

\* What ends: the sub-payloads of a packet whatever their lengths say, each
\* docking goal, and the approach of the speed asked for (kobuki.cpp:274,
\* auto_docking_ros.cpp:128, acceleration_limiter.hpp:80).
CoreProgress == PayloadEnds /\ GoalsEnd /\ SpeedReached

=============================================================================
