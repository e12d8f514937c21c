------------------------------ MODULE LidarLink ------------------------------
(***************************************************************************)
(* A lidar from its first answer to the detection broadcast to the mode    *)
(* Normal: livox_sdk asks for its firmware, sends it the addresses of the  *)
(* host and tells livox_ros_driver2, which sends the settings of the user  *)
(* and calls the lidar sampling when all have been answered.  Commands and *)
(* answers are datagrams with a sequence number; a command that is not     *)
(* answered times out.  Commands come from three threads: detection,       *)
(* command (which also takes the answers) and timer.                       *)
(***************************************************************************)
EXTENDS Integers, FiniteSets

CONSTANTS
  Settings,         \* settings of the configuration that are not -1
  QueryMax,         \* 10 failures of the query of the firmware
  MaxFaults         \* bound of lost, late, early and refused messages

\* The settings are none of the commands that every lidar gets.
ASSUME LinkAssumption ==
  /\ Settings \cap {"query", "cfg", "attitude", "mode", "imu"} = {}
  /\ QueryMax \in Nat /\ MaxFaults \in Nat

Kinds == {"query", "cfg", "attitude", "mode", "imu"} \cup Settings

VARIABLES
  inCfg,            \* the user's configuration names the lidar
  hap,              \* a HAP: commands are registered before they are sent, too
  loader,           \* the lidar runs its loader, not the application
  sdk,              \* what the SDK knows of it: DeviceInfo, and is it configured
  count,            \* failures of the query, one counter for all lidars
  commands,         \* commands_, each a kind and a number
  adding,           \* sent by another thread, which is about to register them
  air,              \* datagrams on the way
  tries,            \* commands sent of a kind
  device,           \* set_bits and connect_state of the LidarDevice
  applied,          \* what the lidar has taken over since it was started
  refused,          \* what it has answered with a ret_code that is not 0
  faults,           \* messages that did not come in time
  crashed

lidarVars == <<inCfg, hap, loader>>
linkVars  == <<lidarVars, sdk, count, commands, adding, air, tries, device, applied,
               refused, faults, crashed>>

LinkInit ==
  /\ inCfg \in BOOLEAN /\ hap \in BOOLEAN /\ loader \in BOOLEAN
  /\ sdk = [configured |-> inCfg, known |-> FALSE, asked |-> FALSE, loader |-> FALSE,
            updated |-> FALSE, added |-> FALSE, called |-> FALSE]
  /\ count = 0 /\ commands = {} /\ adding = {} /\ air = {}
  /\ tries = [k \in Kinds |-> 0] /\ device = [bits |-> {}, sampling |-> FALSE]
  /\ applied = {} /\ refused = {} /\ faults = 0 /\ crashed = FALSE

Costs(fault) == /\ fault => faults < MaxFaults
                /\ faults' = IF fault THEN faults + 1 ELSE faults

\* A command is what it asks and its sequence number.
Message(k) == <<k, tries[k] + 1>>

\* Commands of these kinds are sent while the datagrams flying are on the way.
Put(ks, flying) ==
  /\ tries' = [k \in Kinds |-> IF k \in ks THEN tries[k] + 1 ELSE tries[k]]
  /\ air' = flying \cup {[of |-> Message(k), dir |-> "request"] : k \in ks}

\* SendCommand of a thread that takes no answers: between the datagram and the
\* registration an answer may come.  rest are the commands registered before.
SendElsewhere(ks, rest, flying) ==
  /\ Put(ks, flying)
  /\ commands' = rest \cup (IF hap THEN {Message(k) : k \in ks} ELSE {})
  /\ adding' = adding \cup {Message(k) : k \in ks}

QueryFwType(rest, flying) == SendElsewhere({"query"}, rest, flying)

\* The addresses are sent by UpdateLidarCfg, which registers its command first.
SetCustomLidar ==
  /\ Put({"cfg"}, air) /\ commands' = commands \cup {Message("cfg")}
  /\ Costs(\E m \in commands : m[1] = "cfg")

AddCommand ==
  /\ ~crashed /\ adding # {} /\ commands' = commands \cup adding /\ adding' = {}
  /\ UNCHANGED <<lidarVars, sdk, count, air, tries, device, applied, refused,
                 faults, crashed>>

----------------------------------------------------------------------------
\* Mutant: the bit of one setting only is set.
SettingBitsOfOne == {CHOOSE k \in Settings : TRUE}

SettingBits == Settings

\* The driver is told of a lidar once; one of the configuration gets its
\* settings, the bits of which are set under the lock; any lidar gets its mode.
InfoChangeKinds == {"mode", "imu"} \cup (IF inCfg THEN Settings \cup {"attitude"} ELSE {})

LidarInfoChangeCallback ==
  IF inCfg THEN device' = [device EXCEPT !.bits = SettingBits] ELSE UNCHANGED device

InfoChangeSends == IF sdk.called THEN {} ELSE InfoChangeKinds

LivoxLidarInfoChange(taken) ==
  /\ sdk' = [sdk EXCEPT !.updated = TRUE, !.called = TRUE, !.added = @ \/ taken]
  /\ IF sdk.called THEN UNCHANGED device ELSE LidarInfoChangeCallback

\* The detection broadcast is answered once a second.  The first answer of a
\* lidar the SDK has no configuration of makes one of its type.
ConfigureByType ==
  /\ ~sdk.configured /\ sdk' = [sdk EXCEPT !.configured = TRUE]
  /\ UNCHANGED <<commands, adding, air, tries, device, faults>>

\* Then it is asked for its firmware; until it has taken the addresses these are
\* sent again; the driver is told at once of one that runs its loader.
DetectionData ==
  /\ sdk.configured
  /\ \/ /\ ~sdk.known /\ sdk' = [sdk EXCEPT !.known = TRUE]
        /\ QueryFwType(commands, air)
        /\ UNCHANGED <<device, faults>>
     \/ /\ sdk.asked /\ ~sdk.loader /\ ~sdk.updated /\ ~sdk.added
        /\ SetCustomLidar
        /\ UNCHANGED <<sdk, adding, device>>
     \/ /\ sdk.asked /\ sdk.loader /\ ~sdk.called
        /\ LivoxLidarInfoChange(FALSE) /\ SendElsewhere(InfoChangeSends, commands, air)
        /\ UNCHANGED faults

HandleDetectionData ==
  /\ ~crashed /\ (ConfigureByType \/ DetectionData)
  /\ UNCHANGED <<lidarVars, count, applied, refused, crashed>>

----------------------------------------------------------------------------
\* The lidar does what it is asked and answers, or answers that it does not: the
\* ret_code of an answer that came in time.
LidarAnswers ==
  \E m \in air : \E ok \in BOOLEAN :
    /\ ~crashed /\ m.dir = "request" /\ Costs(~ok)
    /\ air' = (air \ {m}) \cup {[of |-> m.of, dir |-> IF ok THEN "done" ELSE "refused"]}
    /\ IF ok THEN applied' = applied \cup {m.of[1]} /\ UNCHANGED refused
             ELSE refused' = refused \cup {m.of[1]} /\ UNCHANGED applied
    /\ UNCHANGED <<lidarVars, sdk, count, commands, adding, tries, device, crashed>>

Lose ==
  /\ ~crashed /\ Costs(TRUE)
  /\ \E m \in air : air' = air \ {m}
  /\ UNCHANGED <<lidarVars, sdk, count, commands, adding, tries, device, applied, refused,
                 crashed>>

\* sendto refuses the datagram of a setting: its callback reads the answer
\* through a null pointer.
SendFails ==
  /\ ~crashed /\ Costs(TRUE) /\ crashed' = TRUE
  /\ \E m \in air : m.dir = "request" /\ m.of[1] \in Settings
  /\ UNCHANGED <<lidarVars, sdk, count, commands, adding, air, tries, device,
                 applied, refused>>

----------------------------------------------------------------------------
\* The callback of the query: after too many failures, of whichever lidar, any
\* answer or none counts as that of the application.
QueryFwTypeCallback(ok, rest, flying) ==
  IF count > QueryMax \/ ok
  THEN /\ count' = 0
       /\ sdk' = [sdk EXCEPT !.asked = TRUE, !.loader = loader /\ count <= QueryMax]
       /\ commands' = rest /\ air' = flying /\ UNCHANGED <<adding, tries, device>>
  ELSE /\ count' = count + 1 /\ QueryFwType(rest, flying)
       /\ UNCHANGED <<sdk, device>>

\* The addresses have been taken, or refused by a HAP: the driver is told.  The command thread sends
\* what this calls for, no answer is taken until it is registered.
UpdateLidarCallback(ok, rest, flying) ==
  /\ IF ok \/ hap
     THEN /\ LivoxLidarInfoChange(ok) /\ Put(InfoChangeSends, flying)
          /\ commands' = rest \cup {Message(k) : k \in InfoChangeSends}
     ELSE commands' = rest /\ air' = flying /\ UNCHANGED <<sdk, tries, device>>
  /\ UNCHANGED <<count, adding>>

\* A setting is answered: the callback clears its bit without a look at ret_code;
\* after the last the lidar samples.
SettingAnswered(k, rest, flying) ==
  /\ device' = [bits |-> device.bits \ {k},
                sampling |-> device.sampling \/ device.bits \subseteq {k}]
  /\ commands' = rest /\ air' = flying /\ UNCHANGED <<sdk, count, adding, tries>>

OnlyLogged(rest, flying) ==
  commands' = rest /\ air' = flying /\ UNCHANGED <<sdk, count, adding, tries, device>>

\* An answer whose command is not registered, or not yet, is dropped.
Handler ==
  \E m \in air :
    /\ ~crashed /\ m.dir # "request" /\ Costs(m.of \in adding)
    /\ LET rest   == commands \ {m.of}
           flying == air \ {m}
       IN IF m.of \notin commands THEN OnlyLogged(commands, flying)
          ELSE \/ m.of[1] = "query" /\ QueryFwTypeCallback(m.dir = "done", rest, flying)
               \/ m.of[1] = "cfg" /\ UpdateLidarCallback(m.dir = "done", rest, flying)
               \/ m.of[1] \in Settings /\ SettingAnswered(m.of[1], rest, flying)
               \/ m.of[1] \in {"attitude", "mode", "imu"} /\ OnlyLogged(rest, flying)
    /\ UNCHANGED <<lidarVars, applied, refused, crashed>>

\* Mutant: a setting that times out is left at that.
SentAgainButSettings == {"attitude", "mode"}

\* What the callbacks send again on a timeout; that of "imu" asks for the answer
\* first, of which a timeout has none.
SentAgain == Settings \cup {"attitude", "mode"}

\* CommandsHandle of the timer: a second has passed since the registration.
Timeout ==
  \E m \in commands \ adding :
    /\ ~crashed /\ Costs(\E a \in air : a.of = m)
    /\ \/ m[1] = "query" /\ QueryFwTypeCallback(FALSE, commands \ {m}, air)
       \/ /\ m[1] \in SentAgain /\ SendElsewhere({m[1]}, commands \ {m}, air)
          /\ UNCHANGED <<sdk, count, device>>
       \/ m[1] \notin SentAgain \cup {"query"} /\ OnlyLogged(commands \ {m}, air)
    /\ UNCHANGED <<lidarVars, applied, refused, crashed>>

LinkNext ==
  \/ HandleDetectionData \/ LidarAnswers \/ Lose \/ SendFails
  \/ AddCommand \/ Handler \/ Timeout

----------------------------------------------------------------------------
\* Points of a lidar are published only after it has answered to every setting of
\* the user that it took it over or that it refuses, whichever answers are lost,
\* late or come before their command is known; and no lidar gets settings that are
\* not its own.
SamplingConfigured ==
  /\ device.sampling => Settings \ refused \subseteq applied
  /\ ~inCfg => (applied \cup refused) \cap Settings = {}

\* Until a lidar has answered to the mode Normal, and one of the configuration
\* samples.
LinkWaits ==
  ~crashed /\ ("mode" \notin applied \cup refused \/ (inCfg /\ ~device.sampling))
==============================================================================
