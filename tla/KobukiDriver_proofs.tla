------------------------- MODULE KobukiDriver_proofs -------------------------
(***************************************************************************)
(* What the two threads of the Kobuki driver keep to although they share   *)
(* the velocity without a lock, for all velocities, all requests and any   *)
(* behaviour of the cable and the base.                                    *)
(***************************************************************************)
EXTENDS KobukiDriver, TLAPS

USE DriveAssumption, DriverAssumption

----------------------------------------------------------------------------
(* The base command. *)

Shorts     == -ShortMax - 1 .. ShortMax
Commands   == [speed : Shorts, radius : Shorts]
Velocities == [v : Int, w : Int]

LEMMA AbsNat ==
  ASSUME NEW x \in Int
  PROVE  Abs(x) \in Nat /\ (x # 0 => Abs(x) > 0)
BY DEF Abs

LEMMA TruncInt ==
  ASSUME NEW a \in Int, NEW b \in Int, b # 0
  PROVE  Trunc(a, b) \in Int
<1>1. Abs(a) \in Nat /\ Abs(b) \in Nat /\ Abs(b) > 0
  BY AbsNat
<1>2. Abs(a) \div Abs(b) \in Int
  BY <1>1
<1>3. QED
  BY <1>2 DEF Trunc

LEMMA BoundShort ==
  ASSUME NEW x \in Int
  PROVE  Bound(x) \in Shorts
BY DEF Bound, Shorts

\* Whatever is asked for, the firmware is sent two numbers that fit a short.
LEMMA EncodeShort ==
  ASSUME NEW v \in Int, NEW w \in Int
  PROVE  Encode(v, w) \in Commands
<1> DEFINE outer == IF (v > 0) = (w > 0) THEN Bias * w ELSE -Bias * w
<1>1. CASE w = 0
  <2>1. Bound(v) \in Shorts /\ 0 \in Shorts
    BY BoundShort DEF Shorts
  <2>2. QED
    BY <1>1, <2>1 DEF Encode, Commands
<1>2. CASE w # 0 /\ (v = 0 \/ Abs(v * 1000) <= Abs(w))
  <2>1. Bias * w \in Int
    OBVIOUS
  <2>2. Bound(Trunc(Bias * w, 2000)) \in Shorts /\ 1 \in Shorts
    BY <2>1, BoundShort, TruncInt DEF Shorts
  <2>3. QED
    BY <1>2, <2>2 DEF Encode, Commands
<1>3. CASE w # 0 /\ ~(v = 0 \/ Abs(v * 1000) <= Abs(w))
  <2>1. outer \in Int /\ 2000 * v + outer \in Int /\ v * 1000 \in Int
    OBVIOUS
  <2>2. /\ Bound(Trunc(2000 * v + outer, 2000)) \in Shorts
        /\ Bound(Trunc(v * 1000, w)) \in Shorts
    BY <1>3, <2>1, BoundShort, TruncInt
  <2>3. Encode(v, w) = [speed  |-> Bound(Trunc(2000 * v + outer, 2000)),
                        radius |-> Bound(Trunc(v * 1000, w))]
    BY <1>3 DEF Encode
  <2>4. QED
    BY <2>2, <2>3 DEF Commands
<1>4. QED
  BY <1>1, <1>2, <1>3

LEMMA EncodeRest == Encode(Rest.v, Rest.w) = Stop
BY DEF Encode, Rest, Stop, Bound

----------------------------------------------------------------------------
(* Types. *)

RosPlaces  == {"idle", "writeV", "writeW", "zeroV", "zeroW", "readV",
               "readW", "encode", "send", "disabled"}
SpinPlaces == {"loop", "readV", "readW", "encode", "send", "ask"}

LinkTypes ==
  /\ {plugged, powered, open, isConnected, isAlive, quiet, shutdown} \subseteq BOOLEAN
  /\ asked \subseteq Requests /\ due \subseteq Requests
  /\ robotState \in {"Unknown", "Online", "Offline"}

CmdTypes ==
  /\ isEnabled \in BOOLEAN
  /\ point \in Velocities /\ reg \in [Threads -> Velocities]
  /\ drive \in Commands /\ wire \in Commands
  /\ pc \in [Threads -> RosPlaces \cup SpinPlaces]
  /\ pc["ros"] \in RosPlaces /\ pc["spin"] \in SpinPlaces
  /\ staleSends \in Nat

----------------------------------------------------------------------------
(* The race. *)

\* The callback that stops the base has zeroed what it has passed, and while
\* the motors are off nobody else writes.
RosInv ==
  /\ ~isEnabled => point = Rest /\ pc["ros"] \notin {"writeV", "writeW"}
  /\ pc["ros"] \in {"idle", "zeroV", "zeroW", "readV", "send", "disabled"} =>
       reg["ros"] = Rest
  /\ pc["ros"] = "zeroW" => point.v = 0
  /\ pc["ros"] \in {"readV", "readW", "encode", "send", "disabled"} => point = Rest
  /\ pc["ros"] = "readW" => reg["ros"].v = 0
  /\ pc["ros"] = "encode" => reg["ros"] = Rest

\* Once it has sent a stale command, the driver thread has only read zeros.
SpinInv ==
  /\ staleSends <= 1
  /\ staleSends > 0 =>
       /\ ~isEnabled
       /\ pc["spin"] = "readW" => reg["spin"].v = 0
       /\ pc["spin"] = "encode" => reg["spin"] = Rest
       /\ pc["spin"] = "send" => drive = Stop

DriverInv == LinkTypes /\ CmdTypes /\ RosInv /\ SpinInv

LEMMA DriverInvInit ==
  ASSUME DriverInit
  PROVE  DriverInv
<1>1. Stop \in Commands
  BY DEF Stop, Commands, Shorts
<1>2. Rest \in Velocities
  BY DEF Rest, Velocities
<1>3. LinkTypes
  BY DEF DriverInit, LinkTypes
<1>4. CmdTypes
  BY <1>1, <1>2 DEF DriverInit, CmdTypes, Threads, RosPlaces, SpinPlaces
<1>5. RosInv /\ SpinInv
  BY DEF DriverInit, RosInv, SpinInv, Threads
<1>6. QED
  BY <1>3, <1>4, <1>5 DEF DriverInv

\* Steps of the link leave the velocities alone, but for the packet that has
\* the driver thread answer and the power that goes.
LinkStep ==
  \/ OpenPort \/ PortMissing \/ ReadNothing \/ ReadPart \/ CableMoves \/ SilencePasses

LEMMA LinkTypesKept ==
  ASSUME LinkTypes, [DriverNext]_driverVars
  PROVE  LinkTypes'
<1>1. CASE UNCHANGED linkVars
  BY <1>1 DEF LinkTypes, linkVars
<1>2. CASE LinkStep
  BY <1>2 DEF LinkTypes, LinkStep, OpenPort, PortMissing, ReadNothing, ReadPart,
              CableMoves, SilencePasses, RobotStateOf
<1>3. CASE PowerMoves
  BY <1>3 DEF LinkTypes, PowerMoves
<1>4. CASE Ask
  BY <1>4 DEF LinkTypes, Ask
<1>5. ASSUME NEW answers \in SUBSET asked, NEW compatible \in BOOLEAN,
             Packet(answers, compatible)
      PROVE  LinkTypes'
  BY <1>5 DEF LinkTypes, Packet, RobotStateOf
<1>6. CASE RosContinues \/ RosCallback \/ ReadV("spin") \/ ReadW("spin")
           \/ EncodeDrive("spin") \/ Send("spin")
  BY <1>6, <1>1 DEF RosContinues, RosCallback, WriteV, WriteW, ReadV, ReadW,
                    EncodeDrive, Send, Disabled, MotorsOn, MotorsOff, VelocityReceived
<1>7. CASE UNCHANGED driverVars
  BY <1>7, <1>1 DEF driverVars
<1>8. QED
  BY <1>2, <1>3, <1>4, <1>5, <1>6, <1>7
  DEF DriverNext, SpinStep, Environment, LinkStep

CmdInv == CmdTypes /\ RosInv /\ SpinInv

LEMMA CmdUntouched ==
  ASSUME CmdInv, UNCHANGED cmdVars
  PROVE  CmdInv'
BY DEF CmdInv, CmdTypes, RosInv, SpinInv, cmdVars

\* The three steps of sendBaseControlCommand, in either thread.
LEMMA SendingKept ==
  ASSUME CmdInv, NEW t \in Threads, ReadV(t) \/ ReadW(t) \/ EncodeDrive(t)
  PROVE  CmdInv'
<1> USE DEF CmdInv, Threads, Goto
<1>0. Rest \in Velocities /\ reg[t] \in Velocities /\ Stop \in Commands
  BY DEF Rest, Velocities, Stop, Commands, Shorts, CmdTypes
<1>1. CASE ReadV(t)
  <2>1. CmdTypes'
    BY <1>1 DEF ReadV, CmdTypes, Velocities, RosPlaces, SpinPlaces
  <2>2. RosInv'
    BY <1>1 DEF ReadV, CmdTypes, RosInv, Rest, Velocities
  <2>3. SpinInv'
    BY <1>1 DEF ReadV, CmdTypes, RosInv, SpinInv, Rest, Velocities
  <2>4. QED
    BY <2>1, <2>2, <2>3
<1>2. CASE ReadW(t)
  <2>1. CmdTypes'
    BY <1>2 DEF ReadW, CmdTypes, Velocities, RosPlaces, SpinPlaces
  <2>2. RosInv'
    BY <1>2 DEF ReadW, CmdTypes, RosInv, Rest, Velocities
  <2>3. SpinInv'
    BY <1>2 DEF ReadW, CmdTypes, RosInv, SpinInv, Rest, Velocities
  <2>4. QED
    BY <2>1, <2>2, <2>3
<1>3. CASE EncodeDrive(t)
  <2>1. Encode(reg[t].v, reg[t].w) \in Commands
    BY <1>0, EncodeShort DEF Velocities
  <2>2. reg[t] = Rest => drive' = Stop
    BY <1>3, EncodeRest DEF EncodeDrive
  <2>3. CmdTypes'
    BY <1>0, <1>3, <2>1 DEF EncodeDrive, CmdTypes, RosPlaces, SpinPlaces
  <2>4. RosInv'
    BY <1>3 DEF EncodeDrive, CmdTypes, RosInv
  <2>5. SpinInv'
    BY <1>3, <2>2 DEF EncodeDrive, CmdTypes, RosInv, SpinInv
  <2>6. QED
    BY <2>3, <2>4, <2>5
<1>4. QED
  BY <1>1, <1>2, <1>3

LEMMA SendKept ==
  ASSUME CmdInv, NEW t \in Threads, Send(t)
  PROVE  CmdInv'
<1> USE DEF CmdInv, Threads, Goto
<1>1. CmdTypes'
  BY DEF Send, CmdTypes, RosPlaces, SpinPlaces
<1>2. RosInv'
  BY DEF Send, CmdTypes, RosInv
<1>3. SpinInv'
  BY DEF Send, CmdTypes, RosInv, SpinInv
<1>4. QED
  BY <1>1, <1>2, <1>3

\* The writes to point_velocity, by a command or by disable().
LEMMA WriteKept ==
  ASSUME CmdInv, WriteV \/ WriteW
  PROVE  CmdInv'
<1> USE DEF CmdInv, Threads, Goto
<1>0. Rest \in Velocities /\ reg["ros"] \in Velocities
  BY DEF Rest, Velocities, CmdTypes
<1>1. CASE WriteV
  <2>1. CmdTypes'
    BY <1>1 DEF WriteV, CmdTypes, Velocities, RosPlaces, SpinPlaces
  <2>2. RosInv'
    BY <1>1 DEF WriteV, CmdTypes, RosInv, Rest, Velocities
  <2>3. SpinInv'
    BY <1>1 DEF WriteV, CmdTypes, SpinInv
  <2>4. QED
    BY <2>1, <2>2, <2>3
<1>2. CASE WriteW
  <2>1. CmdTypes'
    BY <1>0, <1>2 DEF WriteW, CmdTypes, Velocities, RosPlaces, SpinPlaces
  <2>2. RosInv'
    BY <1>2 DEF WriteW, CmdTypes, RosInv, Rest, Velocities
  <2>3. SpinInv'
    BY <1>2 DEF WriteW, CmdTypes, SpinInv
  <2>4. QED
    BY <2>1, <2>2, <2>3
<1>3. QED
  BY <1>1, <1>2

LEMMA CallbackKept ==
  ASSUME CmdInv, RosCallback \/ Disabled
  PROVE  CmdInv'
<1> USE DEF CmdInv, Threads, Goto
<1>1. CASE MotorsOn
  BY <1>1 DEF MotorsOn, CmdTypes, RosInv, SpinInv
<1>2. CASE MotorsOff
  BY <1>2 DEF MotorsOff, CmdTypes, RosPlaces, SpinPlaces, RosInv, SpinInv
<1>3. ASSUME NEW twist \in Twists, VelocityReceived(twist)
      PROVE  CmdInv'
  <2>1. twist \in Velocities
    BY DEF Velocities
  <2>2. CmdTypes'
    BY <1>3, <2>1 DEF VelocityReceived, CmdTypes, RosPlaces, SpinPlaces
  <2>3. RosInv' /\ SpinInv'
    BY <1>3 DEF VelocityReceived, CmdTypes, RosInv, SpinInv
  <2>4. QED
    BY <2>2, <2>3
<1>4. CASE Disabled
  BY <1>4 DEF Disabled, CmdTypes, RosPlaces, SpinPlaces, RosInv, SpinInv
<1>5. QED
  BY <1>1, <1>2, <1>3, <1>4 DEF RosCallback

\* A packet, the requests behind it, and the power change no velocity that is
\* still to be sent.
LEMMA PacketKept ==
  ASSUME CmdInv, Ask \/ PowerMoves
                 \/ \E answers \in SUBSET asked, compatible \in BOOLEAN :
                      Packet(answers, compatible)
  PROVE  CmdInv'
<1> USE DEF CmdInv, Threads, Goto
<1>0. Stop \in Commands
  BY DEF Stop, Commands, Shorts
<1>1. CASE Ask
  BY <1>1 DEF Ask, CmdTypes, RosPlaces, SpinPlaces, RosInv, SpinInv
<1>2. CASE PowerMoves
  BY <1>0, <1>2 DEF PowerMoves, CmdTypes, RosInv, SpinInv
<1>3. ASSUME NEW answers \in SUBSET asked, NEW compatible \in BOOLEAN,
             Packet(answers, compatible)
      PROVE  CmdInv'
  BY <1>3 DEF Packet, AtLoop, CmdTypes, RosPlaces, SpinPlaces, RosInv, SpinInv
<1>4. QED
  BY <1>1, <1>2, <1>3

LEMMA CmdInvKept ==
  ASSUME CmdInv, [DriverNext]_driverVars
  PROVE  CmdInv'
<1>1. CASE UNCHANGED driverVars
  BY <1>1, CmdUntouched DEF driverVars
<1>2. CASE LinkStep
  BY <1>2, CmdUntouched DEF LinkStep, OpenPort, PortMissing, ReadNothing, ReadPart,
                            CableMoves, SilencePasses
<1>3. ASSUME NEW t \in Threads,
             ReadV(t) \/ ReadW(t) \/ EncodeDrive(t) \/ Send(t)
      PROVE  CmdInv'
  BY <1>3, SendingKept, SendKept
<1>4. CASE WriteV \/ WriteW
  BY <1>4, WriteKept
<1>5. CASE RosCallback \/ Disabled
  BY <1>5, CallbackKept
<1>6. CASE Ask \/ PowerMoves
           \/ \E answers \in SUBSET asked, compatible \in BOOLEAN :
                Packet(answers, compatible)
  BY <1>6, PacketKept
<1>7. QED
  BY <1>1, <1>2, <1>3, <1>4, <1>5, <1>6
  DEF DriverNext, SpinStep, RosContinues, Environment, LinkStep, Threads

----------------------------------------------------------------------------
LEMMA DriverInvariant == DriverSpec => []DriverInv
<1>1. DriverInit => DriverInv
  BY DriverInvInit
<1>2. DriverInv /\ [DriverNext]_driverVars => DriverInv'
  BY LinkTypesKept, CmdInvKept DEF DriverInv, CmdInv
<1>3. QED
  BY <1>1, <1>2, PTL DEF DriverSpec

\* The state of the driver stays within its types, and after disable() has
\* returned the driver thread sends at most one moving command that it had
\* copied before (kobuki.cpp:568).
THEOREM DriverKeepsSafe == DriverFairSpec => []DriverSafety
<1>1. DriverInv => DriverSafety
  <2> SUFFICES ASSUME DriverInv
               PROVE  DriverSafety
    OBVIOUS
  <2>1. \A c \in {drive.speed, drive.radius, wire.speed, wire.radius} :
          c \in -ShortMax - 1 .. ShortMax
    BY DEF DriverInv, CmdTypes, Commands, Shorts
  <2>2. DriverTypeOK
    BY <2>1 DEF DriverInv, LinkTypes, CmdTypes, DriverTypeOK, RosPlaces, SpinPlaces
  <2>3. AtMostOneStaleSend
    BY DEF DriverInv, SpinInv, AtMostOneStaleSend
  <2>4. QED
    BY <2>2, <2>3 DEF DriverSafety
<1>2. QED
  BY <1>1, DriverInvariant, PTL DEF DriverFairSpec

\* With the motors off and no callback under way, the driver holds the zero
\* command: what it sends from then on moves nothing (kobuki.cpp:633).
THEOREM DisabledStaysAtRest == DriverFairSpec => []DisabledHoldsZero
<1>1. DriverInv => DisabledHoldsZero
  BY DEF DriverInv, RosInv, DisabledHoldsZero
<1>2. QED
  BY <1>1, DriverInvariant, PTL DEF DriverFairSpec

=============================================================================
