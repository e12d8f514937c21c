------------------------------ MODULE LidarCodec ------------------------------
(***************************************************************************)
(* What livox_sdk writes into a datagram and reads from one: the wrapper   *)
(* with its length, number and checksums, and in it keys with values of    *)
(* their own length, which may be another than that of the field they are  *)
(* kept in.  A value is an address and a port, or a number; a datagram is  *)
(* damaged in its header, its data, cut short, or not at all.              *)
(***************************************************************************)
EXTENDS Integers, Sequences, SequencesExt, TLC

CONSTANTS
  Octets,           \* numbers an address of the user may have between its dots
  SeqMax,           \* UINT16_MAX
  PushKeys          \* keys a lidar may report of itself, with their lengths

HeaderSize  == 4    \* key_num and two reserved bytes; a key and its length
KvParamSize == 5    \* sizeof(LivoxLidarKeyValueParam), with one byte of value
WrapperSize == 24

ASSUME CodecAssumption ==
  /\ Octets \subseteq 0 .. 256 /\ SeqMax \in Nat \ {0, 1}
  /\ \A k \in PushKeys : k.len \in 1 .. 64

VARIABLES
  seq,              \* of GenerateSeq
  datagram,         \* the last one sent, with what its sender meant by it
  told              \* what its receiver made of it

codecVars == <<seq, datagram, told>>

Silence == [accepted |-> FALSE]

CodecInit == seq \in {1, SeqMax - 1} /\ datagram = <<>> /\ told = Silence

----------------------------------------------------------------------------
GetSeq == IF seq = SeqMax THEN 1 ELSE seq + 1

\* An address of four numbers, each kept in a byte; no address if there are more
\* or fewer.
IpToU8(ip) == IF Len(ip) = 4 THEN [i \in 1 .. 4 |-> ip[i] % 256] ELSE <<>>

HostValue(ip, port) == IpToU8(ip) \o <<port>>

\* Keys of host addresses, one behind the other.
Kv(key, len, value) == [key |-> key, len |-> len, value |-> value]

\* Mutant: a lidar without an IMU is announced two keys as well.
KeyNumOfAll(type) == 2

KeyNum(type) == IF type = "pa" THEN 1 ELSE 2

\* BuildUpdateLidarCfgRequest: points and IMU go to the multicast address, if
\* there is one, from the ports of the type; a PA has no IMU.
BuildUpdateLidarCfgRequest(cfg) ==
  LET ip == IF cfg.multicast = <<>> THEN cfg.host ELSE cfg.multicast
  IN [keyNum |-> KeyNum(cfg.type), built |-> IpToU8(ip) # <<>>,
      kvs |-> <<Kv("point", 8, HostValue(ip, cfg.type))>>
              \o IF cfg.type = "pa" THEN <<>> ELSE <<Kv("imu", 8, HostValue(ip, cfg.type))>>]

\* BuildUpdateMid360LidarCfgRequest: its state messages, too; the host address is
\* looked at even if there is a multicast address.
BuildUpdateMid360LidarCfgRequest(cfg) ==
  LET ip == IF cfg.multicast = <<>> THEN cfg.host ELSE cfg.multicast
  IN [keyNum |-> 3, built |-> IpToU8(cfg.host) # <<>> /\ IpToU8(ip) # <<>>,
      kvs |-> <<Kv("state", 8, HostValue(ip, "mid360")), Kv("point", 8, HostValue(ip, "mid360")),
                Kv("imu", 8, HostValue(ip, "mid360"))>>]

\* BuildUpdateViewLidarCfgRequest: a lidar that is only looked at sends to the host.
BuildUpdateViewLidarCfgRequest(cfg) ==
  [keyNum |-> KeyNum(cfg.type), built |-> IpToU8(cfg.host) # <<>>,
   kvs |-> <<Kv("point", 8, HostValue(cfg.host, "view"))>>
           \o IF cfg.type = "pa" THEN <<>> ELSE <<Kv("imu", 8, HostValue(cfg.host, "view"))>>]

\* The addresses a user sets one by one: of the lidar, or of the host for one key.
BuildSetLidarIPInfoRequest(cfg) ==
  [keyNum |-> 1, built |-> IpToU8(cfg.host) # <<>>,
   kvs |-> <<Kv("lidar_ip", 12, HostValue(cfg.host, "set"))>>]

BuildSetHostIPInfoRequest(key, cfg) ==
  [keyNum |-> 1, built |-> IpToU8(cfg.host) # <<>>,
   kvs |-> <<Kv(key, 8, HostValue(cfg.host, "set"))>>]

\* The settings of a user with the length of their values: of the light, the
\* place of the lidar, its duty and its care.
LightSettings == [pcl_data_type |-> 1, pattern_mode |-> 1, dual_emit_en |-> 1,
                  point_send_en |-> 1]
PlaceSettings == [install_attitude |-> 24, fov_cfg0 |-> 20, fov_cfg1 |-> 20,
                  fov_cfg_en |-> 1, detect_mode |-> 1, func_io_cfg |-> 4]
DutySettings  == [blind_spot |-> 4, work_mode |-> 1, glass_heat |-> 1, imu_data_en |-> 1]
CareSettings  == [fusa_en |-> 1, force_heat_en |-> 1, pps_sync_mode |-> 1, esc_mode |-> 1,
                  log_param |-> 7, work_mode_after_boot |-> 1]

SettingsRead == DOMAIN LightSettings \cup DOMAIN PlaceSettings \cup DOMAIN DutySettings

AllSettings ==
  [name \in SettingsRead \cup DOMAIN CareSettings |->
     CASE name \in DOMAIN LightSettings -> LightSettings[name]
       [] name \in DOMAIN PlaceSettings -> PlaceSettings[name]
       [] name \in DOMAIN DutySettings  -> DutySettings[name]
       [] name \in DOMAIN CareSettings  -> CareSettings[name]]

\* A setting is sent by itself.
SendSetting(key, value) ==
  [keyNum |-> 1, built |-> TRUE, kvs |-> <<Kv(key, AllSettings[key], value)>>]

Requests(cfg) ==
  {IF cfg.type = "mid360" THEN BuildUpdateMid360LidarCfgRequest(cfg)
   ELSE BuildUpdateLidarCfgRequest(cfg),
   BuildUpdateViewLidarCfgRequest(cfg), BuildSetLidarIPInfoRequest(cfg)}
  \cup {BuildSetHostIPInfoRequest(key, cfg) : key \in {"state", "point", "imu"}}

----------------------------------------------------------------------------
\* The length of all keys, and where one of them begins.
DataLen(kvs) == FoldLeft(LAMBDA sum, kv : sum + HeaderSize + kv.len, HeaderSize, kvs)
Offset(kvs, i) == DataLen(SubSeq(kvs, 1, i - 1))

\* Pack: the wrapper around the data.
Pack(n, message) ==
  [seq |-> n % (SeqMax + 1), length |-> DataLen(message.kvs) + WrapperSize,
   keyNum |-> message.keyNum, kvs |-> message.kvs]

\* CheckPreamble: both checksums, start byte, version.  The length announced is not
\* compared with what has come: of a datagram cut short the checksum is taken over
\* memory behind it, which may happen to hold its rest.
CheckPreamble(damage, rest) == damage = "none" \/ (damage = "short" /\ rest)

\* The keys that are read, not all of those that can be set, in the order of their
\* fields in DirectLidarStateInfo.
Fields ==
  <<"pcl_data_type", "pattern_mode", "dual_emit_en", "point_send_en", "lidar_ip", "state",
    "point", "imu", "install_attitude", "blind_spot", "fov_cfg0", "fov_cfg1", "fov_cfg_en",
    "detect_mode", "func_io_cfg", "work_mode", "glass_heat", "imu_data_en", "fusa_en",
    "esc_mode", "fw_type">>
Known == Range(Fields)

\* Addresses are read with the length of their field, whatever length they announce.
IpKeys == {"lidar_ip", "state", "point", "imu"}

Width(key) ==
  CASE key = "lidar_ip"                             -> 12
    [] key \in IpKeys \ {"lidar_ip"}                -> 8
    [] key \in SettingsRead \cup DOMAIN CareSettings -> AllSettings[key]
    [] OTHER                                         -> 1

\* What a key of the host or the lidar is set to.
ValueRead(kv) == <<kv.key, kv.value>>

\* A value that does not fill its field: what else the field holds was not sent.
Short(kv) == kv.len < Width(kv.key)

\* Any other value is copied with the length it announces, over the fields behind
\* its own if it is longer.
Overruns(kv, value) ==
  /\ kv.key \in Known \ IpKeys /\ kv.len > Width(kv.key)
  /\ \E i, k \in DOMAIN Fields : i < k /\ Fields[i] = kv.key /\ Fields[k] = value[1]

\* The fields that surely hold what was sent for them, when one more was read.
FieldsHeld(info, kv) ==
  IF kv.key \notin Known THEN info
  ELSE {value \in info : ~Overruns(kv, value)} \cup IF Short(kv) THEN {} ELSE {ValueRead(kv)}

\* Mutant: a key that is known is passed over by the length of its field.
AfterKeyOfField(offset, kv) ==
  offset + HeaderSize + (IF kv.key \in Known THEN Width(kv.key) ELSE kv.len)

\* Mutant: a key that is not known is passed over without its value.
AfterKeyUnknown(offset, kv) ==
  offset + HeaderSize + (IF kv.key \in Known THEN kv.len ELSE 0)

AfterKey(offset, kv) == offset + HeaderSize + kv.len

\* What is found where no key begins is not told apart: the message counts as
\* not read.
KeysAt(kvs, offset) == {i \in DOMAIN kvs : Offset(kvs, i) = offset}

\* A key, if there is room for one with a value of a byte.
ReadKey(packet, acc) ==
  IF ~acc.ok THEN acc
  ELSE IF \/ acc.offset + KvParamSize > packet.length - WrapperSize
          \/ KeysAt(packet.kvs, acc.offset) = {}
  THEN [acc EXCEPT !.ok = FALSE]
  ELSE LET kv == packet.kvs[CHOOSE i \in KeysAt(packet.kvs, acc.offset) : TRUE]
       IN [ok |-> TRUE, offset |-> AfterKey(acc.offset, kv), info |-> FieldsHeld(acc.info, kv)]

\* ParseStateInfo: the keys from the offset reached so far, as many as announced.
ParseStateInfo(packet) ==
  FoldLeft(LAMBDA acc, n : ReadKey(packet, acc),
           [ok |-> TRUE, offset |-> HeaderSize, info |-> {}],
           [n \in 1 .. packet.keyNum |-> n])

\* LivoxLidarStateInfoToJson, its settings: a place is written as an unsigned
\* number, although it may be negative.
SettingWritten(kv) ==
  IF kv[1] = "install_attitude" /\ kv[2][1] < 0 THEN <<kv[1], <<"wrapped", kv[2][1]>>>> ELSE kv

SettingsWritten(info) == {SettingWritten(kv) : kv \in {kv \in info : kv[1] \in DOMAIN AllSettings}}

\* And what the lidar tells of itself.
StatesWritten(info) == {kv \in info : kv[1] \notin DOMAIN AllSettings}

----------------------------------------------------------------------------
\* A command of the SDK, the reading of which by the lidar is its mirror image.
SdkSends ==
  \E type \in {"mid360", "hap", "pa"}, a \in Octets, b \in Octets :
  \E multicast \in {<<>>, <<b, 0, 0, b>>}, host \in {<<a, b, 0, a>>, <<a, b, 0>>} :
    LET cfg == [type |-> type, host |-> host, multicast |-> multicast]
    IN \E message \in Requests(cfg) :
         /\ seq' = IF message.built THEN GetSeq ELSE seq
         /\ datagram' = IF message.built
                        THEN [packet |-> Pack(GetSeq, message), meant |-> message.kvs]
                        ELSE <<>>
         /\ told' = Silence

\* A user sets something.
SettingSent ==
  \E key \in DOMAIN AllSettings, value \in {<<-1>>, <<0>>} :
    /\ seq' = GetSeq /\ told' = Silence
    /\ datagram' = [packet |-> Pack(GetSeq, SendSetting(key, value)),
                    meant |-> SendSetting(key, value).kvs]

\* A lidar reports keys of its own.
LidarPushes ==
  \E n \in 1 .. 3 : \E kvs \in [1 .. n -> PushKeys] :
    /\ \A i, k \in 1 .. n : kvs[i].key = kvs[k].key => i = k
    /\ datagram' = [packet |-> Pack(seq, [keyNum |-> n, kvs |-> kvs]), meant |-> kvs]
    /\ told' = Silence /\ UNCHANGED seq

ParseCommStream ==
  /\ datagram # <<>> /\ told = Silence
  /\ \E damage \in {"none", "header", "data", "short"}, rest \in BOOLEAN :
       LET read == ParseStateInfo(datagram.packet)
       IN told' = [accepted |-> CheckPreamble(damage, rest) /\ read.ok, damage |-> damage,
                   seq |-> datagram.packet.seq, info |-> read.info,
                   json |-> SettingsWritten(read.info) \cup StatesWritten(read.info)]
  /\ UNCHANGED <<seq, datagram>>

CodecNext == SdkSends \/ SettingSent \/ LidarPushes \/ ParseCommStream

----------------------------------------------------------------------------
\* The values of a message that its receiver surely gets: each of a key it knows
\* that fills its field, if no later one runs over it.
Sure(kvs, i) ==
  /\ kvs[i].key \in Known /\ ~Short(kvs[i])
  /\ \A k \in i + 1 .. Len(kvs) : ~Overruns(kvs[k], ValueRead(kvs[i]))

\* Whatever keys stand in a message, in which order and with which lengths, each is
\* found: its receiver gets those it knows with their values and nothing else,
\* except that a value too short for its field is not kept whole and one too long
\* spoils fields behind its own.  The number of a command finds it among those
\* registered; a message that arrived whole is taken, one with a flaw is not, and
\* one cut short only if nothing of it is lost after all.
MessagesRead ==
  told # Silence =>
    /\ told.damage = "none" => told.accepted
    /\ told.damage \in {"header", "data"} => ~told.accepted
    /\ told.accepted =>
         /\ told.info = {ValueRead(datagram.meant[i]) :
                           i \in {i \in DOMAIN datagram.meant : Sure(datagram.meant, i)}}
         /\ told.seq \in 1 .. SeqMax /\ told.seq = seq
==============================================================================
