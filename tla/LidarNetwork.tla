----------------------------- MODULE LidarNetwork -----------------------------
(***************************************************************************)
(* livox_sdk between its configuration file and the handlers of datagrams: *)
(* what is read from the file and checked, the sockets made for it, and to *)
(* whom a datagram of a lidar goes by the port it comes from.  Ports are   *)
(* named by what a lidar really sends from them; the file may have them    *)
(* wrong.                                                                  *)
(***************************************************************************)
EXTENDS Integers, Sequences, SequencesExt, FiniteSets

CONSTANTS
  NetLidars,        \* lidars, by their address
  TypeOf,           \* their types
  FilePorts,        \* ports of the lidar as a file may give them
  HostPorts,        \* ports of the host as a file may give them
  Addresses         \* what an entry of the file may list as lidar_ip; {}: none

ASSUME NetworkAssumption == \A lidars \in Addresses : IsFiniteSet(lidars)

PortKinds == {"cmd", "push", "points", "imu", "log"}
FixedTypes == {"mid360", "mid360s"}
AllTypes == {"hap"} \cup FixedTypes

VARIABLES
  phase,            \* "start", "refused" or "running"
  master, logOn,    \* of the file: master_sdk, lidar_log_enable
  typeCfg,          \* type_lidars_cfg_map_
  customs,          \* custom_lidars_cfg_map_ and the vector, in the order made
  channels,         \* channel_info_: host port -> the thread that reads it
  commandPorts,     \* keys of custom_command_channel_
  broadcasts,       \* broadcast sockets
  delivered         \* what was done with the last datagram

networkVars == <<phase, master, logOn, typeCfg, customs, channels, commandPorts,
                 broadcasts, delivered>>

NoDatagram == [handler |-> "none"]

NetworkInit ==
  /\ phase = "start" /\ master = TRUE /\ logOn = FALSE
  /\ typeCfg = <<>> /\ customs = <<>> /\ channels = <<>> /\ commandPorts = {}
  /\ broadcasts = 0 /\ delivered = NoDatagram

----------------------------------------------------------------------------
\* ParseTypeLidarCfg: one configuration of an entry of the file.
TypeLidarCfg(entry, lidar) ==
  [lidar |-> lidar, type |-> entry.type, ports |-> entry.ports, host |-> entry.host]

\* An entry that lists addresses makes a configuration of each lidar, any other
\* one of its type.
NewTypes(all, entry) ==
  IF entry.lidars # {} THEN all ELSE Append(all, TypeLidarCfg(entry, 0))

NewCustoms(all, entry) ==
  LET lidars == SetToSeq(entry.lidars)
  IN all \o [i \in 1 .. Len(lidars) |-> TypeLidarCfg(entry, lidars[i])]

ParseNewLidarCfg(entries) ==
  [types   |-> FoldLeft(NewTypes, <<>>, entries),
   customs |-> FoldLeft(NewCustoms, <<>>, entries)]

CheckLidarIp(cfgs) ==
  \A i, k \in 1 .. Len(cfgs.customs) :
    i # k => cfgs.customs[i].lidar # cfgs.customs[k].lidar

\* Mutant: the ports of the configuration of a type are left as they are.
CheckPortOfCustoms(cfg) ==
  IF cfg.type \in FixedTypes /\ cfg.lidar # 0
  THEN [cfg EXCEPT !.ports = [k \in PortKinds |-> k]] ELSE cfg

\* A Mid360 or Mid360s sends from fixed ports, whatever the file says.
CheckPort(cfg) ==
  IF cfg.type \in FixedTypes THEN [cfg EXCEPT !.ports = [k \in PortKinds |-> k]] ELSE cfg

\* Check: there are configurations, and no two of one lidar.
ParamsCheck(cfgs) ==
  /\ cfgs.types # <<>> \/ cfgs.customs # <<>>
  /\ CheckLidarIp(cfgs)

----------------------------------------------------------------------------
\* A socket of a port of the host is made once, and read by the thread that
\* wants it first.
Opened(chs, ports, thread) ==
  [p \in DOMAIN chs \cup ports |-> IF p \in DOMAIN chs THEN chs[p] ELSE thread]

CreateDataChannel(chs, cfg) ==
  Opened(chs, {cfg.host["points"], cfg.host["imu"], "debug"} \ {"off"}, "data")

CommandChannelPorts(cfg) ==
  ({cfg.host["push"]} \cup (IF master THEN {cfg.host["cmd"]} ELSE {})
    \cup (IF logOn THEN {cfg.host["log"]} ELSE {})) \ {"off"}

\* One configuration after the other: data, then commands.
CreateChannel(chs, cfg) ==
  Opened(CreateDataChannel(chs, cfg), CommandChannelPorts(cfg), "command")

CreateChannels(cfgs, chs) == FoldLeft(CreateChannel, chs, cfgs)

\* A Mid360 or Mid360s makes another broadcast socket each time.
CreateBroadcasts(cfgs) == Cardinality({i \in 1 .. Len(cfgs) : cfgs[i].type \in FixedTypes})

Channels(cfgs, chs) ==
  /\ channels' = CreateChannels(cfgs, chs)
  /\ commandPorts' = commandPorts \cup {"detection"} \cup
                     UNION {CommandChannelPorts(cfg) : cfg \in Range(cfgs)}
  /\ broadcasts' = broadcasts + CreateBroadcasts(cfgs)

ReadFile ==
  /\ phase = "start"
  /\ \E m, l \in BOOLEAN : master' = m /\ logOn' = l
  /\ phase' = "read"
  /\ UNCHANGED <<typeCfg, customs, channels, commandPorts, broadcasts, delivered>>

\* Parse, Check and Init.
Entries == [type : AllTypes, lidars : Addresses, ports : FilePorts, host : HostPorts]

\* Init: the configurations of the types and of the lidars, and their sockets.
DeviceManagerInit(types, named) ==
  LET Of(t) == {i \in 1 .. Len(types) : types[i].type = t}
  IN /\ phase' = "running" /\ customs' = named
     /\ typeCfg' = [t \in {cfg.type : cfg \in Range(types)} |-> types[Max(Of(t))]]
     /\ Channels(named, [p \in {"detection"} |-> "detection"])

LivoxLidarSdkInit ==
  /\ phase = "read"
  /\ \E n \in 1 .. 2 : \E entries \in [1 .. n -> Entries] :
       LET cfgs   == ParseNewLidarCfg(entries)
           types  == [i \in 1 .. Len(cfgs.types) |-> CheckPort(cfgs.types[i])]
           named  == [i \in 1 .. Len(cfgs.customs) |-> CheckPort(cfgs.customs[i])]
       IN IF ~ParamsCheck(cfgs)
          THEN phase' = "refused"
               /\ UNCHANGED <<typeCfg, customs, channels, commandPorts, broadcasts>>
          ELSE DeviceManagerInit(types, named)
  /\ UNCHANGED <<master, logOn, delivered>>

----------------------------------------------------------------------------
\* GetLidarConfigMap: the configurations of a lidar, the first to be found.
CfgsOf(lidar) == {i \in 1 .. Len(customs) : customs[i].lidar = lidar}
CfgOf(lidar)  == customs[CHOOSE i \in CfgsOf(lidar) : \A k \in CfgsOf(lidar) : i <= k]

\* Mutant: adopted with the address of the lidar its type was last made for.
AdoptedAs(cfg, lidar) == IF cfg.lidar = 0 THEN [cfg EXCEPT !.lidar = lidar] ELSE cfg

\* A lidar without a configuration gets that of its type, with its own address.
Adopted(cfg, lidar) == [cfg EXCEPT !.lidar = lidar]

\* The first answer to the detection broadcast of a lidar that is not in the file.
AdoptLidar(lidar) ==
  LET type == TypeOf[lidar]
  IN IF type \notin DOMAIN typeCfg
     THEN UNCHANGED <<typeCfg, customs, channels, commandPorts, broadcasts>>
     ELSE /\ typeCfg' = [typeCfg EXCEPT ![type] = Adopted(@, lidar)]
          /\ customs' = Append(customs, Adopted(typeCfg[type], lidar))
          /\ Channels(customs', channels)

\* Handle of the DataHandler: the callback of the kind of data, whatever its port.
DataHandle(port) == IF port = "imu" THEN "imu" ELSE "points"

\* OnData: who gets a datagram from a port of a lidar with this configuration.
Receiver(cfg, port) ==
  IF port \in {cfg.ports["imu"], cfg.ports["points"]} THEN DataHandle(port)
  ELSE IF port \in {"detection", cfg.ports["cmd"], cfg.ports["push"], cfg.ports["log"]}
  THEN "command" ELSE "dropped"

OnData(lidar, port) ==
  /\ phase = "running"
  /\ IF CfgsOf(lidar) # {}
     THEN /\ delivered' = [lidar |-> lidar, port |-> port,
                           handler |-> Receiver(CfgOf(lidar), port)]
          /\ UNCHANGED <<typeCfg, customs, channels, commandPorts, broadcasts>>
     ELSE /\ delivered' = NoDatagram
          /\ IF port = "detection" THEN AdoptLidar(lidar)
             ELSE UNCHANGED <<typeCfg, customs, channels, commandPorts, broadcasts>>
  /\ UNCHANGED <<phase, master, logOn>>

\* GetCmdChannel: the socket a command to the lidar is sent by.
CmdChannel(lidar) ==
  IF CfgsOf(lidar) # {} /\ CfgOf(lidar).host["cmd"] \in commandPorts
  THEN CfgOf(lidar).host["cmd"] ELSE "detection"

Destroy ==
  /\ phase = "running" /\ phase' = "start"
  /\ typeCfg' = <<>> /\ customs' = <<>> /\ channels' = <<>> /\ commandPorts' = {}
  /\ broadcasts' = 0 /\ delivered' = NoDatagram /\ UNCHANGED <<master, logOn>>

NetworkNext ==
  \/ ReadFile \/ LivoxLidarSdkInit \/ Destroy
  \/ \E lidar \in NetLidars, port \in PortKinds \cup {"detection"} : OnData(lidar, port)

----------------------------------------------------------------------------
\* However wrong the ports in the file are, a datagram of a Mid360 that is
\* configured as one goes to the handler of its kind; no lidar has two
\* configurations; and what is sent to a lidar goes through a socket that exists,
\* as does what it sends to the host.
NetworkSound ==
  phase = "running" =>
    /\ delivered # NoDatagram /\ CfgOf(delivered.lidar).type \in FixedTypes
         => delivered.handler = IF delivered.port \in {"points", "imu"}
                                THEN delivered.port ELSE "command"
    /\ \A lidar \in NetLidars :
         /\ \A i, k \in CfgsOf(lidar) : i = k
         /\ CmdChannel(lidar) \in DOMAIN channels
         /\ \A i \in CfgsOf(lidar) :
              {customs[i].host["points"], customs[i].host["push"]} \ {"off"} \subseteq DOMAIN channels

----------------------------------------------------------------------------
(***************************************************************************)
(* One IO thread of livox_sdk: an IOLoop over epoll.  Another thread has a *)
(* socket read or left alone by posting a task and waking the loop through *)
(* a pipe; in each turn the loop reads what has arrived, one datagram of   *)
(* every socket it polls, and then runs the tasks posted since.  A socket  *)
(* is closed by the thread that has it removed, without waiting for that.  *)
(***************************************************************************)

CONSTANTS
  Sockets,
  PollMax        \* OPEN_MAX_POLL, the sockets that fit beside the pipe

ASSUME LoopAssumption == IsFiniteSet(Sockets) /\ PollMax \in Nat

VARIABLES
  sock,          \* of each socket: "new", "wanted", "left" or "closed"
  readable,      \* sockets with a datagram that was not read
  pendingTasks,  \* pending_tasks_
  turnTasks,     \* those of them this turn has taken and not run
  waking,        \* threads that have posted a task and are yet to wake the loop
  woken,         \* the pipe holds a byte
  descriptors,   \* descriptors_, but for the pipe
  turn,          \* where the loop stands
  quitLoop,      \* quit_
  overfull       \* history: more sockets were wanted than fit

loopVars == <<sock, readable, pendingTasks, turnTasks, waking, woken, descriptors,
              turn, quitLoop, overfull>>

WantedSockets == {s \in Sockets : sock[s] = "wanted"}

LoopInit ==
  /\ sock = [s \in Sockets |-> "new"] /\ readable = {}
  /\ pendingTasks = <<>> /\ turnTasks = <<>> /\ waking = 0 /\ woken = FALSE
  /\ descriptors = {} /\ turn = "poll" /\ quitLoop = FALSE /\ overfull = FALSE

----------------------------------------------------------------------------
\* PostTask: the task is put down under the lock, and then, without it, a byte
\* is written to the pipe.  Nobody holds a loop that is being joined.
PostTask(task) ==
  /\ ~quitLoop /\ pendingTasks' = Append(pendingTasks, task) /\ waking' = waking + 1
  /\ UNCHANGED <<readable, turnTasks, woken, descriptors, turn, quitLoop>>

AddDelegate(s) ==
  /\ sock[s] = "new" /\ sock' = [sock EXCEPT ![s] = "wanted"]
  /\ overfull' = (overfull \/ Cardinality(WantedSockets) >= PollMax)
  /\ PostTask([adds |-> TRUE, socket |-> s])

RemoveDelegate(s) ==
  /\ sock[s] = "wanted" /\ sock' = [sock EXCEPT ![s] = "left"]
  /\ PostTask([adds |-> FALSE, socket |-> s]) /\ UNCHANGED overfull

WakeUp ==
  /\ waking > 0 /\ waking' = waking - 1 /\ woken' = TRUE
  /\ UNCHANGED <<sock, readable, pendingTasks, turnTasks, descriptors, turn,
                 quitLoop, overfull>>

CloseSock(s) ==
  /\ sock[s] = "left" /\ sock' = [sock EXCEPT ![s] = "closed"]
  /\ readable' = readable \ {s}
  /\ UNCHANGED <<pendingTasks, turnTasks, waking, woken, descriptors, turn,
                 quitLoop, overfull>>

Arrives(s) ==
  /\ sock[s] = "wanted" /\ readable' = readable \cup {s}
  /\ UNCHANGED <<sock, pendingTasks, turnTasks, waking, woken, descriptors, turn,
                 quitLoop, overfull>>

\* Join; the thread waits for the loop to end.
JoinLoop ==
  /\ ~quitLoop /\ quitLoop' = TRUE
  /\ UNCHANGED <<sock, readable, pendingTasks, turnTasks, waking, woken,
                 descriptors, turn, overfull>>

----------------------------------------------------------------------------
\* ThreadFunc: whether to go on is looked at once per turn.
EndLoop ==
  /\ turn = "poll" /\ quitLoop /\ turn' = "ended"
  /\ UNCHANGED <<sock, readable, pendingTasks, turnTasks, waking, woken,
                 descriptors, quitLoop, overfull>>

\* Poll returns when a socket can be read, when it is woken, or after a while:
\* OnData takes a datagram of each socket, the bytes in the pipe are drained.
PollOnce ==
  /\ turn = "poll" /\ ~quitLoop /\ turn' = "take"
  /\ readable' = readable \ descriptors /\ woken' = FALSE
  /\ UNCHANGED <<sock, pendingTasks, turnTasks, waking, descriptors, quitLoop, overfull>>

TakeTasks ==
  /\ turn = "take" /\ turn' = "run"
  /\ turnTasks' = pendingTasks /\ pendingTasks' = <<>>
  /\ UNCHANGED <<sock, readable, waking, woken, descriptors, quitLoop, overfull>>

\* The kernel takes no socket that is closed, and leaves out one that gets
\* closed; descriptors_ keeps that until it is removed.
PollSetAdd(s) ==
  IF Cardinality(descriptors) >= PollMax \/ sock[s] = "closed"
  THEN descriptors ELSE descriptors \cup {s}

PollSetRemove(s) == descriptors \ {s}

RunTask ==
  /\ turn = "run" /\ turnTasks # <<>> /\ turnTasks' = Tail(turnTasks)
  /\ descriptors' = IF Head(turnTasks).adds THEN PollSetAdd(Head(turnTasks).socket)
                    ELSE PollSetRemove(Head(turnTasks).socket)
  /\ UNCHANGED <<sock, readable, pendingTasks, waking, woken, turn, quitLoop, overfull>>

\* Mutants: the tasks are dropped when they were run, not when they were taken;
\* the pipe is drained last.
TurnEndsClean ==
  /\ turn = "run" /\ turnTasks = <<>> /\ turn' = "poll" /\ pendingTasks' = <<>>
  /\ UNCHANGED <<sock, readable, turnTasks, waking, woken, descriptors, quitLoop, overfull>>

TurnEndsDrained ==
  /\ turn = "run" /\ turnTasks = <<>> /\ turn' = "poll" /\ woken' = FALSE
  /\ UNCHANGED <<sock, readable, pendingTasks, turnTasks, waking, descriptors,
                 quitLoop, overfull>>

TurnEnds ==
  /\ turn = "run" /\ turnTasks = <<>> /\ turn' = "poll"
  /\ UNCHANGED <<sock, readable, pendingTasks, turnTasks, waking, woken, descriptors,
                 quitLoop, overfull>>

LoopNext ==
  \/ \E s \in Sockets : AddDelegate(s) \/ RemoveDelegate(s) \/ CloseSock(s) \/ Arrives(s)
  \/ WakeUp \/ JoinLoop
  \/ EndLoop \/ PollOnce \/ TakeTasks \/ RunTask \/ TurnEnds

----------------------------------------------------------------------------
\* What is polled once the first n of the tasks are run: a socket that the last
\* of those about it adds, or that none is about.
Tasks == turnTasks \o pendingTasks

PolledAfter(n) ==
  {s \in Sockets :
     \/ s \in descriptors /\ \A i \in 1 .. n : Tasks[i].socket # s
     \/ \E i \in 1 .. n : /\ Tasks[i].socket = s /\ Tasks[i].adds
                         /\ \A k \in i + 1 .. n : Tasks[k].socket # s}

\* Tasks posted while others are taken and run are neither lost nor run twice,
\* nor out of order, and none has to wait until a poll times out although its
\* thread has woken the loop (io_loop.cpp:72).
LoopSound ==
  /\ ~overfull => PolledAfter(Len(Tasks)) = WantedSockets
  /\ turn = "poll" /\ pendingTasks # <<>> => woken \/ waking > 0

\* Until a datagram of a socket that stays wanted is read, or a loop that is to
\* end does, whatever is posted to it meanwhile (io_thread.cpp:38).
LoopWaits(s) ==
  IF quitLoop THEN turn # "ended"
  ELSE sock[s] = "wanted" /\ s \in readable /\ ~overfull

==============================================================================
