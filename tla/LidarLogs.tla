------------------------------ MODULE LidarLogs ------------------------------
(***************************************************************************)
(* The log files of one type that a lidar sends to livox_sdk: packets with *)
(* a running number come in, a writer thread takes them from a queue every *)
(* 100 ms and puts them into files, whose names begin with a dot until     *)
(* they are complete; another thread removes the oldest when there is too  *)
(* much.  A packet may be lost, come twice or come late.                   *)
(***************************************************************************)
EXTENDS Integers, Sequences, SequencesExt, FiniteSetsExt

CONSTANTS
  LastPacket,       \* bound of the packets of a lidar
  CacheSize,        \* max_realtimelog_cache_size_, in packets
  LogFaults         \* bound of the packets lost, doubled or late

VARIABLES
  last,             \* packet the lidar has sent last
  late,             \* packets that come once more or late
  logQueue,         \* queue_
  batch,            \* what the writer has taken from it
  current,          \* current_files_: last packet, open file or none, by its name
  files,            \* on the disk: name, hidden or not, packets
  detected,         \* devices_info_ knows the lidar
  logger,           \* its handler: "none", "running", "stopping", "destroyed"
  wake,             \* cond_ of the thread that removes files
  logFaults,
  cameLate          \* only for the properties: a packet came late or twice

logVars == <<last, late, logQueue, batch, current, files, detected, logger, wake,
             logFaults, cameLate>>

LogsInit ==
  /\ last = [n |-> 0, flag |-> "end", file |-> 0] /\ late = {}
  /\ logQueue = <<>> /\ batch = <<>>
  /\ current = [n |-> 0, file |-> 0, open |-> 0] /\ files = {}
  /\ detected = FALSE /\ logger = "none" /\ wake = FALSE /\ logFaults = 0
  /\ cameLate = FALSE

----------------------------------------------------------------------------
\* The lidar ends a file before the next and numbers packets through all.
NextPackets ==
  {[n |-> last.n + 1, flag |-> flag,
    file |-> last.file + (IF flag = "create" THEN 1 ELSE 0)] :
     flag \in IF last.flag = "end" THEN {"create"} ELSE {"data", "end"}}

\* A log packet: the first of a file sets up the handler of a lidar; if that was
\* not detected yet, the code goes through a null pointer.  Without a handler the
\* other packets are dropped.
LoggerHandler(p) ==
  /\ logQueue' = IF logger = "running" \/ (logger = "none" /\ p.flag = "create")
                 THEN Append(logQueue, p) ELSE logQueue
  /\ logger' = IF logger # "none" \/ p.flag # "create" THEN logger
               ELSE IF detected THEN "running" ELSE "crashed"
  /\ wake' = (wake \/ (logger = "running" /\ p.flag = "end"))

PacketSent ==
  \E p \in NextPackets, again \in BOOLEAN, lost \in BOOLEAN :
    /\ logger # "crashed" /\ last.n < LastPacket
    /\ (again \/ lost) => logFaults < LogFaults
    /\ logFaults' = IF again \/ lost THEN logFaults + 1 ELSE logFaults
    /\ last' = p /\ late' = IF again THEN late \cup {p} ELSE late
    /\ IF lost THEN UNCHANGED <<logQueue, logger, wake>> ELSE LoggerHandler(p)
    /\ UNCHANGED <<batch, current, files, detected, cameLate>>

LatePacket ==
  \E p \in late :
    /\ logger # "crashed" /\ late' = late \ {p} /\ LoggerHandler(p) /\ cameLate' = TRUE
    /\ UNCHANGED <<last, batch, current, files, detected, logFaults>>

AddDevice ==
  /\ ~detected /\ logger # "crashed" /\ detected' = TRUE
  /\ UNCHANGED <<last, late, logQueue, batch, current, files, logger, wake, logFaults,
                 cameLate>>

----------------------------------------------------------------------------
\* A complete file gets its name without the dot; a file that has it goes.
ChangeCurrentFileName(fs, name) ==
  {f \in fs : f.name # name} \cup
  {[f EXCEPT !.hidden = FALSE] : f \in {f \in fs : f.name = name /\ f.hidden}}

Closed(fs) == IF current.open = 0 THEN fs ELSE ChangeCurrentFileName(fs, current.open)

\* A name is the second and the index; one of two creations in a second is that
\* of a file that comes twice.
Names(p) == LET new == Max({0} \cup {f.name : f \in files}) + 1
            IN {new} \cup (IF current.open > 0 /\ current.file = p.file
                           THEN {current.open} ELSE {})

CreateFile(p) ==
  \E name \in Names(p) :
    /\ files' = Closed(files) \cup {[name |-> name, hidden |-> TRUE, packets |-> <<p.n>>]}
    /\ current' = [n |-> p.n, file |-> p.file, open |-> name]

WriteFile(p) ==
  IF p.file # current.file THEN UNCHANGED <<files, current>>
  ELSE /\ files' = {IF f.name = current.open /\ f.hidden
                    THEN [f EXCEPT !.packets = Append(@, p.n)] ELSE f : f \in files}
       /\ current' = [current EXCEPT !.n = p.n]

StopFile(p) == /\ files' = Closed(files)
               /\ current' = [current EXCEPT !.n = p.n, !.open = 0]

\* Mutant: a packet that comes late is written.
PassedOverNone(p) == FALSE

\* Mutant: one after a gap is passed over.
PassedOverGap(p) == p.n # current.n + 1 /\ p.flag # "create"

\* A packet older than the last is to be passed over, but it stays in front: the
\* writer goes round for ever.
PassedOver(p) == p.n < current.n /\ p.flag # "create"

\* The writer takes the queue, unless it is told to stop.
TakeQueue ==
  /\ logger = "running" /\ batch = <<>> /\ logQueue # <<>>
  /\ batch' = logQueue /\ logQueue' = <<>>
  /\ UNCHANGED <<last, late, current, files, detected, logger, wake, logFaults, cameLate>>

Write ==
  /\ logger # "crashed" /\ batch # <<>> /\ ~PassedOver(Head(batch))
  /\ LET p == Head(batch)
     IN \/ p.flag = "create" /\ CreateFile(p)
        \/ p.flag = "end" /\ StopFile(p)
        \/ p.flag = "data" /\ WriteFile(p)
  /\ batch' = Tail(batch)
  /\ UNCHANGED <<last, late, logQueue, detected, logger, wake, logFaults, cameLate>>

----------------------------------------------------------------------------
Size(fs) == FoldSet(LAMBDA f, sum : Len(f.packets) + sum, 0, fs)

\* Mutant: the file that is being written can be removed.
RemovableAll(f) == TRUE

\* Files with a dot are left alone, but count.
Removable(f) == ~f.hidden

\* The oldest first, until the rest is small enough.
Kept(fs) ==
  LET young(k) == {f \in fs : ~Removable(f) \/ f.name > k}
      fits     == {k \in {0} \cup {f.name : f \in fs} : Size(young(k)) <= CacheSize}
  IN IF fits # {} THEN young(Min(fits)) ELSE {f \in fs : ~Removable(f)}

CycleDelete ==
  /\ logger # "crashed" /\ (wake \/ Size(files) > CacheSize)
  /\ files' = Kept(files) /\ wake' = FALSE
  /\ UNCHANGED <<last, late, logQueue, batch, current, detected, logger, logFaults,
                 cameLate>>

\* Uninit: the writer is told to stop, ...
RequestStop ==
  /\ logger = "running" /\ logger' = "stopping"
  /\ UNCHANGED <<last, late, logQueue, batch, current, files, detected, wake, logFaults,
                 cameLate>>

\* ... joined, and all files get their names; what is in the queue is lost.
Destory ==
  /\ logger = "stopping" /\ batch = <<>> /\ logger' = "destroyed"
  /\ files' = {[f EXCEPT !.hidden = FALSE] :
                 f \in {f \in files : f.hidden \/ ~\E g \in files : g.name = f.name /\ g.hidden}}
  /\ current' = [current EXCEPT !.open = 0]
  /\ UNCHANGED <<last, late, logQueue, batch, detected, wake, logFaults, cameLate>>

LogsNext ==
  \/ PacketSent \/ LatePacket \/ AddDevice \/ TakeQueue \/ Write \/ CycleDelete
  \/ RequestStop \/ Destory

----------------------------------------------------------------------------
\* A file has its packets in order, whichever of them come late, and the file
\* that is being written is there, with its dot.
LogsInOrder ==
  /\ \A f \in files : \A i \in 1 .. Len(f.packets) - 1 : f.packets[i] <= f.packets[i + 1]
  /\ current.open > 0 => \E f \in files : f.name = current.open /\ f.hidden

\* Until the logger stops that is told to; its writer hangs only on a packet that
\* came late.
LogsWait == logger = "stopping" /\ ~cameLate
==============================================================================
