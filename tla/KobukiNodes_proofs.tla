-------------------------- MODULE KobukiNodes_proofs --------------------------
(***************************************************************************)
(* What the nodes around the Kobuki keep for all states of the sensors,    *)
(* queues of any depth and any order of the threads: controllers that only *)
(* see edges know the sensors, the keyboard node leaves the base at rest,  *)
(* and listeners are told what is.                                         *)
(***************************************************************************)
EXTENDS KobukiNodes, TLAPS

USE EventsAssumption, SafetyAssumption, WalkerAssumption, CloudAssumption, KeyAssumption

----------------------------------------------------------------------------
(* Sequences of events. *)

\* The last event of the sensor in the queue says whether it is in the set.
EndsWith(q, s, set) ==
  \E i \in DOMAIN q :
    /\ q[i].sensor = s /\ (q[i].on <=> s \in set)
    /\ \A j \in DOMAIN q : q[j].sensor = s => j <= i

\* One event for each of the sensors, which says whether it is in the set.
Tells(q, sensors, set) ==
  /\ q \in Seq(Event)
  /\ \A i \in DOMAIN q : q[i].sensor \in sensors /\ (q[i].on <=> q[i].sensor \in set)
  /\ \A s \in sensors :
       \E i \in DOMAIN q : q[i].sensor = s /\ \A j \in DOMAIN q : q[j].sensor = s => j = i

LEMMA TellsBoth ==
  ASSUME NEW a, NEW b, NEW S, NEW U, NEW set,
         Tells(a, S, set), Tells(b, U, set), S \cap U = {}
  PROVE  Tells(a \o b, S \cup U, set)
<1> DEFINE q == a \o b
<1>1. /\ a \in Seq(Event) /\ b \in Seq(Event) /\ q \in Seq(Event)
      /\ Len(q) = Len(a) + Len(b)
      /\ \A i \in 1 .. Len(a) : q[i] = a[i]
      /\ \A i \in 1 .. Len(b) : q[Len(a) + i] = b[i]
      /\ \A i \in Len(a) + 1 .. Len(q) : q[i] = b[i - Len(a)]
      /\ DOMAIN q = 1 .. Len(q) /\ DOMAIN a = 1 .. Len(a) /\ DOMAIN b = 1 .. Len(b)
  BY DEF Tells
<1> HIDE DEF q
<1>2. \A i \in DOMAIN q : \/ i \in 1 .. Len(a)
                          \/ i - Len(a) \in 1 .. Len(b) /\ i \in Len(a) + 1 .. Len(q)
  BY <1>1
<1>3. ASSUME NEW i \in DOMAIN q
      PROVE  q[i].sensor \in S \cup U /\ (q[i].on <=> q[i].sensor \in set)
  BY <1>1, <1>2 DEF Tells
<1>4. ASSUME NEW s \in S
      PROVE  \E i \in DOMAIN q : q[i].sensor = s /\ \A j \in DOMAIN q : q[j].sensor = s => j = i
  <2>1. PICK i \in DOMAIN a : a[i].sensor = s /\ \A j \in DOMAIN a : a[j].sensor = s => j = i
    BY DEF Tells
  <2>2. \A j \in DOMAIN b : b[j].sensor # s
    BY DEF Tells
  <2>3. i \in DOMAIN q /\ q[i].sensor = s
    BY <1>1, <2>1
  <2>4. \A j \in DOMAIN q : q[j].sensor = s => j = i
    BY <1>1, <1>2, <2>1, <2>2
  <2>5. QED
    BY <2>3, <2>4
<1>5. ASSUME NEW s \in U
      PROVE  \E i \in DOMAIN q : q[i].sensor = s /\ \A j \in DOMAIN q : q[j].sensor = s => j = i
  <2>1. PICK i \in DOMAIN b : b[i].sensor = s /\ \A j \in DOMAIN b : b[j].sensor = s => j = i
    BY DEF Tells
  <2>2. \A j \in DOMAIN a : a[j].sensor # s
    BY DEF Tells
  <2>3. Len(a) + i \in DOMAIN q /\ q[Len(a) + i].sensor = s
    BY <1>1, <2>1
  <2>4. \A j \in DOMAIN q : q[j].sensor = s => j = Len(a) + i
    <3> SUFFICES ASSUME NEW j \in DOMAIN q, q[j].sensor = s
                 PROVE  j = Len(a) + i
      OBVIOUS
    <3>1. j \in Len(a) + 1 .. Len(q) /\ j - Len(a) \in DOMAIN b
      BY <1>1, <1>2, <2>2
    <3>2. b[j - Len(a)].sensor = s
      BY <1>1, <3>1
    <3>3. j - Len(a) = i
      BY <2>1, <3>1, <3>2
    <3>4. QED
      BY <1>1, <3>1, <3>3
  <2>5. QED
    BY <2>3, <2>4
<1>6. QED
  BY <1>1, <1>3, <1>4, <1>5 DEF Tells, q

\* The sensors that an EventManager in this state reports as changed.
Changed(s, new) == ~(s \in new <=> s \in lastState)

LEMMA TellsSide ==
  ASSUME NEW t \in Topics, NEW side \in {"left", "center", "right"}, NEW new
  PROVE  Tells(Edge(t, side, new), {s \in {<<t, side>>} : Changed(s, new)}, new)
<1> DEFINE s == <<t, side>>
<1>1. CASE Changed(s, new)
  <2> DEFINE e == [sensor |-> s, on |-> s \in new]
  <2>1. Edge(t, side, new) = <<e>>
    BY <1>1 DEF Edge, Changed
  <2>2. e \in Event /\ e.sensor = s /\ (e.on <=> s \in new)
    <3>1. s \in Sensors
      BY DEF Sensors
    <3>2. CASE s \in new
      <4>1. e = [sensor |-> s, on |-> TRUE]
        BY <3>2
      <4>2. QED
        BY <3>1, <3>2, <4>1 DEF Event
    <3>3. CASE s \notin new
      <4>0. (s \in new) = FALSE
        BY <3>3
      <4>1. e = [sensor |-> s, on |-> FALSE]
        BY <4>0, Zenon
      <4>2. QED
        BY <3>1, <3>3, <4>1 DEF Event
    <3>4. QED
      BY <3>2, <3>3
  <2> HIDE DEF e
  <2>3. <<e>> \in Seq(Event) /\ DOMAIN <<e>> = {1} /\ <<e>>[1] = e
    BY <2>2
  <2>4. {x \in {s} : Changed(x, new)} = {s}
    BY <1>1
  <2> HIDE DEF s
  <2>5. Tells(<<e>>, {s}, new)
    BY <2>2, <2>3 DEF Tells
  <2>6. QED
    BY <2>1, <2>4, <2>5 DEF s
<1>2. CASE ~Changed(s, new)
  <2>1. Edge(t, side, new) = <<>>
    BY <1>2 DEF Edge, Changed
  <2>2. {x \in {s} : Changed(x, new)} = {}
    BY <1>2
  <2>3. Tells(<<>>, {}, new)
    BY DEF Tells
  <2>4. QED
    BY <2>1, <2>2, <2>3
<1>3. QED
  BY <1>1, <1>2

\* A packet emits one event for each sensor of the topic that has changed.
LEMMA TellsEdges ==
  ASSUME NEW t \in Topics, NEW new
  PROVE  Tells(Edges(t, new), {s \in Sensors : s[1] = t /\ Changed(s, new)}, new)
<1> DEFINE Side(side) == {s \in {<<t, side>>} : Changed(s, new)}
<1>1. /\ Tells(Edge(t, "left", new), Side("left"), new)
      /\ Tells(Edge(t, "center", new), Side("center"), new)
      /\ Tells(Edge(t, "right", new), Side("right"), new)
  BY TellsSide
<1>2. /\ Side("left") \cap Side("center") = {}
      /\ (Side("left") \cup Side("center")) \cap Side("right") = {}
  OBVIOUS
<1>3. Side("left") \cup Side("center") \cup Side("right")
        = {s \in Sensors : s[1] = t /\ Changed(s, new)}
  BY DEF Sensors
<1> HIDE DEF Side
<1>4. Tells(Edge(t, "left", new) \o Edge(t, "center", new), Side("left") \cup Side("center"), new)
  BY <1>1, <1>2, TellsBoth
<1>5. Tells(Edges(t, new), Side("left") \cup Side("center") \cup Side("right"), new)
  BY <1>1, <1>2, <1>4, TellsBoth DEF Edges
<1>6. QED
  BY <1>3, <1>5


LEMMA Joined ==
  ASSUME NEW a \in Seq(Event), NEW b \in Seq(Event)
  PROVE  /\ a \o b \in Seq(Event)
         /\ DOMAIN (a \o b) = 1 .. Len(a) + Len(b)
         /\ \A i \in DOMAIN a : i \in DOMAIN (a \o b) /\ (a \o b)[i] = a[i]
         /\ \A i \in DOMAIN b : Len(a) + i \in DOMAIN (a \o b) /\ (a \o b)[Len(a) + i] = b[i]
         /\ \A i \in DOMAIN (a \o b) : \/ i \in DOMAIN a
                                       \/ i > Len(a) /\ i - Len(a) \in DOMAIN b
                                            /\ (a \o b)[i] = b[i - Len(a)]
OBVIOUS

\* What is on its way and the edges of a packet end with the state of the packet.
LEMMA PacketEnds ==
  ASSUME NEW q \in Seq(Event), NEW r, NEW S, NEW new, Tells(r, S, new),
         NEW s, s \in S <=> Changed(s, new),
         s \in SensorsIn(q) => EndsWith(q, s, lastState),
         s \in SensorsIn(q \o r)
  PROVE  EndsWith(q \o r, s, new)
<1> DEFINE full == q \o r
<1>1. /\ r \in Seq(Event) /\ full \in Seq(Event) /\ DOMAIN full = 1 .. Len(q) + Len(r)
      /\ \A i \in DOMAIN q : i \in DOMAIN full /\ full[i] = q[i]
      /\ \A i \in DOMAIN r : Len(q) + i \in DOMAIN full /\ full[Len(q) + i] = r[i]
      /\ \A i \in DOMAIN full : \/ i \in DOMAIN q
                                \/ i > Len(q) /\ i - Len(q) \in DOMAIN r
                                     /\ full[i] = r[i - Len(q)]
  <2>1. r \in Seq(Event)
    BY DEF Tells
  <2>2. QED
    BY <2>1, Joined
<1>2. DOMAIN q = 1 .. Len(q) /\ DOMAIN r = 1 .. Len(r) /\ Len(q) \in Nat /\ Len(r) \in Nat
  BY <1>1
<1>3. PICK i \in DOMAIN full : full[i].sensor = s
  BY DEF SensorsIn
<1> HIDE DEF full
<1>4. CASE s \in S
  <2>1. PICK k \in DOMAIN r : r[k].sensor = s /\ \A j \in DOMAIN r : r[j].sensor = s => j = k
    BY <1>4 DEF Tells
  <2>2. r[k].on <=> s \in new
    BY <2>1 DEF Tells
  <2>3. Len(q) + k \in DOMAIN full /\ full[Len(q) + k] = r[k]
    BY <1>1
  <2>4. \A j \in DOMAIN full : full[j].sensor = s => j <= Len(q) + k
    <3> SUFFICES ASSUME NEW j \in DOMAIN full, full[j].sensor = s
                 PROVE  j <= Len(q) + k
      OBVIOUS
    <3>1. CASE j \in DOMAIN q
      BY <1>2, <3>1
    <3>2. CASE j - Len(q) \in DOMAIN r /\ full[j] = r[j - Len(q)]
      <4>1. j - Len(q) = k
        BY <2>1, <3>2
      <4>2. QED
        BY <1>1, <1>2, <4>1
    <3>3. QED
      BY <1>1, <3>1, <3>2
  <2>5. full[Len(q) + k].sensor = s /\ (full[Len(q) + k].on <=> s \in new)
    BY <2>1, <2>2, <2>3
  <2>6. EndsWith(full, s, new)
    BY <2>3, <2>4, <2>5 DEF EndsWith
  <2>7. QED
    BY <2>6 DEF full
<1>5. CASE s \notin S
  <2>1. \A j \in DOMAIN r : r[j].sensor # s
    BY <1>5 DEF Tells
  <2>2. \A j \in DOMAIN full : full[j].sensor = s => j \in DOMAIN q /\ q[j].sensor = s
    BY <1>1, <2>1
  <2>3. EndsWith(q, s, lastState)
    BY <1>3, <2>2 DEF SensorsIn
  <2>4. PICK k \in DOMAIN q : /\ q[k].sensor = s /\ (q[k].on <=> s \in lastState)
                              /\ \A j \in DOMAIN q : q[j].sensor = s => j <= k
    BY <2>3 DEF EndsWith
  <2>5. s \in lastState <=> s \in new
    BY <1>5 DEF Changed
  <2>6. k \in DOMAIN full /\ full[k] = q[k]
    BY <1>1
  <2>7. EndsWith(full, s, new)
    BY <2>2, <2>4, <2>5, <2>6 DEF EndsWith
  <2>8. QED
    BY <2>7 DEF full
<1>6. QED
  BY <1>4, <1>5

\* The queue of a subscription keeps the end of what came.
\* A sequence is the end of another one, from which the first cut are missing.
EndOf(k, q, cut) ==
  /\ Len(k) + cut = Len(q)
  /\ \A i \in DOMAIN k : k[i] = q[i + cut]

LEMMA KeptLast ==
  ASSUME NEW q \in Seq(Event)
  PROVE  /\ KeepLast(q) \in Seq(Event) /\ Len(KeepLast(q)) <= Depth
         /\ \E cut \in Nat : EndOf(KeepLast(q), q, cut)
<1>1. CASE Len(q) > Depth
  <2> DEFINE cut == Len(q) - Depth
  <2>1. KeepLast(q) = SubSeq(q, cut + 1, Len(q)) /\ cut \in Nat /\ cut + 1 \in 1 .. Len(q)
    BY <1>1 DEF KeepLast
  <2>2. /\ KeepLast(q) \in Seq(Event) /\ Len(KeepLast(q)) + cut = Len(q)
        /\ Len(KeepLast(q)) = Depth
    BY <2>1
  <2>3. \A i \in 1 .. Len(q) - cut : KeepLast(q)[i] = q[i + cut]
    BY <2>1
  <2>4. \A i \in DOMAIN KeepLast(q) : KeepLast(q)[i] = q[i + cut]
    BY <2>2, <2>3
  <2>5. EndOf(KeepLast(q), q, cut)
    BY <2>2, <2>4 DEF EndOf
  <2> HIDE DEF cut
  <2>6. \E c \in Nat : EndOf(KeepLast(q), q, c)
    BY <2>1, <2>5, Zenon
  <2>7. QED
    BY <2>2, <2>6
<1>2. CASE ~(Len(q) > Depth)
  <2>1. KeepLast(q) = SubSeq(q, 1, Len(q))
    BY <1>2 DEF KeepLast
  <2>2. KeepLast(q) = q /\ Len(q) <= Depth
    BY <1>2, <2>1
  <2>3. EndOf(q, q, 0) /\ 0 \in Nat
    BY DEF EndOf
  <2>4. \E c \in Nat : EndOf(KeepLast(q), q, c)
    BY <2>2, <2>3, Zenon
  <2>5. QED
    BY <2>2, <2>4
<1>3. QED
  BY <1>1, <1>2

LEMMA KeptEnds ==
  ASSUME NEW q \in Seq(Event), NEW s, NEW set, EndsWith(q, s, set),
         s \in SensorsIn(KeepLast(q))
  PROVE  EndsWith(KeepLast(q), s, set)
<1> DEFINE k == KeepLast(q)
<1>1. PICK cut \in Nat : /\ k \in Seq(Event) /\ Len(k) + cut = Len(q)
                         /\ \A i \in DOMAIN k : k[i] = q[i + cut]
  BY KeptLast DEF EndOf
<1>2. PICK i \in DOMAIN k : k[i].sensor = s
  BY DEF SensorsIn
<1> HIDE DEF k
<1>3. DOMAIN k = 1 .. Len(k) /\ DOMAIN q = 1 .. Len(q) /\ Len(k) \in Nat /\ Len(q) \in Nat
  BY <1>1
<1>4. PICK m \in DOMAIN q : /\ q[m].sensor = s /\ (q[m].on <=> s \in set)
                            /\ \A j \in DOMAIN q : q[j].sensor = s => j <= m
  BY DEF EndsWith
<1>5. \A j \in DOMAIN k : j + cut \in DOMAIN q
  BY <1>1, <1>3
<1>6. q[i + cut].sensor = s /\ i + cut <= m
  BY <1>1, <1>2, <1>4, <1>5
<1>7. m - cut \in DOMAIN k /\ m - cut + cut = m
  BY <1>1, <1>3, <1>6
<1>8. k[m - cut] = q[m]
  BY <1>1, <1>7
<1>9. \A j \in DOMAIN k : k[j].sensor = s => j <= m - cut
  <2> SUFFICES ASSUME NEW j \in DOMAIN k, k[j].sensor = s
               PROVE  j <= m - cut
    OBVIOUS
  <2>1. j + cut <= m
    BY <1>1, <1>4, <1>5
  <2>2. QED
    BY <1>3, <2>1
<1>10. EndsWith(k, s, set)
  BY <1>4, <1>7, <1>8, <1>9 DEF EndsWith
<1>11. QED
  BY <1>10 DEF k


----------------------------------------------------------------------------
(* The picture of the sensors that is made of edges. *)

\* Every event is on the topic of its sensor; the last one of a sensor that is
\* on its way says what the robot senses; of a sensor without one the flag does,
\* unless the last one was lost.
FollowInv ==
  /\ lastState \subseteq Sensors /\ flags \subseteq Sensors /\ unsure \subseteq Sensors
  /\ active \in BOOLEAN
  /\ queue \in [Topics -> Seq(Event)]
  /\ \A t \in Topics : Len(queue[t]) <= Depth
  /\ \A t \in Topics : \A i \in DOMAIN queue[t] : queue[t][i].sensor[1] = t
  /\ \A s \in Sensors :
       IF s \in SensorsIn(queue[s[1]]) THEN EndsWith(queue[s[1]], s, lastState)
       ELSE s \notin unsure => (s \in flags <=> s \in lastState)

LEMMA TopicOfSensor == \A s \in Sensors : s[1] \in Topics
BY DEF Sensors

LEMMA FollowInit == EventsInit => FollowInv
<1> SUFFICES ASSUME EventsInit
             PROVE  FollowInv
  OBVIOUS
<1>1. \A t \in Topics : queue[t] = <<>> /\ Len(queue[t]) = 0 /\ DOMAIN queue[t] = {}
  BY DEF EventsInit
<1>2. queue \in [Topics -> Seq(Event)]
  BY DEF EventsInit
<1>3. \A s \in Sensors : s \notin SensorsIn(queue[s[1]])
  BY <1>1, TopicOfSensor DEF SensorsIn
<1>4. QED
  BY <1>1, <1>2, <1>3 DEF EventsInit, FollowInv

LEMMA FollowPacket ==
  ASSUME FollowInv, NEW new \in SUBSET Sensors, CorePacket(new)
  PROVE  FollowInv'
<1> DEFINE All(t) == queue[t] \o Edges(t, new)
<1>1. ASSUME NEW t \in Topics
      PROVE  /\ queue[t] \in Seq(Event)
             /\ Tells(Edges(t, new), {s \in Sensors : s[1] = t /\ Changed(s, new)}, new)
             /\ All(t) \in Seq(Event)
             /\ queue'[t] = KeepLast(All(t))
  <2>1. queue[t] \in Seq(Event)
    BY DEF FollowInv
  <2>2. Tells(Edges(t, new), {s \in Sensors : s[1] = t /\ Changed(s, new)}, new)
    BY TellsEdges
  <2>3. Edges(t, new) \in Seq(Event)
    BY <2>2 DEF Tells
  <2>4. All(t) \in Seq(Event)
    BY <2>1, <2>3
  <2>5. queue'[t] = KeepLast(All(t))
    BY DEF CorePacket, Publish
  <2>6. QED
    BY <2>1, <2>2, <2>4, <2>5
<1>2. queue' = [t \in Topics |-> KeepLast(All(t))]
  BY DEF CorePacket, Publish
<1>3. ASSUME NEW t \in Topics
      PROVE  \A i \in DOMAIN All(t) : All(t)[i].sensor[1] = t
  <2> DEFINE q == queue[t]
             r == Edges(t, new)
  <2>1. q \in Seq(Event) /\ r \in Seq(Event)
    BY <1>1 DEF Tells
  <2>2. \A i \in DOMAIN q : q[i].sensor[1] = t
    BY DEF FollowInv
  <2>3. \A i \in DOMAIN r : r[i].sensor[1] = t
    BY <1>1 DEF Tells
  <2> HIDE DEF q, r
  <2>4. \A i \in DOMAIN (q \o r) : (q \o r)[i].sensor[1] = t
    BY <2>1, <2>2, <2>3, Joined
  <2>5. QED
    BY <2>4 DEF q, r
<1> HIDE DEF All
<1>4. queue' \in [Topics -> Seq(Event)]
  BY <1>1, <1>2, KeptLast
<1>5. \A t \in Topics : Len(queue'[t]) <= Depth
  BY <1>1, KeptLast
<1>6. ASSUME NEW t \in Topics, NEW i \in DOMAIN queue'[t]
      PROVE  \E j \in DOMAIN All(t) : queue'[t][i] = All(t)[j]
  <2> DEFINE q == All(t)
             k == KeepLast(q)
  <2>1. q \in Seq(Event) /\ i \in DOMAIN k
    BY <1>1, <1>6
  <2>2. PICK cut \in Nat : /\ k \in Seq(Event) /\ Len(k) + cut = Len(q)
                           /\ \A x \in DOMAIN k : k[x] = q[x + cut]
    BY <2>1, KeptLast DEF EndOf
  <2>3. i + cut \in DOMAIN q
    <3>1. DOMAIN k = 1 .. Len(k) /\ DOMAIN q = 1 .. Len(q) /\ Len(k) \in Nat /\ Len(q) \in Nat
      BY <2>1, <2>2
    <3> HIDE DEF k, q
    <3>2. QED
      BY <2>1, <2>2, <3>1
  <2>4. QED
    BY <1>1, <2>1, <2>2, <2>3
<1>7. \A t \in Topics : \A i \in DOMAIN queue'[t] : queue'[t][i].sensor[1] = t
  BY <1>3, <1>6
<1>8. lastState' = new /\ UNCHANGED <<active, flags>>
  BY DEF CorePacket
<1>9. unsure' = unsure \cup UNION {SensorsIn(All(t)) \ SensorsIn(queue'[t]) : t \in Topics}
  BY DEF CorePacket, All
<1>10. unsure' \subseteq Sensors
  <2>1. ASSUME NEW t \in Topics, NEW i \in DOMAIN All(t)
        PROVE  All(t)[i].sensor \in Sensors
    <3> DEFINE q == All(t)
    <3>0. q \in Seq(Event) /\ i \in DOMAIN q
      BY <1>1, <2>1
    <3> HIDE DEF q
    <3>1. q[i] \in Event
      BY <3>0
    <3>2. QED
      BY <3>1 DEF Event, q
  <2>2. \A t \in Topics : SensorsIn(All(t)) \subseteq Sensors
    BY <2>1 DEF SensorsIn
  <2>3. QED
    BY <1>9, <2>2 DEF FollowInv
<1>11. ASSUME NEW s \in Sensors
       PROVE  IF s \in SensorsIn(queue'[s[1]]) THEN EndsWith(queue'[s[1]], s, new)
              ELSE s \notin unsure' => (s \in flags <=> s \in new)
  <2> DEFINE t == s[1]
             q == queue[t]
             r == Edges(t, new)
             S == {x \in Sensors : x[1] = t /\ Changed(x, new)}
  <2>1. t \in Topics /\ (s \in S <=> Changed(s, new))
    BY TopicOfSensor
  <2>2. q \in Seq(Event) /\ Tells(r, S, new) /\ All(t) \in Seq(Event) /\ All(t) = q \o r
    BY <1>1, <2>1 DEF All
  <2>3. IF s \in SensorsIn(q) THEN EndsWith(q, s, lastState)
        ELSE s \notin unsure => (s \in flags <=> s \in lastState)
    BY DEF FollowInv
  <2>4. queue'[t] = KeepLast(All(t))
    BY <1>1, <2>1
  <2> HIDE DEF t, q, r, S
  <2>5. CASE s \in SensorsIn(queue'[t])
    <3>1. s \in SensorsIn(All(t))
      BY <1>6, <2>1, <2>5 DEF SensorsIn
    <3>2. EndsWith(All(t), s, new)
      BY <2>1, <2>2, <2>3, <3>1, PacketEnds
    <3>3. EndsWith(queue'[t], s, new)
      BY <2>2, <2>4, <2>5, <3>2, KeptEnds
    <3>4. QED
      BY <2>5, <3>3 DEF t
  <2>6. CASE s \notin SensorsIn(queue'[t]) /\ s \notin unsure'
    <3>1. s \notin SensorsIn(All(t)) /\ s \notin unsure
      BY <1>9, <2>1, <2>6
    <3>2. s \notin SensorsIn(q)
      BY <2>2, <3>1, Joined DEF SensorsIn, Tells
    <3>3. s \notin S
      <4>1. r \in Seq(Event)
        BY <2>2 DEF Tells
      <4>2. \A i \in DOMAIN r : r[i].sensor # s
        <5> SUFFICES ASSUME NEW i \in DOMAIN r, r[i].sensor = s
                     PROVE  FALSE
          OBVIOUS
        <5>1. Len(q) + i \in DOMAIN (q \o r) /\ (q \o r)[Len(q) + i] = r[i]
          BY <2>2, <4>1, Joined
        <5>2. s \in SensorsIn(q \o r)
          BY <5>1 DEF SensorsIn
        <5>3. QED
          BY <2>2, <3>1, <5>2
      <4>3. QED
        BY <2>2, <4>2 DEF Tells
    <3>4. s \in flags <=> s \in lastState
      BY <2>3, <3>1, <3>2
    <3>5. s \in lastState <=> s \in new
      BY <2>1, <3>3 DEF Changed
    <3>6. QED
      BY <2>6, <3>4, <3>5 DEF t
  <2>7. QED
    BY <2>5, <2>6 DEF t
<1>12. QED
  BY <1>4, <1>5, <1>7, <1>8, <1>10, <1>11 DEF FollowInv


\* Taking an event leaves the rest of its queue.
LEMMA Taken ==
  ASSUME NEW q \in Seq(Event), q # <<>>
  PROVE  /\ Head(q) \in Event /\ Head(q) = q[1] /\ 1 \in DOMAIN q
         /\ Tail(q) \in Seq(Event) /\ Len(Tail(q)) + 1 = Len(q)
         /\ \A i \in DOMAIN Tail(q) : i + 1 \in DOMAIN q /\ Tail(q)[i] = q[i + 1]
         /\ \A i \in DOMAIN q : i # 1 => i - 1 \in DOMAIN Tail(q) /\ Tail(q)[i - 1] = q[i]
<1>1. /\ Tail(q) \in Seq(Event) /\ Len(Tail(q)) + 1 = Len(q) /\ Len(q) \in Nat
      /\ Head(q) = q[1] /\ 1 \in DOMAIN q
  OBVIOUS
<1>2. DOMAIN Tail(q) = 1 .. Len(Tail(q)) /\ DOMAIN q = 1 .. Len(q) /\ Len(Tail(q)) \in Nat
  BY <1>1
<1>3. Head(q) \in Event
  OBVIOUS
<1>4. \A i \in 1 .. Len(Tail(q)) : Tail(q)[i] = q[i + 1]
  OBVIOUS
<1>5. ASSUME NEW i \in DOMAIN Tail(q)
      PROVE  i + 1 \in DOMAIN q /\ Tail(q)[i] = q[i + 1]
  BY <1>1, <1>2, <1>4
<1>6. ASSUME NEW i \in DOMAIN q, i # 1
      PROVE  i - 1 \in DOMAIN Tail(q) /\ Tail(q)[i - 1] = q[i]
  <2>1. PICK k \in 1 .. Len(Tail(q)) : i = k + 1 /\ i - 1 = k
    BY <1>1, <1>2, <1>6
  <2>2. Tail(q)[k] = q[k + 1] /\ k \in DOMAIN Tail(q)
    BY <1>2, <1>4, <2>1
  <2>3. q[k + 1] = q[i] /\ Tail(q)[i - 1] = Tail(q)[k]
    BY <2>1
  <2>4. i - 1 \in DOMAIN Tail(q)
    BY <2>1, <2>2
  <2>5. QED
    BY <2>2, <2>3, <2>4
<1>7. \A i \in DOMAIN q : i # 1 => i - 1 \in DOMAIN Tail(q) /\ Tail(q)[i - 1] = q[i]
  BY <1>6, Zenon
<1>8. \A i \in DOMAIN Tail(q) : i + 1 \in DOMAIN q /\ Tail(q)[i] = q[i + 1]
  BY <1>5, Zenon
<1>9. QED
  BY <1>1, <1>3, <1>7, <1>8, Zenon

\* The rest of a queue ends as the queue did; if the event taken was the last
\* one of its sensor, it says what the end of the queue said.
LEMMA TakenEnds ==
  ASSUME NEW q \in Seq(Event), q # <<>>, NEW s, NEW set, EndsWith(q, s, set)
  PROVE  IF s \in SensorsIn(Tail(q)) THEN EndsWith(Tail(q), s, set)
         ELSE Head(q).sensor = s /\ (Head(q).on <=> s \in set)
<1> DEFINE r == Tail(q)
<1>1. /\ Head(q) = q[1]
      /\ \A i \in DOMAIN r : i + 1 \in DOMAIN q /\ r[i] = q[i + 1]
      /\ \A i \in DOMAIN q : i # 1 => i - 1 \in DOMAIN r /\ r[i - 1] = q[i]
  BY Taken
<1>2. DOMAIN r \subseteq Nat \ {0} /\ DOMAIN q \subseteq Nat \ {0}
  <2>1. r \in Seq(Event)
    BY Taken
  <2> HIDE DEF r
  <2>2. DOMAIN r = 1 .. Len(r) /\ Len(r) \in Nat /\ DOMAIN q = 1 .. Len(q) /\ Len(q) \in Nat
    BY <2>1
  <2>3. QED
    BY <2>2
<1> HIDE DEF r
<1>3. PICK m \in DOMAIN q : /\ q[m].sensor = s /\ (q[m].on <=> s \in set)
                            /\ \A j \in DOMAIN q : q[j].sensor = s => j <= m
  BY DEF EndsWith
<1>4. CASE s \in SensorsIn(r)
  <2>1. PICK i \in DOMAIN r : r[i].sensor = s
    BY <1>4 DEF SensorsIn
  <2>2. i + 1 <= m
    BY <1>1, <1>3, <2>1
  <2>3. m # 1
    BY <1>2, <2>1, <2>2
  <2>4. m - 1 \in DOMAIN r /\ r[m - 1] = q[m]
    BY <1>1, <2>3
  <2>5. \A j \in DOMAIN r : r[j].sensor = s => j <= m - 1
    <3> SUFFICES ASSUME NEW j \in DOMAIN r, r[j].sensor = s
                 PROVE  j <= m - 1
      OBVIOUS
    <3>1. j + 1 <= m
      BY <1>1, <1>3
    <3>2. QED
      BY <1>2, <3>1
  <2>6. EndsWith(r, s, set)
    BY <1>3, <2>4, <2>5 DEF EndsWith
  <2>7. QED
    BY <1>4, <2>6 DEF r
<1>5. CASE s \notin SensorsIn(r)
  <2>1. m = 1
    BY <1>1, <1>3, <1>5 DEF SensorsIn
  <2>2. QED
    BY <1>1, <1>3, <1>5, <2>1 DEF r
<1>6. QED
  BY <1>4, <1>5

\* An event that is taken leaves a flag that may be doubted only while its
\* sensor is in doubt.
EventTaken(t) ==
  LET e == Head(queue[t])
  IN /\ TakeFrom(t)
     /\ UNCHANGED <<lastState, active>>
     /\ flags' \subseteq Sensors /\ unsure' \subseteq Sensors
     /\ \A s \in Sensors \ {e.sensor} :
          (s \in flags' <=> s \in flags) /\ (s \in unsure' <=> s \in unsure)
     /\ e.sensor \notin unsure' => (e.sensor \in flags' <=> e.on)

LEMMA FollowEvent ==
  ASSUME FollowInv, NEW t \in Topics, EventTaken(t)
  PROVE  FollowInv'
<1> DEFINE q == queue[t]
           e == Head(q)
<1>1. q \in Seq(Event) /\ q # <<>> /\ \A i \in DOMAIN q : q[i].sensor[1] = t
  BY DEF FollowInv, EventTaken, TakeFrom
<1>2. queue' = [queue EXCEPT ![t] = Tail(q)] /\ UNCHANGED <<lastState, active>>
  BY DEF EventTaken, TakeFrom
<1>3. /\ e \in Event /\ e = q[1] /\ 1 \in DOMAIN q
      /\ Tail(q) \in Seq(Event) /\ Len(Tail(q)) + 1 = Len(q)
      /\ \A i \in DOMAIN Tail(q) : i + 1 \in DOMAIN q /\ Tail(q)[i] = q[i + 1]
  BY <1>1, Taken
<1>4. queue \in [Topics -> Seq(Event)] /\ \A u \in Topics : Len(queue[u]) <= Depth
  BY DEF FollowInv
<1>5. /\ queue' \in [Topics -> Seq(Event)]
      /\ queue'[t] = Tail(q) /\ \A u \in Topics \ {t} : queue'[u] = queue[u]
  BY <1>2, <1>3, <1>4
<1>6. \A u \in Topics : Len(queue'[u]) <= Depth
  <2>1. Len(q) \in Nat /\ Len(Tail(q)) \in Nat /\ Len(q) <= Depth
    BY <1>1, <1>3, <1>4
  <2> HIDE DEF q, e
  <2>2. Len(queue'[t]) <= Depth
    BY <1>3, <1>5, <2>1
  <2>3. QED
    BY <1>4, <1>5, <2>2
<1>7. \A u \in Topics : \A i \in DOMAIN queue'[u] : queue'[u][i].sensor[1] = u
  <2>1. \A i \in DOMAIN Tail(q) : Tail(q)[i].sensor[1] = t
    BY <1>1, <1>3
  <2>2. \A u \in Topics : \A i \in DOMAIN queue[u] : queue[u][i].sensor[1] = u
    BY DEF FollowInv
  <2>3. QED
    BY <1>5, <2>1, <2>2
<1>8. e.sensor[1] = t
  BY <1>1, <1>3
<1>9. ASSUME NEW s \in Sensors
      PROVE  IF s \in SensorsIn(queue'[s[1]]) THEN EndsWith(queue'[s[1]], s, lastState)
             ELSE s \notin unsure' => (s \in flags' <=> s \in lastState)
  <2>1. IF s \in SensorsIn(queue[s[1]]) THEN EndsWith(queue[s[1]], s, lastState)
        ELSE s \notin unsure => (s \in flags <=> s \in lastState)
    BY DEF FollowInv
  <2>2. s # e.sensor => (s \in flags' <=> s \in flags) /\ (s \in unsure' <=> s \in unsure)
    BY DEF EventTaken
  <2>3. e.sensor \notin unsure' => (e.sensor \in flags' <=> e.on)
    BY DEF EventTaken
  <2>4. CASE s[1] # t
    <3>1. queue'[s[1]] = queue[s[1]] /\ s # e.sensor
      BY <1>5, <1>8, <2>4, TopicOfSensor
    <3>2. QED
      BY <2>1, <2>2, <3>1
  <2>5. CASE s[1] = t
    <3>1. queue'[s[1]] = Tail(q) /\ queue[s[1]] = q
      BY <1>5, <2>5
    <3>2. CASE s \in SensorsIn(q)
      <4>1. EndsWith(q, s, lastState)
        BY <2>1, <3>1, <3>2
      <4>2. IF s \in SensorsIn(Tail(q)) THEN EndsWith(Tail(q), s, lastState)
            ELSE e.sensor = s /\ (e.on <=> s \in lastState)
        BY <1>1, <4>1, TakenEnds
      <4> HIDE DEF q, e
      <4>3. QED
        BY <2>3, <3>1, <4>2
    <3>3. CASE s \notin SensorsIn(q)
      <4>1. s \notin SensorsIn(Tail(q))
        BY <1>3, <3>3 DEF SensorsIn
      <4>2. s # e.sensor
        BY <1>3, <3>3 DEF SensorsIn
      <4>3. s \notin unsure => (s \in flags <=> s \in lastState)
        BY <2>1, <3>1, <3>3
      <4> HIDE DEF q, e
      <4>4. QED
        BY <2>2, <3>1, <4>1, <4>2, <4>3
    <3>4. QED
      BY <3>2, <3>3
  <2>6. QED
    BY <2>4, <2>5
<1>10. flags' \subseteq Sensors /\ unsure' \subseteq Sensors
  BY DEF EventTaken
<1> HIDE DEF q, e
<1>11. QED
  BY <1>2, <1>5, <1>6, <1>7, <1>9, <1>10 DEF FollowInv


\* After a reset a sensor that stays set is in doubt until its next event.
LEMMA FollowReset ==
  ASSUME FollowInv, SafetyReset
  PROVE  FollowInv'
<1>1. UNCHANGED <<lastState, queue, active>> /\ flags' = {}
  BY DEF SafetyReset
<1>2. unsure' = {s \in lastState : \A t \in Topics : s \notin SensorsIn(queue[t])}
  BY DEF SafetyReset
<1>3. ASSUME NEW s \in Sensors
      PROVE  IF s \in SensorsIn(queue[s[1]]) THEN EndsWith(queue[s[1]], s, lastState)
             ELSE s \notin unsure' => s \notin lastState
  <2>1. s \in SensorsIn(queue[s[1]]) => EndsWith(queue[s[1]], s, lastState)
    BY DEF FollowInv
  <2>2. ASSUME s \notin SensorsIn(queue[s[1]]), s \notin unsure', s \in lastState
        PROVE  FALSE
    <3>1. PICK t \in Topics : s \in SensorsIn(queue[t])
      BY <1>2, <2>2
    <3>2. PICK i \in DOMAIN queue[t] : queue[t][i].sensor = s
      BY <3>1 DEF SensorsIn
    <3>3. s[1] = t
      BY <3>2 DEF FollowInv
    <3>4. QED
      BY <2>2, <3>1, <3>3
  <2>3. QED
    BY <2>1, <2>2
<1>4. QED
  BY <1>1, <1>2, <1>3 DEF FollowInv

\* The events, flags and topics of the controllers do not depend on which of
\* them takes the events.
LEMMA NotedTaken ==
  ASSUME FollowInv, NEW t \in Topics, TakeFrom(t), UNCHANGED <<lastState, active>>,
         flags' = Noted(Head(queue[t])), unsure' = unsure \ {Head(queue[t]).sensor}
  PROVE  EventTaken(t)
<1> DEFINE e == Head(queue[t])
<1>1. queue[t] \in Seq(Event) /\ queue[t] # <<>>
  BY DEF FollowInv, TakeFrom
<1>2. e \in Event
  BY <1>1, Taken
<1>3. e.sensor \in Sensors /\ e.on \in BOOLEAN
  BY <1>2 DEF Event
<1>4. flags' = (IF e.on THEN flags \cup {e.sensor} ELSE flags \ {e.sensor})
  BY DEF Noted
<1>5. unsure' = unsure \ {e.sensor} /\ flags \subseteq Sensors /\ unsure \subseteq Sensors
  BY DEF FollowInv
<1>6. TakeFrom(t) /\ UNCHANGED <<lastState, active>>
  OBVIOUS
<1> SUFFICES /\ flags' \subseteq Sensors /\ unsure' \subseteq Sensors
             /\ \A s \in Sensors \ {e.sensor} :
                  (s \in flags' <=> s \in flags) /\ (s \in unsure' <=> s \in unsure)
             /\ e.sensor \notin unsure' => (e.sensor \in flags' <=> e.on)
  BY <1>6 DEF EventTaken
<1> HIDE DEF e
<1>7. CASE e.on
  BY <1>3, <1>4, <1>5, <1>7
<1>8. CASE ~e.on
  BY <1>3, <1>4, <1>5, <1>8
<1>9. QED
  BY <1>7, <1>8

LEMMA BumpTaken ==
  ASSUME FollowInv, NEW t \in Topics, BumpEvent(t)
  PROVE  EventTaken(t)
<1> DEFINE e == Head(queue[t])
<1>1. queue[t] \in Seq(Event) /\ queue[t] # <<>>
  BY DEF FollowInv, BumpEvent, TakeFrom
<1>2. e \in Event
  BY <1>1, Taken
<1>3. e.sensor \in Sensors /\ e.on \in BOOLEAN
  BY <1>2 DEF Event
<1>4. \/ flags' = (IF e.on THEN flags \cup {e.sensor} ELSE flags \ {e.sensor})
      \/ flags' = flags
  BY DEF BumpEvent, Noted
<1>5. unsure' = IF (e.sensor \in flags') = e.on
                THEN unsure \ {e.sensor} ELSE unsure \cup {e.sensor}
  BY DEF BumpEvent
<1>6. TakeFrom(t) /\ UNCHANGED <<lastState, active>>
  BY DEF BumpEvent
<1>7. flags \subseteq Sensors /\ unsure \subseteq Sensors
  BY DEF FollowInv
<1> SUFFICES /\ flags' \subseteq Sensors /\ unsure' \subseteq Sensors
             /\ \A s \in Sensors \ {e.sensor} :
                  (s \in flags' <=> s \in flags) /\ (s \in unsure' <=> s \in unsure)
             /\ e.sensor \notin unsure' => (e.sensor \in flags' <=> e.on)
  BY <1>6 DEF EventTaken
<1> HIDE DEF e
<1>8. flags' \subseteq Sensors /\ \A s \in Sensors \ {e.sensor} : s \in flags' <=> s \in flags
  <2>1. CASE e.on
    BY <1>3, <1>4, <1>7, <2>1
  <2>2. CASE ~e.on
    BY <1>3, <1>4, <1>7, <2>2
  <2>3. QED
    BY <2>1, <2>2
<1>9. unsure' \subseteq Sensors /\ \A s \in Sensors \ {e.sensor} : s \in unsure' <=> s \in unsure
  <2>1. CASE (e.sensor \in flags') = e.on
    BY <1>3, <1>5, <1>7, <2>1
  <2>2. CASE ~((e.sensor \in flags') = e.on)
    BY <1>3, <1>5, <1>7, <2>2
  <2>3. QED
    BY <2>1, <2>2
<1>10. e.sensor \notin unsure' => (e.sensor \in flags' <=> e.on)
  <2>1. e.sensor \notin unsure' => (e.sensor \in flags') = e.on
    BY <1>3, <1>5
  <2>2. QED
    BY <1>3, <2>1, Zenon
<1>11. QED
  BY <1>8, <1>9, <1>10

\* No step of a node loses the picture.
LEMMA FollowNext == FollowInv /\ [NodesNext]_nodesVars => FollowInv'
<1> SUFFICES ASSUME FollowInv, [NodesNext]_nodesVars
             PROVE  FollowInv'
  OBVIOUS
<1>1. CASE UNCHANGED eventVars
  BY <1>1 DEF FollowInv, eventVars
<1>2. CASE SafetyNext
  <2>1. ASSUME NEW new \in SafetyWorlds, CorePacket(new)
        PROVE  FollowInv'
    BY <2>1, FollowPacket
  <2>2. ASSUME NEW t \in Topics, SafetyEvent(t)
        PROVE  FollowInv'
    <3>1. EventTaken(t)
      BY <2>2, NotedTaken DEF SafetyEvent
    <3>2. QED
      BY <3>1, FollowEvent
  <2>3. CASE SafetyReset
    BY <2>3, FollowReset
  <2>4. CASE SafetySpin
    BY <1>1, <2>4 DEF SafetySpin
  <2>5. CASE Enable \/ Disable
    BY <2>5 DEF Enable, Disable, FollowInv
  <2>6. QED
    BY <1>2, <2>1, <2>2, <2>3, <2>4, <2>5 DEF SafetyNext
<1>3. CASE WalkerNext
  <2>1. ASSUME NEW new \in WalkerWorlds, CorePacket(new)
        PROVE  FollowInv'
    BY <2>1, FollowPacket
  <2>2. ASSUME NEW t \in Topics, BumpEvent(t)
        PROVE  FollowInv'
    BY <2>2, BumpTaken, FollowEvent
  <2>3. CASE WheelEvent
    <3>1. EventTaken("wheel")
      BY <2>3, NotedTaken DEF WheelEvent, Topics
    <3>2. QED
      BY <3>1, FollowEvent DEF Topics
  <2>4. CASE WalkerSpin
    <3>1. UNCHANGED eventVars
      BY <2>4 DEF WalkerSpin, WalkerIdle, WalkerForward, WalkerTurn
    <3>2. QED
      BY <1>1, <3>1
  <2>5. CASE Enable \/ Disable
    BY <2>5 DEF Enable, Disable, FollowInv
  <2>6. QED
    BY <1>3, <2>1, <2>2, <2>3, <2>4, <2>5 DEF WalkerNext, Topics
<1>4. [NodesNext]_nodesVars => UNCHANGED eventVars \/ SafetyNext \/ WalkerNext
  BY DEF NodesNext, Others, nodesVars
<1>5. QED
  BY <1>1, <1>2, <1>3, <1>4

\* What the invariant says of the last event and of the flag.
LEMMA FollowShows == FollowInv => FlagsFollow
<1> SUFFICES ASSUME FollowInv, NEW s \in Sensors, s \notin unsure
             PROVE  Sensed(s) <=> s \in lastState
  BY DEF FlagsFollow
<1> DEFINE q == queue[s[1]]
           of == {i \in DOMAIN q : q[i].sensor = s}
<1>1. Sensed(s) <=> IF of = {} THEN s \in flags
                    ELSE \E i \in of : q[i].on /\ \A j \in of : j <= i
  BY DEF Sensed
<1>2. q \in Seq(Event)
  BY TopicOfSensor DEF FollowInv
<1>3. IF s \in SensorsIn(q) THEN EndsWith(q, s, lastState)
      ELSE s \in flags <=> s \in lastState
  BY DEF FollowInv
<1>4. DOMAIN q = 1 .. Len(q) /\ Len(q) \in Nat
  BY <1>2
<1> HIDE DEF q
<1>5. CASE s \notin SensorsIn(q)
  <2>1. of = {}
    BY <1>5 DEF SensorsIn
  <2>2. QED
    BY <1>1, <1>3, <1>5, <2>1
<1>6. CASE s \in SensorsIn(q)
  <2>1. of # {}
    BY <1>6 DEF SensorsIn
  <2>2. PICK m \in DOMAIN q : /\ q[m].sensor = s /\ (q[m].on <=> s \in lastState)
                              /\ \A j \in DOMAIN q : q[j].sensor = s => j <= m
    BY <1>3, <1>6 DEF EndsWith
  <2>3. m \in of /\ \A j \in of : j <= m
    BY <2>2
  <2>4. \A i \in of : (\A j \in of : j <= i) => i = m
    BY <1>4, <2>3
  <2> HIDE DEF of
  <2>5. (\E i \in of : q[i].on /\ \A j \in of : j <= i) <=> q[m].on
    BY <2>3, <2>4
  <2>6. QED
    BY <1>1, <2>1, <2>2, <2>5
<1>7. QED
  BY <1>5, <1>6


----------------------------------------------------------------------------
(* The walker and the wheels. *)

\* The LEDs and the stop of the walker show which wheels are down.
StandInv ==
  part = "walker" =>
    /\ "wheel" \in ledOn <=> TopicFlags("wheel") # {}
    /\ stop \in BOOLEAN /\ (stop <=> "wheel" \in ledOn)

LEMMA StandInit == NodesInit => StandInv
BY DEF NodesInit, EventsInit, WalkerInit, StandInv, TopicFlags

LEMMA StandNext == FollowInv /\ StandInv /\ [NodesNext]_nodesVars => StandInv'
<1> SUFFICES ASSUME FollowInv, StandInv, [NodesNext]_nodesVars, part' = "walker"
             PROVE  StandInv'
  BY DEF StandInv
<1>1. part = "walker"
  BY DEF NodesNext, Others, nodesVars
<1>2. CASE UNCHANGED <<flags, ledOn, stop>>
  <2>1. TopicFlags("wheel")' = TopicFlags("wheel")
    BY <1>2 DEF TopicFlags
  <2>2. QED
    BY <1>1, <1>2, <2>1 DEF StandInv
<1>3. ASSUME NEW t \in {"bumper", "cliff"}, BumpEvent(t)
      PROVE  StandInv'
  <2> DEFINE e == Head(queue[t])
  <2>1. EventTaken(t) /\ e.sensor[1] = t /\ stop' = stop
    <3>1. EventTaken(t)
      BY <1>3, BumpTaken DEF Topics
    <3>2. queue[t] \in Seq(Event) /\ queue[t] # <<>>
      BY <3>1 DEF EventTaken, TakeFrom, FollowInv, Topics
    <3>3. e = queue[t][1] /\ 1 \in DOMAIN queue[t]
      BY <3>2, Taken
    <3>4. e.sensor[1] = t
      BY <3>3 DEF FollowInv, Topics
    <3>5. QED
      BY <1>3, <3>1, <3>4 DEF BumpEvent
  <2>2. flags \subseteq Sensors /\ flags' \subseteq Sensors
        /\ \A s \in Sensors \ {e.sensor} : s \in flags' <=> s \in flags
    BY <2>1 DEF EventTaken, FollowInv
  <2>3. TopicFlags("wheel")' = TopicFlags("wheel")
    BY <2>1, <2>2 DEF TopicFlags
  <2>4. "wheel" \in ledOn' <=> "wheel" \in ledOn
    BY <1>3 DEF BumpEvent, Lights
  <2>5. QED
    BY <1>1, <2>1, <2>3, <2>4 DEF StandInv
<1>4. CASE WheelEvent
  <2>1. ledOn' = IF TopicFlags("wheel")' # {} THEN ledOn \cup {"wheel"} ELSE ledOn \ {"wheel"}
    BY <1>4 DEF WheelEvent, Lights
  <2>2. stop' = IF ledOn' = ledOn THEN stop ELSE "wheel" \in ledOn'
    BY <1>4 DEF WheelEvent
  <2>3. "wheel" \in ledOn' <=> TopicFlags("wheel")' # {}
    BY <2>1
  <2>4. stop' \in BOOLEAN /\ (stop' <=> "wheel" \in ledOn')
    <3>1. CASE ledOn' = ledOn
      <4>1. stop' = stop
        BY <2>2, <3>1, Zenon
      <4>2. QED
        BY <1>1, <3>1, <4>1 DEF StandInv
    <3>2. CASE ledOn' # ledOn
      <4>1. stop' = ("wheel" \in ledOn')
        BY <2>2, <3>2, Zenon
      <4>2. CASE "wheel" \in ledOn'
        <5>1. ("wheel" \in ledOn') = TRUE
          BY <4>2
        <5>2. stop' = TRUE
          BY <4>1, <5>1, Zenon
        <5>3. QED
          BY <4>2, <5>2
      <4>3. CASE "wheel" \notin ledOn'
        <5>1. ("wheel" \in ledOn') = FALSE
          BY <4>3
        <5>2. stop' = FALSE
          BY <4>1, <5>1, Zenon
        <5>3. QED
          BY <4>3, <5>2
      <4>4. QED
        BY <4>2, <4>3
    <3>3. QED
      BY <3>1, <3>2
  <2>5. QED
    BY <2>3, <2>4 DEF StandInv
<1>5. CASE NodesNext
  <2>1. WalkerNext
    BY <1>1, <1>5 DEF NodesNext, Others
  <2>2. WalkerSpin => UNCHANGED <<flags, ledOn, stop>>
    BY DEF WalkerSpin, WalkerIdle, WalkerForward, WalkerTurn, eventVars
  <2>3. (Enable \/ Disable) /\ UNCHANGED walkerVars => UNCHANGED <<flags, ledOn, stop>>
    BY DEF Enable, Disable, walkerVars
  <2>4. \A new : CorePacket(new) /\ UNCHANGED walkerVars => UNCHANGED <<flags, ledOn, stop>>
    BY DEF CorePacket, walkerVars
  <2>5. QED
    BY <1>2, <1>3, <1>4, <2>1, <2>2, <2>3, <2>4 DEF WalkerNext
<1>6. CASE UNCHANGED nodesVars
  BY <1>2, <1>6 DEF nodesVars, eventVars, walkerVars
<1>7. QED
  BY <1>5, <1>6

\* Both controllers picture the sensors as they are, and the walker stands as
\* long as it takes a wheel to hang in the air.
THEOREM NodesFollow == NodesSpec => []ControllersFollow
<1>1. NodesInit => FollowInv /\ StandInv
  BY FollowInit, StandInit DEF NodesInit
<1>2. FollowInv /\ StandInv /\ [NodesNext]_nodesVars => (FollowInv /\ StandInv)'
  BY FollowNext, StandNext
<1>3. StandInv => StandsWhileDropped
  BY DEF StandInv, StandsWhileDropped
<1>4. FollowInv /\ StandInv => ControllersFollow
  BY <1>3, FollowShows DEF ControllersFollow
<1>5. QED
  BY <1>1, <1>2, <1>4, PTL DEF NodesSpec

\* A period that finds no event on its way, and no sensor in doubt, publishes
\* the escape from what the robot senses.
THEOREM NodesEscape == NodesSpec => EscapesFromSensed
<1> DEFINE Escapes1 == SafetySpin /\ active /\ Drained /\ unsure = {} /\ Escape(lastState) # "nothing"
                         => said' = Escape(lastState)
<1>1. FollowInv => Escapes1
  <2> SUFFICES ASSUME FollowInv, SafetySpin, active, Drained, unsure = {},
                      Escape(lastState) # "nothing"
               PROVE  said' = Escape(lastState)
    OBVIOUS
  <2>1. ASSUME NEW s \in Sensors
        PROVE  s \in flags <=> s \in lastState
    <3>1. queue[s[1]] = <<>>
      BY TopicOfSensor DEF Drained
    <3>2. s \notin SensorsIn(queue[s[1]])
      BY <3>1 DEF SensorsIn
    <3>3. QED
      BY <3>2 DEF FollowInv
  <2>2. flags = lastState
    BY <2>1 DEF FollowInv
  <2>3. said' = CASE ~active -> "nothing"
                  [] active /\ Escape(flags) # "nothing" -> Escape(flags)
                  [] active /\ Escape(flags) = "nothing" ->
                       IF age < Extend THEN msg ELSE "nothing"
    BY DEF SafetySpin
  <2>4. QED
    BY <2>2, <2>3
<1>2. NodesInit => FollowInv
  BY FollowInit DEF NodesInit
<1>3. FollowInv => [Escapes1]_<<eventVars, safetyVars>>
  BY <1>1
<1>4. FollowInv /\ [NodesNext]_nodesVars => FollowInv'
  BY FollowNext
<1>5. QED
  BY <1>2, <1>3, <1>4, PTL DEF NodesSpec, EscapesFromSensed


----------------------------------------------------------------------------
(* The keyboard node and the base. *)

LastOf(topic) == topic[Len(topic)]

LEMMA SentLast ==
  ASSUME NEW S, NEW topic \in Seq(S), NEW m \in S, Len(topic) <= Window
  PROVE  /\ Sent(topic, m) \in Seq(S) /\ Sent(topic, m) # <<>>
         /\ Len(Sent(topic, m)) <= Window /\ LastOf(Sent(topic, m)) = m
<1>1. Window \in Nat \ {0} /\ Len(topic) \in Nat
  OBVIOUS
<1>2. CASE Len(topic) = Window
  <2>1. topic # <<>>
    BY <1>1, <1>2
  <2> DEFINE rest == Tail(topic)
  <2>2. rest \in Seq(S) /\ Len(rest) + 1 = Len(topic)
    BY <2>1
  <2> HIDE DEF rest
  <2>3. Sent(topic, m) = Append(rest, m)
    BY <1>2, <2>2 DEF Sent, rest
  <2>4. /\ Append(rest, m) \in Seq(S) /\ Len(Append(rest, m)) = Len(rest) + 1
        /\ Append(rest, m)[Len(rest) + 1] = m
    BY <2>2
  <2>5. Append(rest, m) # <<>>
    BY <2>4
  <2>6. QED
    BY <1>1, <1>2, <2>2, <2>3, <2>4, <2>5 DEF LastOf
<1>3. CASE Len(topic) # Window
  <2>1. Sent(topic, m) = Append(topic, m)
    BY <1>3 DEF Sent
  <2>2. /\ Append(topic, m) \in Seq(S) /\ Len(Append(topic, m)) = Len(topic) + 1
        /\ Append(topic, m)[Len(topic) + 1] = m
    OBVIOUS
  <2>3. Append(topic, m) # <<>>
    BY <2>2
  <2>4. QED
    BY <1>1, <1>3, <2>1, <2>2, <2>3 DEF LastOf
<1>4. QED
  BY <1>2, <1>3

LEMMA TailLast ==
  ASSUME NEW S, NEW topic \in Seq(S), topic # <<>>, Len(topic) <= Window
  PROVE  /\ Tail(topic) \in Seq(S) /\ Len(Tail(topic)) <= Window
         /\ Head(topic) \in S /\ LastOf(topic) \in S
         /\ Tail(topic) = <<>> => Head(topic) = LastOf(topic)
         /\ Tail(topic) # <<>> => LastOf(Tail(topic)) = LastOf(topic)
<1> DEFINE rest == Tail(topic)
<1>1. rest \in Seq(S)
  OBVIOUS
<1>2. /\ Len(rest) + 1 = Len(topic) /\ Len(topic) \in Nat /\ Len(rest) \in Nat
      /\ \A i \in 1 .. Len(rest) : rest[i] = topic[i + 1]
      /\ Head(topic) = topic[1]
  OBVIOUS
<1> HIDE DEF rest
<1>3. Window \in Nat
  OBVIOUS
<1>4. Head(topic) \in S /\ LastOf(topic) \in S
  <2>1. Len(topic) \in 1 .. Len(topic) /\ DOMAIN topic = 1 .. Len(topic)
    BY <1>2
  <2>2. topic[Len(topic)] \in S /\ topic[1] \in S
    BY <1>2, <2>1
  <2>3. QED
    BY <1>2, <2>2 DEF LastOf
<1>5. ASSUME rest = <<>>
      PROVE  Head(topic) = LastOf(topic)
  <2>1. Len(rest) = 0
    BY <1>5
  <2>2. Len(topic) = 1
    BY <1>2, <2>1
  <2>3. QED
    BY <1>2, <2>2 DEF LastOf
<1>6. ASSUME rest # <<>>
      PROVE  LastOf(rest) = LastOf(topic)
  <2>1. Len(rest) \in 1 .. Len(rest)
    BY <1>6
  <2>2. QED
    BY <1>2, <2>1 DEF LastOf
<1>7. QED
  BY <1>1, <1>2, <1>3, <1>4, <1>5, <1>6 DEF rest

\* What the base will hold of power and velocity when all has arrived.
LastPower == IF powerTopic = <<>> THEN enabled ELSE LastOf(powerTopic)
VelSettles == IF velTopic = <<>> THEN BaseStopped ELSE LastOf(velTopic) = Still

Commands == [v : -LinearMax - 1 .. LinearMax + 1, w : -AngularMax - 1 .. AngularMax + 1]

KeyRanges ==
  /\ cmd \in Commands /\ keyReg \in Commands
  /\ {lastZeroVelSent, powerStatus, quitRequested} \subseteq BOOLEAN
  /\ keyPc \in {"wait", "read", "write", "zero", "publish", "power"}
  /\ exitPc \in {"running", "publish", "test", "off", "quit", "join", "gone"}
  /\ keyPc = "read" => key \in {"up", "down", "left", "right", "space"}

TopicRanges ==
  /\ enabled \in BOOLEAN
  /\ velTopic \in Seq(Commands) /\ Len(velTopic) <= Window
  /\ powerTopic \in Seq(BOOLEAN) /\ Len(powerTopic) <= Window

\* A disabled base stands.  The keyboard thread that switches the power has
\* sent a zero last.  Until the destructor tests the power the base ends up as
\* the node believes; then either the power ends up off or the robot stands.
PowerInv ==
  /\ ~enabled => BaseStopped
  /\ keyPc \in {"publish", "power"} => cmd = Still
  /\ keyPc = "power" => VelSettles
  /\ exitPc \in {"running", "publish", "test"} => LastPower = powerStatus
  /\ exitPc \notin {"running", "publish", "test"} => ~LastPower \/ VelSettles

KeyInv == KeyRanges /\ TopicRanges /\ PowerInv

LEMMA StillCommand == Still \in Commands
BY DEF Still, Commands

LEMMA MovedCommand ==
  ASSUME NEW c \in Commands, NEW k \in {"up", "down", "left", "right", "space"}
  PROVE  Moved(k, c) \in Commands
<1>1. /\ c = [v |-> c.v, w |-> c.w]
      /\ c.v \in -LinearMax - 1 .. LinearMax + 1 /\ c.w \in -AngularMax - 1 .. AngularMax + 1
  BY DEF Commands
<1>2. LinearMax \in Nat /\ AngularMax \in Nat
  OBVIOUS
<1>3. CASE k = "up"
  <2>1. Moved(k, c) = [c EXCEPT !.v = IF @ <= LinearMax THEN @ + 1 ELSE @]
    BY <1>3 DEF Moved
  <2>2. (IF c.v <= LinearMax THEN c.v + 1 ELSE c.v) \in -LinearMax - 1 .. LinearMax + 1
    BY <1>1, <1>2
  <2>3. QED
    BY <2>1, <2>2 DEF Commands
<1>4. CASE k = "down"
  <2>1. Moved(k, c) = [c EXCEPT !.v = IF @ >= -LinearMax THEN @ - 1 ELSE @]
    BY <1>4 DEF Moved
  <2>2. (IF c.v >= -LinearMax THEN c.v - 1 ELSE c.v) \in -LinearMax - 1 .. LinearMax + 1
    BY <1>1, <1>2
  <2>3. QED
    BY <2>1, <2>2 DEF Commands
<1>5. CASE k = "left"
  <2>1. Moved(k, c) = [c EXCEPT !.w = IF @ <= AngularMax THEN @ + 1 ELSE @]
    BY <1>5 DEF Moved
  <2>2. (IF c.w <= AngularMax THEN c.w + 1 ELSE c.w) \in -AngularMax - 1 .. AngularMax + 1
    BY <1>1, <1>2
  <2>3. QED
    BY <2>1, <2>2 DEF Commands
<1>6. CASE k = "right"
  <2>1. Moved(k, c) = [c EXCEPT !.w = IF @ >= -AngularMax THEN @ - 1 ELSE @]
    BY <1>6 DEF Moved
  <2>2. (IF c.w >= -AngularMax THEN c.w - 1 ELSE c.w) \in -AngularMax - 1 .. AngularMax + 1
    BY <1>1, <1>2
  <2>3. QED
    BY <2>1, <2>2 DEF Commands
<1>7. CASE k = "space"
  BY <1>7, StillCommand DEF Moved
<1>8. QED
  BY <1>3, <1>4, <1>5, <1>6, <1>7

LEMMA KeyStart == KeyInit => KeyInv
<1> SUFFICES ASSUME KeyInit
             PROVE  KeyInv
  OBVIOUS
<1>1. KeyRanges
  BY StillCommand DEF KeyInit, KeyRanges
<1>2. TopicRanges
  BY DEF KeyInit, BaseInit, TopicRanges
<1>3. PowerInv
  <2>1. powerTopic = <<TRUE>> /\ Len(powerTopic) = 1 /\ powerTopic # <<>> /\ powerTopic[1] = TRUE
    BY DEF KeyInit
  <2>2. LastPower = TRUE
    BY <2>1 DEF LastPower, LastOf
  <2>3. QED
    BY <2>2 DEF KeyInit, BaseInit, PowerInv
<1>4. QED
  BY <1>1, <1>2, <1>3 DEF KeyInv


\* Publishing moves only the topic it is about.
LEMMA VelocitySent ==
  ASSUME KeyInv, NEW m \in Commands, velTopic' = Sent(velTopic, m),
         UNCHANGED <<powerTopic, baseVars>>
  PROVE  TopicRanges' /\ LastPower' = LastPower /\ (m = Still => VelSettles')
<1>1. /\ velTopic' \in Seq(Commands) /\ velTopic' # <<>>
      /\ Len(velTopic') <= Window /\ LastOf(velTopic') = m
  BY SentLast DEF KeyInv, TopicRanges
<1>2. TopicRanges'
  BY <1>1 DEF KeyInv, TopicRanges, baseVars
<1>3. LastPower' = LastPower
  BY DEF LastPower, baseVars, LastOf
<1>4. m = Still => VelSettles'
  BY <1>1 DEF VelSettles, LastOf
<1>5. QED
  BY <1>2, <1>3, <1>4

LEMMA PowerSent ==
  ASSUME KeyInv, NEW m \in BOOLEAN, powerTopic' = Sent(powerTopic, m),
         UNCHANGED <<velTopic, baseVars>>
  PROVE  TopicRanges' /\ LastPower' = m /\ VelSettles' = VelSettles
<1>1. /\ powerTopic' \in Seq(BOOLEAN) /\ powerTopic' # <<>>
      /\ Len(powerTopic') <= Window /\ LastOf(powerTopic') = m
  BY SentLast DEF KeyInv, TopicRanges
<1>2. TopicRanges'
  BY <1>1 DEF KeyInv, TopicRanges, baseVars
<1>3. LastPower' = m
  BY <1>1, Zenon DEF LastPower, LastOf
<1>4. VelSettles' = VelSettles
  BY DEF VelSettles, baseVars, LastOf, BaseStopped
<1>5. QED
  BY <1>2, <1>3, <1>4

LEMMA NothingSent ==
  ASSUME KeyInv, UNCHANGED <<velTopic, powerTopic, baseVars>>
  PROVE  TopicRanges' /\ LastPower' = LastPower /\ VelSettles' = VelSettles
         /\ BaseStopped' = BaseStopped
BY DEF KeyInv, TopicRanges, baseVars, LastPower, VelSettles, LastOf, BaseStopped

LEMMA PowerBoolean == KeyInv => LastPower \in BOOLEAN
<1> SUFFICES ASSUME KeyInv
             PROVE  LastPower \in BOOLEAN
  OBVIOUS
<1>1. CASE powerTopic = <<>>
  BY <1>1 DEF LastPower, KeyInv, TopicRanges
<1>2. CASE powerTopic # <<>>
  <2>1. LastOf(powerTopic) \in BOOLEAN
    BY <1>2, TailLast DEF KeyInv, TopicRanges
  <2>2. QED
    BY <1>2, <2>1 DEF LastPower
<1>3. QED
  BY <1>1, <1>2

\* The base takes a velocity: what it ends up with is the same.
LEMMA VelocityTaken ==
  ASSUME KeyInv, TakeVelocity
  PROVE  TopicRanges' /\ LastPower' = LastPower /\ (VelSettles => VelSettles')
         /\ (~enabled' => BaseStopped')
<1>1. /\ velTopic \in Seq(Commands) /\ velTopic # <<>> /\ Len(velTopic) <= Window
      /\ velTopic' = Tail(velTopic) /\ powerTopic' = powerTopic /\ enabled' = enabled
      /\ baseCmd' = IF enabled THEN Head(velTopic) ELSE baseCmd
  BY DEF KeyInv, TopicRanges, TakeVelocity, VelocityCommand
<1>2. /\ velTopic' \in Seq(Commands) /\ Len(velTopic') <= Window
      /\ velTopic' = <<>> => Head(velTopic) = LastOf(velTopic)
      /\ velTopic' # <<>> => LastOf(velTopic') = LastOf(velTopic)
  BY <1>1, TailLast
<1>3. TopicRanges'
  BY <1>1, <1>2 DEF KeyInv, TopicRanges
<1>4. LastPower' = LastPower
  BY <1>1 DEF LastPower, LastOf
<1>5. ~enabled' => BaseStopped'
  BY <1>1 DEF KeyInv, PowerInv, BaseStopped
<1>6. ASSUME VelSettles
      PROVE  VelSettles'
  <2>1. LastOf(velTopic) = Still
    BY <1>1, <1>6 DEF VelSettles
  <2>2. CASE velTopic' # <<>>
    BY <1>2, <2>1, <2>2 DEF VelSettles, LastOf
  <2>3. CASE velTopic' = <<>>
    <3>1. BaseStopped'
      <4>1. CASE enabled
        BY <1>1, <1>2, <2>1, <2>3, <4>1 DEF BaseStopped, Still
      <4>2. CASE ~enabled
        BY <1>1, <1>5, <4>2
      <4>3. QED
        BY <4>1, <4>2
    <3>2. QED
      BY <2>3, <3>1 DEF VelSettles
  <2>4. QED
    BY <2>2, <2>3
<1>7. QED
  BY <1>3, <1>4, <1>5, <1>6

\* The base takes a power message: a base that is switched off stands.
LEMMA PowerTaken ==
  ASSUME KeyInv, TakePower
  PROVE  TopicRanges' /\ LastPower' = LastPower /\ (VelSettles => VelSettles')
         /\ (~enabled' => BaseStopped')
<1>1. /\ powerTopic \in Seq(BOOLEAN) /\ powerTopic # <<>> /\ Len(powerTopic) <= Window
      /\ powerTopic' = Tail(powerTopic) /\ velTopic' = velTopic
      /\ IF Head(powerTopic) THEN MotorPowerOn ELSE MotorPowerOff
  BY DEF KeyInv, TopicRanges, TakePower
<1>2. /\ powerTopic' \in Seq(BOOLEAN) /\ Len(powerTopic') <= Window
      /\ Head(powerTopic) \in BOOLEAN
      /\ powerTopic' = <<>> => Head(powerTopic) = LastOf(powerTopic)
      /\ powerTopic' # <<>> => LastOf(powerTopic') = LastOf(powerTopic)
  BY <1>1, TailLast
<1>3. enabled' = Head(powerTopic) /\ (BaseStopped => BaseStopped') /\ (~enabled' => BaseStopped')
  <2>1. CASE Head(powerTopic) = TRUE
    BY <1>1, <2>1 DEF MotorPowerOn, BaseStopped
  <2>2. CASE Head(powerTopic) = FALSE
    BY <1>1, <2>2 DEF MotorPowerOff, BaseStopped
  <2>3. QED
    BY <1>2, <2>1, <2>2
<1>4. TopicRanges'
  BY <1>1, <1>2, <1>3 DEF KeyInv, TopicRanges
<1>5. LastPower' = LastPower
  <2>1. LastPower = LastOf(powerTopic)
    BY <1>1 DEF LastPower
  <2>2. CASE powerTopic' # <<>>
    <3>1. LastPower' = LastOf(powerTopic')
      BY <2>2 DEF LastPower, LastOf
    <3>2. QED
      BY <1>2, <2>1, <2>2, <3>1
  <2>3. CASE powerTopic' = <<>>
    <3>1. LastPower' = enabled'
      BY <2>3 DEF LastPower
    <3>2. QED
      BY <1>2, <1>3, <2>1, <2>3, <3>1, Zenon
  <2>4. QED
    BY <2>2, <2>3
<1>6. VelSettles => VelSettles'
  BY <1>1, <1>3 DEF VelSettles, LastOf
<1>7. QED
  BY <1>3, <1>4, <1>5, <1>6


\* Each step of the node's three flows of control and of the base.
LEMMA KeyStep == KeyInv /\ KeyNext => KeyInv'
<1> SUFFICES ASSUME KeyInv, KeyNext
             PROVE  KeyInv'
  OBVIOUS
<1> USE DEF KeyRanges, PowerInv
<1>0. KeyRanges /\ PowerInv /\ LastPower \in BOOLEAN
  BY PowerBoolean DEF KeyInv
<1>1. CASE KeySpin
  <2>1. UNCHANGED <<cmd, powerStatus, quitRequested, key, keyPc, keyReg, exitPc, powerTopic, baseVars>>
        /\ keyPc = "wait" /\ exitPc = "running" /\ velTopic' = Sent(velTopic, cmd)
        /\ lastZeroVelSent' = (cmd = Still)
    BY <1>1 DEF KeySpin
  <2>2. TopicRanges' /\ LastPower' = LastPower
    BY <1>0, <2>1, VelocitySent
  <2>3. lastZeroVelSent' \in BOOLEAN
    <3>1. CASE cmd = Still
      BY <2>1, <3>1
    <3>2. CASE cmd # Still
      BY <2>1, <3>2
    <3>3. QED
      BY <3>1, <3>2
  <2>4. BaseStopped' = BaseStopped /\ enabled' = enabled
    BY <2>1 DEF BaseStopped, baseVars
  <2>5. KeyRanges'
    BY <1>0, <2>1, <2>3
  <2>6. PowerInv'
    BY <1>0, <2>1, <2>2, <2>4
  <2>7. QED
    BY <2>2, <2>5, <2>6 DEF KeyInv
<1>2. ASSUME NEW k \in Keys, PressKey(k)
      PROVE  KeyInv'
  <2>1. TopicRanges' /\ LastPower' = LastPower /\ VelSettles' = VelSettles
        /\ BaseStopped' = BaseStopped /\ enabled' = enabled
    BY <1>2, NothingSent DEF PressKey, baseVars
  <2>2. KeyRanges'
    BY <1>0, <1>2 DEF PressKey
  <2>3. PowerInv'
    BY <1>0, <1>2, <2>1 DEF PressKey
  <2>4. QED
    BY <2>1, <2>2, <2>3 DEF KeyInv
<1>3. CASE ReadCmd
  <2>1. TopicRanges' /\ LastPower' = LastPower /\ VelSettles' = VelSettles
        /\ BaseStopped' = BaseStopped /\ enabled' = enabled
    BY <1>3, NothingSent DEF ReadCmd, baseVars
  <2>2. Moved(key, cmd) \in Commands
    BY <1>0, <1>3, MovedCommand DEF ReadCmd
  <2>3. KeyRanges'
    BY <1>0, <1>3, <2>2 DEF ReadCmd
  <2>4. PowerInv'
    BY <1>0, <1>3, <2>1 DEF ReadCmd
  <2>5. QED
    BY <2>1, <2>3, <2>4 DEF KeyInv
<1>4. CASE WriteCmd
  <2>1. TopicRanges' /\ LastPower' = LastPower /\ VelSettles' = VelSettles
        /\ BaseStopped' = BaseStopped /\ enabled' = enabled
    BY <1>4, NothingSent DEF WriteCmd, baseVars
  <2>2. KeyRanges'
    BY <1>0, <1>4, StillCommand DEF WriteCmd
  <2>3. PowerInv'
    BY <1>0, <1>4, <2>1 DEF WriteCmd
  <2>4. QED
    BY <2>1, <2>2, <2>3 DEF KeyInv
<1>5. CASE KeyZero
  <2>1. TopicRanges' /\ LastPower' = LastPower /\ VelSettles' = VelSettles
        /\ BaseStopped' = BaseStopped /\ enabled' = enabled
    BY <1>5, NothingSent DEF KeyZero, baseVars
  <2>2. KeyRanges'
    BY <1>0, <1>5, StillCommand DEF KeyZero
  <2>3. PowerInv'
    BY <1>0, <1>5, <2>1 DEF KeyZero
  <2>4. QED
    BY <2>1, <2>2, <2>3 DEF KeyInv
<1>6. CASE KeyPublish
  <2>1. TopicRanges' /\ LastPower' = LastPower /\ VelSettles'
    BY <1>0, <1>6, VelocitySent DEF KeyPublish
  <2>2. BaseStopped' = BaseStopped /\ enabled' = enabled
    BY <1>6 DEF KeyPublish, BaseStopped, baseVars
  <2>3. KeyRanges'
    BY <1>0, <1>6 DEF KeyPublish
  <2>4. PowerInv'
    BY <1>0, <1>6, <2>1, <2>2 DEF KeyPublish
  <2>5. QED
    BY <2>1, <2>3, <2>4 DEF KeyInv
<1>7. CASE KeyPower
  <2> DEFINE on == key = "e"
  <2>1. /\ on \in BOOLEAN /\ powerStatus' = on /\ keyPc = "power" /\ keyPc' = "wait"
        /\ powerTopic' = IF powerStatus # on THEN Sent(powerTopic, on) ELSE powerTopic
        /\ UNCHANGED <<cmd, lastZeroVelSent, quitRequested, key, keyReg, exitPc, velTopic, baseVars>>
    BY <1>7 DEF KeyPower
  <2> HIDE DEF on
  <2>2. BaseStopped' = BaseStopped /\ enabled' = enabled
    BY <2>1 DEF BaseStopped, baseVars
  <2>3. /\ TopicRanges' /\ VelSettles' = VelSettles
        /\ LastPower' = IF powerStatus # on THEN on ELSE LastPower
    <3>1. CASE powerStatus # on
      BY <2>1, <3>1, PowerSent
    <3>2. CASE powerStatus = on
      BY <2>1, <3>2, NothingSent
    <3>3. QED
      BY <3>1, <3>2
  <2>4. KeyRanges'
    BY <1>0, <2>1
  <2>5. VelSettles
    BY <1>0, <2>1
  <2>6. PowerInv'
    BY <1>0, <2>1, <2>2, <2>3, <2>5
  <2>7. QED
    BY <2>3, <2>4, <2>6 DEF KeyInv
<1>8. CASE Exit
  <2>1. TopicRanges' /\ LastPower' = LastPower /\ VelSettles' = VelSettles
        /\ BaseStopped' = BaseStopped /\ enabled' = enabled
    BY <1>8, NothingSent DEF Exit, baseVars
  <2>2. KeyRanges'
    BY <1>0, <1>8, StillCommand DEF Exit
  <2>3. PowerInv'
    BY <1>0, <1>8, <2>1 DEF Exit
  <2>4. QED
    BY <2>1, <2>2, <2>3 DEF KeyInv
<1>9. CASE ExitPublish
  <2>1. TopicRanges' /\ LastPower' = LastPower /\ (cmd = Still => VelSettles')
    BY <1>0, <1>9, VelocitySent DEF ExitPublish
  <2>2. BaseStopped' = BaseStopped /\ enabled' = enabled
    BY <1>9 DEF ExitPublish, BaseStopped, baseVars
  <2>3. KeyRanges'
    BY <1>0, <1>9 DEF ExitPublish
  <2>4. PowerInv'
    BY <1>0, <1>9, <2>1, <2>2 DEF ExitPublish
  <2>5. QED
    BY <2>1, <2>3, <2>4 DEF KeyInv
<1>10. CASE ExitTest
  <2>1. BaseStopped' = BaseStopped /\ enabled' = enabled /\ LastPower = powerStatus
    BY <1>0, <1>10 DEF ExitTest, BaseStopped, baseVars
  <2>2. TopicRanges' /\ VelSettles' = VelSettles /\ LastPower' = FALSE
    <3>1. CASE powerStatus
      BY <1>10, <3>1, PowerSent DEF ExitTest
    <3>2. CASE ~powerStatus
      <4>1. powerStatus = FALSE
        BY <1>0, <3>2
      <4>2. UNCHANGED <<velTopic, powerTopic, baseVars>>
        BY <1>10, <3>2 DEF ExitTest
      <4>3. QED
        BY <2>1, <4>1, <4>2, NothingSent
    <3>3. QED
      BY <3>1, <3>2
  <2>3. KeyRanges'
    BY <1>0, <1>10 DEF ExitTest
  <2>4. PowerInv'
    BY <1>0, <1>10, <2>1, <2>2 DEF ExitTest
  <2>5. QED
    BY <2>2, <2>3, <2>4 DEF KeyInv
<1>11. CASE ExitOff \/ ExitQuit \/ ExitJoin
  <2>1. TopicRanges' /\ LastPower' = LastPower /\ VelSettles' = VelSettles
        /\ BaseStopped' = BaseStopped /\ enabled' = enabled
    BY <1>11, NothingSent DEF ExitOff, ExitQuit, ExitJoin, baseVars
  <2>2. KeyRanges'
    BY <1>0, <1>11 DEF ExitOff, ExitQuit, ExitJoin
  <2>3. PowerInv'
    BY <1>0, <1>11, <2>1 DEF ExitOff, ExitQuit, ExitJoin
  <2>4. QED
    BY <2>1, <2>2, <2>3 DEF KeyInv
<1>12. CASE TakeVelocity
  <2>1. TopicRanges' /\ LastPower' = LastPower /\ (VelSettles => VelSettles')
        /\ (~enabled' => BaseStopped')
    BY <1>12, VelocityTaken
  <2>2. KeyRanges'
    BY <1>0, <1>12 DEF TakeVelocity
  <2>3. PowerInv'
    BY <1>0, <1>12, <2>1 DEF TakeVelocity
  <2>4. QED
    BY <2>1, <2>2, <2>3 DEF KeyInv
<1>13. CASE TakePower
  <2>1. TopicRanges' /\ LastPower' = LastPower /\ (VelSettles => VelSettles')
        /\ (~enabled' => BaseStopped')
    BY <1>13, PowerTaken
  <2>2. KeyRanges'
    BY <1>0, <1>13 DEF TakePower
  <2>3. PowerInv'
    BY <1>0, <1>13, <2>1 DEF TakePower
  <2>4. QED
    BY <2>1, <2>2, <2>3 DEF KeyInv
<1>14. QED
  BY <1>1, <1>2, <1>3, <1>4, <1>5, <1>6, <1>7, <1>8, <1>9, <1>10, <1>11, <1>12, <1>13
     DEF KeyNext, KeyboardStep, ExitStep

\* A part that is not the one that runs stays as it was.
LEMMA OnePart ==
  ASSUME [NodesNext]_nodesVars
  PROVE  /\ KeyNext \/ UNCHANGED keyVars
         /\ CloudNext \/ UNCHANGED cloudVars
         /\ PowerNext \/ UNCHANGED powerVars
         /\ SafetyNext \/ UNCHANGED safetyVars
         /\ WalkerNext \/ UNCHANGED walkerVars
         /\ part' = part
BY DEF NodesNext, Others, nodesVars

LEMMA KeyNodesStep == KeyInv /\ [NodesNext]_nodesVars => KeyInv'
<1> SUFFICES ASSUME KeyInv, [NodesNext]_nodesVars
             PROVE  KeyInv'
  OBVIOUS
<1>1. CASE UNCHANGED keyVars
  <2>1. UNCHANGED <<velTopic, powerTopic, baseVars>>
    BY <1>1 DEF keyVars
  <2>2. TopicRanges' /\ LastPower' = LastPower /\ VelSettles' = VelSettles
        /\ BaseStopped' = BaseStopped /\ enabled' = enabled
    BY <2>1, NothingSent DEF baseVars
  <2>3. KeyRanges'
    BY <1>1 DEF KeyInv, KeyRanges, keyVars
  <2>4. PowerInv'
    BY <1>1, <2>2 DEF KeyInv, PowerInv, keyVars
  <2>5. QED
    BY <2>2, <2>3, <2>4 DEF KeyInv
<1>2. QED
  BY <1>1, KeyStep, OnePart

\* A keyboard node that is gone leaves the base at rest, and until it goes its
\* belief of the motors' power is the base's when no message is on its way.
THEOREM KeyboardLeavesAtRest == NodesSpec => []KeyboardStops
<1>1. NodesInit => KeyInv
  BY KeyStart DEF NodesInit
<1>2. KeyInv => KeyboardStops
  <2> SUFFICES ASSUME KeyInv
               PROVE  KeyboardStops
    OBVIOUS
  <2>1. powerTopic = <<>> => LastPower = enabled
    BY DEF LastPower
  <2>2. velTopic = <<>> => VelSettles = BaseStopped
    BY DEF VelSettles
  <2>3. PowerAgrees
    BY <2>1 DEF KeyInv, PowerInv, PowerAgrees
  <2>4. ExitStops
    BY <2>1, <2>2 DEF KeyInv, PowerInv, ExitStops
  <2>5. QED
    BY <2>3, <2>4 DEF KeyboardStops
<1>3. QED
  BY <1>1, <1>2, KeyNodesStep, PTL DEF NodesSpec


----------------------------------------------------------------------------
(* The types of the parts that are left, the cloud and the plug. *)

LEMMA SafetyTypeStep == SafetyTypeOK /\ [NodesNext]_nodesVars => SafetyTypeOK'
<1> SUFFICES ASSUME SafetyTypeOK, [NodesNext]_nodesVars
             PROVE  SafetyTypeOK'
  OBVIOUS
<1>1. CASE UNCHANGED safetyVars
  BY <1>1 DEF SafetyTypeOK, safetyVars
<1>2. CASE SafetySpin
  <2>1. Escape(flags) # "nothing" => Escape(flags) \in Escapes
    BY DEF Escape, Escapes
  <2>2. msg' \in Escapes
    BY <1>2, <2>1 DEF SafetySpin, SafetyTypeOK
  <2>3. said' \in Escapes \cup {"nothing"}
    BY <1>2, <2>1 DEF SafetySpin, SafetyTypeOK
  <2>4. age' \in 0 .. Extend
    BY <1>2 DEF SafetySpin, SafetyTypeOK
  <2>5. QED
    BY <2>2, <2>3, <2>4 DEF SafetyTypeOK
<1>3. ASSUME NEW t \in Topics, SafetyEvent(t)
      PROVE  SafetyTypeOK'
  <2>1. age' \in {0, age} /\ UNCHANGED <<msg, said>>
    BY <1>3 DEF SafetyEvent
  <2>2. QED
    BY <2>1 DEF SafetyTypeOK
<1>4. SafetyNext => UNCHANGED safetyVars \/ SafetySpin \/ \E t \in Topics : SafetyEvent(t)
  BY DEF SafetyNext, SafetyReset
<1>5. QED
  BY <1>1, <1>2, <1>3, <1>4, OnePart

LEMMA WalkerTypeStep == WalkerTypeOK /\ [NodesNext]_nodesVars => WalkerTypeOK'
<1> SUFFICES ASSUME WalkerTypeOK, [NodesNext]_nodesVars
             PROVE  WalkerTypeOK'
  OBVIOUS
<1>0. /\ changeDirection \in BOOLEAN /\ stop \in BOOLEAN /\ turning \in BOOLEAN
      /\ turnLeft \in 0 .. TurnMax /\ ledOn \subseteq Topics
      /\ walk \in {"nothing", "zero", "turn", "forward"} /\ TurnMax \in Nat
  BY DEF WalkerTypeOK
<1>1. CASE UNCHANGED walkerVars
  BY <1>1 DEF WalkerTypeOK, walkerVars
<1>2. CASE WalkerIdle
  <2>1. walk' \in {"nothing", "zero"} /\ UNCHANGED <<changeDirection, stop, turning, ledOn>>
    BY <1>2 DEF WalkerIdle
  <2>2. turnLeft' \in 0 .. TurnMax
    BY <1>0, <1>2 DEF WalkerIdle
  <2>3. QED
    BY <1>0, <2>1, <2>2 DEF WalkerTypeOK
<1>3. CASE WalkerForward
  BY <1>0, <1>3 DEF WalkerForward, WalkerTypeOK
<1>4. ASSUME NEW d \in 0 .. TurnMax, WalkerTurn(d)
      PROVE  WalkerTypeOK'
  <2> DEFINE left == IF changeDirection THEN d ELSE turnLeft
  <2>1. left \in 0 .. TurnMax
    BY <1>0
  <2>2. /\ changeDirection' = FALSE /\ UNCHANGED <<stop, ledOn>>
        /\ turning' = (left > 0)
        /\ turnLeft' = IF left > 0 THEN left - 1 ELSE 0
        /\ walk' = IF left > 0 THEN "turn" ELSE "nothing"
    BY <1>4 DEF WalkerTurn
  <2> HIDE DEF left
  <2>3. turnLeft' \in 0 .. TurnMax /\ walk' \in {"turn", "nothing"}
    BY <1>0, <2>1, <2>2
  <2>4. turning' \in BOOLEAN
    BY <2>2
  <2>5. QED
    BY <1>0, <2>2, <2>3, <2>4 DEF WalkerTypeOK
<1>5. ASSUME NEW t \in Topics, BumpEvent(t)
      PROVE  WalkerTypeOK'
  <2>1. UNCHANGED <<stop, turning, turnLeft, walk>> /\ ledOn' \subseteq Topics
    BY <1>0, <1>5 DEF BumpEvent, Lights
  <2>2. changeDirection' \in BOOLEAN
    BY <1>0, <1>5 DEF BumpEvent
  <2>3. QED
    BY <1>0, <2>1, <2>2 DEF WalkerTypeOK
<1>6. CASE WheelEvent
  <2>1. UNCHANGED <<changeDirection, turning, turnLeft, walk>> /\ ledOn' \subseteq Topics
    BY <1>0, <1>6 DEF WheelEvent, Lights, Topics
  <2>2. stop' = IF ledOn' = ledOn THEN stop ELSE "wheel" \in ledOn'
    BY <1>6 DEF WheelEvent
  <2>3. stop' \in BOOLEAN
    <3>1. CASE ledOn' = ledOn
      <4>1. stop' = stop
        BY <2>2, <3>1, Zenon
      <4>2. QED
        BY <1>0, <4>1
    <3>2. CASE ledOn' # ledOn
      <4>1. stop' = ("wheel" \in ledOn')
        BY <2>2, <3>2, Zenon
      <4>2. CASE "wheel" \in ledOn'
        <5>1. ("wheel" \in ledOn') = TRUE
          BY <4>2
        <5>2. QED
          BY <4>1, <5>1
      <4>3. CASE "wheel" \notin ledOn'
        <5>1. ("wheel" \in ledOn') = FALSE
          BY <4>3
        <5>2. QED
          BY <4>1, <5>1
      <4>4. QED
        BY <4>2, <4>3
    <3>3. QED
      BY <3>1, <3>2
  <2>4. QED
    BY <1>0, <2>1, <2>3 DEF WalkerTypeOK
<1>7. WalkerNext => \/ UNCHANGED walkerVars \/ WalkerIdle \/ WalkerForward \/ WheelEvent
                    \/ \E d \in 0 .. TurnMax : WalkerTurn(d)
                    \/ \E t \in Topics : BumpEvent(t)
  BY DEF WalkerNext, WalkerSpin, Topics
<1>8. QED
  BY <1>1, <1>2, <1>3, <1>4, <1>5, <1>6, <1>7, OnePart

\* A node that has shown everything far has nothing else to show.
CloudInv ==
  /\ CloudTypeOK /\ CloudCurrent
  /\ heard \subseteq CloudSides /\ (~prev => heard = {})

LEMMA CloudStart == CloudInit => CloudInv
BY DEF CloudInit, CloudInv, CloudTypeOK, CloudCurrent, Far

LEMMA CloudStep == CloudInv /\ [NodesNext]_nodesVars => CloudInv'
<1> SUFFICES ASSUME CloudInv, [NodesNext]_nodesVars
             PROVE  CloudInv'
  OBVIOUS
<1>0. CloudTypeOK /\ CloudCurrent
  BY DEF CloudInv
<1>1. CASE UNCHANGED cloudVars
  BY <1>1 DEF CloudInv, CloudTypeOK, CloudCurrent, cloudVars
<1>2. CASE ListenersChange \/ SetRadius \/ Reconfigure
  <2>1. UNCHANGED <<cloud, heard, prev>>
    BY <1>2 DEF ListenersChange, SetRadius, Reconfigure
  <2>2. CloudTypeOK'
    BY <1>0, <1>2 DEF ListenersChange, SetRadius, Reconfigure, CloudTypeOK
  <2>3. QED
    BY <2>1, <2>2 DEF CloudInv, CloudCurrent
<1>3. ASSUME NEW sensors \in CloudWorlds, CoreSensors(sensors)
      PROVE  CloudInv'
  <2> DEFINE near == SidesOf(sensors)
  <2>1. near \subseteq CloudSides
    <3>1. sensors \subseteq Sensors
      OBVIOUS
    <3>2. \A x \in Sensors : x[2] \in CloudSides
      BY DEF Sensors, CloudSides
    <3>3. QED
      BY <3>1, <3>2 DEF SidesOf
  <2>2. /\ heard' = IF listeners THEN near ELSE heard
        /\ UNCHANGED <<listeners, radius, sideRadius>>
        /\ IF listeners /\ (near # {} \/ prev)
           THEN /\ prev' = (near # {})
                /\ cloud' = [s \in CloudSides |->
                              IF s \notin near THEN Far
                              ELSE IF s = "center" THEN radius ELSE sideRadius]
           ELSE UNCHANGED <<prev, cloud>>
    BY <1>3 DEF CoreSensors
  <2> HIDE DEF near
  <2>3. radius \in Radii /\ sideRadius \in Radii /\ Radii \subseteq Nat \ {Far}
    BY <1>0 DEF CloudTypeOK
  <2>4. CASE listeners /\ (near # {} \/ prev)
    <3>1. \A s \in CloudSides : cloud'[s] = IF s \notin near THEN Far
                              ELSE IF s = "center" THEN radius ELSE sideRadius
      BY <2>2, <2>4
    <3>2. {s \in CloudSides : cloud'[s] # Far} = near
      BY <2>1, <2>3, <3>1
    <3>3. heard' = near /\ prev' = (near # {})
      BY <2>2, <2>4
    <3>4. cloud' \in [CloudSides -> Radii \cup {Far}]
      BY <2>2, <2>3, <2>4
    <3>5. prev' \in BOOLEAN /\ (~prev' => near = {})
      BY <3>3
    <3>6. CloudTypeOK'
      BY <1>0, <2>2, <3>4, <3>5 DEF CloudTypeOK
    <3>7. QED
      BY <2>1, <3>2, <3>3, <3>5, <3>6 DEF CloudInv, CloudCurrent
  <2>5. CASE ~(listeners /\ (near # {} \/ prev))
    <3>1. UNCHANGED <<prev, cloud, listeners, radius, sideRadius>>
      BY <2>2, <2>5
    <3>2. heard' = heard
      <4>1. CASE listeners
        BY <2>2, <2>5, <4>1 DEF CloudInv
      <4>2. CASE ~listeners
        BY <2>2, <4>2
      <4>3. QED
        BY <4>1, <4>2
    <3>3. QED
      BY <3>1, <3>2 DEF CloudInv, CloudTypeOK, CloudCurrent
  <2>6. QED
    BY <2>4, <2>5
<1>4. QED
  BY <1>1, <1>2, <1>3, OnePart DEF CloudNext

LEMMA LevelOf ==
  ASSUME NEW c, NEW v \in Nat
  PROVE  Level(c, v) \in {"maximum", "healthy", "low", "dangerous"}
<1>1. LowVolts \in Nat /\ DeadVolts \in Nat
  BY PowerAssumption
<1>2. CASE c = "charged"
  BY <1>2 DEF Level
<1>3. CASE c # "charged" /\ v > LowVolts
  BY <1>3 DEF Level
<1>4. CASE c # "charged" /\ v \in DeadVolts + 1 .. LowVolts
  <2>1. ~(v > LowVolts)
    BY <1>1, <1>4
  <2>2. QED
    BY <1>4, <2>1 DEF Level
<1>5. CASE c # "charged" /\ v <= DeadVolts
  <2>1. ~(v > LowVolts) /\ v \notin DeadVolts + 1 .. LowVolts
    BY <1>1, <1>5, PowerAssumption
  <2>2. QED
    BY <1>5, <2>1 DEF Level
<1>6. c = "charged" \/ v > LowVolts \/ v \in DeadVolts + 1 .. LowVolts \/ v <= DeadVolts
  BY <1>1
<1>7. QED
  BY <1>2, <1>3, <1>4, <1>5, <1>6

\* An event of the level has the kind of a plug event only if its kind is unset.
LEMMA LevelKinds ==
  ASSUME NEW c, NEW v \in Nat, NEW level \in LevelEvents(c, v)
  PROVE  \/ level = <<>>
         \/ \E k \in Kinds : level = <<k>> /\ (k \in PlugKinds => UnsetKind(c, v))
<1>1. CASE ~LevelChanged(c, v)
  BY <1>1 DEF LevelEvents
<1>2. CASE LevelChanged(c, v)
  <2>1. Level(c, v) \in {"maximum", "healthy", "low", "dangerous"}
    BY LevelOf
  <2>2. CASE Level(c, v) = "low"
    <3>1. ~UnsetKind(c, v)
      BY <2>2 DEF UnsetKind
    <3>2. level = <<"batteryLow">>
      BY <1>2, <2>2, <3>1 DEF LevelEvents
    <3>3. QED
      BY <3>2 DEF Kinds, PlugKinds
  <2>3. CASE Level(c, v) = "dangerous"
    <3>1. ~UnsetKind(c, v)
      BY <2>3 DEF UnsetKind
    <3>2. level = <<"batteryCritical">>
      BY <1>2, <2>3, <3>1 DEF LevelEvents
    <3>3. QED
      BY <3>2 DEF Kinds, PlugKinds
  <2>4. CASE Level(c, v) \in {"healthy", "maximum"}
    <3>1. UnsetKind(c, v)
      BY <1>2, <2>4 DEF UnsetKind
    <3>2. \E k \in Kinds : level = <<k>>
      BY <1>2, <2>4, <3>1 DEF LevelEvents
    <3>3. QED
      BY <3>1, <3>2
  <2>5. QED
    BY <2>1, <2>2, <2>3, <2>4
<1>3. QED
  BY <1>1, <1>2

\* What a plug event may say of a charger.
Says(kind, c) ==
  CASE c = "discharging" -> kind = "unplugged"
    [] c = "charged"     -> kind = "chargeCompleted"
    [] OTHER -> kind \in {"pluggedToAdapter", "pluggedToDockbase"}

LEMMA PlugKindOf ==
  ASSUME NEW c \in Chargers
  PROVE  \/ PlugEvent(c) = <<>> /\ ChargingState(c) = ChargingState(charger)
         \/ \E k \in PlugKinds : PlugEvent(c) = <<k>> /\ Says(k, c)
<1>1. CASE ChargingState(c) = ChargingState(charger)
  BY <1>1 DEF PlugEvent
<1>2. CASE ChargingState(c) # ChargingState(charger)
  <2>1. CASE c = "discharging"
    BY <1>2, <2>1 DEF PlugEvent, Says, PlugKinds
  <2>2. CASE c = "charged"
    BY <1>2, <2>2 DEF PlugEvent, Says, PlugKinds
  <2>3. CASE c = "adapter"
    BY <1>2, <2>3 DEF PlugEvent, Says, PlugKinds
  <2>4. CASE c = "dock"
    BY <1>2, <2>4 DEF PlugEvent, Says, PlugKinds
  <2>5. QED
    BY <2>1, <2>2, <2>3, <2>4 DEF Chargers
<1>3. QED
  BY <1>1, <1>2

PowerKept == PowerTypeOK /\ PlugTold

LEMMA PlugStart == PowerInit => PowerKept
<1> SUFFICES ASSUME PowerInit
             PROVE  PowerKept
  OBVIOUS
<1>1. emitted \in Seq(Kinds)
  BY DEF PowerInit
<1>2. PowerTypeOK
  BY <1>1 DEF PowerInit, PowerTypeOK, Chargers, PlugKinds
<1>3. PlugTold
  BY DEF PowerInit, PlugTold
<1>4. QED
  BY <1>2, <1>3 DEF PowerKept

LEMMA PlugStep == PowerKept /\ [NodesNext]_nodesVars => PowerKept'
<1> SUFFICES ASSUME PowerKept, [NodesNext]_nodesVars
             PROVE  PowerKept'
  OBVIOUS
<1>1. CASE UNCHANGED powerVars
  BY <1>1 DEF PowerKept, PowerTypeOK, PlugTold, powerVars
<1>2. ASSUME NEW c \in Chargers, NEW v \in Volts, PowerPacket(c, v)
      PROVE  PowerKept'
  <2>1. PICK level \in LevelEvents(c, v) :
          /\ emitted' = PlugEvent(c) \o level
          /\ told' = IF level # <<>> /\ level[1] \in PlugKinds THEN level[1]
                     ELSE IF PlugEvent(c) # <<>> THEN PlugEvent(c)[1] ELSE told
    BY <1>2 DEF PowerPacket
  <2>2. /\ garbled' = (UnsetKind(c, v) \/ (garbled /\ PlugEvent(c) = <<>>))
        /\ charger' = c /\ battery' = v
    BY <1>2 DEF PowerPacket
  <2>3. v \in Nat
    BY PowerAssumption
  <2>4. \/ level = <<>>
        \/ \E k \in Kinds : level = <<k>> /\ (k \in PlugKinds => UnsetKind(c, v))
    BY <2>3, LevelKinds
  <2>5. \/ PlugEvent(c) = <<>> /\ ChargingState(c) = ChargingState(charger)
        \/ \E k \in PlugKinds : PlugEvent(c) = <<k>> /\ Says(k, c)
    BY PlugKindOf
  <2>6. emitted' \in Seq(Kinds)
    <3>0. \A k \in Kinds : <<k>> \in Seq(Kinds)
      OBVIOUS
    <3>1. level \in Seq(Kinds)
      <4>1. CASE level = <<>>
        BY <4>1
      <4>2. CASE \E k \in Kinds : level = <<k>>
        BY <3>0, <4>2
      <4>3. QED
        BY <2>4, <4>1, <4>2
    <3>2. PlugEvent(c) \in Seq(Kinds)
      <4>1. CASE PlugEvent(c) = <<>>
        BY <4>1
      <4>2. CASE \E k \in PlugKinds : PlugEvent(c) = <<k>>
        <5>1. PlugKinds \subseteq Kinds
          BY DEF Kinds
        <5>2. QED
          BY <3>0, <4>2, <5>1
      <4>3. QED
        BY <2>5, <4>1, <4>2
    <3>3. QED
      BY <2>1, <3>1, <3>2
  <2>7. told' \in PlugKinds
    BY <2>1, <2>5 DEF PowerKept, PowerTypeOK
  <2>8. garbled' \in BOOLEAN
    <3>1. garbled' <=> UnsetKind(c, v) \/ (garbled /\ PlugEvent(c) = <<>>)
      BY <2>2
    <3>2. QED
      BY <2>2
  <2>9. PowerTypeOK'
    BY <2>2, <2>6, <2>7, <2>8 DEF PowerTypeOK
  <2>10. ASSUME ~garbled'
         PROVE  Says(told', c)
    <3>1. ~UnsetKind(c, v) /\ (~garbled \/ PlugEvent(c) # <<>>)
      BY <2>2, <2>10
    <3>2. ~(level # <<>> /\ level[1] \in PlugKinds)
      BY <2>4, <3>1
    <3>3. told' = IF PlugEvent(c) # <<>> THEN PlugEvent(c)[1] ELSE told
      BY <2>1, <3>2
    <3>4. CASE PlugEvent(c) = <<>>
      <4>1. told' = told /\ ~garbled /\ ChargingState(c) = ChargingState(charger)
        BY <2>5, <3>1, <3>3, <3>4
      <4>2. Says(told, charger) /\ charger \in Chargers
        BY <4>1 DEF PowerKept, PlugTold, Says, PowerTypeOK
      <4>3. QED
        BY <4>1, <4>2 DEF Says, ChargingState, Chargers
    <3>5. CASE PlugEvent(c) # <<>>
      BY <2>5, <3>3, <3>5
    <3>6. QED
      BY <3>4, <3>5
  <2>11. PlugTold'
    BY <2>2, <2>10 DEF PlugTold, Says
  <2>12. QED
    BY <2>9, <2>11 DEF PowerKept
<1>3. QED
  BY <1>1, <1>2, OnePart DEF PowerNext

\* The types of all parts; listeners of the cloud hold the current one, and
\* the plug is told as it is.
THEOREM NodesTellSensors == NodesSpec => []SensorsTold
<1> DEFINE Inv == /\ FollowInv /\ KeyInv /\ CloudInv /\ PowerKept
                  /\ SafetyTypeOK /\ WalkerTypeOK /\ part \in Parts
<1>1. NodesInit => Inv
  <2> SUFFICES ASSUME NodesInit
               PROVE  Inv
    OBVIOUS
  <2>1. SafetyTypeOK
    BY DEF NodesInit, SafetyInit, SafetyTypeOK, Escapes
  <2>2. WalkerTypeOK
    <3>1. 0 \in 0 .. TurnMax
      OBVIOUS
    <3>2. QED
      BY <3>1 DEF NodesInit, WalkerInit, WalkerTypeOK
  <2>3. QED
    BY <2>1, <2>2, FollowInit, KeyStart, CloudStart, PlugStart DEF NodesInit
<1>2. Inv /\ [NodesNext]_nodesVars => Inv'
  <2> SUFFICES ASSUME Inv, [NodesNext]_nodesVars
               PROVE  Inv'
    OBVIOUS
  <2>1. part' \in Parts
    BY OnePart
  <2>2. QED
    BY <2>1, FollowNext, KeyNodesStep, CloudStep, PlugStep, SafetyTypeStep, WalkerTypeStep
<1>3. Inv => SensorsTold
  <2> SUFFICES ASSUME Inv
               PROVE  SensorsTold
    OBVIOUS
  <2>1. EventsTypeOK
    BY DEF FollowInv, EventsTypeOK
  <2>2. KeyTypeOK
    BY DEF KeyInv, KeyRanges, TopicRanges, KeyTypeOK, Commands
  <2>3. QED
    BY <2>1, <2>2 DEF NodesTypeOK, SensorsTold, CloudInv, PowerKept
<1>4. QED
  BY <1>1, <1>2, <1>3, PTL DEF NodesSpec

==============================================================================
