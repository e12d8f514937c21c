------------------------------ MODULE V2VBridge ------------------------------
(***************************************************************************)
(* One channel of the UDP telemetry bridge between the leader and the      *)
(* follower: the sender's throttled subscription callback                  *)
(* (v2v_sender.py), the fragment format and the Reassembler                *)
(* (udp_common.py) and the receiver's drain loop (v2v_receiver.py).        *)
(*                                                                         *)
(* A datagram carries one chunk of a message; the chunk is modelled by the *)
(* message it was cut from and its index.  The network is a set: a         *)
(* datagram in it may be fed in any order, more than once, or never.       *)
(***************************************************************************)
EXTENDS Naturals, FiniteSets

CONSTANTS
  Messages,       \* the ROS messages that can be published on the channel
  FragCount,      \* [Messages -> fragments that pack_fragments cuts it into]
  SeqMod,         \* sequence numbers are taken modulo this (2^16 in the code)
  MinDt,          \* throttle period of the channel in ticks, 0 = none
  MaxSends,       \* bound: messages sent in one behaviour
  NetCap,         \* bound: datagrams in flight
  None            \* Python's None

ASSUME BridgeAssumption ==
  /\ FragCount \in [Messages -> 1..255]
  /\ SeqMod \in Nat \ {0}
  /\ MinDt \in Nat
  /\ MaxSends \in Nat
  /\ NetCap \in Nat
  /\ None \notin Nat

VARIABLES
  txSeq,      \* V2VSender._seq[cid]
  txAge,      \* ticks since state['t'], saturated at MinDt; None before a send
  net,        \* datagrams in flight
  rxSeq,      \* Reassembler._seq
  rxFrags,    \* Reassembler._frags, a function from indexes to chunks
  rxUp,       \* has no exception left _drain?
  sends,      \* messages sent so far
  history,    \* history[n]: the message sent n-th, counted from 0
  delivered,  \* contents of the messages handed to deserialize_message
  recounted,  \* history: a new sender counts from 0 after one that had sent
  fed         \* history: the fragments fed since one of another number was

txVars == <<txSeq, txAge, sends, history, recounted>>
rxVars == <<rxSeq, rxFrags, rxUp, delivered, fed>>
vars == <<txVars, net, rxVars>>

Indexes(m) == 0..(FragCount[m] - 1)

\* A message as the receiver sees it: the chunks joined in index order.
Content(m) == [i \in Indexes(m) |-> <<m, i>>]

Chunk == Messages \X (0..254)

Datagram == [seq : 0..(SeqMod - 1), cnt : 1..255, idx : 0..254, msg : Messages]

TypeOK ==
  /\ txSeq \in 0..(SeqMod - 1)
  /\ txAge \in (0..MinDt) \cup {None}
  /\ net \subseteq Datagram
  /\ rxSeq \in (0..(SeqMod - 1)) \cup {None}
  /\ DOMAIN rxFrags \subseteq 0..254
  /\ rxFrags \in [DOMAIN rxFrags -> Chunk]
  /\ rxUp \in BOOLEAN
  /\ sends \in 0..MaxSends
  /\ history \in [0..(sends - 1) -> Messages]
  /\ recounted \in BOOLEAN
  /\ fed \subseteq Datagram

\* Mutant: the first fragment is skipped and the last index is one too high.
PackFromOne(seq, m) ==
  {[seq |-> seq, cnt |-> FragCount[m], idx |-> i + 1, msg |-> m] : i \in Indexes(m)}

pack_fragments(seq, m) ==
  {[seq |-> seq, cnt |-> FragCount[m], idx |-> i, msg |-> m] : i \in Indexes(m)}

NoFrags == [i \in {} |-> None]

\* Mutant: the number is not masked to 16 bits.
UnmaskedSeq(seq) == seq + 1

NextSeq(seq) == (seq + 1) % SeqMod

-----------------------------------------------------------------------------
Init ==
  /\ txSeq = 0
  /\ txAge = None
  /\ net = {}
  /\ rxSeq = None
  /\ rxFrags = NoFrags
  /\ rxUp = TRUE
  /\ sends = 0
  /\ history = [n \in {} |-> None]
  /\ delivered = {}
  /\ recounted = FALSE
  /\ fed = {}

\* cb of V2VSender: throttle, take a sequence number, send every fragment.
\* A sendto that fails is a datagram that Lose drops.
Send(m) ==
  /\ sends < MaxSends
  /\ Cardinality(net) + FragCount[m] <= NetCap
  /\ txAge \in {None, MinDt}
  /\ txAge' = 0
  /\ txSeq' = NextSeq(txSeq)
  /\ net' = net \cup pack_fragments(txSeq, m)
  /\ sends' = sends + 1
  /\ history' = [n \in 0..sends |-> IF n = sends THEN m ELSE history[n]]
  /\ UNCHANGED <<rxVars, recounted>>

\* The throttle of cb drops a message that comes before MinDt has elapsed
\* and changes nothing; time passes between callbacks.
Tick ==
  /\ txAge \in Nat
  /\ txAge < MinDt
  /\ txAge' = txAge + 1
  /\ UNCHANGED <<txSeq, net, rxVars, sends, history, recounted>>

Lose(d) ==
  /\ net' = net \ {d}
  /\ UNCHANGED <<txVars, rxVars>>

ChunkOf(d) == <<d.msg, d.idx>>

\* Mutant: a new sequence number does not reset the fragments kept.
FragsNeverReset(d) ==
  [i \in DOMAIN rxFrags \cup {d.idx} |-> IF i = d.idx THEN ChunkOf(d) ELSE rxFrags[i]]

\* Reassembler.feed: a sequence number other than the last one drops the
\* fragments kept; the chunk of datagram d is stored beside what is left.
Kept(d) == IF rxSeq = d.seq THEN rxFrags ELSE NoFrags

\* Mutant: chunks are appended in the order of their arrival.
FragsAppended(d) ==
  LET n == Cardinality(DOMAIN Kept(d)) IN
  [i \in DOMAIN Kept(d) \cup {n} |-> IF i = n THEN ChunkOf(d) ELSE Kept(d)[i]]

FragsWith(d) ==
  [i \in DOMAIN Kept(d) \cup {d.idx} |-> IF i = d.idx THEN ChunkOf(d) ELSE Kept(d)[i]]

Complete(d) == Cardinality(DOMAIN FragsWith(d)) = d.cnt

\* b''.join(self._frags[i] for i in range(cnt)) finds every key.
Joinable(d) == 0..(d.cnt - 1) \subseteq DOMAIN FragsWith(d)

\* Mutant: a message of one fragment drops the fragments kept for another.
FeedSingleAlone(d) ==
  /\ d.cnt = 1
  /\ delivered' = delivered \cup {[i \in {0} |-> <<d.msg, 0>>]}
  /\ rxFrags' = NoFrags
  /\ UNCHANGED <<rxSeq, rxUp>>

\* A message of one fragment is returned at once; the fragments kept for
\* another message stay.
FeedSingle(d) ==
  /\ d.cnt = 1
  /\ delivered' = delivered \cup {[i \in {0} |-> <<d.msg, 0>>]}
  /\ UNCHANGED <<rxSeq, rxFrags, rxUp>>

FeedPart(d) ==
  /\ d.cnt > 1
  /\ ~Complete(d)
  /\ rxSeq' = d.seq
  /\ rxFrags' = FragsWith(d)
  /\ UNCHANGED <<rxUp, delivered>>

FeedLast(d) ==
  /\ d.cnt > 1
  /\ Complete(d)
  /\ Joinable(d)
  /\ rxSeq' = d.seq
  /\ rxFrags' = NoFrags
  /\ delivered' = delivered \cup {[i \in 0..(d.cnt - 1) |-> FragsWith(d)[i]]}
  /\ UNCHANGED rxUp

\* The join raises KeyError; feed is called outside the try block of _drain,
\* so the exception leaves the timer callback and ends rclpy.spin.
FeedKeyError(d) ==
  /\ d.cnt > 1
  /\ Complete(d)
  /\ ~Joinable(d)
  /\ rxSeq' = d.seq
  /\ rxFrags' = FragsWith(d)
  /\ rxUp' = FALSE
  /\ UNCHANGED delivered

\* One turn of the loop of V2VReceiver._drain; the network may have kept a
\* second copy of the datagram.
Feed(d) ==
  /\ rxUp
  /\ net' \in {net, net \ {d}}
  /\ FeedSingle(d) \/ FeedPart(d) \/ FeedLast(d) \/ FeedKeyError(d)
  /\ fed' = IF d.cnt = 1 THEN fed ELSE {e \in fed : e.seq = d.seq} \cup {d}
  /\ UNCHANGED txVars

\* A new sender process counts from 0 again and has no throttle stamp.
SenderRestart ==
  /\ txSeq' = 0
  /\ txAge' = None
  /\ recounted' = (recounted \/ sends > 0)
  /\ UNCHANGED <<net, rxVars, sends, history>>

ReceiverRestart ==
  /\ rxSeq' = None
  /\ rxFrags' = NoFrags
  /\ rxUp' = TRUE
  /\ fed' = {}
  /\ UNCHANGED <<txVars, net, delivered>>

Next ==
  \/ \E m \in Messages : Send(m)
  \/ Tick
  \/ \E d \in net : Lose(d) \/ Feed(d)
  \/ SenderRestart
  \/ ReceiverRestart

Spec == Init /\ [][Next]_vars

-----------------------------------------------------------------------------
Sent == {Content(history[n]) : n \in 0..(sends - 1)}

\* No sequence number was used twice: no sender started over, none came round.
Unrepeated == ~recounted /\ sends <= SeqMod

\* All messages so far were cut into the same number of fragments.
OneLength ==
  \A n, k \in 0..(sends - 1) : FragCount[history[n]] = FragCount[history[k]]

\* Whatever the network loses, repeats or reorders and however often the
\* receiver is restarted, what the Reassembler returns is one message of the
\* sender, whole and with no chunk of another, as long as no number repeats
\* (udp_common.py, feed).
Integrity == Unrepeated => delivered \subseteq Sent

\* Nothing that is complete is withheld: when all fragments of a message were
\* fed, in any order and any number of times, and no fragment of another long
\* message in between, the message was returned.  Messages of one fragment in
\* between do no harm (udp_common.py, feed).
Reassembled ==
  Unrepeated =>
    \A n \in 0..(sends - 1) :
      Indexes(history[n]) \subseteq {d.idx : d \in {e \in fed : e.seq = n}}
        => Content(history[n]) \in delivered

\* All that is left of Integrity when numbers repeat after a restart of the
\* sender: every chunk delivered was sent at that place, and the length is
\* that of a message one of whose chunks is there.
NoInvention ==
  \A content \in delivered :
    /\ \A i \in DOMAIN content :
         \E n \in 0..(sends - 1) : i \in Indexes(history[n]) /\ content[i] = <<history[n], i>>
    /\ \E i \in DOMAIN content : DOMAIN content = Indexes(content[i][1])

\* The receiver process survives every datagram of the sender: no exception
\* leaves _drain (v2v_receiver.py, the comment on its except clause).
ReceiverSurvives == rxUp

\* What is true of it: a number that repeats and messages of different lengths
\* must come together to end the receiver (udp_common.py:66).
SurvivesEither == Unrepeated \/ OneLength => rxUp

=============================================================================
