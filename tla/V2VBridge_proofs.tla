-------------------------- MODULE V2VBridge_proofs --------------------------
(***************************************************************************)
(* What the telemetry bridge guarantees for every number of messages,      *)
(* fragments and datagrams in flight.                                      *)
(***************************************************************************)
EXTENDS V2VBridge, FiniteSetTheorems, TLAPS

LEMMA IndexesFinite ==
  ASSUME NEW k \in Nat, NEW S \in SUBSET (0..(k - 1))
  PROVE  /\ IsFiniteSet(S)
         /\ Cardinality(S) = k => S = 0..(k - 1)
<1>1. IsFiniteSet(0..(k - 1)) /\ Cardinality(0..(k - 1)) = k
  BY FS_Interval
<1>2. QED
  BY <1>1, FS_Subset

LEMMA SequenceNumberRange ==
  ASSUME NEW n \in Nat
  PROVE  NextSeq(n) \in 0..(SeqMod - 1)
BY BridgeAssumption DEF NextSeq

LEMMA NoFragsType ==
  /\ DOMAIN NoFrags \subseteq 0..254
  /\ NoFrags \in [DOMAIN NoFrags -> Chunk]
BY DEF NoFrags

\* The fragments kept after datagram d are chunks of messages.
LEMMA FragsWithType ==
  ASSUME TypeOK, NEW d \in Datagram
  PROVE  /\ DOMAIN FragsWith(d) \subseteq 0..254
         /\ FragsWith(d) \in [DOMAIN FragsWith(d) -> Chunk]
<1>1. /\ DOMAIN Kept(d) \subseteq 0..254
      /\ Kept(d) \in [DOMAIN Kept(d) -> Chunk]
  BY NoFragsType DEF TypeOK, Kept
<1>2. d.idx \in 0..254 /\ ChunkOf(d) \in Chunk
  BY DEF Datagram, ChunkOf, Chunk
<1>3. \A i \in DOMAIN Kept(d) \cup {d.idx} :
        i # d.idx => Kept(d)[i] \in Chunk
  BY <1>1
<1>4. DOMAIN FragsWith(d) = DOMAIN Kept(d) \cup {d.idx}
  BY DEF FragsWith
<1>5. QED
  BY <1>1, <1>2, <1>3, <1>4 DEF FragsWith

LEMMA PackType ==
  ASSUME NEW m \in Messages, NEW s \in 0..(SeqMod - 1)
  PROVE  pack_fragments(s, m) \subseteq Datagram
<1>1. FragCount[m] \in 1..255
  BY BridgeAssumption
<1>2. \A i \in 0..(FragCount[m] - 1) : i \in 0..254
  BY <1>1
<1>3. QED
  BY <1>1, <1>2 DEF pack_fragments, Indexes, Datagram

LEMMA TypeStep == TypeOK /\ [Next]_vars => TypeOK'
<1> SUFFICES ASSUME TypeOK, [Next]_vars
             PROVE  TypeOK'
  OBVIOUS
<1> USE BridgeAssumption
<1>1. ASSUME NEW m \in Messages, Send(m)
      PROVE  TypeOK'
  <2>1. txSeq' \in 0..(SeqMod - 1)
    BY <1>1, SequenceNumberRange DEF Send, TypeOK
  <2>2. net' \subseteq Datagram
    BY <1>1, PackType DEF Send, TypeOK
  <2>3. sends' \in 0..MaxSends
    BY <1>1 DEF Send, TypeOK
  <2>4. history' \in [0..(sends' - 1) -> Messages]
    <3>1. sends \in Nat /\ sends' = sends + 1
      BY <1>1 DEF Send, TypeOK
    <3>2. 0..(sends' - 1) = 0..sends
      BY <3>1
    <3>3. \A n \in 0..sends : n # sends => n \in 0..(sends - 1)
      BY <3>1
    <3>4. QED
      BY <1>1, <3>2, <3>3 DEF Send, TypeOK
  <2>5. QED
    BY <1>1, <2>1, <2>2, <2>3, <2>4 DEF Send, TypeOK, rxVars
<1>2. CASE Tick
  BY <1>2 DEF Tick, TypeOK, rxVars
<1>3. ASSUME NEW d \in net, Lose(d)
      PROVE  TypeOK'
  BY <1>3 DEF Lose, TypeOK, txVars, rxVars
<1>4. ASSUME NEW d \in net, Feed(d)
      PROVE  TypeOK'
  <2>1. d \in Datagram /\ d.seq \in 0..(SeqMod - 1)
    BY DEF TypeOK, Datagram
  <2>2. net' \subseteq Datagram
    BY <1>4 DEF Feed, TypeOK
  <2>3. /\ rxSeq' \in (0..(SeqMod - 1)) \cup {None}
        /\ rxUp' \in BOOLEAN
    <3>1. rxSeq' \in {rxSeq, d.seq}
      BY <1>4 DEF Feed, FeedSingle, FeedPart, FeedLast, FeedKeyError
    <3>2. rxUp' = rxUp \/ rxUp' = FALSE
      BY <1>4, Zenon DEF Feed, FeedSingle, FeedPart, FeedLast, FeedKeyError
    <3>3. rxUp \in BOOLEAN
      BY DEF TypeOK
    <3>4. rxUp' \in BOOLEAN
      BY <3>2, <3>3, Zenon
    <3>5. QED
      BY <2>1, <3>1, <3>4 DEF TypeOK
  <2>4. /\ DOMAIN rxFrags' \subseteq 0..254
        /\ rxFrags' \in [DOMAIN rxFrags' -> Chunk]
    <3>1. rxFrags' \in {rxFrags, NoFrags, FragsWith(d)}
      BY <1>4 DEF Feed, FeedSingle, FeedPart, FeedLast, FeedKeyError
    <3>2. CASE rxFrags' = rxFrags
      BY <3>2, Zenon DEF TypeOK
    <3>3. CASE rxFrags' = NoFrags
      BY <3>3, NoFragsType, Zenon
    <3>4. CASE rxFrags' = FragsWith(d)
      BY <2>1, <3>4, FragsWithType, Zenon
    <3>5. QED
      BY <3>1, <3>2, <3>3, <3>4, Zenon
  <2>5. fed' \subseteq Datagram
    BY <1>4, <2>1 DEF Feed, TypeOK
  <2>6. QED
    BY <1>4, <2>2, <2>3, <2>4, <2>5 DEF Feed, TypeOK, txVars
<1>5. CASE SenderRestart
  <2>1. recounted' \in BOOLEAN
    BY <1>5, Zenon DEF SenderRestart
  <2>2. /\ txSeq' = 0 /\ txAge' = None
        /\ UNCHANGED <<net, rxVars, sends, history>>
    BY <1>5 DEF SenderRestart
  <2>3. QED
    BY <2>1, <2>2 DEF TypeOK, rxVars
<1>6. CASE ReceiverRestart
  BY <1>6, NoFragsType DEF ReceiverRestart, TypeOK, txVars
<1>7. CASE UNCHANGED vars
  BY <1>7 DEF vars, txVars, rxVars, TypeOK
<1>8. QED
  BY <1>1, <1>2, <1>3, <1>4, <1>5, <1>6, <1>7 DEF Next

LEMMA TypeInit == Init => TypeOK
<1> SUFFICES ASSUME Init
             PROVE  TypeOK
  OBVIOUS
<1>1. history \in [0..(sends - 1) -> Messages]
  <2>1. 0..(sends - 1) = {}
    BY DEF Init
  <2>2. QED
    BY <2>1 DEF Init
<1>2. txSeq \in 0..(SeqMod - 1) /\ sends \in 0..MaxSends
  BY BridgeAssumption DEF Init
<1>3. rxFrags = NoFrags
  BY DEF Init
<1>4. QED
  BY <1>1, <1>2, <1>3, NoFragsType DEF Init, TypeOK

\* Every variable of the bridge keeps its type: sequence numbers below
\* SeqMod, at most 255 fragments, one history entry for each message sent.
THEOREM TypeCorrect == Spec => []TypeOK
BY TypeInit, TypeStep, PTL DEF Spec

-----------------------------------------------------------------------------
(***************************************************************************)
(* Integrity.  As long as no sequence number is used twice, a number names *)
(* one message: every datagram in flight and every chunk kept belongs to   *)
(* the message its number names.                                           *)
(***************************************************************************)
Genuine(d) ==
  /\ d.seq \in 0..(sends - 1)
  /\ d.msg = history[d.seq]
  /\ d.cnt = FragCount[d.msg]
  /\ d.idx \in Indexes(d.msg)

\* What is kept are chunks of one message, not all of them.
KeptGenuine ==
  \/ rxSeq = None /\ DOMAIN rxFrags = {}
  \/ /\ rxSeq \in 0..(sends - 1)
     /\ DOMAIN rxFrags \subseteq Indexes(history[rxSeq])
     /\ DOMAIN rxFrags # Indexes(history[rxSeq])
     /\ \A i \in DOMAIN rxFrags : rxFrags[i] = <<history[rxSeq], i>>

\* What was fed last is still kept, or the message was returned.
FedKept ==
  /\ \A d \in fed : d.seq = rxSeq
  /\ \/ \A d \in fed : d.idx \in DOMAIN rxFrags
     \/ Content(history[rxSeq]) \in delivered

UniqueInv ==
  /\ sends < SeqMod => txSeq = sends
  /\ \A d \in net : Genuine(d)
  /\ KeptGenuine
  /\ FedKept
  /\ delivered \subseteq Sent
  /\ rxUp

BridgeInv == TypeOK /\ (Unrepeated => UniqueInv)

\* What FragsWith holds for a genuine datagram: chunks of its message only,
\* and all of them as soon as their number is the fragment count.
LEMMA GenuineFrags ==
  ASSUME TypeOK, UniqueInv, NEW d \in net
  PROVE  /\ d.seq \in 0..(sends - 1)
         /\ d.msg = history[d.seq]
         /\ d.msg \in Messages
         /\ d.cnt \in Nat
         /\ Indexes(d.msg) = 0..(d.cnt - 1)
         /\ DOMAIN FragsWith(d) \subseteq Indexes(d.msg)
         /\ \A i \in DOMAIN FragsWith(d) : FragsWith(d)[i] = <<d.msg, i>>
         /\ Complete(d) <=> DOMAIN FragsWith(d) = Indexes(d.msg)
<1>1. Genuine(d) /\ d.msg \in Messages /\ d.cnt \in Nat
  <2>1. d \in Datagram
    BY DEF TypeOK
  <2>2. d.msg \in Messages /\ d.cnt \in Nat
    BY <2>1 DEF Datagram
  <2>3. QED
    BY <2>2 DEF UniqueInv
<1>2. Indexes(d.msg) = 0..(d.cnt - 1)
  BY <1>1 DEF Genuine, Indexes
<1>3. /\ DOMAIN Kept(d) \subseteq Indexes(d.msg)
      /\ \A i \in DOMAIN Kept(d) : Kept(d)[i] = <<d.msg, i>>
  <2>1. CASE rxSeq = d.seq
    <3>1. rxSeq # None
      BY <1>1, <2>1, BridgeAssumption DEF Genuine, TypeOK
    <3>2. QED
      BY <1>1, <2>1, <3>1 DEF UniqueInv, KeptGenuine, Genuine, Kept
  <2>2. CASE rxSeq # d.seq
    BY <2>2 DEF Kept, NoFrags
  <2>3. QED
    BY <2>1, <2>2
<1>4. DOMAIN FragsWith(d) = DOMAIN Kept(d) \cup {d.idx}
  BY DEF FragsWith
<1>5. DOMAIN FragsWith(d) \subseteq Indexes(d.msg)
  BY <1>1, <1>3, <1>4 DEF Genuine
<1>6. \A i \in DOMAIN FragsWith(d) : FragsWith(d)[i] = <<d.msg, i>>
  BY <1>3, <1>4 DEF FragsWith, ChunkOf
<1>7. Complete(d) <=> DOMAIN FragsWith(d) = Indexes(d.msg)
  <2>1. Cardinality(0..(d.cnt - 1)) = d.cnt
    BY <1>1, FS_Interval
  <2>2. QED
    BY <1>1, <1>2, <1>5, <2>1, IndexesFinite DEF Complete
<1>8. QED
  BY <1>1, <1>2, <1>5, <1>6, <1>7 DEF Genuine

LEMMA BridgeInit == Init => BridgeInv
<1> SUFFICES ASSUME Init
             PROVE  BridgeInv
  OBVIOUS
<1>1. KeptGenuine /\ FedKept
  BY DEF Init, KeptGenuine, FedKept, NoFrags
<1>2. QED
  BY <1>1, TypeInit DEF Init, BridgeInv, UniqueInv

\* A message sent keeps its place in the history.
LEMMA SentGrows ==
  ASSUME TypeOK, NEW m \in Messages, Send(m)
  PROVE  /\ sends \in Nat /\ sends' = sends + 1
         /\ \A n \in 0..(sends - 1) : n \in 0..(sends' - 1) /\ history'[n] = history[n]
         /\ history'[sends] = m
         /\ Sent \subseteq Sent'
<1>1. sends \in Nat /\ sends' = sends + 1
  BY DEF TypeOK, Send
<1>2. \A n \in 0..(sends - 1) : n \in 0..(sends' - 1) /\ n \in 0..sends /\ n # sends
  BY <1>1
<1>3. history' = [n \in 0..sends |-> IF n = sends THEN m ELSE history[n]]
  BY DEF Send
<1>4. \A n \in 0..(sends - 1) : history'[n] = history[n]
  BY <1>2, <1>3
<1>5. history'[sends] = m
  BY <1>1, <1>3
<1>6. Sent' = {Content(history'[n]) : n \in 0..(sends' - 1)}
  BY DEF Sent, Content, Indexes
<1>7. Sent \subseteq Sent'
  BY <1>2, <1>4, <1>6 DEF Sent
<1>8. QED
  BY <1>1, <1>2, <1>4, <1>5, <1>7

LEMMA UniqueSend ==
  ASSUME TypeOK, UniqueInv, NEW m \in Messages, Send(m), sends' <= SeqMod
  PROVE  UniqueInv'
<1>1. /\ sends \in Nat /\ sends' = sends + 1
      /\ \A n \in 0..(sends - 1) : n \in 0..(sends' - 1) /\ history'[n] = history[n]
      /\ history'[sends] = m
      /\ Sent \subseteq Sent'
  BY SentGrows
<1>2. SeqMod \in Nat /\ sends < SeqMod
  BY <1>1, BridgeAssumption
<1>3. txSeq = sends
  BY <1>2 DEF UniqueInv
<1>4. sends' < SeqMod => txSeq' = sends'
  BY <1>1, <1>2, <1>3 DEF Send, NextSeq
<1>5. ASSUME NEW d \in net'
      PROVE  Genuine(d)'
  <2>1. CASE d \in net
    BY <1>1, <2>1 DEF UniqueInv, Genuine, Indexes
  <2>2. CASE d \in pack_fragments(txSeq, m)
    BY <1>1, <1>3, <2>2 DEF pack_fragments, Genuine, Indexes
  <2>3. QED
    BY <1>5, <2>1, <2>2 DEF Send
<1>6. UNCHANGED rxVars
  BY DEF Send
<1>7. KeptGenuine'
  BY <1>1, <1>6 DEF rxVars, UniqueInv, KeptGenuine, Indexes
<1>8. FedKept'
  <2>1. CASE \A d \in fed : d.idx \in DOMAIN rxFrags
    BY <1>6, <2>1 DEF rxVars, UniqueInv, FedKept
  <2>2. CASE fed # {} /\ Content(history[rxSeq]) \in delivered
    <3>1. rxSeq \in 0..(sends - 1)
      <4>1. PICK d \in fed : TRUE
        BY <2>2
      <4>2. rxSeq = d.seq /\ d.seq \in Nat
        BY <4>1 DEF UniqueInv, FedKept, TypeOK, Datagram
      <4>3. QED
        BY <4>2, BridgeAssumption DEF UniqueInv, KeptGenuine
    <3>2. Content(history[rxSeq])' = Content(history[rxSeq])
      BY <1>1, <1>6, <3>1 DEF rxVars, Content, Indexes
    <3>3. QED
      BY <1>6, <2>2, <3>2 DEF rxVars, UniqueInv, FedKept
  <2>3. QED
    BY <2>1, <2>2 DEF UniqueInv, FedKept
<1>9. delivered' \subseteq Sent' /\ rxUp'
  BY <1>1, <1>6 DEF rxVars, UniqueInv
<1>10. QED
  BY <1>4, <1>5, <1>7, <1>8, <1>9 DEF UniqueInv

LEMMA UniqueFeed ==
  ASSUME TypeOK, UniqueInv, NEW d \in net, Feed(d)
  PROVE  UniqueInv'
<1>1. /\ UNCHANGED <<txSeq, sends, history>>
      /\ \A e \in net' : e \in net
      /\ fed' = IF d.cnt = 1 THEN fed ELSE {e \in fed : e.seq = d.seq} \cup {d}
  BY DEF Feed, txVars
<1>2. \A e \in net' : Genuine(e)'
  BY <1>1 DEF UniqueInv, Genuine, Indexes
<1>3. Sent' = Sent
  BY <1>1 DEF Sent, Content, Indexes
<1>4. /\ d.seq \in 0..(sends - 1)
      /\ d.msg = history[d.seq]
      /\ Indexes(d.msg) = 0..(d.cnt - 1)
      /\ DOMAIN FragsWith(d) \subseteq Indexes(d.msg)
      /\ \A i \in DOMAIN FragsWith(d) : FragsWith(d)[i] = <<d.msg, i>>
      /\ Complete(d) <=> DOMAIN FragsWith(d) = Indexes(d.msg)
      /\ d.cnt \in Nat
  BY GenuineFrags
<1>5. Content(d.msg) \in Sent
  BY <1>4 DEF Sent
<1>6. DOMAIN FragsWith(d) = DOMAIN Kept(d) \cup {d.idx}
  BY DEF FragsWith
<1>7. KeptGenuine' /\ FedKept' /\ delivered' \subseteq Sent /\ rxUp'
  <2>1. CASE FeedSingle(d)
    <3>1. d.cnt = 1
      BY <2>1 DEF FeedSingle
    <3>2. 0..(d.cnt - 1) = {0}
      BY <3>1
    <3>3. [i \in {0} |-> <<d.msg, 0>>] = Content(d.msg)
      BY <1>4, <3>2 DEF Content
    <3>4. UNCHANGED <<rxSeq, rxFrags, rxUp, fed, sends, history>>
          /\ delivered' = delivered \cup {Content(d.msg)}
      BY <1>1, <2>1, <3>1, <3>3 DEF FeedSingle
    <3>5. KeptGenuine' /\ delivered' \subseteq Sent /\ rxUp'
      BY <1>5, <3>4 DEF UniqueInv, KeptGenuine, Indexes
    <3>6. FedKept'
      BY <3>4 DEF UniqueInv, FedKept, Content, Indexes
    <3>7. QED
      BY <3>5, <3>6
  <2>2. CASE FeedPart(d)
    <3>1. /\ rxSeq' = d.seq /\ rxFrags' = FragsWith(d) /\ UNCHANGED <<rxUp, delivered>>
          /\ fed' = {e \in fed : e.seq = d.seq} \cup {d}
          /\ ~Complete(d)
      BY <1>1, <1>4, <2>2 DEF FeedPart
    <3>2. KeptGenuine'
      BY <1>1, <1>4, <3>1 DEF KeptGenuine, Indexes
    <3>3. FedKept'
      <4>1. CASE rxSeq = d.seq
        <5>1. DOMAIN rxFrags \subseteq DOMAIN rxFrags'
          BY <1>6, <3>1, <4>1 DEF Kept
        <5>2. d.idx \in DOMAIN rxFrags'
          BY <1>6, <3>1
        <5>3. Content(history[rxSeq])' = Content(history[rxSeq])
          BY <1>1, <3>1, <4>1 DEF Content, Indexes
        <5>4. QED
          BY <3>1, <5>1, <5>2, <5>3 DEF UniqueInv, FedKept
      <4>2. CASE rxSeq # d.seq
        <5>1. fed' = {d}
          BY <3>1, <4>2 DEF UniqueInv, FedKept
        <5>2. QED
          BY <1>6, <3>1, <5>1 DEF FedKept
      <4>3. QED
        BY <4>1, <4>2
    <3>4. QED
      BY <3>1, <3>2, <3>3 DEF UniqueInv
  <2>3. CASE FeedLast(d)
    <3>1. [i \in 0..(d.cnt - 1) |-> FragsWith(d)[i]] = Content(d.msg)
      BY <1>4, <2>3 DEF FeedLast, Content
    <3>2. /\ rxSeq' = d.seq /\ rxFrags' = NoFrags /\ UNCHANGED rxUp
          /\ delivered' = delivered \cup {Content(d.msg)}
          /\ fed' = {e \in fed : e.seq = d.seq} \cup {d}
          /\ d.cnt > 1
      BY <1>1, <1>4, <2>3, <3>1 DEF FeedLast
    <3>3. DOMAIN rxFrags' = {} /\ 0 \in Indexes(d.msg)
      BY <1>4, <3>2 DEF NoFrags
    <3>4. KeptGenuine'
      BY <1>1, <1>4, <3>2, <3>3 DEF KeptGenuine, Indexes
    <3>5. Content(history[rxSeq])' = Content(d.msg)
      BY <1>1, <1>4, <3>2 DEF Content, Indexes
    <3>6. FedKept'
      BY <3>2, <3>5 DEF FedKept
    <3>7. QED
      BY <1>5, <3>2, <3>4, <3>6 DEF UniqueInv
  <2>4. CASE FeedKeyError(d)
    BY <1>4, <2>4 DEF FeedKeyError, Joinable
  <2>5. QED
    BY <2>1, <2>2, <2>3, <2>4 DEF Feed
<1>8. QED
  BY <1>1, <1>2, <1>3, <1>7 DEF UniqueInv

LEMMA BridgeStep ==
  ASSUME BridgeInv, [Next]_vars
  PROVE  BridgeInv'
<1>1. TypeOK /\ TypeOK'
  BY TypeStep DEF BridgeInv
<1>2. SUFFICES ASSUME Unrepeated'
               PROVE  UniqueInv'
  BY <1>1 DEF BridgeInv
<1>3. ASSUME Unrepeated, NEW m \in Messages, Send(m)
      PROVE  UniqueInv'
  BY <1>1, <1>2, <1>3, UniqueSend DEF BridgeInv, Unrepeated
<1>4. ASSUME Unrepeated, NEW d \in net, Feed(d)
      PROVE  UniqueInv'
  BY <1>1, <1>4, UniqueFeed DEF BridgeInv
<1>5. ASSUME Unrepeated, UNCHANGED <<txSeq, sends, history, rxVars>>, net' \subseteq net
      PROVE  UniqueInv'
  BY <1>5 DEF BridgeInv, UniqueInv, Genuine, KeptGenuine, FedKept, Sent, Content,
              Indexes, rxVars
<1>6. CASE SenderRestart
  <2>1. sends = 0 /\ Unrepeated
    <3>1. ~recounted' /\ recounted' = (recounted \/ sends > 0) /\ sends' = sends
      BY <1>2, <1>6 DEF SenderRestart, Unrepeated
    <3>2. ~recounted /\ ~(sends > 0)
      BY <3>1, Zenon
    <3>3. QED
      BY <1>1, <1>2, <3>1, <3>2 DEF Unrepeated, TypeOK
  <2>2. UNCHANGED <<sends, history, rxVars, net>> /\ txSeq' = 0
    BY <1>6 DEF SenderRestart
  <2>3. QED
    BY <2>1, <2>2 DEF BridgeInv, UniqueInv, Genuine, KeptGenuine, FedKept, Sent, Content,
                      Indexes, rxVars
<1>7. CASE ReceiverRestart
  <2>1. /\ UNCHANGED <<txSeq, sends, history, recounted, net, delivered>>
        /\ rxSeq' = None /\ rxFrags' = NoFrags /\ rxUp' = TRUE /\ fed' = {}
    BY <1>7 DEF ReceiverRestart, txVars
  <2>2. Unrepeated
    BY <1>2, <2>1 DEF Unrepeated
  <2>3. KeptGenuine' /\ FedKept'
    BY <2>1 DEF KeptGenuine, FedKept, NoFrags
  <2>4. QED
    BY <2>1, <2>2, <2>3 DEF BridgeInv, UniqueInv, Genuine, Sent, Content, Indexes
<1>8. Unrepeated \/ SenderRestart \/ ReceiverRestart
  <2>1. CASE UNCHANGED <<sends, recounted>>
    BY <1>2, <2>1 DEF Unrepeated
  <2>2. ASSUME NEW m \in Messages, Send(m)
        PROVE  Unrepeated
    BY <1>1, <1>2, <2>2, BridgeAssumption DEF Send, Unrepeated, TypeOK
  <2>3. QED
    BY <2>1, <2>2 DEF Next, Tick, Lose, Feed, vars, txVars
<1>9. QED
  BY <1>3, <1>4, <1>5, <1>6, <1>7, <1>8 DEF Next, Tick, Lose, vars, txVars

LEMMA BridgeInvariant == Spec => []BridgeInv
<1>1. BridgeInv /\ [Next]_vars => BridgeInv'
  BY BridgeStep
<1>2. QED
  BY <1>1, BridgeInit, PTL DEF Spec

\* While no number comes round, every message the Reassembler returns is one
\* message of the sender, whole: loss, repetition and reordering of datagrams
\* and restarts of the receiver never mix two messages.
THEOREM ChannelIntegrity == Spec => []Integrity
<1>1. BridgeInv => Integrity
  BY DEF BridgeInv, UniqueInv, Integrity
<1>2. QED
  BY <1>1, BridgeInvariant, PTL

\* A message whose fragments were all fed, with none of another long message
\* in between, has been returned, for every length and order of the fragments.
THEOREM CompleteIsReturned == Spec => []Reassembled
<1>1. ASSUME BridgeInv, Unrepeated, NEW n \in 0..(sends - 1),
             Indexes(history[n]) \subseteq {d.idx : d \in {e \in fed : e.seq = n}}
      PROVE  Content(history[n]) \in delivered
  <2>1. TypeOK /\ KeptGenuine /\ FedKept
    BY <1>1 DEF BridgeInv, UniqueInv
  <2>2. 0 \in Indexes(history[n])
    <3>1. history[n] \in Messages
      BY <2>1 DEF TypeOK
    <3>2. FragCount[history[n]] \in 1..255
      BY <3>1, BridgeAssumption
    <3>3. QED
      BY <3>2 DEF Indexes
  <2>3. rxSeq = n
    BY <1>1, <2>1, <2>2 DEF FedKept
  <2>4. DOMAIN rxFrags # Indexes(history[n]) /\ DOMAIN rxFrags \subseteq Indexes(history[n])
    BY <2>1, <2>3, BridgeAssumption DEF KeptGenuine
  <2>5. ~(\A d \in fed : d.idx \in DOMAIN rxFrags)
    BY <1>1, <2>4
  <2>6. QED
    BY <2>1, <2>3, <2>5 DEF FedKept
<1>2. BridgeInv => Reassembled
  BY <1>1 DEF Reassembled
<1>3. QED
  BY <1>2, BridgeInvariant, PTL

-----------------------------------------------------------------------------
(***************************************************************************)
(* No invention.  What is left when numbers repeat after a restart: the    *)
(* receiver may join chunks of two messages, but each at its place, and to *)
(* the length of one of them.                                              *)
(***************************************************************************)
WasSent(i, chunk) ==
  \E n \in 0..(sends - 1) : i \in Indexes(history[n]) /\ chunk = <<history[n], i>>

\* Each chunk at its place, as long as the message that one of them is from.
OneOfThem(content) ==
  /\ \A i \in DOMAIN content : WasSent(i, content[i])
  /\ \E i \in DOMAIN content : DOMAIN content = Indexes(content[i][1])

SentInv ==
  /\ TypeOK
  /\ \A d \in net : WasSent(d.idx, ChunkOf(d)) /\ d.cnt = FragCount[d.msg]
  /\ \A i \in DOMAIN rxFrags : WasSent(i, rxFrags[i])
  /\ \A content \in delivered : OneOfThem(content)

LEMMA SentInit == Init => SentInv
BY TypeInit DEF Init, SentInv, NoFrags

\* The chunks kept and the chunk of a datagram in flight make one of them.
LEMMA FeedSent ==
  ASSUME SentInv, NEW d \in net
  PROVE  /\ \A i \in DOMAIN FragsWith(d) : WasSent(i, FragsWith(d)[i])
         /\ FeedSingle(d) => OneOfThem([i \in {0} |-> <<d.msg, 0>>])
         /\ FeedLast(d) => OneOfThem([i \in 0..(d.cnt - 1) |-> FragsWith(d)[i]])
<1>1. /\ WasSent(d.idx, ChunkOf(d)) /\ d.cnt = FragCount[d.msg]
      /\ Indexes(d.msg) = 0..(d.cnt - 1)
  BY DEF SentInv, Indexes
<1>2. d.idx \in Indexes(d.msg)
  BY <1>1 DEF WasSent, ChunkOf
<1>3. \A i \in DOMAIN FragsWith(d) : WasSent(i, FragsWith(d)[i])
  <2>1. \A i \in DOMAIN Kept(d) : WasSent(i, Kept(d)[i])
    BY DEF SentInv, Kept, NoFrags
  <2>2. DOMAIN FragsWith(d) = DOMAIN Kept(d) \cup {d.idx}
    BY DEF FragsWith
  <2>3. ASSUME NEW i \in DOMAIN Kept(d) \cup {d.idx}
        PROVE  FragsWith(d)[i] = IF i = d.idx THEN ChunkOf(d) ELSE Kept(d)[i]
    BY DEF FragsWith
  <2>4. QED
    BY <1>1, <2>1, <2>2, <2>3
<1>4. ASSUME FeedSingle(d)
      PROVE  OneOfThem([i \in {0} |-> <<d.msg, 0>>])
  <2>1. Indexes(d.msg) = {0} /\ d.idx = 0
    BY <1>1, <1>2, <1>4 DEF FeedSingle
  <2>2. WasSent(0, <<d.msg, 0>>)
    BY <1>1, <2>1 DEF ChunkOf
  <2>3. QED
    BY <2>1, <2>2 DEF OneOfThem
<1>5. ASSUME FeedLast(d)
      PROVE  OneOfThem([i \in 0..(d.cnt - 1) |-> FragsWith(d)[i]])
  <2> DEFINE content == [i \in 0..(d.cnt - 1) |-> FragsWith(d)[i]]
  <2>1. \A i \in 0..(d.cnt - 1) : WasSent(i, content[i])
    BY <1>3, <1>5 DEF FeedLast, Joinable
  <2>2. d.idx \in 0..(d.cnt - 1) /\ content[d.idx] = ChunkOf(d)
    BY <1>1, <1>2 DEF FragsWith
  <2>3. DOMAIN content = 0..(d.cnt - 1)
    OBVIOUS
  <2> HIDE DEF content
  <2>4. content[d.idx][1] = d.msg
    BY <2>2 DEF ChunkOf
  <2>5. OneOfThem(content)
    BY <1>1, <2>1, <2>2, <2>3, <2>4 DEF OneOfThem
  <2>6. QED
    BY <2>5 DEF content
<1>6. QED
  BY <1>3, <1>4, <1>5

LEMMA HistoryStays ==
  ASSUME TypeOK, [Next]_vars
  PROVE  \A n \in 0..(sends - 1) : n \in 0..(sends' - 1) /\ history'[n] = history[n]
<1>1. ASSUME NEW m \in Messages, Send(m)
      PROVE  \A n \in 0..(sends - 1) : n \in 0..(sends' - 1) /\ history'[n] = history[n]
  BY <1>1, SentGrows
<1>2. UNCHANGED <<sends, history>> \/ \E m \in Messages : Send(m)
  BY DEF Next, Tick, Lose, Feed, SenderRestart, ReceiverRestart, vars, txVars
<1>3. QED
  BY <1>1, <1>2

\* What was sent stays sent.
LEMMA SentStays ==
  ASSUME TypeOK, [Next]_vars
  PROVE  /\ \A i, chunk : WasSent(i, chunk) => WasSent(i, chunk)'
         /\ \A content : OneOfThem(content) => OneOfThem(content)'
<1>1. \A n \in 0..(sends - 1) : n \in 0..(sends' - 1) /\ history'[n] = history[n]
  BY HistoryStays
<1>2. \A i, chunk : WasSent(i, chunk) => WasSent(i, chunk)'
  BY <1>1 DEF WasSent, Indexes
<1>3. QED
  BY <1>2 DEF OneOfThem, Indexes

LEMMA SentStep ==
  ASSUME SentInv, [Next]_vars
  PROVE  SentInv'
<1>1. /\ TypeOK' /\ TypeOK
      /\ \A i, chunk : WasSent(i, chunk) => WasSent(i, chunk)'
      /\ \A content : OneOfThem(content) => OneOfThem(content)'
  BY TypeStep, SentStays DEF SentInv
<1>2. ASSUME UNCHANGED <<rxFrags, delivered>>, net' \subseteq net
      PROVE  SentInv'
  BY <1>1, <1>2 DEF SentInv, ChunkOf
<1>3. ASSUME NEW m \in Messages, Send(m)
      PROVE  SentInv'
  <2>1. sends \in 0..(sends' - 1) /\ history'[sends] = m
    BY <1>1, <1>3, SentGrows
  <2>2. \A d \in pack_fragments(txSeq, m) :
          /\ d.msg = m /\ d.idx \in Indexes(m) /\ d.cnt = FragCount[m]
    BY DEF pack_fragments
  <2>3. \A d \in pack_fragments(txSeq, m) : WasSent(d.idx, ChunkOf(d))'
    BY <2>1, <2>2 DEF WasSent, ChunkOf, Indexes
  <2>4. \A d \in net' : WasSent(d.idx, ChunkOf(d))' /\ d.cnt = FragCount[d.msg]
    BY <1>1, <1>3, <2>2, <2>3 DEF Send, SentInv, ChunkOf
  <2>5. QED
    BY <1>1, <1>3, <2>4 DEF Send, SentInv, rxVars
<1>4. ASSUME NEW d \in net, Feed(d)
      PROVE  SentInv'
  <2>1. net' \subseteq net
    BY <1>4 DEF Feed
  <2>2. rxFrags' \in {rxFrags, NoFrags, FragsWith(d)}
    BY <1>4 DEF Feed, FeedSingle, FeedPart, FeedLast, FeedKeyError
  <2>3. \A i \in DOMAIN rxFrags' : WasSent(i, rxFrags'[i])
    BY <2>2, FeedSent DEF SentInv, NoFrags
  <2>4. \A content \in delivered' : OneOfThem(content)
    <3>1. \A content \in delivered : OneOfThem(content)
      BY DEF SentInv
    <3>2. CASE FeedSingle(d)
      BY <3>1, <3>2, FeedSent DEF FeedSingle
    <3>3. CASE FeedLast(d)
      <4>1. delivered' = delivered \cup {[i \in 0..(d.cnt - 1) |-> FragsWith(d)[i]]}
        BY <3>3 DEF FeedLast
      <4>2. QED
        BY <3>1, <3>3, <4>1, FeedSent
    <3>4. CASE FeedPart(d) \/ FeedKeyError(d)
      BY <3>1, <3>4 DEF FeedPart, FeedKeyError
    <3>5. QED
      BY <1>4, <3>2, <3>3, <3>4 DEF Feed
  <2>5. \A content \in delivered' : OneOfThem(content)'
    BY <1>1, <2>4
  <2>6. QED
    BY <1>1, <2>1, <2>3, <2>5 DEF SentInv, ChunkOf
<1>5. CASE Tick \/ SenderRestart \/ UNCHANGED vars \/ \E d \in net : Lose(d)
  BY <1>2, <1>5 DEF Tick, SenderRestart, vars, Lose, rxVars
<1>6. CASE ReceiverRestart
  BY <1>1, <1>6 DEF ReceiverRestart, SentInv, NoFrags, ChunkOf
<1>7. QED
  BY <1>3, <1>4, <1>5, <1>6 DEF Next

LEMMA SentInvariant == Spec => []SentInv
BY SentInit, SentStep, PTL DEF Spec

\* For every network, restart and number of messages: no chunk is delivered
\* that was not sent at its place, and none is missing from the length of one
\* of the messages it was joined from.
THEOREM NothingInvented == Spec => []NoInvention
<1>1. SentInv => NoInvention
  BY DEF SentInv, OneOfThem, WasSent, NoInvention
<1>2. QED
  BY <1>1, SentInvariant, PTL

-----------------------------------------------------------------------------
(***************************************************************************)
(* Survival.  The join of feed misses a chunk only when a number repeats   *)
(* and messages differ in length: of genuine datagrams, and of messages of *)
(* one length, as many chunks as the count are all of them.                *)
(***************************************************************************)
LEMMA OneLengthJoins ==
  ASSUME SentInv, OneLength, NEW d \in net
  PROVE  ~FeedKeyError(d)
<1>1. /\ \A i \in DOMAIN FragsWith(d) : WasSent(i, FragsWith(d)[i])
      /\ WasSent(d.idx, ChunkOf(d)) /\ d.cnt = FragCount[d.msg]
  BY FeedSent DEF SentInv
<1>2. PICK n \in 0..(sends - 1) : d.msg = history[n]
  BY <1>1 DEF WasSent, ChunkOf
<1>3. \A i \in DOMAIN FragsWith(d) : i \in 0..(d.cnt - 1)
  BY <1>1, <1>2 DEF WasSent, OneLength, Indexes
<1>4. d.cnt \in Nat
  <2>1. d \in Datagram
    BY DEF SentInv, TypeOK
  <2>2. QED
    BY <2>1 DEF Datagram
<1>5. Complete(d) => Joinable(d)
  BY <1>3, <1>4, IndexesFinite DEF Complete, Joinable
<1>6. QED
  BY <1>5 DEF FeedKeyError

SurviveInv == SentInv /\ BridgeInv /\ SurvivesEither

LEMMA SurviveStep ==
  ASSUME SurviveInv, [Next]_vars
  PROVE  SurviveInv'
<1>1. SentInv' /\ BridgeInv'
  BY SentStep, BridgeStep DEF SurviveInv
<1>2. ASSUME OneLength'
      PROVE  rxUp'
  <2>1. OneLength
    <3>1. \A n \in 0..(sends - 1) : n \in 0..(sends' - 1) /\ history'[n] = history[n]
      BY HistoryStays DEF SurviveInv, SentInv
    <3>2. QED
      BY <1>2, <3>1 DEF OneLength
  <2>2. rxUp
    BY <2>1 DEF SurviveInv, SurvivesEither
  <2>3. ASSUME NEW d \in net, Feed(d)
        PROVE  rxUp'
    <3>1. ~FeedKeyError(d)
      BY <2>1, OneLengthJoins DEF SurviveInv
    <3>2. QED
      BY <2>2, <2>3, <3>1 DEF Feed, FeedSingle, FeedPart, FeedLast
  <2>4. QED
    BY <2>2, <2>3 DEF Next, Send, Tick, Lose, SenderRestart, ReceiverRestart, vars, rxVars
<1>3. Unrepeated' => rxUp'
  BY <1>1 DEF BridgeInv, UniqueInv
<1>4. QED
  BY <1>1, <1>2, <1>3 DEF SurviveInv, SurvivesEither

\* A receiver dies of a KeyError in feed only when numbers repeat and messages
\* of different lengths were sent: either one alone does no harm, whatever the
\* network does and whichever process is restarted.
THEOREM EitherIsSurvived == Spec => []SurvivesEither
<1>1. Init => SurviveInv
  BY SentInit, BridgeInit DEF Init, SurviveInv, SurvivesEither
<1>2. SurviveInv => SurvivesEither
  BY DEF SurviveInv
<1>3. QED
  BY <1>1, <1>2, SurviveStep, PTL DEF Spec

=============================================================================
