---------------------------- MODULE PacketFinder ----------------------------
(***************************************************************************)
(* The search for packets in the serial stream of the Kobuki, one call of  *)
(* serial.read and PacketFinderBase::update per step.  A packet is STX, the *)
(* length of the payload, the payload and a checksum that makes the XOR of *)
(* all that follows STX zero; ETX is empty for this robot.  The alphabet   *)
(* is small, the rest of the format is that of the driver.                 *)
(*                                                                         *)
(* A read returns what has arrived, up to the number asked for.  The robot *)
(* sends a packet when the last one was read, except when the driver is    *)
(* late; bytes may arrive changed or not at all.  Late reads and damaged   *)
(* packets are the disturbances, MaxDisturbed of them.                     *)
(***************************************************************************)
EXTENDS Naturals, Sequences, SequencesExt, FiniteSetsExt

CONSTANTS
  Bytes,           \* values of a byte, closed under XOR
  STX,             \* the two bytes a packet starts with
  Payloads,        \* payloads the robot sends
  MaxDisturbed,    \* bound on the disturbances
  Recovery         \* packets after which a disturbance must be over

ASSUME FinderAssumption ==
  /\ Len(STX) = 2 /\ MaxDisturbed \in Nat /\ Recovery \in Nat
  /\ \A p \in Payloads : \A i \in DOMAIN p : p[i] \in Bytes

VARIABLES
  line,           \* bytes that have arrived
  finder,         \* state of PacketFinderBase
  buffer,         \* bytes of the packet under construction
  sizePayload,    \* size_payload
  sent,           \* the payload sent last
  got,            \* the payload found since then; None when there is none
  since,          \* packets sent since the last disturbance, at most Recovery + 1
  disturbed       \* number of disturbances

finderVars == <<line, finder, buffer, sizePayload, sent, got, since, disturbed>>

Nothing == <<>>
FinderStates == {"clear", "stx", "size", "payload"}

\* The XOR of two bytes: the bits in which they differ.
Bit(byte, n) == (byte \div 2^n) % 2
Xor(a, b) == MapThenSumSet(LAMBDA n : 2^n, {n \in 0 .. 7 : Bit(a, n) # Bit(b, n)})

CheckSum(bytes) == FoldLeft(Xor, 0, bytes)

ASSUME BytesAssumption ==
  /\ Bytes \subseteq Nat /\ 0 \in Bytes /\ \A a, b \in Bytes : Xor(a, b) \in Bytes
  /\ STX \in Seq(Bytes) /\ \A p \in Payloads : p \in Seq(Bytes) /\ Len(p) \in Bytes

Framed(payload) ==
  LET body == <<Len(payload)>> \o payload
  IN STX \o body \o <<CheckSum(body)>>

\* configure and clear
FinderInit ==
  /\ line = <<>> /\ finder = "stx" /\ buffer = <<>> /\ sizePayload = 0
  /\ sent = Nothing /\ got = Nothing /\ since = 0 /\ disturbed = 0

Calm == since' = IF since > Recovery THEN since ELSE since + 1

RobotSends(payload) ==
  /\ line = <<>>
  /\ line' = Framed(payload)
  /\ sent' = payload /\ got' = Nothing /\ Calm
  /\ UNCHANGED <<finder, buffer, sizePayload, disturbed>>

Disturb == disturbed < MaxDisturbed /\ disturbed' = disturbed + 1 /\ since' = 0

\* The driver has not read the last packet when the next one comes.
ReadLate(payload) ==
  /\ line # <<>> /\ Len(line) < 6 /\ Disturb
  /\ line' = line \o Framed(payload)
  /\ sent' = payload /\ got' = Nothing
  /\ UNCHANGED <<finder, buffer, sizePayload>>

\* A byte is changed or lost on its way.
Damaged(payload) ==
  /\ line = <<>> /\ Disturb
  /\ \E i \in DOMAIN Framed(payload) :
       \/ \E b \in Bytes : line' = ReplaceAt(Framed(payload), i, b)
       \/ line' = RemoveAt(Framed(payload), i)
  /\ sent' = payload /\ got' = Nothing
  /\ UNCHANGED <<finder, buffer, sizePayload>>

NumberOfDataToRead == IF finder = "payload" THEN sizePayload + 1 ELSE 1

\* The bytes kept of a buffer that does not begin like STX: one is dropped
\* from the front.
StxKept(bytes) ==
  IF bytes = SubSeq(STX, 1, Len(bytes)) THEN bytes ELSE Tail(bytes)

WaitForStx(in) ==
  /\ finder \in {"stx", "clear"}
  /\ buffer' = StxKept((IF finder = "clear" THEN <<>> ELSE buffer) \o in)
  /\ finder' = IF buffer' = STX THEN "size" ELSE "stx"
  /\ UNCHANGED <<sizePayload, got>>

WaitForPayloadSize(in) ==
  /\ finder = "size" /\ finder' = "payload"
  /\ buffer' = buffer \o in
  /\ sizePayload' = buffer'[Len(STX) + 1]
  /\ UNCHANGED got

\* Everything between the length and the last byte of the buffer.
GetPayload(bytes) == SubSeq(bytes, Len(STX) + 2, Len(bytes) - 1)

\* Mutant: a packet with a wrong checksum is not given up.
PayloadOrWait(in) ==
  /\ finder = "payload"
  /\ buffer' = buffer \o in
  /\ LET enough == Len(buffer') >= Len(STX) + 2 + sizePayload
         valid  == CheckSum(SubSeq(buffer', Len(STX) + 1, Len(buffer'))) = 0
     IN /\ finder' = IF enough /\ valid THEN "clear" ELSE "payload"
        /\ got' = IF enough /\ valid THEN GetPayload(buffer') ELSE got
  /\ UNCHANGED sizePayload

\* The number asked for does not shrink with what has come already, so the
\* buffer may hold the beginning of the next packet too.
WaitForPayloadAndEtx(in) ==
  /\ finder = "payload"
  /\ buffer' = buffer \o in
  /\ LET enough == Len(buffer') >= Len(STX) + 2 + sizePayload
         valid  == CheckSum(SubSeq(buffer', Len(STX) + 1, Len(buffer'))) = 0
     IN /\ finder' = IF enough THEN "clear" ELSE "payload"
        /\ got' = IF enough /\ valid THEN GetPayload(buffer') ELSE got
  /\ UNCHANGED sizePayload

\* One pass of the read loop: n bytes come.
ReadBytes(n) ==
  /\ n <= Len(line) /\ n <= NumberOfDataToRead
  /\ line' = SubSeq(line, n + 1, Len(line))
  /\ LET in == SubSeq(line, 1, n)
     IN WaitForStx(in) \/ WaitForPayloadSize(in) \/ WaitForPayloadAndEtx(in)
  /\ UNCHANGED <<sent, since, disturbed>>

FinderNext ==
  \/ \E p \in Payloads : RobotSends(p) \/ ReadLate(p) \/ Damaged(p)
  \/ \E n \in 1..Len(line) : ReadBytes(n)

----------------------------------------------------------------------------
FinderTypeOK ==
  /\ line \in Seq(Bytes) /\ buffer \in Seq(Bytes)
  /\ finder \in FinderStates /\ sizePayload \in Bytes
  /\ sent \in Payloads \cup {Nothing} /\ since \in 0 .. Recovery + 1

\* Whatever the noise left in the finder, after Recovery packets it is in step
\* again: every packet is found, whole and as it was sent, in reads of any
\* length (packet_finder.cpp:225).
InStep == since > Recovery /\ line = <<>> => got = sent

----------------------------------------------------------------------------
(***************************************************************************)
(* How the driver takes a payload apart (the loop of Kobuki::spin): every  *)
(* sub-payload is a header, a length and data, and the reader of its       *)
(* header takes it from the front of data_buffer, or refuses it after it   *)
(* has taken nothing, or the header and the length.  Then fixPayload takes *)
(* what stands at the front for a sub-payload and skips it.                *)
(*                                                                         *)
(* Three kinds of reader stand for the ten: one of a fixed length, one of  *)
(* two lengths, as for the firmware, and one whose length depends on a     *)
(* number in its data, as for the gyro.                                    *)
(***************************************************************************)

CONSTANTS
  FixedHeader, TwoHeader, CountedHeader,    \* the headers
  DataBytes,                                \* values of a byte
  MaxPayload                                \* bytes of the longest payload

ASSUME SubPayloadAssumption ==
  /\ {FixedHeader, TwoHeader, CountedHeader} \subseteq DataBytes
  /\ DataBytes \subseteq Nat /\ MaxPayload \in Nat

VARIABLES
  dataBuffer,    \* data_buffer
  readers,       \* headers of the sub-payloads that were taken over, in order
  payload        \* history: the payload as it came

payloadVars == <<dataBuffer, readers, payload>>

FixedLength == 1
Known == {FixedHeader, TwoHeader, CountedHeader}

Skip(bytes, n) == SubSeq(bytes, n + 1, Len(bytes))

PayloadInit == payload = <<>> /\ dataBuffer = <<>> /\ readers = <<>>

\* A payload that passed the checksum; one is enough, the next starts afresh.
PayloadCopied ==
  /\ payload = <<>>
  /\ payload' \in UNION {[1..n -> DataBytes] : n \in 1..MaxPayload}
  /\ dataBuffer' = payload' /\ UNCHANGED readers

\* Mutant: a rest that is too small is left where it is.
FixPayloadKeeps(bytes) ==
  IF Len(bytes) < 3 THEN bytes ELSE Skip(bytes, 2 + bytes[2])

\* fixPayload
FixPayload(bytes) == IF Len(bytes) < 3 THEN <<>> ELSE Skip(bytes, 2 + bytes[2])

\* What a reader leaves of the buffer, and whether it took the data over.
Refused(rest) == [rest |-> rest, taken |-> FALSE]
Taken(rest)   == [rest |-> rest, taken |-> TRUE]

FixedReader(bytes) ==
  IF Len(bytes) < FixedLength + 2 THEN Refused(bytes)
  ELSE IF bytes[2] # FixedLength THEN Refused(Skip(bytes, 2))
  ELSE Taken(Skip(bytes, 2 + FixedLength))

\* Lengths of one or two; a number that is not there in full is not taken.
TwoReader(bytes) ==
  IF Len(bytes) < 3 THEN Refused(bytes)
  ELSE IF bytes[2] \notin {1, 2} THEN Refused(Skip(bytes, 2))
  ELSE Taken(Skip(bytes, IF Len(bytes) < 2 + bytes[2] THEN 2 ELSE 2 + bytes[2]))

\* The first byte of the data is the number of the bytes that follow.
CountedReader(bytes) ==
  IF Len(bytes) < 4 THEN Refused(bytes)
  ELSE IF bytes[2] < 2 THEN Refused(Skip(bytes, 2))
  ELSE IF bytes[2] # 1 + bytes[3] THEN Refused(Skip(bytes, 3))
  ELSE Taken(Skip(bytes, 3 + (IF Len(bytes) < 2 + bytes[2] THEN Len(bytes) - 3
                              ELSE bytes[3])))

Reader(bytes) ==
  CASE bytes[1] = FixedHeader   -> FixedReader(bytes)
    [] bytes[1] = TwoHeader     -> TwoReader(bytes)
    [] bytes[1] = CountedHeader -> CountedReader(bytes)
    [] OTHER                    -> Refused(bytes)

\* One pass of the loop.
SubPayload ==
  /\ dataBuffer # <<>>
  /\ LET read == Reader(dataBuffer)
     IN /\ dataBuffer' = IF read.taken THEN read.rest ELSE FixPayload(read.rest)
        /\ readers' = IF read.taken THEN Append(readers, dataBuffer[1]) ELSE readers
  /\ UNCHANGED payload

PayloadNext == PayloadCopied \/ SubPayload

----------------------------------------------------------------------------
\* What follows the sub-payload that starts at i.
After(p, i) == i + 2 + p[i + 1]

\* Where the sub-payloads of a payload start, by their lengths alone: the least
\* set with the first byte and what follows each of them.
Starts(p) ==
  LET Closed(S) == \A i \in S : i < Len(p) /\ After(p, i) <= Len(p) => After(p, i) \in S
  IN {i \in 1 .. Len(p) : \A S \in SUBSET (1 .. Len(p)) : 1 \in S /\ Closed(S) => i \in S}

WellFormed(p, i) ==
  /\ i < Len(p) /\ p[i + 1] > 0 /\ After(p, i) <= Len(p) + 1
  /\ p[i] = FixedHeader => p[i + 1] = FixedLength
  /\ p[i] = TwoHeader => p[i + 1] \in {1, 2}
  /\ p[i] = CountedHeader => p[i + 1] = 1 + p[i + 2] /\ p[i + 2] > 0

\* The sequence of the headers that stand at the places of a set, in order.
HeadersAt(headers, p, places) ==
  \E f \in [1 .. Len(headers) -> places] :
    /\ \A m, n \in 1 .. Len(headers) : m < n => f[m] < f[n]
    /\ \A i \in places : \E n \in 1 .. Len(headers) : f[n] = i
    /\ \A n \in 1 .. Len(headers) : headers[n] = p[f[n]]

KnownStarts(p) == {i \in Starts(p) : p[i] \in Known}

\* A payload of well-formed sub-payloads is taken over in full and in order,
\* and what this driver does not know is skipped whole: newer firmware does
\* not disturb it (kobuki.cpp:382).
KnownTaken ==
  dataBuffer = <<>> /\ (\A i \in Starts(payload) : WellFormed(payload, i))
    => HeadersAt(readers, payload, KnownStarts(payload))

\* The loop runs with the data locked: it must end for every payload that got
\* past the checksum, whatever is in it (kobuki.cpp:275).
PayloadEnds == (dataBuffer # <<>>) ~> (dataBuffer = <<>>)

=============================================================================
