--------------------------- MODULE PacketNetwork ----------------------------
(***************************************************************************)
(* NavigationSystem/Network/XbeePacketNetwork and DataLink: messages go    *)
(* over a radio as packets.  transmit() splits a message and queues its    *)
(* packets, a thread sends them in bursts as frames, the receiver's thread *)
(* collects the packets of one message and calls back with the whole.      *)
(* Frames get lost and are not repeated.  A byte is the width it has on    *)
(* the wire: 1, or 2 for one that SLIP escapes.                            *)
(***************************************************************************)
EXTENDS Integers, SequencesExt

CONSTANTS
  Bytes,      \* the messages: sequences of widths
  MaxData,    \* MAX_DATA_SIZE, the payload a packet should have
  MaxFrame,   \* m_maxFrameSize
  Overhead,   \* XBEE_PACKET_OVERHEAD
  SizeCount,  \* 2^8: what a uint8_t can hold is 0..SizeCount - 1
  IdCount,    \* 2^8: the packet ids are 0..IdCount - 1
  Burst,      \* PACKETS_TO_TRANSMIT
  MaxReceive, \* MAX_PACKETS_TO_RECEIVE
  MaxLost     \* bound on the frames lost on the air

Widths == {1, 2}

ASSUME RadioConstants ==
  /\ Bytes \in Seq(Seq(Widths))
  /\ \A k \in DOMAIN Bytes : Bytes[k] # <<>> /\ Len(Bytes[k]) < SizeCount
  /\ {MaxData, MaxFrame, Overhead, Burst, MaxReceive} \subseteq Nat \ {0}
  /\ SizeCount \in Nat /\ MaxData < SizeCount /\ Overhead < SizeCount
  /\ IdCount \in Nat /\ IdCount > 1
  /\ MaxLost \in Nat

VARIABLES
  currPacket,    \* messages given to transmit(); m_currPacketID modulo IdCount
  transmitQueue, \* m_transmitQueue of the sender
  air,           \* frames on their way
  receiveQueue,  \* m_receiveQueue of the receiver
  received,      \* history: the packets of each callback
  unfit,         \* history: messages a frame of which has no size that both
                 \* ends of the link take
  lost           \* history: frames lost on the air

radioVars == <<currPacket, transmitQueue, air, receiveQueue, received,
               unfit, lost>>

Packets == [message : DOMAIN Bytes, id : 0..IdCount - 1, count : Nat \ {0},
            no : Nat \ {0}, from : Nat, size : 0..SizeCount - 1]

RadioTypeOK ==
  /\ currPacket \in 0..Len(Bytes)
  /\ transmitQueue \in Seq(Packets) /\ air \in Seq(Packets)
  /\ receiveQueue \in Seq(Packets)
  /\ received \in Seq(Seq(Packets))
  /\ unfit \subseteq DOMAIN Bytes
  /\ lost \in 0..MaxLost

RadioInit ==
  /\ currPacket = 0
  /\ transmitQueue = <<>> /\ air = <<>> /\ receiveQueue = <<>>
  /\ received = <<>> /\ unfit = {} /\ lost = 0

------------------------------------------------------------------------------
(* The sender.                                                               *)

\* SLIP::packetCount(): a packet is full when its width is exactly MaxData.
CountByte(s, w) ==
  IF s.width = MaxData THEN [width |-> w, count |-> s.count + 1]
  ELSE [width |-> s.width + w, count |-> s.count]

PacketCount(bytes) ==
  LET after[i \in 0..Len(bytes)] ==
        IF i = 0 THEN [width |-> 0, count |-> 1] ELSE CountByte(after[i - 1], bytes[i])
  IN after[Len(bytes)].count

\* SLIP::splitSize(): the width, taken for a number of bytes.
Widen(width, w) == IF width = MaxData THEN width ELSE width + w

SplitSize(bytes) ==
  LET width[i \in 0..Len(bytes)] ==
        IF i = 0 THEN 0 ELSE Widen(width[i - 1], bytes[i])
  IN width[Len(bytes)]

\* As many bytes as the message has are looked at, from the packet's first one
\* on: those behind the end of the message can be anything.  The result goes to
\* the 8 bits of m_payloadSize.
SplitSizes(bytes, from) ==
  {SplitSize(SubSeq(bytes, from + 1, Len(bytes)) \o junk) % SizeCount :
     junk \in [1..Min({from, Len(bytes)}) -> Widths]}

\* currPtr: where the packets begin, and where the last one ends.
Offsets(sizes) ==
  LET at[i \in 0..Len(sizes)] == IF i = 0 THEN 0 ELSE at[i - 1] + sizes[i] IN at

Splits(bytes) ==
  {sizes \in [1..PacketCount(bytes) -> 0..SizeCount - 1] :
     \A i \in DOMAIN sizes : sizes[i] \in SplitSizes(bytes, Offsets(sizes)[i - 1])}

PacketsOf(m, sizes) ==
  [i \in DOMAIN sizes |->
     [message |-> m, id |-> (m - 1) % IdCount, count |-> Len(sizes), no |-> i,
      from |-> Offsets(sizes)[i - 1], size |-> sizes[i]]]

\* transmit()
TransmitMessage ==
  /\ currPacket < Len(Bytes)
  /\ currPacket' = currPacket + 1
  /\ \E sizes \in Splits(Bytes[currPacket + 1]) :
       transmitQueue' = transmitQueue \o PacketsOf(currPacket + 1, sizes)
  /\ UNCHANGED <<air, receiveQueue, received, unfit, lost>>

\* frameSize, in 8 bits too.
FrameSize(p) == (p.size + Overhead) % SizeCount

\* What DataLink::transmit() sends, and what receive() and receivePacket() take:
\* a frame that fills the buffer never comes to its end.
Sendable == 1..MaxFrame
Receivable == Overhead..MaxFrame - 1

\* The packets whose frames have one of these sizes.
OfSize(packets, sizes) ==
  LET kept[i \in 0..Len(packets)] ==
        IF i = 0 THEN <<>>
        ELSE IF FrameSize(packets[i]) \in sizes THEN Append(kept[i - 1], packets[i])
        ELSE kept[i - 1]
  IN kept[Len(packets)]

\* transmitPackets() of a node that is not the master, once the other side has
\* been silent for a while.  DataLink::transmit() drops what is too long, and a
\* frame whose size has come round to 0.
TransmitPackets ==
  LET burst == SubSeq(transmitQueue, 1, Min({Burst, Len(transmitQueue)})) IN
  /\ transmitQueue # <<>>
  /\ air' = air \o OfSize(burst, Sendable)
  /\ unfit' = unfit \cup
       {p.message : p \in {q \in Range(burst) : FrameSize(q) \notin Receivable}}
  /\ transmitQueue' = SubSeq(transmitQueue, Len(burst) + 1, Len(transmitQueue))
  /\ UNCHANGED <<currPacket, receiveQueue, received, lost>>

\* Noise, or DataLink::receive() that starts with foundEnd set, reads nothing
\* for a moment, or had not been called for too long.
Lose ==
  /\ lost < MaxLost
  /\ \E i \in DOMAIN air : air' = RemoveAt(air, i)
  /\ lost' = lost + 1
  /\ UNCHANGED <<currPacket, transmitQueue, receiveQueue, received, unfit>>

------------------------------------------------------------------------------
(* The receiver.                                                             *)

\* The size the callback gets: payloadSize is summed up in 8 bits, while each
\* packet is copied in its full size into the block of that size.
PayloadSize(packets) ==
  LET sum[i \in 0..Len(packets)] ==
        IF i = 0 THEN 0 ELSE (sum[i - 1] + packets[i].size) % SizeCount
  IN sum[Len(packets)]

JoinedAnyway(packets) == <<packets>>

\* processPacket() of several packets: without all of them no callback.
Joined(packets) == IF Len(packets) = packets[1].count THEN <<packets>> ELSE <<>>

\* One turn of the loop of processReceivedPackets().
Take(s, p) ==
  LET ended == s.multi # <<>> /\ p.id # s.lastId
      multi == IF ended THEN <<>> ELSE s.multi
      calls == IF ended THEN s.calls \o Joined(s.multi) ELSE s.calls
  IN [multi |-> IF p.count > 1 THEN Append(multi, p) ELSE multi,
      calls |-> IF p.count > 1 THEN calls ELSE Append(calls, <<p>>),
      lastId |-> p.id]

Process(queue) ==
  LET after[i \in 0..Len(queue)] ==
        IF i = 0 THEN [multi |-> <<>>, calls |-> <<>>, lastId |-> Head(queue).id]
        ELSE Take(after[i - 1], queue[i])
  IN after[Len(queue)]

\* processRadioMessages(): some frames may have come; an incomplete message goes
\* back to the queue.
ReceivePackets ==
  \E n \in 0..Min({MaxReceive, Len(air)}) :
    LET frames == OfSize(SubSeq(air, 1, n), Receivable)
        queue == receiveQueue \o frames
        end == Process(queue)
        complete == IF end.multi = <<>> THEN <<>> ELSE Joined(end.multi)
    IN /\ air' = SubSeq(air, n + 1, Len(air))
       /\ IF queue = <<>> THEN UNCHANGED <<receiveQueue, received>>
          ELSE /\ received' = received \o end.calls \o complete
               /\ receiveQueue' = IF complete = <<>> THEN end.multi ELSE <<>>
       /\ UNCHANGED <<currPacket, transmitQueue, unfit, lost>>

RadioNext == TransmitMessage \/ TransmitPackets \/ Lose \/ ReceivePackets

RadioSpec == RadioInit /\ [][RadioNext]_radioVars

------------------------------------------------------------------------------
\* No byte of the message has to be escaped.
Plain(bytes) == Range(bytes) = {1}

\* The bytes that the packets of a callback hold.
Copied(packets) == Last(packets).from + Last(packets).size

\* The packets of a callback are those of one message, all of them and in order.
\* They hold it from its first byte on, and if no byte is escaped and no size of
\* 8 bits can come round, to its last, and perhaps some bytes of memory behind
\* it.  Otherwise the cuts are in the wrong places, and the end may be missing.
\* The callback is told the number of these bytes, as far as it fits 8 bits.
WholeMessage(packets) ==
  LET m == packets[1].message IN
  /\ \A p \in Range(packets) : p.message = m
  /\ Len(packets) = packets[1].count
  /\ packets[1].from = 0
  /\ \A i \in 1..Len(packets) - 1 :
       packets[i + 1].from = packets[i].from + packets[i].size
  /\ Plain(Bytes[m]) /\ 2 * Len(Bytes[m]) < SizeCount =>
       Copied(packets) >= Len(Bytes[m])
  /\ PayloadSize(packets) = Copied(packets) % SizeCount

\* They are of different messages that have got the same id.
Aliased(packets) ==
  /\ \E p, q \in Range(packets) : p.message # q.message
  /\ \A p, q \in Range(packets) : (p.message - q.message) % IdCount = 0

\* A message of one packet that overtook the packets of a longer one, which were
\* waiting under the same id.
Overtook(call, other) ==
  /\ Len(call) = 1 /\ Len(other) > 1
  /\ Aliased(other \o call)

\* What the callback gets is one message as it was sent, unless frames of
\* messages with the same 8-bit id have met, and it gets the messages in the
\* order they were sent in, with the same exception.  When no frame was lost or
\* has a wrong size, every message that is not on its way any more has come.
ReceivedAsSent ==
  /\ \A i \in DOMAIN received : WholeMessage(received[i]) \/ Aliased(received[i])
  /\ \A i, j \in DOMAIN received :
       i < j => \/ Last(received[i]).message < Last(received[j]).message
                \/ Overtook(received[i], received[j])
  /\ lost = 0 /\ unfit = {} =>
       \A m \in 1..currPacket :
         \/ \E i \in DOMAIN received : Last(received[i]).message = m
         \/ \E p \in Range(transmitQueue \o air \o receiveQueue) : p.message = m

\* "Work out the full message size" (XbeePacketNetwork.cpp:314): the callback is
\* told how many bytes the packets of its message hold.
FullMessageSize ==
  \A i \in DOMAIN received :
    WholeMessage(received[i]) => PayloadSize(received[i]) = Copied(received[i])
=============================================================================
