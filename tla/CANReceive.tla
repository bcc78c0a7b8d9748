----------------------------- MODULE CANReceive ------------------------------
(***************************************************************************)
(* The receiving half of CANService::run(): frames wait in the two receive *)
(* buffers of the MCP2515 controller, the driver picks one and reads it,   *)
(* and ParseFastPkg() puts the frames of NMEA 2000 fast packets together.  *)
(* The service polls: frames that find both buffers full are lost, and     *)
(* frames go on arriving between the driver's look at the status and its   *)
(* read of a buffer.                                                       *)
(*                                                                         *)
(* Of a frame the model keeps what the code looks at: the CAN identifier,  *)
(* the 3-bit sequence id of the packet (packet % Sequences), the number of *)
(* the frame in the packet and, in frame 0, the length.  Its payload is    *)
(* the packet it came from.                                                *)
(***************************************************************************)
EXTENDS Integers, Sequences, FiniteSets

CONSTANTS
  Ids,         \* CAN identifiers (priority, PGN and source) on the wire
  Fast,        \* those whose PGN is a fast packet (IsFastPackage)
  Registered,  \* those whose PGN has a receiver
  Sequences,   \* number of sequence ids: 8 in the code
  Lengths,     \* payload lengths of fast packets, in bytes
  MaxPackets,  \* bound: packets of each identifier
  None

\* A fast packet carries 6 bytes in frame 0 and 7 in each of up to 31 others.
ASSUME CANAssumption ==
  /\ Fast \subseteq Ids /\ Registered \subseteq Ids
  /\ Sequences \in Nat \ {0}
  /\ Lengths \subseteq 6..223
  /\ MaxPackets \in [Ids -> Nat]

VARIABLES
  device,     \* per identifier, the next frame its device will put on the wire
  arrived,    \* number of frames that were on the wire
  rx,         \* the controller's receive buffers
  pickFirst,  \* PickFirst
  pc,         \* "check", or the buffer MCP2515_GetMessage() is going to read
  packages,   \* FastPackages
  read,       \* history: the frames, as they were read
  lost,       \* history: the frames that found both buffers full
  delivered   \* history: the messages given to processPGN(), and when

vars == <<device, arrived, rx, pickFirst, pc, packages, read, lost, delivered>>

------------------------------------------------------------------------------
Buffers == {"RXB0", "RXB1"}

\* A packet that is not fast is a single frame of 8 bytes.
LengthsOf(id) == IF id \in Fast THEN Lengths ELSE {8}
FramesOf(id, len) == IF id \in Fast THEN 1 + (len \div 7) ELSE 1

\* The key without the sequence id.
KeyOfId(f) == <<f.id, 0>>

\* msg.id and data[0] & 0xE0.
Key(f) == <<f.id, f.packet % Sequences>>

Init ==
  /\ device \in [Ids -> [packet : {1}, no : {0}, len : 6..223]]
  /\ \A id \in Ids : device[id].len \in LengthsOf(id)
  /\ arrived = 0
  /\ rx = [b \in Buffers |-> None]
  /\ pickFirst = TRUE
  /\ pc = "check"
  /\ packages = [k \in {} |-> None]
  /\ read = <<>>
  /\ lost = {}
  /\ delivered = <<>>

------------------------------------------------------------------------------
\* A device sends the frames of a packet in order.  The controller stores a
\* frame in RXB0, rolls over to RXB1, or drops it.
Advance(id) ==
  LET now == device[id] IN
  IF now.no + 1 < FramesOf(id, now.len)
  THEN device' = [device EXCEPT ![id].no = @ + 1]
  ELSE \E len \in LengthsOf(id) :
         device' = [device EXCEPT ![id] = [packet |-> now.packet + 1, no |-> 0, len |-> len]]

Accept(f) ==
  IF rx["RXB0"] = None THEN rx' = [rx EXCEPT !["RXB0"] = f] /\ UNCHANGED lost
  ELSE IF rx["RXB1"] = None THEN rx' = [rx EXCEPT !["RXB1"] = f] /\ UNCHANGED lost
  ELSE lost' = lost \cup {f} /\ UNCHANGED rx

Arrive(id) ==
  /\ device[id].packet <= MaxPackets[id]
  /\ Advance(id)
  /\ arrived' = arrived + 1
  /\ Accept([id |-> id, packet |-> device[id].packet, no |-> device[id].no,
             len |-> device[id].len, at |-> arrived + 1])
  /\ UNCHANGED <<pickFirst, pc, packages, read, delivered>>

------------------------------------------------------------------------------
\* MCP2515_CheckMessage(): the status is read here, the buffer later.
Full == {b \in Buffers : rx[b] # None}

\* Both full: always the first buffer.
CheckBothFirst ==
  /\ pc = "check"
  /\ Full = Buffers
  /\ pc' = "RXB0"
  /\ pickFirst' = FALSE
  /\ UNCHANGED <<device, arrived, rx, packages, read, lost, delivered>>

CheckBoth ==
  /\ pc = "check"
  /\ Full = Buffers
  /\ pc' = IF pickFirst THEN "RXB0" ELSE "RXB1"
  /\ pickFirst' = ~pickFirst
  /\ UNCHANGED <<device, arrived, rx, packages, read, lost, delivered>>

CheckOne ==
  /\ pc = "check"
  /\ \E b \in Buffers : Full = {b} /\ pc' = b
  /\ pickFirst' = TRUE
  /\ UNCHANGED <<device, arrived, rx, packages, read, lost, delivered>>

------------------------------------------------------------------------------
\* MCP2515_GetMessage() reads and frees the buffer; run() then treats the
\* frame, in one of the ways below.
frame == rx[pc]

GetMessage ==
  /\ pc \in Buffers
  /\ rx' = [rx EXCEPT ![pc] = None]
  /\ read' = Append(read, frame)
  /\ pc' = "check"
  /\ UNCHANGED <<device, arrived, pickFirst, lost>>

\* parts: for each frame number, the packet whose bytes are in that place.
Hand(parts) ==
  delivered' = IF frame.id \in Registered
               THEN Append(delivered, [id |-> frame.id, at |-> Len(read) + 1, parts |-> parts])
               ELSE delivered

Store(entry) ==
  packages' = [k \in DOMAIN packages \cup {Key(frame)} |->
                 IF k = Key(frame) THEN entry ELSE packages[k]]

Erase == packages' = [k \in DOMAIN packages \ {Key(frame)} |-> packages[k]]

\* Not a fast packet: CanMsgToN2kMsg().
Single ==
  /\ GetMessage
  /\ frame.id \notin Fast
  /\ Hand([n \in {0} |-> frame.packet])
  /\ UNCHANGED packages

\* Frame 0 of a packet that fits in it.
Short ==
  /\ GetMessage
  /\ frame.id \in Fast /\ frame.no = 0 /\ frame.len <= 6
  /\ Hand([n \in {0} |-> frame.packet])
  /\ UNCHANGED packages

\* Frame 0 of a packet whose key is there already adds nothing.
OpenOnce ==
  /\ GetMessage
  /\ frame.id \in Fast /\ frame.no = 0 /\ frame.len > 6
  /\ IF Key(frame) \in DOMAIN packages THEN UNCHANGED packages
     ELSE Store([bytesLeft |-> frame.len - 6, latest |-> 0,
                 parts |-> [n \in {0} |-> frame.packet]])
  /\ UNCHANGED delivered

\* Frame 0 of a longer packet: whatever was there under its key is replaced.
Open ==
  /\ GetMessage
  /\ frame.id \in Fast /\ frame.no = 0 /\ frame.len > 6
  /\ Store([bytesLeft |-> frame.len - 6, latest |-> 0, parts |-> [n \in {0} |-> frame.packet]])
  /\ UNCHANGED delivered

\* A later frame of a packet whose first frame is not there.
Orphan ==
  /\ GetMessage
  /\ frame.id \in Fast /\ frame.no # 0
  /\ Key(frame) \notin DOMAIN packages
  /\ UNCHANGED <<packages, delivered>>

Expected == Key(frame) \in DOMAIN packages /\ packages[Key(frame)].latest + 1 = frame.no

\* "Messages received in wrong order, remove the key entirely".
OutOfOrder ==
  /\ GetMessage
  /\ frame.id \in Fast /\ frame.no # 0
  /\ Key(frame) \in DOMAIN packages
  /\ packages[Key(frame)].latest + 1 # frame.no
  /\ Erase
  /\ UNCHANGED delivered

Filled ==
  LET parts == packages[Key(frame)].parts IN
  [n \in DOMAIN parts \cup {frame.no} |-> IF n = frame.no THEN frame.packet ELSE parts[n]]

Continue ==
  /\ GetMessage
  /\ frame.id \in Fast /\ frame.no # 0
  /\ Expected
  /\ packages[Key(frame)].bytesLeft > 7
  /\ Store([bytesLeft |-> packages[Key(frame)].bytesLeft - 7, latest |-> frame.no,
            parts |-> Filled])
  /\ UNCHANGED delivered

\* The entry of a message that was handed over stays.
CompleteAndKeep ==
  /\ GetMessage
  /\ frame.id \in Fast /\ frame.no # 0
  /\ Expected
  /\ packages[Key(frame)].bytesLeft <= 7
  /\ Hand(Filled)
  /\ Store([bytesLeft |-> packages[Key(frame)].bytesLeft - 7, latest |-> frame.no,
            parts |-> Filled])

\* A full frame of 8 bytes is taken for 8 bytes of payload.
CompleteEarly ==
  /\ GetMessage
  /\ frame.id \in Fast /\ frame.no # 0
  /\ Expected
  /\ packages[Key(frame)].bytesLeft <= 8
  /\ Hand(Filled)
  /\ Erase

\* The last bytes: the message goes to its receiver, the entry is erased.
Complete ==
  /\ GetMessage
  /\ frame.id \in Fast /\ frame.no # 0
  /\ Expected
  /\ packages[Key(frame)].bytesLeft <= 7
  /\ Hand(Filled)
  /\ Erase

------------------------------------------------------------------------------
Next ==
  \/ \E id \in Ids : Arrive(id)
  \/ CheckBoth \/ CheckOne
  \/ Single \/ Short \/ Open \/ Orphan \/ OutOfOrder \/ Continue \/ Complete

Spec == Init /\ [][Next]_vars

------------------------------------------------------------------------------
Frames ==
  [id : Ids, packet : Nat \ {0}, no : 0..31, len : 6..223, at : Nat \ {0}]

\* A buffer that holds a frame is not empty.
ASSUME NoneIsNoFrame == None \notin Frames

\* The entries of FastPackages wait for at least one more byte, and hold the
\* frames up to the latest one.
TypeOK ==
  /\ device \in [Ids -> [packet : Nat \ {0}, no : 0..31, len : 6..223]]
  /\ arrived \in Nat
  /\ rx \in [Buffers -> Frames \cup {None}]
  /\ pickFirst \in BOOLEAN
  /\ pc \in {"check"} \cup Buffers
  /\ pc \in Buffers => rx[pc] # None
  /\ read \in Seq(Frames)
  /\ lost \subseteq Frames
  /\ DOMAIN packages \subseteq Fast \X (0..(Sequences - 1))
  /\ \A k \in DOMAIN packages :
       /\ packages[k].bytesLeft \in 1..217
       /\ packages[k].latest \in 0..31
       /\ DOMAIN packages[k].parts = 0..packages[k].latest

\* What ParseFastPkg() should deliver, stated over all that was read: the
\* frames m..n of one key that are numbered from 0 without a gap and are as
\* many as frame m announces.
Multi(f) == f.id \in Fast /\ ~(f.no = 0 /\ f.len <= 6)

Run(m, n) == {i \in m..n : Multi(read[i]) /\ Key(read[i]) = Key(read[n])}

IsPacket(m, n) ==
  /\ {m, n} \subseteq Run(m, n)
  /\ Cardinality(Run(m, n)) = FramesOf(read[m].id, read[m].len)
  /\ \A i \in Run(m, n) : read[i].no = Cardinality({j \in Run(m, n) : j < i})

Packet(m, n) ==
  [k \in 0..read[n].no |-> read[CHOOSE i \in Run(m, n) : read[i].no = k].packet]

\* At most one message is due at the n-th frame.
DueAt(n) ==
  IF read[n].id \notin Registered THEN {}
  ELSE IF Multi(read[n])
  THEN {[id |-> read[n].id, at |-> n, parts |-> Packet(m, n)] :
          m \in {i \in 1..(n - 1) : IsPacket(i, n)}}
  ELSE {[id |-> read[n].id, at |-> n, parts |-> [k \in {0} |-> read[n].packet]]}

Handed == {delivered[i] : i \in DOMAIN delivered}

\* ParseFastPkg() keeps one entry per key, erases it on a surprise and forgets
\* the rest; it still hands over exactly the gapless packets among the frames
\* read, at their last frame (CANService.cpp:170-232).  Stated for the frame
\* read last: the histories only grow.
DeliversPackets ==
  read # <<>> => {d \in Handed : d.at = Len(read)} = DueAt(Len(read))

\* Frame f of the same identifier came later than g and was read before it.
Overtook(f, g) ==
  /\ f.id = g.id /\ f.at > g.at
  /\ \E i \in DOMAIN read :
       /\ read[i] = f
       /\ \/ \E b \in Buffers : rx[b] = g
          \/ \E j \in DOMAIN read : i < j /\ read[j] = g

Seen == {read[i] : i \in DOMAIN read} \cup {rx[b] : b \in Full}

\* A frame of the packet was lost, or changed places with another one.
Disturbed(id, p) ==
  \/ \E f \in lost : f.id = id /\ f.packet = p
  \/ \E f, g \in Seen : Overtook(f, g) /\ f.id = id /\ p \in {f.packet, g.packet}

\* A message can be made of the frames of two packets, because sequence ids
\* are used again: never of two that follow each other, and only when
\* each of the packets was damaged on its way.
MixedOnlyByFaults ==
  \A d \in Handed : \A a, b \in DOMAIN d.parts :
    d.parts[a] # d.parts[b] =>
      /\ Disturbed(d.id, d.parts[a]) /\ Disturbed(d.id, d.parts[b])
      /\ d.parts[a] % Sequences = d.parts[b] % Sequences

\* A packet that came through undamaged reaches its receiver, whatever became
\* of the packets before it, half received ones included.
UndamagedDelivered ==
  \A id \in Registered : \A p \in 1..(device[id].packet - 1) :
    \/ \E d \in Handed : d.id = id /\ \A k \in DOMAIN d.parts : d.parts[k] = p
    \/ \E b \in Full : rx[b].id = id /\ rx[b].packet = p
    \/ Disturbed(id, p)

Later(f) == {i \in DOMAIN read : read[i].at > f.at}

\* PickFirst alternates between the buffers (mcp2515.cpp:114-139), so that one
\* later frame at most is read before a frame that waits, although the status
\* and the buffer are read at different times.
NoFrameStarves == \A b \in Full : Cardinality(Later(rx[b])) <= 1

==============================================================================
