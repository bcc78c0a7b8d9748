-------------------------- MODULE CANReceiveProofs ---------------------------
(***************************************************************************)
(* Type correctness of CANReceive, the order in which the driver empties   *)
(* the receive buffers, what CANService hands over compared with all       *)
(* frames it has read, that a packet whose frames all came through is      *)
(* handed over whole, and that frames of two packets are mixed only when   *)
(* each lost a frame or had two change places: for every set of            *)
(* identifiers, number of sequence ids and set of lengths.                 *)
(***************************************************************************)
EXTENDS CANReceive, FiniteSetTheorems, TLAPS

\* The number of frames of a packet fits the 5 bits of the frame number.
LEMMA FrameCount ==
  ASSUME NEW id \in Ids, NEW len \in LengthsOf(id)
  PROVE  /\ len \in 6..223
         /\ FramesOf(id, len) \in 1..32
<1>1. len \in 6..223
  BY CANAssumption DEF LengthsOf
<1>2. (len \div 7) \in 0..31
  BY <1>1
<1> QED
  BY <1>1, <1>2 DEF FramesOf

\* Devices stay within the packets they announce.
Device ==
  \A id \in Ids : /\ device[id].len \in LengthsOf(id)
                  /\ device[id].no < FramesOf(id, device[id].len)

IInv == TypeOK /\ Device

\* No frame has come, nothing has been stored.
LEMMA InitEstablishes == Init => IInv
<1> SUFFICES ASSUME Init PROVE IInv
  OBVIOUS
<1>1. Device
  <2> SUFFICES ASSUME NEW id \in Ids
               PROVE  device[id].len \in LengthsOf(id) /\ device[id].no < FramesOf(id, device[id].len)
    BY DEF Device
  <2>1. device[id].len \in LengthsOf(id) /\ device[id].no = 0
    BY DEF Init
  <2> QED
    BY <2>1, FrameCount
<1>2. device \in [Ids -> [packet : Nat \ {0}, no : 0..31, len : 6..223]]
  BY DEF Init
<1>3. read \in Seq(Frames)
  BY DEF Init
<1> QED
  BY <1>1, <1>2, <1>3 DEF Init, IInv, TypeOK, Buffers

\* A device sends the frames of its packets one after the other.
LEMMA ArriveKeeps == ASSUME IInv, NEW id \in Ids, Arrive(id) PROVE IInv'
<1> DEFINE f == [id |-> id, packet |-> device[id].packet, no |-> device[id].no,
                 len |-> device[id].len, at |-> arrived + 1]
<1>1. f \in Frames
  BY DEF IInv, TypeOK, Frames
<1> DEFINE Steps == [packet : Nat \ {0}, no : 0..31, len : 6..223]
           Announced(i, d) == d.len \in LengthsOf(i) /\ d.no < FramesOf(i, d.len)
<1>2. PICK next \in Steps : /\ Announced(id, next)
                           /\ device' = [device EXCEPT ![id] = next]
  <2>1. device[id] \in Steps
    BY DEF IInv, TypeOK
  <2>2. Announced(id, device[id])
    BY DEF IInv, Device
  <2>3. FramesOf(id, device[id].len) \in 1..32
    BY <2>2, FrameCount
  <2>4. CASE device[id].no + 1 < FramesOf(id, device[id].len)
    <3> DEFINE more == [packet |-> device[id].packet, no |-> device[id].no + 1,
                        len |-> device[id].len]
    <3>1. device' = [device EXCEPT ![id].no = @ + 1]
      BY <2>4 DEF Arrive, Advance
    <3>2. [device[id] EXCEPT !.no = device[id].no + 1] = more
      BY <2>1
    <3>3. device' = [device EXCEPT ![id] = more]
      BY <3>1, <3>2
    <3>4. device[id].no + 1 \in 0..31
      BY <2>1, <2>3, <2>4
    <3>5. more \in Steps /\ Announced(id, more)
      BY <2>1, <2>2, <2>4, <3>4
    <3> QED
      BY <3>3, <3>5
  <2>5. CASE ~(device[id].no + 1 < FramesOf(id, device[id].len))
    <3>1. PICK len \in LengthsOf(id) :
            device' = [device EXCEPT ![id] = [packet |-> device[id].packet + 1, no |-> 0,
                                              len |-> len]]
      BY <2>5 DEF Arrive, Advance
    <3> DEFINE fresh == [packet |-> device[id].packet + 1, no |-> 0, len |-> len]
    <3>2. len \in 6..223 /\ 0 < FramesOf(id, len)
      BY FrameCount
    <3>3. fresh \in Steps
      BY <2>1, <3>2
    <3>4. Announced(id, fresh)
      BY <3>2
    <3> QED
      BY <3>1, <3>3, <3>4
  <2> QED
    BY <2>4, <2>5
<1>6. device' \in [Ids -> Steps]
  BY <1>2 DEF IInv, TypeOK
<1>7. \A i \in Ids : Announced(i, device'[i])
  BY <1>2 DEF IInv, TypeOK, Device
<1>8. Device'
  BY <1>7 DEF Device, LengthsOf, FramesOf
<1>3. /\ rx' \in [Buffers -> Frames \cup {None}]
      /\ lost' \subseteq Frames
      /\ \A b \in Buffers : rx[b] # None => rx'[b] = rx[b]
  <2>1. Accept(f)
    BY DEF Arrive
  <2> HIDE DEF f
  <2> QED
    BY <1>1, <2>1 DEF Accept, IInv, TypeOK, Buffers
<1>4. arrived' \in Nat
  BY DEF Arrive, IInv, TypeOK
<1>5. UNCHANGED <<pickFirst, pc, packages, read>>
  BY DEF Arrive
<1> QED
  BY <1>3, <1>4, <1>5, <1>6, <1>8 DEF IInv, TypeOK

\* A look at the controller only decides which buffer is read next.
LEMMA CheckKeeps == ASSUME IInv, CheckBoth \/ CheckOne PROVE IInv'
<1>1. /\ pc' \in Buffers /\ rx[pc'] # None
      /\ pickFirst' \in BOOLEAN
  BY DEF CheckBoth, CheckOne, Full, Buffers, IInv, TypeOK
<1>2. UNCHANGED <<device, arrived, rx, packages, read, lost, delivered>>
  BY DEF CheckBoth, CheckOne
<1> QED
  BY <1>1, <1>2 DEF IInv, TypeOK, Device, Frames, FramesOf, LengthsOf

\* What every way to treat a frame has in common.
LEMMA GetMessageKeeps ==
  ASSUME IInv, GetMessage
  PROVE  /\ frame \in Frames
         /\ Key(frame) \in Ids \X (0..(Sequences - 1))
         /\ device' \in [Ids -> [packet : Nat \ {0}, no : 0..31, len : 6..223]]
         /\ Device'
         /\ arrived' \in Nat
         /\ rx' \in [Buffers -> Frames \cup {None}]
         /\ pickFirst' \in BOOLEAN
         /\ pc' = "check"
         /\ read' \in Seq(Frames)
         /\ lost' \subseteq Frames
<1>1. frame \in Frames
  BY DEF GetMessage, IInv, TypeOK, frame
<1>2. (frame.packet % Sequences) \in 0..(Sequences - 1) /\ frame.id \in Ids
  BY <1>1, CANAssumption DEF Frames
<1>3. Key(frame) \in Ids \X (0..(Sequences - 1))
  BY <1>2 DEF Key
<1>4. read' \in Seq(Frames)
  BY <1>1 DEF GetMessage, IInv, TypeOK
<1> QED
  BY <1>1, <1>3, <1>4 DEF GetMessage, IInv, TypeOK, Device, FramesOf, LengthsOf

\* The part of TypeOK that is about FastPackages.
Entries(map) ==
  /\ DOMAIN map \subseteq Fast \X (0..(Sequences - 1))
  /\ \A k \in DOMAIN map :
       /\ map[k].bytesLeft \in 1..217
       /\ map[k].latest \in 0..31
       /\ DOMAIN map[k].parts = 0..map[k].latest

\* Storing a frame that fits an entry keeps the entries well formed.
LEMMA StoreKeeps ==
  ASSUME Entries(packages), NEW entry, Store(entry),
         Key(frame) \in Fast \X (0..(Sequences - 1)),
         entry.bytesLeft \in 1..217, entry.latest \in 0..31,
         DOMAIN entry.parts = 0..entry.latest
  PROVE  Entries(packages')
BY DEF Entries, Store

\* Erasing an entry keeps the others well formed.
LEMMA EraseKeeps == ASSUME Entries(packages), Erase PROVE Entries(packages')
BY DEF Entries, Erase

\* The ways to treat a frame differ in what they do to FastPackages only.
LEMMA TreatmentKeeps ==
  ASSUME IInv, GetMessage, Entries(packages') PROVE IInv'
BY GetMessageKeeps DEF IInv, TypeOK, Entries, Buffers

\* A frame is taken from its buffer without touching the entries.
LEMMA PassOnKeeps ==
  ASSUME IInv, GetMessage, UNCHANGED packages PROVE IInv'
<1>1. Entries(packages')
  BY DEF IInv, TypeOK, Entries
<1> QED
  BY <1>1, TreatmentKeeps

\* A first frame opens an entry of its own.
LEMMA OpenKeeps == ASSUME IInv, Open PROVE IInv'
<1>1. GetMessage /\ frame.id \in Fast /\ frame.len > 6
  BY DEF Open
<1>2. frame.len \in 6..223 /\ Key(frame) \in Fast \X (0..(Sequences - 1))
  BY <1>1, GetMessageKeeps DEF Frames, Key
<1> DEFINE entry == [bytesLeft |-> frame.len - 6, latest |-> 0,
                     parts |-> [n \in {0} |-> frame.packet]]
<1>3. Store(entry)
  BY DEF Open
<1>4. /\ entry.bytesLeft \in 1..217 /\ entry.latest \in 0..31
      /\ DOMAIN entry.parts = 0..entry.latest
  BY <1>1, <1>2
<1>5. Entries(packages)
  BY DEF IInv, TypeOK, Entries
<1>6. Entries(packages')
  <2> HIDE DEF entry
  <2> QED
    BY <1>2, <1>3, <1>4, <1>5, StoreKeeps
<1> QED
  BY <1>1, <1>6, TreatmentKeeps

\* An entry ends complete or because of a frame out of order.
LEMMA EndOfEntryKeeps == ASSUME IInv, OutOfOrder \/ Complete PROVE IInv'
<1>1. GetMessage /\ Erase
  BY DEF OutOfOrder, Complete
<1>2. Entries(packages)
  BY DEF IInv, TypeOK, Entries
<1> QED
  BY <1>1, <1>2, EraseKeeps, TreatmentKeeps

\* The next frame of an entry is appended to it.
LEMMA ContinueKeeps == ASSUME IInv, Continue PROVE IInv'
<1> DEFINE old == packages[Key(frame)]
           entry == [bytesLeft |-> old.bytesLeft - 7, latest |-> frame.no, parts |-> Filled]
<1>1. /\ GetMessage /\ frame.id \in Fast /\ Store(entry)
      /\ Key(frame) \in DOMAIN packages
      /\ old.latest + 1 = frame.no /\ old.bytesLeft > 7
  BY DEF Continue, Expected
<1>2. frame.no \in 0..31
  BY <1>1, GetMessageKeeps DEF Frames
<1>3. Entries(packages)
  BY DEF IInv, TypeOK, Entries
<1>4. /\ Key(frame) \in Fast \X (0..(Sequences - 1))
      /\ old.bytesLeft \in 1..217 /\ old.latest \in 0..31
      /\ DOMAIN old.parts = 0..old.latest
  BY <1>1, <1>3 DEF Entries
<1>5. DOMAIN Filled = DOMAIN old.parts \cup {frame.no}
  BY DEF Filled
<1>6. DOMAIN Filled = 0..frame.no
  <2>1. \A l \in 0..31 : l + 1 = frame.no => (0..l) \cup {frame.no} = 0..frame.no
    BY <1>2
  <2> HIDE DEF old
  <2> QED
    BY <1>1, <1>4, <1>5, <2>1
<1>7. /\ entry.bytesLeft \in 1..217 /\ entry.latest \in 0..31
      /\ DOMAIN entry.parts = 0..entry.latest
  <2>1. \A b \in 1..217 : b > 7 => b - 7 \in 1..217
    OBVIOUS
  <2>2. /\ entry.bytesLeft = old.bytesLeft - 7
        /\ entry.latest = frame.no /\ entry.parts = Filled
    OBVIOUS
  <2>3. old.bytesLeft - 7 \in 1..217
    BY <1>1, <1>4, <2>1
  <2> HIDE DEF old, entry
  <2>4. entry.bytesLeft \in 1..217
    BY <2>2, <2>3
  <2>5. entry.latest \in 0..31 /\ DOMAIN entry.parts = 0..entry.latest
    BY <1>2, <1>6, <2>2
  <2> QED
    BY <2>4, <2>5
<1>8. Entries(packages')
  <2> HIDE DEF entry
  <2> QED
    BY <1>1, <1>3, <1>4, <1>7, StoreKeeps
<1> QED
  BY <1>1, <1>8, TreatmentKeeps

\* Every step keeps the invariant.
LEMMA NextKeeps == IInv /\ [Next]_vars => IInv'
<1> SUFFICES ASSUME IInv, [Next]_vars PROVE IInv'
  OBVIOUS
<1>1. CASE \E id \in Ids : Arrive(id)
  BY <1>1, ArriveKeeps
<1>2. CASE CheckBoth \/ CheckOne
  BY <1>2, CheckKeeps
<1>3. CASE Single \/ Short \/ Orphan
  BY <1>3, PassOnKeeps DEF Single, Short, Orphan
<1>4. CASE Open
  BY <1>4, OpenKeeps
<1>5. CASE OutOfOrder \/ Complete
  BY <1>5, EndOfEntryKeeps
<1>6. CASE Continue
  BY <1>6, ContinueKeeps
<1>7. CASE UNCHANGED vars
  BY <1>7 DEF vars, IInv, TypeOK, Device, Frames, FramesOf, LengthsOf
<1> QED
  BY <1>1, <1>2, <1>3, <1>4, <1>5, <1>6, <1>7 DEF Next

\* Type correctness: in particular the driver never reads an empty buffer, and
\* an entry of FastPackages has bytes to wait for and no gap in what it holds.
THEOREM CANTypeCorrect == Spec => []TypeOK
<1>1. IInv => TypeOK
  BY DEF IInv
<1> QED
  BY <1>1, InitEstablishes, NextKeeps, PTL DEF Spec

------------------------------------------------------------------------------
(***************************************************************************)
(* No frame starves.  Only a frame in RXB1 is ever overtaken, and only     *)
(* while PickFirst is TRUE; from then on PickFirst is FALSE until RXB1 has *)
(* been read.                                                              *)
(***************************************************************************)
first == rx["RXB0"]
second == rx["RXB1"]

\* RXB1, if it is full, holds the newer frame; RXB0 does.
SecondNewer == second # None => first.at < second.at
FirstNewer == first # None => second.at < first.at

Numbered ==
  /\ \A i \in DOMAIN read : read[i].at <= arrived
  /\ first # None => first.at <= arrived
  /\ second # None => second.at <= arrived

Untouched(f) == f # None => Later(f) = {}

Driver ==
  /\ pc = "RXB1" => pickFirst /\ FirstNewer
  /\ pc = "RXB0" => Untouched(second) /\ (IF pickFirst THEN SecondNewer ELSE second # None)
  /\ pc = "check" => IF pickFirst THEN Untouched(second) ELSE second # None /\ FirstNewer

OnceOvertaken == second # None => \E i \in Nat : Later(second) \subseteq {i}

Chip == Numbered /\ Untouched(first) /\ Driver /\ OnceOvertaken
\* The controller starts empty.
LEMMA InitChip == Init => Chip
BY DEF Init, Chip, Numbered, Untouched, Driver, OnceOvertaken, first, second, Buffers

\* The choice of a buffer keeps the order of the frames in them.
LEMMA CheckChip == ASSUME IInv, Chip, CheckBoth \/ CheckOne PROVE Chip'
<1>1. UNCHANGED <<rx, read, arrived>> /\ pc = "check"
  BY DEF CheckBoth, CheckOne
<1>2. Numbered' /\ Untouched(first)' /\ OnceOvertaken'
  BY <1>1 DEF Chip, Numbered, Untouched, OnceOvertaken, first, second, Later
<1>3. IF pickFirst THEN Untouched(second) ELSE second # None /\ FirstNewer
  BY <1>1 DEF Chip, Driver
<1>4. CASE CheckBoth
  <2>1. first # None /\ second # None
    BY <1>4 DEF CheckBoth, Full, Buffers, first, second
  <2>2. CASE pickFirst
    <3>1. pc' = "RXB0" /\ pickFirst' = FALSE
      BY <1>4, <2>2 DEF CheckBoth
    <3> QED
      BY <1>1, <1>2, <1>3, <2>1, <2>2, <3>1 DEF Chip, Driver, Untouched, Later, first, second
  <2>3. CASE ~pickFirst
    <3>1. pc' = "RXB1" /\ pickFirst' = TRUE
      BY <1>4, <2>3 DEF CheckBoth, IInv, TypeOK
    <3> QED
      BY <1>1, <1>2, <1>3, <2>3, <3>1 DEF Chip, Driver, FirstNewer, first, second
  <2> QED
    BY <2>2, <2>3
<1>5. CASE CheckOne
  <2>1. PICK b \in Buffers : Full = {b} /\ pc' = b
    BY <1>5 DEF CheckOne
  <2>2. pickFirst' = TRUE
    BY <1>5 DEF CheckOne
  <2>3. CASE b = "RXB0"
    <3>1. second = None
      BY <2>1, <2>3 DEF Full, Buffers, second
    <3> QED
      BY <1>1, <1>2, <2>1, <2>2, <2>3, <3>1 DEF Chip, Driver, Untouched, SecondNewer, second
  <2>4. CASE b = "RXB1"
    <3>1. first = None
      BY <2>1, <2>4 DEF Full, Buffers, first
    <3> QED
      BY <1>1, <1>2, <2>1, <2>2, <2>4, <3>1 DEF Chip, Driver, FirstNewer, first
  <2> QED
    BY <2>3, <2>4 DEF Buffers
<1> QED
  BY <1>4, <1>5

\* A frame that arrives is newer than all others.
LEMMA ArriveChip == ASSUME IInv, Chip, NEW id \in Ids, Arrive(id) PROVE Chip'
<1> DEFINE f == [id |-> id, packet |-> device[id].packet, no |-> device[id].no,
                 len |-> device[id].len, at |-> arrived + 1]
<1>1. UNCHANGED <<read, pc, pickFirst>> /\ arrived' = arrived + 1 /\ arrived \in Nat
  BY DEF Arrive, IInv, TypeOK
<1>2. f.at = arrived + 1
  OBVIOUS
<1>3. \/ first = None /\ first' = f /\ second' = second
      \/ first # None /\ first' = first /\ second = None /\ second' = f
      \/ first' = first /\ second' = second
  <2>1. Accept(f)
    BY DEF Arrive
  <2> HIDE DEF f
  <2> QED
    BY <2>1 DEF Accept, first, second, IInv, TypeOK, Buffers
<1>4. \A i \in DOMAIN read : read[i].at \in Nat /\ read[i].at <= arrived
  <2>1. \A i \in DOMAIN read : read[i] \in Frames
    BY DEF IInv, TypeOK
  <2> QED
    BY <2>1 DEF Frames, Chip, Numbered
<1>5. /\ first # None => first.at \in Nat /\ first.at <= arrived
      /\ second # None => second.at \in Nat /\ second.at <= arrived
  BY DEF IInv, TypeOK, Frames, Chip, Numbered, Buffers, first, second
<1> HIDE DEF f
<1>6. Numbered'
  BY <1>1, <1>2, <1>3, <1>4, <1>5 DEF Numbered
<1>7. Later(f) = {}
  BY <1>1, <1>2, <1>4 DEF Later
<1>8. \A x : Later(x) = {i \in DOMAIN read' : read'[i].at > x.at}
  BY <1>1 DEF Later
<1>9. Untouched(first)' /\ OnceOvertaken' /\ (Untouched(second) => Untouched(second)')
  BY <1>3, <1>7, <1>8 DEF Chip, Untouched, OnceOvertaken, Later
<1>10. /\ FirstNewer /\ second # None => FirstNewer'
       /\ SecondNewer /\ first # None => SecondNewer'
  BY <1>1, <1>2, <1>3, <1>5 DEF FirstNewer, SecondNewer
<1>11. /\ pc = "RXB0" => first # None
       /\ pc = "RXB1" => second # None
  BY DEF IInv, TypeOK, Buffers, first, second
<1>12. second # None => second' # None
  BY <1>3
<1>13. Driver'
  BY <1>1, <1>9, <1>10, <1>11, <1>12 DEF Chip, Driver
<1> QED
  BY <1>6, <1>9, <1>13 DEF Chip
\* A frame in RXB1 is overtaken by the one that is read from RXB0 just now.
LEMMA ReadChip == ASSUME IInv, Chip, GetMessage PROVE Chip'
<1>1. /\ read' = Append(read, frame) /\ frame \in Frames /\ frame = rx[pc]
      /\ UNCHANGED <<arrived, pickFirst>> /\ pc' = "check" /\ pc \in Buffers
  BY GetMessageKeeps DEF GetMessage, frame
<1>2. /\ read \in Seq(Frames) /\ arrived \in Nat /\ pickFirst \in BOOLEAN
      /\ rx[pc] # None /\ rx \in [Buffers -> Frames \cup {None}]
  BY <1>1 DEF IInv, TypeOK
<1>3. /\ Len(read) \in Nat /\ DOMAIN read' = DOMAIN read \cup {Len(read) + 1}
      /\ \A i \in DOMAIN read : read'[i] = read[i] /\ i # Len(read) + 1
      /\ read'[Len(read) + 1] = frame
  BY <1>1, <1>2
<1> DEFINE after(x) == {i \in DOMAIN read' : read'[i].at > x.at}
<1>4. \A x : after(x) = IF frame.at > x.at THEN Later(x) \cup {Len(read) + 1} ELSE Later(x)
  BY <1>3 DEF Later
<1>5. /\ Later(first)' = after(first') /\ Later(second)' = after(second')
  BY DEF Later
<1>6. frame.at <= arrived
  BY <1>1, <1>2 DEF Chip, Numbered, Buffers, first, second
<1>7. CASE pc = "RXB0"
  <2>1. frame = first /\ first # None /\ first' = None /\ second' = second
    BY <1>1, <1>2, <1>7 DEF GetMessage, first, second, Buffers
  <2>2. Numbered'
    BY <1>1, <1>3, <1>6, <2>1 DEF Chip, Numbered
  <2>3. Later(second)' = after(second)
    BY <1>5, <2>1
  <2>4. Untouched(second) /\ (IF pickFirst THEN SecondNewer ELSE second # None)
    BY <1>7 DEF Chip, Driver
  <2>5. CASE pickFirst
    <3>1. second # None => ~(frame.at > second.at)
      <4>1. second # None => first.at < second.at /\ first.at \in Nat /\ second.at \in Nat
        BY <1>2, <2>1, <2>4, <2>5 DEF SecondNewer, Frames, Buffers, first, second
      <4> QED
        BY <2>1, <4>1
    <3>2. second # None => Later(second)' = {}
      BY <1>4, <2>3, <2>4, <3>1 DEF Untouched
    <3>3. Untouched(second)'
      BY <2>1, <3>2 DEF Untouched
    <3> QED
      BY <1>1, <2>1, <2>2, <2>5, <3>2, <3>3 DEF Chip, Driver, Untouched, OnceOvertaken
  <2>6. CASE ~pickFirst
    <3>1. second # None => Later(second)' \subseteq {Len(read) + 1}
      BY <1>4, <2>3, <2>4 DEF Untouched
    <3> QED
      BY <1>1, <1>3, <2>1, <2>2, <2>4, <2>6, <3>1
         DEF Chip, Driver, Untouched, OnceOvertaken, FirstNewer
  <2> QED
    BY <2>5, <2>6
<1>8. CASE pc = "RXB1"
  <2>1. frame = second /\ second # None /\ second' = None /\ first' = first
    BY <1>1, <1>2, <1>8 DEF GetMessage, first, second, Buffers
  <2>2. Numbered'
    BY <1>1, <1>3, <1>6, <2>1 DEF Chip, Numbered
  <2>3. first # None => ~(frame.at > first.at)
    <3>1. first # None => second.at < first.at /\ first.at \in Nat /\ second.at \in Nat
      BY <1>2, <1>8, <2>1 DEF Chip, Driver, FirstNewer, Frames, Buffers, first, second
    <3> QED
      BY <2>1, <3>1
  <2>4. Untouched(first)'
    BY <1>4, <1>5, <2>1, <2>3 DEF Chip, Untouched
  <2>5. pickFirst
    BY <1>8 DEF Chip, Driver
  <2> QED
    BY <1>1, <2>1, <2>2, <2>4, <2>5 DEF Chip, Driver, Untouched, OnceOvertaken
<1> QED
  BY <1>1, <1>7, <1>8 DEF Buffers

\* Every step keeps what holds of the controller.
LEMMA NextChip == IInv /\ Chip /\ [Next]_vars => Chip'
<1> SUFFICES ASSUME IInv, Chip, [Next]_vars PROVE Chip'
  OBVIOUS
<1>1. CASE \E id \in Ids : Arrive(id)
  BY <1>1, ArriveChip
<1>2. CASE CheckBoth \/ CheckOne
  BY <1>2, CheckChip
<1>3. CASE GetMessage
  BY <1>3, ReadChip
<1>4. CASE UNCHANGED vars
  BY <1>4 DEF vars, Chip, Numbered, Untouched, Driver, OnceOvertaken, FirstNewer, SecondNewer,
              Later, first, second
<1> QED
  BY <1>1, <1>2, <1>3, <1>4
     DEF Next, Single, Short, Open, Orphan, OutOfOrder, Continue, Complete

\* The alternation of MCP2515_CheckMessage() lets a waiting frame be overtaken
\* once at most, for any number of devices and frames, although a frame may
\* arrive between the look at the status and the read of a buffer.
THEOREM FramesDoNotStarve == Spec => []NoFrameStarves
<1>1. IInv /\ Chip => NoFrameStarves
  <2> SUFFICES ASSUME IInv, Chip, NEW b \in Full PROVE Cardinality(Later(rx[b])) <= 1
    BY DEF NoFrameStarves
  <2>1. b \in Buffers /\ rx[b] # None
    BY DEF Full
  <2>2. CASE b = "RXB0"
    <3>1. Later(rx[b]) = {}
      BY <2>1, <2>2 DEF Chip, Untouched, first
    <3> QED
      BY <3>1, FS_EmptySet
  <2>3. CASE b = "RXB1"
    <3>1. PICK i \in Nat : Later(rx[b]) \subseteq {i}
      BY <2>1, <2>3 DEF Chip, OnceOvertaken, second
    <3>2. IsFiniteSet({i}) /\ Cardinality({i}) = 1
      BY FS_Singleton
    <3> QED
      BY <3>1, <3>2, FS_Subset
  <2> QED
    BY <2>1, <2>2, <2>3 DEF Buffers
<1> QED
  BY <1>1, InitEstablishes, InitChip, NextKeeps, NextChip, PTL DEF Spec

------------------------------------------------------------------------------
(***************************************************************************)
(* The map FastPackages against the frames that were read.  An entry       *)
(* stands for the frames of its key from the last first frame on, which    *)
(* are numbered without a gap, and there is one whenever such frames wait  *)
(* for more.                                                               *)
(***************************************************************************)

\* The frames of key k in s from the m-th one on.
Part(s, k, m) == {i \in m..Len(s) : Multi(s[i]) /\ Key(s[i]) = k}
Before(s, k, m, i) == {j \in Part(s, k, m) : j < i}

InOrder(s, k, m) ==
  /\ m \in Part(s, k, m)
  /\ \A i \in Part(s, k, m) : s[i].no = Cardinality(Before(s, k, m, i))

Incomplete(s, k, m) ==
  InOrder(s, k, m) /\ Cardinality(Part(s, k, m)) < FramesOf(s[m].id, s[m].len)

\* Entry e holds what the frames carried.
Holds(s, k, m, e) ==
  /\ Incomplete(s, k, m)
  /\ Cardinality(Part(s, k, m)) = e.latest + 1
  /\ e.bytesLeft = s[m].len - 6 - 7 * e.latest
  /\ e.parts \in [0..e.latest -> Nat]
  /\ \A i \in Part(s, k, m) : s[i].no \in 0..e.latest /\ e.parts[s[i].no] = s[i].packet
  /\ \A l \in 0..e.latest : \E i \in Part(s, k, m) : s[i].no = l

EntriesAreFrames ==
  \A k \in DOMAIN packages : \E m \in DOMAIN read : Holds(read, k, m, packages[k])

IncompleteAreEntries ==
  \A k : \A m \in DOMAIN read : Incomplete(read, k, m) => k \in DOMAIN packages

\* The frames of a key are finitely many.
LEMMA PartIsFinite ==
  ASSUME NEW s \in Seq(Frames), NEW k, NEW m \in Nat \ {0}
  PROVE  /\ Part(s, k, m) \subseteq 1..Len(s)
         /\ IsFiniteSet(Part(s, k, m)) /\ Cardinality(Part(s, k, m)) \in Nat
         /\ \A i : /\ IsFiniteSet(Before(s, k, m, i))
                   /\ Cardinality(Before(s, k, m, i)) \in Nat
<1>1. Part(s, k, m) \subseteq 1..Len(s) /\ Len(s) \in Nat
  BY DEF Part
<1>2. IsFiniteSet(1..Len(s))
  BY <1>1, FS_Interval
<1>3. IsFiniteSet(Part(s, k, m)) /\ Cardinality(Part(s, k, m)) \in Nat
  BY <1>1, <1>2, FS_Subset, FS_CardinalityType
<1>4. \A i : Before(s, k, m, i) \in SUBSET Part(s, k, m)
  BY DEF Before
<1>5. \A i : IsFiniteSet(Before(s, k, m, i)) /\ Cardinality(Before(s, k, m, i)) \in Nat
  BY <1>3, <1>4, FS_Subset, FS_CardinalityType
<1> QED
  BY <1>1, <1>3, <1>5

\* Numbers of frames in order are smaller than how many there are, and the
\* first one has number 0.
LEMMA NumbersOfPart ==
  ASSUME NEW s \in Seq(Frames), NEW k, NEW m \in Nat \ {0}, InOrder(s, k, m)
  PROVE  /\ \A i \in Part(s, k, m) : s[i].no < Cardinality(Part(s, k, m))
         /\ s[m].no = 0
         /\ \A i \in Part(s, k, m) : i # m => s[i].no > 0
<1> DEFINE P == Part(s, k, m)
<1>0. P \subseteq 1..Len(s) /\ m \in P /\ \A i \in P : i \in Nat /\ i >= m
  BY PartIsFinite DEF InOrder, Part
<1>1. ASSUME NEW i \in P PROVE s[i].no < Cardinality(P)
  <2>1. Before(s, k, m, i) \in SUBSET P /\ i \notin Before(s, k, m, i)
    BY <1>0 DEF Before
  <2>2. Cardinality(Before(s, k, m, i)) <= Cardinality(P)
        /\ Cardinality(Before(s, k, m, i)) # Cardinality(P)
    BY <2>1, PartIsFinite, FS_Subset
  <2> QED
    BY <2>2, PartIsFinite DEF InOrder
<1>2. s[m].no = 0
  <2>1. Before(s, k, m, m) = {}
    BY <1>0 DEF Before
  <2> QED
    BY <1>0, <2>1, FS_EmptySet DEF InOrder
<1>3. ASSUME NEW i \in P, i # m PROVE s[i].no > 0
  <2>1. m \in Before(s, k, m, i)
    BY <1>0, <1>3 DEF Before
  <2>2. Cardinality(Before(s, k, m, i)) # 0
    BY <2>1, PartIsFinite, FS_EmptySet
  <2> QED
    BY <2>2, PartIsFinite DEF InOrder
<1> QED
  BY <1>1, <1>2, <1>3

\* The frames that are in order begin at the last first frame of their key.
LEMMA OneBeginning ==
  ASSUME NEW s \in Seq(Frames), NEW k, NEW m \in Nat \ {0}, NEW l \in Nat \ {0},
         InOrder(s, k, m), InOrder(s, k, l)
  PROVE  m = l
<1>1. ASSUME NEW a \in Nat \ {0}, NEW b \in Nat \ {0}, a < b,
             InOrder(s, k, a), InOrder(s, k, b)
      PROVE  FALSE
  <2>1. b \in Part(s, k, a) /\ b # a
    BY <1>1 DEF InOrder, Part
  <2>2. s[b].no = 0
    BY <1>1, NumbersOfPart
  <2>3. s[b].no > 0
    BY <1>1, <2>1, NumbersOfPart
  <2> QED
    BY <2>2, <2>3
<1> QED
  BY <1>1

\* The frames t are the frames s and one more, f, which is the n-th.
Grown(s, f, t, n) ==
  /\ s \in Seq(Frames) /\ f \in Frames
  /\ t = Append(s, f) /\ n = Len(s) + 1

\* How the frames of a key change with one more frame.
LEMMA PartGrows ==
  ASSUME NEW s, NEW f, NEW t, NEW n, Grown(s, f, t, n), NEW k, NEW m \in DOMAIN s
  PROVE  /\ \A i \in Part(s, k, m) : /\ t[i] = s[i] /\ i # n
                                     /\ Before(t, k, m, i) = Before(s, k, m, i)
         /\ ~(Multi(f) /\ Key(f) = k) => Part(t, k, m) = Part(s, k, m)
         /\ Multi(f) /\ Key(f) = k =>
              /\ Part(t, k, m) = Part(s, k, m) \cup {n}
              /\ Cardinality(Part(t, k, m)) = Cardinality(Part(s, k, m)) + 1
              /\ Before(t, k, m, n) = Part(s, k, m)
<1>1. /\ Len(t) = n /\ Len(s) \in Nat /\ t[n] = f /\ n = Len(s) + 1
      /\ \A i \in 1..Len(s) : t[i] = s[i]
      /\ m \in 1..Len(s) /\ s \in Seq(Frames)
  BY DEF Grown
<1>2. \A i : i \in m..n <=> i \in m..Len(s) \/ i = n
  BY <1>1
<1>3. \A i : i \in m..Len(s) => i \in 1..Len(s) /\ i < n
  BY <1>1
<1>4. n \in Nat /\ ~(n < n)
  BY <1>1
<1>5. \A i : i \in Part(t, k, m) <=> i \in Part(s, k, m) \/ (i = n /\ Multi(f) /\ Key(f) = k)
  BY <1>1, <1>2, <1>3 DEF Part
<1>6. \A i \in Part(s, k, m) : t[i] = s[i] /\ i < n /\ i # n /\ ~(n < i)
  BY <1>1, <1>3, <1>4 DEF Part
<1>7. \A i \in Part(s, k, m) : Before(t, k, m, i) = Before(s, k, m, i)
  BY <1>5, <1>6 DEF Before
<1>8. ~(Multi(f) /\ Key(f) = k) => Part(t, k, m) = Part(s, k, m)
  BY <1>5
<1>9. ASSUME Multi(f), Key(f) = k
      PROVE  /\ Part(t, k, m) = Part(s, k, m) \cup {n}
             /\ Cardinality(Part(t, k, m)) = Cardinality(Part(s, k, m)) + 1
             /\ Before(t, k, m, n) = Part(s, k, m)
  <2>1. Part(t, k, m) = Part(s, k, m) \cup {n}
    BY <1>5, <1>9
  <2>2. n \notin Part(s, k, m)
    BY <1>6
  <2>3. IsFiniteSet(Part(s, k, m))
    BY <1>1, PartIsFinite
  <2>4. Cardinality(Part(t, k, m)) = Cardinality(Part(s, k, m)) + 1
    BY <2>1, <2>2, <2>3, FS_AddElement
  <2>5. Before(t, k, m, n) = Part(s, k, m)
    BY <1>4, <1>6, <2>1 DEF Before
  <2> QED
    BY <2>1, <2>4, <2>5
<1> QED
  BY <1>6, <1>7, <1>8, <1>9

\* One more frame keeps the order if it is of another key or has the next
\* number.
LEMMA OrderGrows ==
  ASSUME NEW s, NEW f, NEW t, NEW n, Grown(s, f, t, n), NEW k, NEW m \in DOMAIN s
  PROVE  InOrder(t, k, m) <=> /\ InOrder(s, k, m)
                              /\ Multi(f) /\ Key(f) = k => f.no = Cardinality(Part(s, k, m))
<1>1. t[n] = f /\ m # n
  BY DEF Grown
<1>4. CASE ~(Multi(f) /\ Key(f) = k)
  BY <1>4, PartGrows DEF InOrder
<1>5. CASE Multi(f) /\ Key(f) = k
  BY <1>1, <1>5, PartGrows DEF InOrder
<1> QED
  BY <1>4, <1>5

\* Nothing of its key is before a frame, counted from itself.
LEMMA NewestAlone ==
  ASSUME NEW s, NEW f, NEW t, NEW n, Grown(s, f, t, n), NEW k
  PROVE  /\ Multi(f) /\ Key(f) = k => Part(t, k, n) = {n} /\ Before(t, k, n, n) = {}
         /\ InOrder(t, k, n) <=> Multi(f) /\ Key(f) = k /\ f.no = 0
<1>1. n \in Nat /\ t[n] = f /\ Len(t) = n
  BY DEF Grown
<1>2. \A i : i \in n..n <=> i = n
  BY <1>1
<1>3. \A i : i \in Part(t, k, n) <=> i = n /\ Multi(f) /\ Key(f) = k
  BY <1>1, <1>2 DEF Part
<1>4. Before(t, k, n, n) = {}
  BY <1>1, <1>3 DEF Before
<1>5. Cardinality({}) = 0
  BY FS_EmptySet
<1>6. InOrder(t, k, n) <=> Multi(f) /\ Key(f) = k /\ f.no = 0
  BY <1>1, <1>3, <1>4, <1>5 DEF InOrder
<1> QED
  BY <1>3, <1>4, <1>6

\* A frame of another key, or of a packet that is a single frame, leaves what
\* waits as it is.
LEMMA OthersStay ==
  ASSUME NEW s, NEW f, NEW t, NEW n, Grown(s, f, t, n), NEW k, ~(Multi(f) /\ Key(f) = k)
  PROVE  /\ \A m \in DOMAIN t : Incomplete(t, k, m) => m \in DOMAIN s /\ Incomplete(s, k, m)
         /\ \A m \in DOMAIN s : \A e : Holds(s, k, m, e) => Holds(t, k, m, e)
<1>0. /\ DOMAIN t = DOMAIN s \cup {n}
      /\ \A i \in DOMAIN s : t[i] = s[i]
  BY DEF Grown
<1>5. ~InOrder(t, k, n)
  BY NewestAlone
<1>1. ASSUME NEW m \in DOMAIN s
      PROVE  /\ Incomplete(t, k, m) <=> Incomplete(s, k, m)
             /\ Part(t, k, m) = Part(s, k, m) /\ t[m] = s[m]
             /\ \A i \in Part(s, k, m) : t[i] = s[i]
  <2>1. /\ Part(t, k, m) = Part(s, k, m)
        /\ \A i \in Part(s, k, m) : t[i] = s[i]
    BY PartGrows
  <2>2. InOrder(t, k, m) <=> InOrder(s, k, m)
    BY OrderGrows
  <2> QED
    BY <1>0, <2>1, <2>2 DEF Incomplete
<1>2. ~Incomplete(t, k, n)
  BY <1>5 DEF Incomplete
<1>3. ASSUME NEW m \in DOMAIN t, Incomplete(t, k, m)
      PROVE  m \in DOMAIN s /\ Incomplete(s, k, m)
  BY <1>0, <1>1, <1>2, <1>3
<1>4. ASSUME NEW m \in DOMAIN s, NEW e, Holds(s, k, m, e) PROVE Holds(t, k, m, e)
  BY <1>1, <1>4 DEF Holds
<1> QED
  BY <1>3, <1>4

\* The frames of a packet, from the bytes that are left of it.
LEMMA FramesLeft ==
  ASSUME NEW id \in Fast, NEW len \in 6..223, NEW latest \in 0..31,
         NEW left, left = len - 6 - 7 * latest
  PROVE  left > 7 <=> latest + 2 < FramesOf(id, len)
<1>1. PICK q \in 0..31, r \in 0..6 : len = 7 * q + r /\ len \div 7 = q
  <2>1. len \div 7 \in 0..31 /\ len % 7 \in 0..6 /\ len = 7 * (len \div 7) + (len % 7)
    OBVIOUS
  <2> QED
    BY <2>1
<1>2. FramesOf(id, len) = 1 + q
  BY <1>1 DEF FramesOf
<1> QED
  BY <1>1, <1>2

\* With 7 bytes or less left, one frame is missing.
LEMMA LastFrameLeft ==
  ASSUME NEW id \in Fast, NEW len \in 6..223, NEW latest \in 0..31,
         NEW left, left = len - 6 - 7 * latest, left > 0
  PROVE  left <= 7 <=> FramesOf(id, len) = latest + 2
<1>1. PICK q \in 0..31, r \in 0..6 : len = 7 * q + r /\ len \div 7 = q
  <2>1. len \div 7 \in 0..31 /\ len % 7 \in 0..6 /\ len = 7 * (len \div 7) + (len % 7)
    OBVIOUS
  <2> QED
    BY <2>1
<1>2. FramesOf(id, len) = 1 + q
  BY <1>1 DEF FramesOf
<1> QED
  BY <1>1, <1>2

\* The first frame of a packet that has more makes an entry.
LEMMA OpenHolds ==
  ASSUME NEW s, NEW f, NEW t, NEW n, Grown(s, f, t, n), Multi(f), f.no = 0
  PROVE  Holds(t, Key(f), n, [bytesLeft |-> f.len - 6, latest |-> 0,
                              parts |-> [l \in {0} |-> f.packet]])
<1>1. t[n] = f /\ f \in Frames
  BY DEF Grown
<1>2. InOrder(t, Key(f), n) /\ Part(t, Key(f), n) = {n}
  BY NewestAlone
<1>3. Cardinality({n}) = 1
  BY FS_Singleton
<1>4. f.id \in Fast /\ f.len \in 7..223 /\ f.packet \in Nat
  BY <1>1 DEF Frames, Multi
<1>5. 1 < FramesOf(f.id, f.len)
  <2>1. f.len \div 7 > 0
    BY <1>4
  <2> QED
    BY <1>4, <2>1 DEF FramesOf
<1>6. Incomplete(t, Key(f), n)
  BY <1>1, <1>2, <1>3, <1>5 DEF Incomplete
<1>7. 0..0 = {0}
  OBVIOUS
<1> DEFINE e == [bytesLeft |-> f.len - 6, latest |-> 0, parts |-> [l \in {0} |-> f.packet]]
<1>8. /\ e.latest = 0 /\ e.bytesLeft = f.len - 6 /\ 0..e.latest = {0}
      /\ e.parts \in [{0} -> Nat] /\ e.parts[0] = f.packet
  BY <1>4, <1>7
<1> HIDE DEF e
<1>9. 1 = e.latest + 1 /\ e.bytesLeft = f.len - 6 - 7 * e.latest
  BY <1>4, <1>8
<1>10. Holds(t, Key(f), n, e)
  BY <1>1, <1>2, <1>3, <1>6, <1>8, <1>9 DEF Holds
<1> QED
  BY <1>10 DEF e

\* What the next frame of an entry makes of the frames of its key.
LEMMA NextFrame ==
  ASSUME NEW s, NEW f, NEW t, NEW n, Grown(s, f, t, n), Multi(f),
         NEW m \in DOMAIN s, NEW e, Holds(s, Key(f), m, e), e.latest \in 0..31,
         f.no = e.latest + 1
  PROVE  /\ InOrder(t, Key(f), m) /\ Part(t, Key(f), m) = Part(s, Key(f), m) \cup {n}
         /\ Cardinality(Part(t, Key(f), m)) = e.latest + 2
         /\ t[m] = s[m] /\ s[m].id = f.id /\ s[m].len \in 6..223
         /\ t[n] = f /\ f.id \in Fast
         /\ \A i \in Part(s, Key(f), m) : t[i] = s[i] /\ i # n
<1>1. t[m] = s[m] /\ t[n] = f /\ s[m] \in Frames
  BY DEF Grown
<1>2. /\ InOrder(s, Key(f), m) /\ m \in Part(s, Key(f), m)
      /\ Cardinality(Part(s, Key(f), m)) = e.latest + 1
  BY DEF Holds, Incomplete, InOrder
<1>3. InOrder(t, Key(f), m)
  BY <1>2, OrderGrows
<1>4. /\ Part(t, Key(f), m) = Part(s, Key(f), m) \cup {n}
      /\ Cardinality(Part(t, Key(f), m)) = Cardinality(Part(s, Key(f), m)) + 1
      /\ \A i \in Part(s, Key(f), m) : t[i] = s[i] /\ i # n
  BY PartGrows
<1>5. s[m].id = f.id /\ f.id \in Fast
  BY <1>2 DEF Part, Key, Multi
<1>6. s[m].len \in 6..223
  BY <1>1 DEF Frames
<1>7. Cardinality(Part(t, Key(f), m)) = e.latest + 2
  BY <1>2, <1>4
<1> QED
  BY <1>1, <1>3, <1>4, <1>5, <1>6, <1>7

\* The next frame of an entry that waits for more goes into it.
LEMMA ContinueHolds ==
  ASSUME NEW s, NEW f, NEW t, NEW n, Grown(s, f, t, n), Multi(f),
         NEW m \in DOMAIN s, NEW e, Holds(s, Key(f), m, e), e.latest \in 0..31,
         f.no = e.latest + 1, e.bytesLeft > 7,
         NEW parts, parts = [l \in DOMAIN e.parts \cup {f.no} |->
                               IF l = f.no THEN f.packet ELSE e.parts[l]],
         NEW more, more.latest = f.no, more.bytesLeft = e.bytesLeft - 7, more.parts = parts
  PROVE  Holds(t, Key(f), m, more)
<1> DEFINE k == Key(f)
<1>1. /\ InOrder(t, k, m) /\ Part(t, k, m) = Part(s, k, m) \cup {n}
      /\ Cardinality(Part(t, k, m)) = e.latest + 2
      /\ t[m] = s[m] /\ s[m].id = f.id /\ s[m].len \in 6..223
      /\ t[n] = f /\ f.id \in Fast
      /\ \A i \in Part(s, k, m) : t[i] = s[i] /\ i # n
  BY NextFrame
<1>2. /\ e.bytesLeft = s[m].len - 6 - 7 * e.latest
      /\ e.parts \in [0..e.latest -> Nat]
      /\ \A i \in Part(s, k, m) : s[i].no \in 0..e.latest /\ e.parts[s[i].no] = s[i].packet
      /\ \A l \in 0..e.latest : \E i \in Part(s, k, m) : s[i].no = l
  BY DEF Holds
<1> HIDE DEF k
<1>3. e.latest + 2 < FramesOf(s[m].id, s[m].len)
  BY <1>1, <1>2, FramesLeft, Zenon
<1>4. Incomplete(t, k, m)
  BY <1>1, <1>3 DEF Incomplete
<1>5. more.bytesLeft = t[m].len - 6 - 7 * more.latest
  <2>1. PICK len \in 6..223, l \in 0..31 : s[m].len = len /\ e.latest = l
    BY <1>1
  <2>2. more.bytesLeft = len - 6 - 7 * l - 7 /\ more.latest = l + 1 /\ t[m].len = len
    BY <1>1, <1>2, <2>1
  <2> QED
    BY <2>2
<1>6. /\ DOMAIN e.parts \cup {f.no} = 0..more.latest /\ f.no \notin 0..e.latest
      /\ \A l : l \in 0..more.latest <=> l \in 0..e.latest \/ l = f.no
  <2>1. \A l \in 0..31 : (0..l) \cup {l + 1} = 0..(l + 1) /\ l + 1 \notin 0..l
    OBVIOUS
  <2>2. (0..e.latest) \cup {f.no} = 0..more.latest /\ f.no \notin 0..e.latest
    BY <2>1
  <2> QED
    BY <1>2, <2>2, Zenon
<1>7. f.packet \in Nat
  BY DEF Grown, Frames
<1>8. /\ parts \in [0..more.latest -> Nat] /\ parts[f.no] = f.packet
      /\ \A l \in 0..e.latest : parts[l] = e.parts[l]
  <2>1. parts = [l \in 0..more.latest |-> IF l = f.no THEN f.packet ELSE e.parts[l]]
    BY <1>6
  <2>2. \A l \in 0..e.latest : e.parts[l] \in Nat
    BY <1>2
  <2>3. \A l \in 0..more.latest : parts[l] = IF l = f.no THEN f.packet ELSE e.parts[l]
    BY <2>1, Zenon
  <2>4. parts \in [0..more.latest -> Nat]
    <3>1. \A l \in 0..more.latest : (IF l = f.no THEN f.packet ELSE e.parts[l]) \in Nat
      BY <1>6, <1>7, <2>2, Zenon
    <3> QED
      BY <2>1, <3>1, Zenon
  <2> QED
    BY <1>6, <2>3, <2>4, Zenon
<1>9. more.parts = parts
  OBVIOUS
<1>10. Cardinality(Part(t, k, m)) = more.latest + 1
  BY <1>1
<1>11. ASSUME NEW i \in Part(t, k, m)
       PROVE  t[i].no \in 0..more.latest /\ more.parts[t[i].no] = t[i].packet
  <2>1. CASE i = n
    BY <1>1, <1>6, <1>8, <1>9, <2>1, Zenon
  <2>2. CASE i \in Part(s, k, m)
    <3>1. t[i] = s[i] /\ s[i].no \in 0..e.latest /\ e.parts[s[i].no] = s[i].packet
      BY <1>1, <1>2, <2>2, Zenon
    <3> QED
      BY <1>6, <1>8, <1>9, <3>1, Zenon
  <2> QED
    BY <1>1, <2>1, <2>2
<1>12. ASSUME NEW l \in 0..more.latest PROVE \E i \in Part(t, k, m) : t[i].no = l
  <2>1. CASE l = f.no
    BY <1>1, <2>1
  <2>2. CASE l \in 0..e.latest
    <3>1. PICK i \in Part(s, k, m) : s[i].no = l
      BY <1>2, <2>2
    <3>2. i \in Part(t, k, m) /\ t[i] = s[i]
      BY <1>1
    <3> QED
      BY <3>1, <3>2
  <2> QED
    BY <1>6, <2>1, <2>2, Zenon
<1> QED
  BY <1>4, <1>5, <1>8, <1>9, <1>10, <1>11, <1>12 DEF Holds, k

\* The frames of a key from m to n make a packet, and what is in it.
Whole(t, k, m, n) ==
  /\ InOrder(t, k, m) /\ n \in Part(t, k, m)
  /\ Cardinality(Part(t, k, m)) = FramesOf(t[m].id, t[m].len)

Content(t, k, m, n) ==
  [l \in 0..t[n].no |-> t[CHOOSE i \in Part(t, k, m) : t[i].no = l].packet]

\* Frames that still wait, or are a packet now, waited before the newest of
\* them came, which has the next number.
LEMMA WaitedBefore ==
  ASSUME NEW s, NEW f, NEW t, NEW n, Grown(s, f, t, n), Multi(f),
         NEW m \in DOMAIN s, Incomplete(t, Key(f), m) \/ Whole(t, Key(f), m, n)
  PROVE  Incomplete(s, Key(f), m) /\ f.no = Cardinality(Part(s, Key(f), m))
<1>1. s \in Seq(Frames) /\ t[m] = s[m] /\ m \in Nat \ {0} /\ s[m] \in Frames
  BY DEF Grown
<1>2. InOrder(t, Key(f), m)
  BY DEF Incomplete, Whole
<1>3. InOrder(s, Key(f), m) /\ f.no = Cardinality(Part(s, Key(f), m))
  BY <1>2, OrderGrows
<1>4. Cardinality(Part(t, Key(f), m)) = Cardinality(Part(s, Key(f), m)) + 1
  BY PartGrows
<1>5. Cardinality(Part(s, Key(f), m)) \in Nat
  BY <1>1, PartIsFinite
<1>6. s[m].id \in Fast
  BY <1>3 DEF InOrder, Part, Multi
<1>7. FramesOf(s[m].id, s[m].len) \in Nat
  <2>1. s[m].len \in 6..223
    BY <1>1 DEF Frames
  <2>2. s[m].len \div 7 \in Nat
    BY <2>1
  <2> QED
    BY <1>6, <2>2 DEF FramesOf
<1>8. Cardinality(Part(t, Key(f), m)) <= FramesOf(t[m].id, t[m].len)
  <2>1. CASE Incomplete(t, Key(f), m)
    BY <1>1, <1>4, <1>5, <1>7, <2>1 DEF Incomplete
  <2>2. CASE Whole(t, Key(f), m, n)
    BY <1>1, <1>4, <1>5, <1>7, <2>2 DEF Whole
  <2> QED
    BY <2>1, <2>2
<1>9. Cardinality(Part(s, Key(f), m)) < FramesOf(s[m].id, s[m].len)
  BY <1>1, <1>4, <1>5, <1>7, <1>8
<1> QED
  BY <1>3, <1>9 DEF Incomplete

\* The last frame of an entry makes it a packet.
LEMMA CompleteIsWhole ==
  ASSUME NEW s, NEW f, NEW t, NEW n, Grown(s, f, t, n), Multi(f),
         NEW m \in DOMAIN s, NEW e, Holds(s, Key(f), m, e), e.latest \in 0..31,
         e.bytesLeft > 0, f.no = e.latest + 1
  PROVE  /\ Whole(t, Key(f), m, n) <=> e.bytesLeft <= 7
         /\ e.bytesLeft <= 7 => ~Incomplete(t, Key(f), m)
<1>1. /\ InOrder(t, Key(f), m) /\ Part(t, Key(f), m) = Part(s, Key(f), m) \cup {n}
      /\ Cardinality(Part(t, Key(f), m)) = e.latest + 2
      /\ t[m] = s[m] /\ s[m].id = f.id /\ s[m].len \in 6..223 /\ f.id \in Fast
  BY NextFrame
<1>2. e.bytesLeft = s[m].len - 6 - 7 * e.latest
  BY DEF Holds
<1>3. e.bytesLeft <= 7 <=> FramesOf(s[m].id, s[m].len) = e.latest + 2
  <2>1. s[m].id \in Fast
    BY <1>1
  <2> QED
    BY <1>1, <1>2, <2>1, LastFrameLeft, Zenon
<1>4. Whole(t, Key(f), m, n) <=> e.bytesLeft <= 7
  BY <1>1, <1>3 DEF Whole
<1>5. e.bytesLeft <= 7 => ~Incomplete(t, Key(f), m)
  BY <1>1, <1>3 DEF Incomplete
<1> QED
  BY <1>4, <1>5

\* The bytes of an entry that is complete are the ones of the packet.
LEMMA ContentFilled ==
  ASSUME NEW s, NEW f, NEW t, NEW n, Grown(s, f, t, n), Multi(f),
         NEW m \in DOMAIN s, NEW e, Holds(s, Key(f), m, e), e.latest \in 0..31,
         f.no = e.latest + 1
  PROVE  /\ Content(t, Key(f), m, n) = [l \in DOMAIN e.parts \cup {f.no} |->
                                         IF l = f.no THEN f.packet ELSE e.parts[l]]
         /\ Content(t, Key(f), m, n) \in [0..f.no -> Nat]
<1> DEFINE k == Key(f)
<1>1. /\ Part(t, k, m) = Part(s, k, m) \cup {n} /\ t[n] = f
      /\ \A i \in Part(s, k, m) : t[i] = s[i] /\ i # n
  BY NextFrame
<1>2. /\ e.parts \in [0..e.latest -> Nat]
      /\ \A i \in Part(s, k, m) : s[i].no \in 0..e.latest /\ e.parts[s[i].no] = s[i].packet
      /\ \A l \in 0..e.latest : \E i \in Part(s, k, m) : s[i].no = l
  BY DEF Holds
<1>3. (0..e.latest) \cup {f.no} = 0..f.no /\ f.no \notin 0..e.latest
  <2>1. \A l \in 0..31 : (0..l) \cup {l + 1} = 0..(l + 1) /\ l + 1 \notin 0..l
    OBVIOUS
  <2> QED
    BY <2>1
<1>4. DOMAIN e.parts \cup {f.no} = 0..f.no
  BY <1>2, <1>3, Zenon
<1> HIDE DEF k
<1> DEFINE pick(l) == CHOOSE i \in Part(t, k, m) : t[i].no = l
<1>5. t[pick(f.no)].packet = f.packet
  <2>1. n \in Part(t, k, m) /\ t[n].no = f.no
    BY <1>1
  <2>2. pick(f.no) \in Part(t, k, m) /\ t[pick(f.no)].no = f.no
    BY <2>1, Zenon
  <2>3. pick(f.no) \notin Part(s, k, m)
    BY <1>1, <1>2, <1>3, <2>2, Zenon
  <2> QED
    BY <1>1, <2>2, <2>3
<1>6. ASSUME NEW l \in 0..e.latest PROVE t[pick(l)].packet = e.parts[l]
  <2>1. PICK i \in Part(s, k, m) : s[i].no = l
    BY <1>2
  <2>2. i \in Part(t, k, m) /\ t[i].no = l
    BY <1>1, <2>1
  <2>3. pick(l) \in Part(t, k, m) /\ t[pick(l)].no = l
    BY <2>2, Zenon
  <2>4. pick(l) # n
    BY <1>1, <1>3, <2>3
  <2>5. pick(l) \in Part(s, k, m) /\ t[pick(l)] = s[pick(l)]
    BY <1>1, <2>3, <2>4
  <2> QED
    BY <1>2, <2>3, <2>5
<1>7. \A l \in 0..f.no : t[pick(l)].packet = IF l = f.no THEN f.packet ELSE e.parts[l]
  <2>1. \A l \in 0..f.no : l \in 0..e.latest \/ l = f.no
    BY <1>3, Zenon
  <2>2. \A l \in 0..e.latest : l # f.no
    BY <1>3, Zenon
  <2> HIDE DEF pick
  <2> QED
    BY <1>5, <1>6, <2>1, <2>2, Zenon
<1>8. Content(t, k, m, n) = [l \in 0..f.no |-> t[pick(l)].packet]
  BY <1>1 DEF Content
<1>9. Content(t, k, m, n) = [l \in 0..f.no |-> IF l = f.no THEN f.packet ELSE e.parts[l]]
  <2> HIDE DEF pick
  <2> QED
    BY <1>7, <1>8
<1>10. Content(t, k, m, n) \in [0..f.no -> Nat]
  <2>1. f.packet \in Nat
    BY DEF Grown, Frames
  <2>2. \A l \in 0..e.latest : e.parts[l] \in Nat
    BY <1>2
  <2>3. \A l \in 0..f.no : (IF l = f.no THEN f.packet ELSE e.parts[l]) \in Nat
    BY <1>3, <2>1, <2>2
  <2> QED
    BY <1>9, <2>3
<1> QED
  BY <1>4, <1>9, <1>10 DEF k

\* An entry for the frames of its key that wait, and none without them.
Waiting == EntriesAreFrames /\ IncompleteAreEntries

\* A frame that was read is the newest of the frames read.
LEMMA ReadGrows ==
  ASSUME IInv, GetMessage
  PROVE  Grown(read, frame, read', Len(read) + 1)
BY GetMessageKeeps DEF Grown, GetMessage, IInv, TypeOK

\* What is said of the entries, of one key.
Entry(s, map, k) ==
  /\ k \in DOMAIN map => \E m \in DOMAIN s : Holds(s, k, m, map[k])
  /\ \A m \in DOMAIN s : Incomplete(s, k, m) => k \in DOMAIN map

\* It is enough to look at the key of the frame.
LEMMA OtherEntries ==
  ASSUME IInv, Waiting, GetMessage,
         NEW k, ~(Multi(frame) /\ Key(frame) = k),
         NEW map, k \in DOMAIN map <=> k \in DOMAIN packages,
         k \in DOMAIN map => map[k] = packages[k]
  PROVE  Entry(read', map, k)
<1>1. Grown(read, frame, read', Len(read) + 1)
  BY ReadGrows
<1>2. /\ \A m \in DOMAIN read' : Incomplete(read', k, m) =>
              m \in DOMAIN read /\ Incomplete(read, k, m)
      /\ \A m \in DOMAIN read : \A e : Holds(read, k, m, e) => Holds(read', k, m, e)
  BY <1>1, OthersStay
<1>3. DOMAIN read \subseteq DOMAIN read'
  BY <1>1 DEF Grown
<1>4. ASSUME k \in DOMAIN map PROVE \E m \in DOMAIN read' : Holds(read', k, m, map[k])
  <2>1. PICK m \in DOMAIN read : Holds(read, k, m, packages[k])
    BY <1>4 DEF Waiting, EntriesAreFrames
  <2> QED
    BY <1>2, <1>3, <1>4, <2>1
<1>5. ASSUME NEW m \in DOMAIN read', Incomplete(read', k, m) PROVE k \in DOMAIN map
  BY <1>2, <1>5 DEF Waiting, IncompleteAreEntries
<1> QED
  BY <1>4, <1>5 DEF Entry

\* The entries together.
LEMMA EntriesTogether == (\A k : Entry(read', packages', k)) => Waiting'
BY DEF Entry, Waiting, EntriesAreFrames, IncompleteAreEntries

\* The frames of an entry are the only ones of its key that can go on.
LEMMA OneWaits ==
  ASSUME IInv, Waiting, NEW k \in DOMAIN packages
  PROVE  \E m \in DOMAIN read :
           /\ Holds(read, k, m, packages[k])
           /\ packages[k].latest \in 0..31 /\ packages[k].bytesLeft \in 1..217
           /\ \A l \in DOMAIN read : Incomplete(read, k, l) => l = m
<1>1. PICK m \in DOMAIN read : Holds(read, k, m, packages[k])
  BY DEF Waiting, EntriesAreFrames
<1>2. InOrder(read, k, m)
  BY <1>1 DEF Holds, Incomplete
<1>3. read \in Seq(Frames) /\ \A l \in DOMAIN read : l \in Nat \ {0}
  BY DEF IInv, TypeOK
<1>4. \A l \in DOMAIN read : Incomplete(read, k, l) => l = m
  BY <1>2, <1>3, OneBeginning DEF Incomplete
<1>5. packages[k].latest \in 0..31 /\ packages[k].bytesLeft \in 1..217
  BY DEF IInv, TypeOK
<1> QED
  BY <1>1, <1>4, <1>5

\* Frames that are treated alone.
LEMMA AloneWaits == ASSUME IInv, Waiting, Single \/ Short PROVE Waiting'
<1>1. GetMessage /\ ~Multi(frame) /\ UNCHANGED packages
  BY DEF Single, Short, Multi
<1>2. \A k : Entry(read', packages', k)
  BY <1>1, OtherEntries
<1> QED
  BY <1>2, EntriesTogether

\* The frames a later frame finds in order, if any.
LEMMA LaterFrame ==
  ASSUME IInv, GetMessage, frame.id \in Fast, frame.no # 0
  PROVE  /\ Multi(frame)
         /\ Grown(read, frame, read', Len(read) + 1)
         /\ \A m \in DOMAIN read' : Incomplete(read', Key(frame), m) =>
              /\ m \in DOMAIN read /\ Incomplete(read, Key(frame), m)
              /\ frame.no = Cardinality(Part(read, Key(frame), m))
<1>1. Multi(frame) /\ Grown(read, frame, read', Len(read) + 1)
  BY ReadGrows DEF Multi
<1>2. ~InOrder(read', Key(frame), Len(read) + 1)
  BY <1>1, NewestAlone
<1>3. DOMAIN read' = DOMAIN read \cup {Len(read) + 1}
  BY <1>1 DEF Grown
<1>4. ASSUME NEW m \in DOMAIN read', Incomplete(read', Key(frame), m)
      PROVE  /\ m \in DOMAIN read /\ Incomplete(read, Key(frame), m)
             /\ frame.no = Cardinality(Part(read, Key(frame), m))
  <2>1. m \in DOMAIN read
    BY <1>2, <1>3, <1>4 DEF Incomplete
  <2> QED
    BY <1>1, <1>4, <2>1, WaitedBefore
<1> QED
  BY <1>1, <1>4

\* A frame whose first frame is not there leaves nothing to wait for.
LEMMA OrphanWaits == ASSUME IInv, Waiting, Orphan PROVE Waiting'
<1>1. /\ GetMessage /\ UNCHANGED packages /\ frame.id \in Fast /\ frame.no # 0
      /\ Key(frame) \notin DOMAIN packages
  BY DEF Orphan
<1>2. \A k : k # Key(frame) => Entry(read', packages', k)
  BY <1>1, OtherEntries
<1>3. \A m \in DOMAIN read' : ~Incomplete(read', Key(frame), m)
  BY <1>1, LaterFrame DEF Waiting, IncompleteAreEntries
<1>4. Entry(read', packages', Key(frame))
  BY <1>1, <1>3 DEF Entry
<1> QED
  BY <1>2, <1>4, EntriesTogether

\* A first frame begins the one thing that can wait under its key.
LEMMA OpenWaits == ASSUME IInv, Waiting, Open PROVE Waiting'
<1> DEFINE entry == [bytesLeft |-> frame.len - 6, latest |-> 0,
                     parts |-> [l \in {0} |-> frame.packet]]
<1>1. /\ GetMessage /\ frame.no = 0 /\ Multi(frame) /\ Store(entry)
      /\ Grown(read, frame, read', Len(read) + 1)
  <2>1. GetMessage /\ frame.no = 0 /\ frame.id \in Fast /\ frame.len > 6 /\ Store(entry)
    BY DEF Open
  <2>2. frame.len \in 6..223
    BY <2>1, GetMessageKeeps DEF Frames
  <2>3. Multi(frame)
    BY <2>1, <2>2 DEF Multi
  <2> QED
    BY <2>1, <2>3, ReadGrows
<1>2. Holds(read', Key(frame), Len(read) + 1, entry)
  BY <1>1, OpenHolds
<1> HIDE DEF entry
<1>3. /\ DOMAIN packages' = DOMAIN packages \cup {Key(frame)}
      /\ packages'[Key(frame)] = entry
      /\ \A k \in DOMAIN packages : k # Key(frame) => packages'[k] = packages[k]
  BY <1>1 DEF Store
<1>4. \A k : k # Key(frame) => Entry(read', packages', k)
  BY <1>1, <1>3, OtherEntries
<1>5. Len(read) + 1 \in DOMAIN read'
  BY <1>1 DEF Grown
<1>6. Entry(read', packages', Key(frame))
  BY <1>2, <1>3, <1>5 DEF Entry
<1> QED
  BY <1>4, <1>6, EntriesTogether

\* An entry is erased when nothing of its key can wait any more.
LEMMA EndWaits == ASSUME IInv, Waiting, OutOfOrder \/ Complete PROVE Waiting'
<1>1. /\ GetMessage /\ Erase /\ frame.id \in Fast /\ frame.no # 0
      /\ Key(frame) \in DOMAIN packages
  BY DEF OutOfOrder, Complete, Expected
<1>2. /\ DOMAIN packages' = DOMAIN packages \ {Key(frame)}
      /\ \A k \in DOMAIN packages' : packages'[k] = packages[k]
  BY <1>1 DEF Erase
<1>3. \A k : k # Key(frame) => Entry(read', packages', k)
  BY <1>1, <1>2, OtherEntries
<1>4. PICK m \in DOMAIN read :
        /\ Holds(read, Key(frame), m, packages[Key(frame)])
        /\ packages[Key(frame)].latest \in 0..31 /\ packages[Key(frame)].bytesLeft \in 1..217
        /\ \A l \in DOMAIN read : Incomplete(read, Key(frame), l) => l = m
  BY <1>1, OneWaits
<1>5. Cardinality(Part(read, Key(frame), m)) = packages[Key(frame)].latest + 1
  BY <1>4 DEF Holds
<1>6. ASSUME NEW l \in DOMAIN read', Incomplete(read', Key(frame), l) PROVE FALSE
  <2>1. /\ l = m /\ frame.no = packages[Key(frame)].latest + 1
        /\ Multi(frame) /\ Grown(read, frame, read', Len(read) + 1)
    BY <1>1, <1>4, <1>5, <1>6, LaterFrame
  <2>2. CASE OutOfOrder
    BY <1>4, <2>1, <2>2 DEF OutOfOrder
  <2>3. CASE Complete
    <3>1. packages[Key(frame)].bytesLeft <= 7
      BY <2>3 DEF Complete
    <3>2. packages[Key(frame)].bytesLeft > 0
      BY <1>4
    <3>3. ~Incomplete(read', Key(frame), m)
      BY <1>4, <2>1, <3>1, <3>2, CompleteIsWhole
    <3> QED
      BY <1>6, <2>1, <3>3
  <2> QED
    BY <2>2, <2>3
<1>7. Entry(read', packages', Key(frame))
  BY <1>2, <1>6 DEF Entry
<1> QED
  BY <1>3, <1>7, EntriesTogether

\* An entry that gets its next frame stands for one frame more.
LEMMA ContinueWaits == ASSUME IInv, Waiting, Continue PROVE Waiting'
<1> DEFINE old == packages[Key(frame)]
           entry == [bytesLeft |-> old.bytesLeft - 7, latest |-> frame.no, parts |-> Filled]
<1>1. /\ GetMessage /\ frame.id \in Fast /\ frame.no # 0
      /\ Key(frame) \in DOMAIN packages /\ Store(entry)
      /\ old.latest + 1 = frame.no /\ old.bytesLeft > 7
  BY DEF Continue, Expected
<1>2. PICK m \in DOMAIN read : Holds(read, Key(frame), m, old) /\ old.latest \in 0..31
  BY <1>1, OneWaits
<1>3. Multi(frame) /\ Grown(read, frame, read', Len(read) + 1)
  BY <1>1, LaterFrame
<1>4. Filled = [l \in DOMAIN old.parts \cup {frame.no} |->
                  IF l = frame.no THEN frame.packet ELSE old.parts[l]]
  BY DEF Filled
<1>5. entry.latest = frame.no /\ entry.bytesLeft = old.bytesLeft - 7 /\ entry.parts = Filled
  OBVIOUS
<1> HIDE DEF entry
<1>6. /\ DOMAIN packages' = DOMAIN packages \cup {Key(frame)}
      /\ packages'[Key(frame)] = entry
      /\ \A k \in DOMAIN packages : k # Key(frame) => packages'[k] = packages[k]
  BY <1>1 DEF Store
<1>7. \A k : k # Key(frame) => Entry(read', packages', k)
  BY <1>1, <1>6, OtherEntries
<1>8. frame.no = old.latest + 1
  BY <1>1
<1> HIDE DEF old
<1>9. Holds(read', Key(frame), m, entry)
  BY <1>1, <1>2, <1>3, <1>4, <1>5, <1>8, ContinueHolds, Zenon
<1>10. m \in DOMAIN read'
  BY <1>3 DEF Grown
<1>11. Entry(read', packages', Key(frame))
  BY <1>1, <1>6, <1>9, <1>10 DEF Entry
<1> QED
  BY <1>7, <1>11, EntriesTogether

\* Every step keeps the entries what the frames say.
LEMMA NextWaits == IInv /\ Waiting /\ [Next]_vars => Waiting'
<1> SUFFICES ASSUME IInv, Waiting, [Next]_vars PROVE Waiting'
  OBVIOUS
<1>1. CASE UNCHANGED <<packages, read>>
  BY <1>1 DEF Waiting, EntriesAreFrames, IncompleteAreEntries
<1>2. ((\E id \in Ids : Arrive(id)) \/ CheckBoth \/ CheckOne \/ UNCHANGED vars) =>
        UNCHANGED <<packages, read>>
  BY DEF Arrive, CheckBoth, CheckOne, vars
<1> QED
  BY <1>1, <1>2, AloneWaits, OrphanWaits, OpenWaits, EndWaits, ContinueWaits DEF Next

------------------------------------------------------------------------------
(***************************************************************************)
(* What is handed over, against the packets among the frames read.         *)
(***************************************************************************)
Contents == UNION {[0..l -> Nat] : l \in 0..31}
Messages == [id : Ids, at : Nat \ {0}, parts : Contents]

\* The messages were handed over at frames that have been read.
HandedBefore ==
  /\ delivered \in Seq(Messages)
  /\ \A i \in DOMAIN delivered : delivered[i].at <= Len(read)

\* Without a message, nothing was handed over at this frame.
LEMMA NothingHanded ==
  ASSUME IInv, HandedBefore, GetMessage, UNCHANGED delivered
  PROVE  HandedBefore' /\ {d \in Handed' : d.at = Len(read) + 1} = {}
<1>1. Len(read') = Len(read) + 1 /\ Len(read) \in Nat
  BY ReadGrows DEF Grown
<1>2. \A i \in DOMAIN delivered : delivered[i] \in Messages
  BY DEF HandedBefore
<1>3. \A i \in DOMAIN delivered : delivered[i].at \in Nat
  BY <1>2 DEF Messages
<1>4. HandedBefore'
  BY <1>1, <1>3 DEF HandedBefore
<1>5. \A d \in Handed' : ~(d.at = Len(read) + 1)
  BY <1>1, <1>3 DEF HandedBefore, Handed
<1> QED
  BY <1>4, <1>5

\* With a message for a receiver, it is the one of this frame.
LEMMA MessageHanded ==
  ASSUME IInv, HandedBefore, GetMessage, frame.id \in Registered,
         NEW l \in 0..31, NEW parts \in [0..l -> Nat], Hand(parts)
  PROVE  /\ HandedBefore'
         /\ {d \in Handed' : d.at = Len(read) + 1} =
              {[id |-> frame.id, at |-> Len(read) + 1, parts |-> parts]}
<1> DEFINE d == [id |-> frame.id, at |-> Len(read) + 1, parts |-> parts]
<1>1. Len(read') = Len(read) + 1 /\ Len(read) \in Nat
  BY ReadGrows DEF Grown
<1>2. d \in Messages /\ d.at = Len(read) + 1
  <2>1. frame.id \in Ids
    BY GetMessageKeeps DEF Frames
  <2>2. parts \in Contents
    BY DEF Contents
  <2> QED
    BY <1>1, <2>1, <2>2 DEF Messages
<1>3. delivered' = Append(delivered, d) /\ delivered \in Seq(Messages)
  BY DEF Hand, HandedBefore
<1>4. \A i \in DOMAIN delivered : delivered[i] \in Messages /\ delivered[i].at <= Len(read)
  BY <1>3 DEF HandedBefore
<1>5. \A i \in DOMAIN delivered : delivered[i].at \in Nat
  BY <1>4 DEF Messages
<1> HIDE DEF d
<1>6. /\ delivered' \in Seq(Messages)
      /\ DOMAIN delivered' = DOMAIN delivered \cup {Len(delivered) + 1}
      /\ delivered'[Len(delivered) + 1] = d
      /\ \A i \in DOMAIN delivered : delivered'[i] = delivered[i]
  <2> HIDE DEF Messages
  <2> QED
    BY <1>2, <1>3
<1>7. HandedBefore'
  BY <1>1, <1>2, <1>4, <1>5, <1>6 DEF HandedBefore
<1>8. Handed' = Handed \cup {d}
  BY <1>6 DEF Handed
<1>9. \A x \in Handed : ~(x.at = Len(read) + 1)
  BY <1>1, <1>4, <1>5 DEF Handed
<1>10. {x \in Handed' : x.at = Len(read) + 1} = {d}
  BY <1>2, <1>8, <1>9
<1> QED
  BY <1>7, <1>10 DEF d

\* Either way.
LEMMA HandedNow ==
  ASSUME IInv, HandedBefore, GetMessage, NEW l \in 0..31, NEW parts \in [0..l -> Nat], Hand(parts)
  PROVE  /\ HandedBefore'
         /\ {d \in Handed' : d.at = Len(read) + 1} =
              IF frame.id \in Registered
              THEN {[id |-> frame.id, at |-> Len(read) + 1, parts |-> parts]} ELSE {}
<1>1. CASE frame.id \in Registered
  BY <1>1, MessageHanded
<1>2. CASE frame.id \notin Registered
  <2>1. UNCHANGED delivered
    BY <1>2 DEF Hand
  <2> QED
    BY <1>2, <2>1, NothingHanded
<1> QED
  BY <1>1, <1>2

\* What is due at the frame that is read.
Due ==
  LET n == Len(read) + 1
      k == Key(frame)
  IN  IF frame.id \notin Registered THEN {}
      ELSE IF Multi(frame)
      THEN {[id |-> frame.id, at |-> n, parts |-> Content(read', k, m, n)] :
              m \in {i \in DOMAIN read : Whole(read', k, i, n)}}
      ELSE {[id |-> frame.id, at |-> n, parts |-> [l \in {0} |-> frame.packet]]}

\* It is what the histories say afterwards.
LEMMA DueNow == ASSUME IInv, GetMessage PROVE DueAt(Len(read))' = Due
<1> DEFINE k == Key(frame)
<1>1. PICK n \in Nat : /\ n = Len(read) + 1 /\ Len(read') = n /\ read'[n] = frame
                       /\ DOMAIN read = 1..(n - 1)
  <2>1. Len(read) + 1 \in Nat /\ Len(read') = Len(read) + 1 /\ read'[Len(read) + 1] = frame
    BY ReadGrows DEF Grown
  <2>2. DOMAIN read = 1..(Len(read) + 1 - 1)
    BY ReadGrows DEF Grown
  <2> QED
    BY <2>1, <2>2
<1> HIDE DEF k
<1>2. ASSUME NEW m PROVE Run(m, n)' = Part(read', k, m)
  BY <1>1 DEF Run, Part, k
<1>3. ASSUME NEW m \in DOMAIN read, Multi(frame)
      PROVE  IsPacket(m, n)' <=> Whole(read', k, m, n)
  BY <1>2 DEF IsPacket, Whole, InOrder, Before
<1>4. ASSUME NEW m PROVE Packet(m, n)' = Content(read', k, m, n)
  <2> DEFINE content(frames) == [l \in 0..read'[n].no |->
                                  read'[CHOOSE i \in frames : read'[i].no = l].packet]
  <2>1. Packet(m, n)' = content(Run(m, n)')
    BY DEF Packet
  <2>2. Content(read', k, m, n) = content(Part(read', k, m))
    BY DEF Content
  <2> HIDE DEF content
  <2> QED
    BY <1>2, <2>1, <2>2
<1>5. CASE frame.id \notin Registered
  BY <1>1, <1>5 DEF DueAt, Due
<1>6. CASE frame.id \in Registered /\ ~Multi(frame)
  BY <1>1, <1>6 DEF DueAt, Due
<1>7. CASE frame.id \in Registered /\ Multi(frame)
  <2>1. DueAt(Len(read))' =
          {[id |-> frame.id, at |-> n, parts |-> Packet(m, n)'] :
             m \in {i \in 1..(n - 1) : IsPacket(i, n)'}}
    BY <1>1, <1>7 DEF DueAt
  <2>2. {i \in 1..(n - 1) : IsPacket(i, n)'} = {i \in DOMAIN read : Whole(read', k, i, n)}
    BY <1>1, <1>3, <1>7
  <2>3. Due = {[id |-> frame.id, at |-> n, parts |-> Content(read', k, m, n)] :
                 m \in {i \in DOMAIN read : Whole(read', k, i, n)}}
    BY <1>1, <1>7 DEF Due, k
  <2> QED
    BY <1>4, <2>1, <2>2, <2>3
<1> QED
  BY <1>5, <1>6, <1>7

Delivery == HandedBefore /\ DeliversPackets

\* To compare what was handed over at a frame with what was due then.
LEMMA Delivers ==
  ASSUME IInv, GetMessage, HandedBefore', {d \in Handed' : d.at = Len(read) + 1} = Due
  PROVE  Delivery'
<1>1. Len(read') = Len(read) + 1
  BY ReadGrows DEF Grown
<1>2. {d \in Handed' : d.at = Len(read')} = {d \in Handed' : d.at = Len(read) + 1}
  BY <1>1
<1>3. DueAt(Len(read))' = Due
  BY DueNow
<1> QED
  BY <1>2, <1>3 DEF Delivery, DeliversPackets

\* A frame that is treated alone is a message.
LEMMA AloneDelivers == ASSUME IInv, Delivery, Single \/ Short PROVE Delivery'
<1>1. GetMessage /\ ~Multi(frame) /\ Hand([n \in {0} |-> frame.packet])
  BY DEF Single, Short, Multi
<1>2. [n \in {0} |-> frame.packet] \in [0..0 -> Nat]
  <2>1. frame.packet \in Nat
    BY <1>1, GetMessageKeeps DEF Frames
  <2>2. 0..0 = {0}
    OBVIOUS
  <2> QED
    BY <2>1, <2>2
<1>3. /\ HandedBefore'
      /\ {d \in Handed' : d.at = Len(read) + 1} =
           IF frame.id \in Registered
           THEN {[id |-> frame.id, at |-> Len(read) + 1, parts |-> [n \in {0} |-> frame.packet]]}
           ELSE {}
  <2>1. 0 \in 0..31
    OBVIOUS
  <2> QED
    BY <1>1, <1>2, <2>1, HandedNow DEF Delivery
<1>4. {d \in Handed' : d.at = Len(read) + 1} = Due
  BY <1>1, <1>3 DEF Due
<1> QED
  BY <1>1, <1>3, <1>4, Delivers

\* Frames that do not end a packet: nothing is due, nothing is handed over.
LEMMA NothingDue ==
  ASSUME IInv, Delivery, GetMessage, Multi(frame), UNCHANGED delivered,
         \A m \in DOMAIN read : ~Whole(read', Key(frame), m, Len(read) + 1)
  PROVE  Delivery'
<1>1. Due = {}
  BY DEF Due
<1>2. HandedBefore' /\ {d \in Handed' : d.at = Len(read) + 1} = {}
  BY NothingHanded DEF Delivery
<1> QED
  BY <1>1, <1>2, Delivers

\* What is a packet now was an entry, which had one frame to go.
LEMMA WholeWasEntry ==
  ASSUME IInv, Waiting, GetMessage, Multi(frame),
         NEW m \in DOMAIN read, Whole(read', Key(frame), m, Len(read) + 1)
  PROVE  /\ Key(frame) \in DOMAIN packages /\ frame.no # 0
         /\ Holds(read, Key(frame), m, packages[Key(frame)])
         /\ packages[Key(frame)].latest \in 0..31 /\ packages[Key(frame)].bytesLeft \in 1..217
         /\ frame.no = packages[Key(frame)].latest + 1
         /\ packages[Key(frame)].bytesLeft <= 7
<1>1. Grown(read, frame, read', Len(read) + 1)
  BY ReadGrows
<1>2. /\ Incomplete(read, Key(frame), m)
      /\ frame.no = Cardinality(Part(read, Key(frame), m))
  BY <1>1, WaitedBefore
<1>3. Key(frame) \in DOMAIN packages
  BY <1>2 DEF Waiting, IncompleteAreEntries
<1>4. /\ Holds(read, Key(frame), m, packages[Key(frame)])
      /\ packages[Key(frame)].latest \in 0..31 /\ packages[Key(frame)].bytesLeft \in 1..217
  BY <1>2, <1>3, OneWaits
<1>5. frame.no = packages[Key(frame)].latest + 1
  BY <1>2, <1>4 DEF Holds
<1>6. frame.no # 0
  <2>1. \A l \in 0..31 : l + 1 # 0
    OBVIOUS
  <2> QED
    BY <1>4, <1>5, <2>1, Zenon
<1>7. packages[Key(frame)].bytesLeft > 0
  <2>1. \A b \in 1..217 : b > 0
    OBVIOUS
  <2> QED
    BY <1>4, <2>1, Zenon
<1>8. packages[Key(frame)].bytesLeft <= 7
  BY <1>1, <1>4, <1>5, <1>7, CompleteIsWhole
<1> QED
  BY <1>3, <1>4, <1>5, <1>6, <1>8

\* No packet ends with a frame that opens, goes astray or leaves more to come.
LEMMA RestDelivers ==
  ASSUME IInv, Waiting, Delivery, Open \/ Orphan \/ OutOfOrder \/ Continue
  PROVE  Delivery'
<1>1. GetMessage /\ UNCHANGED delivered
  BY DEF Open, Orphan, OutOfOrder, Continue
<1>2. Multi(frame)
  <2>1. frame.id \in Fast /\ (frame.no # 0 \/ frame.len > 6)
    BY DEF Open, Orphan, OutOfOrder, Continue
  <2>2. frame.len \in 6..223
    BY <1>1, GetMessageKeeps DEF Frames
  <2> QED
    BY <2>1, <2>2 DEF Multi
<1>3. ASSUME NEW m \in DOMAIN read, Whole(read', Key(frame), m, Len(read) + 1) PROVE FALSE
  <2>1. /\ Key(frame) \in DOMAIN packages /\ frame.no # 0
        /\ packages[Key(frame)].latest \in 0..31 /\ packages[Key(frame)].bytesLeft \in 1..217
        /\ frame.no = packages[Key(frame)].latest + 1
        /\ packages[Key(frame)].bytesLeft <= 7
    BY <1>1, <1>2, <1>3, WholeWasEntry
  <2>2. ~(packages[Key(frame)].bytesLeft > 7) /\ packages[Key(frame)].latest + 1 = frame.no
    BY <2>1
  <2> QED
    BY <2>1, <2>2 DEF Open, Orphan, OutOfOrder, Continue
<1> QED
  BY <1>1, <1>2, <1>3, NothingDue

\* The last frame of an entry is the last frame of one packet, and its bytes
\* are handed over.
LEMMA CompleteDelivers == ASSUME IInv, Waiting, Delivery, Complete PROVE Delivery'
<1>1. /\ GetMessage /\ frame.id \in Fast /\ frame.no # 0 /\ Hand(Filled)
      /\ Key(frame) \in DOMAIN packages
      /\ packages[Key(frame)].latest + 1 = frame.no /\ packages[Key(frame)].bytesLeft <= 7
  BY DEF Complete, Expected
<1>2. Multi(frame) /\ Grown(read, frame, read', Len(read) + 1)
  BY <1>1, LaterFrame
<1>3. PICK m \in DOMAIN read :
        /\ Holds(read, Key(frame), m, packages[Key(frame)])
        /\ packages[Key(frame)].latest \in 0..31 /\ packages[Key(frame)].bytesLeft \in 1..217
        /\ \A l \in DOMAIN read : Incomplete(read, Key(frame), l) => l = m
  BY <1>1, OneWaits
<1>4. packages[Key(frame)].bytesLeft > 0 /\ frame.no = packages[Key(frame)].latest + 1
  BY <1>1, <1>3
<1>5. Whole(read', Key(frame), m, Len(read) + 1)
  BY <1>1, <1>2, <1>3, <1>4, CompleteIsWhole
<1>6. \A l \in DOMAIN read : Whole(read', Key(frame), l, Len(read) + 1) => l = m
  BY <1>2, <1>3, WaitedBefore
<1>7. /\ Content(read', Key(frame), m, Len(read) + 1) = Filled
      /\ Filled \in [0..frame.no -> Nat]
  <2>1. Filled = [l \in DOMAIN packages[Key(frame)].parts \cup {frame.no} |->
                    IF l = frame.no THEN frame.packet ELSE packages[Key(frame)].parts[l]]
    BY DEF Filled
  <2>2. /\ Content(read', Key(frame), m, Len(read) + 1) =
             [l \in DOMAIN packages[Key(frame)].parts \cup {frame.no} |->
                IF l = frame.no THEN frame.packet ELSE packages[Key(frame)].parts[l]]
        /\ Content(read', Key(frame), m, Len(read) + 1) \in [0..frame.no -> Nat]
    BY <1>2, <1>3, <1>4, ContentFilled
  <2> QED
    BY <2>1, <2>2, Zenon
<1>8. frame.no \in 0..31
  BY <1>1, GetMessageKeeps DEF Frames
<1>9. /\ HandedBefore'
      /\ {d \in Handed' : d.at = Len(read) + 1} =
           IF frame.id \in Registered
           THEN {[id |-> frame.id, at |-> Len(read) + 1, parts |-> Filled]} ELSE {}
  BY <1>1, <1>7, <1>8, HandedNow DEF Delivery
<1>10. {i \in DOMAIN read : Whole(read', Key(frame), i, Len(read) + 1)} = {m}
  BY <1>3, <1>5, <1>6
<1>11. Due = IF frame.id \in Registered
             THEN {[id |-> frame.id, at |-> Len(read) + 1, parts |-> Filled]} ELSE {}
  BY <1>2, <1>7, <1>10 DEF Due
<1> QED
  BY <1>1, <1>9, <1>11, Delivers

\* Every step keeps what was handed over the packets that were read.
LEMMA NextDelivers == IInv /\ Waiting /\ Delivery /\ [Next]_vars => Delivery'
<1> SUFFICES ASSUME IInv, Waiting, Delivery, [Next]_vars PROVE Delivery'
  OBVIOUS
<1>1. CASE UNCHANGED <<delivered, read>>
  <2>1. HandedBefore'
    BY <1>1 DEF Delivery, HandedBefore
  <2>2. Handed' = Handed
    BY <1>1 DEF Handed
  <2>3. \A m, n : Run(m, n)' = Run(m, n)
    BY <1>1 DEF Run
  <2>4. \A n : DueAt(n)' = DueAt(n)
    <3> DEFINE content(s, frames, n) == [k \in 0..s[n].no |->
                                           s[CHOOSE i \in frames : s[i].no = k].packet]
    <3>1. ASSUME NEW m, NEW n PROVE Packet(m, n)' = Packet(m, n)
      <4>1. /\ Packet(m, n)' = content(read', Run(m, n)', n)
            /\ Packet(m, n) = content(read, Run(m, n), n)
        BY DEF Packet
      <4> HIDE DEF content
      <4> QED
        BY <1>1, <2>3, <4>1
    <3>2. \A m, n : IsPacket(m, n)' <=> IsPacket(m, n)
      BY <1>1, <2>3 DEF IsPacket
    <3> QED
      BY <1>1, <3>1, <3>2 DEF DueAt
  <2>5. DeliversPackets'
    BY <1>1, <2>2, <2>4 DEF Delivery, DeliversPackets
  <2> QED
    BY <2>1, <2>5 DEF Delivery
<1>2. ((\E id \in Ids : Arrive(id)) \/ CheckBoth \/ CheckOne \/ UNCHANGED vars) =>
        UNCHANGED <<delivered, read>>
  BY DEF Arrive, CheckBoth, CheckOne, vars
<1> QED
  BY <1>1, <1>2, AloneDelivers, RestDelivers, CompleteDelivers DEF Next

\* Nothing is read, waits or has been handed over at first.
LEMMA InitDelivers == Init => Waiting /\ Delivery
<1> SUFFICES ASSUME Init PROVE Waiting /\ Delivery
  OBVIOUS
<1>1. read = <<>> /\ delivered = <<>> /\ DOMAIN packages = {}
  BY DEF Init
<1>2. Waiting
  BY <1>1 DEF Waiting, EntriesAreFrames, IncompleteAreEntries
<1>3. Delivery
  BY <1>1 DEF Delivery, HandedBefore, DeliversPackets
<1> QED
  BY <1>2, <1>3

\* ParseFastPkg() hands over exactly the gapless packets among the frames that
\* were read, each at its last frame and with its bytes, for any number of
\* devices, packets and sequence ids and in whatever order the frames are read.
THEOREM HandsOverPackets == Spec => []DeliversPackets
<1>1. Init => IInv /\ Waiting /\ Delivery
  BY InitEstablishes, InitDelivers
<1>2. IInv /\ Waiting /\ Delivery /\ [Next]_vars => (IInv /\ Waiting /\ Delivery)'
  BY NextKeeps, NextWaits, NextDelivers
<1>3. Delivery => DeliversPackets
  BY DEF Delivery
<1> QED
  BY <1>1, <1>2, <1>3, PTL DEF Spec
------------------------------------------------------------------------------
(***************************************************************************)
(* The frames that have been on the wire: all of them are in a buffer, have *)
(* been read or are lost, and they have come in the order their device has *)
(* sent them in.                                                           *)
(***************************************************************************)
OnWire == Seen \cup lost

\* Device d of identifier id has sent frame f.
SentBy(d, f) ==
  /\ f.len \in LengthsOf(f.id) /\ f.no < FramesOf(f.id, f.len)
  /\ \/ f.packet < d.packet
     \/ f.packet = d.packet /\ f.no < d.no /\ f.len = d.len

EarlierFrame(f, g) == f.packet < g.packet \/ (f.packet = g.packet /\ f.no < g.no)

Came(W, id, p, n) == \E g \in W : g.id = id /\ g.packet = p /\ g.no = n

\* W holds what the devices have sent, in their order.
InSequence(W) ==
  \A f, g \in W : f.id = g.id =>
    /\ f.packet = g.packet => f.len = g.len
    /\ f.packet = g.packet /\ f.no = g.no => f.at = g.at
    /\ EarlierFrame(f, g) => f.at < g.at

\* Nothing of what the device has sent is missing.
AllThere(W, id, d) ==
  /\ \A p \in 1..(d.packet - 1) : Came(W, id, p, 0)
  /\ \A f \in W : f.id = id /\ f.packet < d.packet =>
       \A n \in 0..(FramesOf(id, f.len) - 1) : Came(W, id, f.packet, n)
  /\ \A n \in 0..(d.no - 1) : Came(W, id, d.packet, n)

Wire(W, devices, last) ==
  /\ W \subseteq Frames
  /\ \A f \in W : f.at <= last /\ SentBy(devices[f.id], f)
  /\ InSequence(W)
  /\ \A id \in Ids : AllThere(W, id, devices[id])

\* A frame is in one place only, and has been read once.
Once ==
  /\ \A i, j \in DOMAIN read : i # j => read[i].at # read[j].at
  /\ \A i \in DOMAIN read : \A b \in Full : read[i].at # rx[b].at
  /\ \A b, c \in Full : b # c => rx[b].at # rx[c].at

\* A frame that arrives joins the others.
LEMMA ArriveAdds ==
  ASSUME IInv, NEW id \in Ids, Arrive(id),
         NEW f, f = [id |-> id, packet |-> device[id].packet, no |-> device[id].no,
                     len |-> device[id].len, at |-> arrived + 1]
  PROVE  /\ f \in Frames /\ OnWire' = OnWire \cup {f}
         /\ \A b \in Full' : (b \in Full /\ rx'[b] = rx[b]) \/ (b \notin Full /\ rx'[b] = f)
         /\ \A b, c \in Full' : b \notin Full /\ c \notin Full => b = c
<1>1. f \in Frames /\ Accept(f) /\ read' = read
  BY DEF Arrive, IInv, TypeOK, Frames
<1>2. f # None /\ rx \in [Buffers -> Frames \cup {None}]
  BY <1>1, NoneIsNoFrame DEF IInv, TypeOK
<1> DEFINE held == {rx[b] : b \in Full}
           were == {read[i] : i \in DOMAIN read}
<1>3. Seen = were \cup held /\ Seen' = were \cup held'
  BY <1>1 DEF Seen
<1>4. CASE rx["RXB0"] = None
  <2>1. rx' = [rx EXCEPT !["RXB0"] = f] /\ lost' = lost
    BY <1>1, <1>4 DEF Accept
  <2>2. Full' = Full \cup {"RXB0"} /\ "RXB0" \notin Full
        /\ \A b \in Full : rx'[b] = rx[b]
    BY <1>2, <1>4, <2>1 DEF Full, Buffers
  <2>3. rx'["RXB0"] = f
    BY <1>2, <2>1 DEF Buffers
  <2>4. held' = held \cup {f}
    BY <2>2, <2>3
  <2>5. OnWire' = OnWire \cup {f}
    <3> HIDE DEF held, were
    <3> QED
      BY <1>3, <2>1, <2>4 DEF OnWire
  <2> QED
    BY <1>1, <2>2, <2>3, <2>5
<1>5. CASE rx["RXB0"] # None /\ rx["RXB1"] = None
  <2>1. rx' = [rx EXCEPT !["RXB1"] = f] /\ lost' = lost
    BY <1>1, <1>5 DEF Accept
  <2>2. Full' = Full \cup {"RXB1"} /\ "RXB1" \notin Full
        /\ \A b \in Full : rx'[b] = rx[b]
    BY <1>2, <1>5, <2>1 DEF Full, Buffers
  <2>3. rx'["RXB1"] = f
    BY <1>2, <2>1 DEF Buffers
  <2>4. held' = held \cup {f}
    BY <2>2, <2>3
  <2>5. OnWire' = OnWire \cup {f}
    <3> HIDE DEF held, were
    <3> QED
      BY <1>3, <2>1, <2>4 DEF OnWire
  <2> QED
    BY <1>1, <2>2, <2>3, <2>5
<1>6. CASE rx["RXB0"] # None /\ rx["RXB1"] # None
  <2>1. rx' = rx /\ lost' = lost \cup {f}
    BY <1>1, <1>6 DEF Accept
  <2>2. Full' = Full /\ held' = held
    BY <2>1 DEF Full
  <2>3. OnWire' = OnWire \cup {f}
    <3> HIDE DEF held, were
    <3> QED
      BY <1>3, <2>1, <2>2 DEF OnWire
  <2> QED
    BY <1>1, <2>1, <2>2, <2>3
<1> QED
  BY <1>4, <1>5, <1>6

\* It is the next one of its device.
LEMMA ArriveOnWire ==
  ASSUME IInv, Wire(OnWire, device, arrived), NEW id \in Ids, Arrive(id)
  PROVE  Wire(OnWire, device, arrived)'
<1> DEFINE d == device[id]
           e == device'[id]
           f == [id |-> id, packet |-> d.packet, no |-> d.no, len |-> d.len, at |-> arrived + 1]
           W == OnWire
           X == OnWire \cup {f}
<1>1. f \in Frames /\ OnWire' = X
  BY ArriveAdds
<1>2. /\ f.id = id /\ f.packet = d.packet /\ f.no = d.no /\ f.len = d.len
      /\ f.at = arrived + 1 /\ arrived' = arrived + 1 /\ arrived \in Nat
  BY DEF Arrive, IInv, TypeOK
<1>3. /\ d.packet \in Nat \ {0} /\ d.no \in 0..31 /\ d.len \in LengthsOf(id)
      /\ d.no < FramesOf(id, d.len) /\ FramesOf(id, d.len) \in 1..32
  BY FrameCount DEF IInv, TypeOK, Device
<1>4. /\ \A i \in Ids : i # id => device'[i] = device[i]
      /\ \/ /\ d.no + 1 < FramesOf(id, d.len)
            /\ e.packet = d.packet /\ e.no = d.no + 1 /\ e.len = d.len
         \/ /\ d.no + 1 = FramesOf(id, d.len)
            /\ e.packet = d.packet + 1 /\ e.no = 0
  <2>1. /\ device \in [Ids -> [packet : Nat \ {0}, no : 0..31, len : 6..223]]
        /\ Advance(id)
    BY DEF Arrive, IInv, TypeOK
  <2> QED
    BY <1>3, <2>1 DEF Advance
<1>5. W \subseteq Frames /\ \A g \in W : /\ g.at <= arrived /\ SentBy(device[g.id], g)
                                         /\ g.at \in Nat /\ g.packet \in Nat /\ g.no \in Nat
                                         /\ g.id \in Ids
  BY DEF Wire, Frames
<1> HIDE DEF d, e, f, W
<1>6. \A g \in X : g.at <= arrived' /\ SentBy(device'[g.id], g)
  <2>1. f.at <= arrived' /\ SentBy(device'[id], f)
    BY <1>2, <1>3, <1>4 DEF SentBy, e
  <2>2. ASSUME NEW g \in W PROVE g.at <= arrived' /\ SentBy(device'[g.id], g)
    <3>1. g.at <= arrived'
      BY <1>2, <1>5
    <3>2. CASE g.id = id
      <4>1. SentBy(d, g) /\ g.packet \in Nat /\ g.no \in Nat
        BY <1>5, <3>2 DEF d
      <4>2. SentBy(e, g)
        BY <1>3, <1>4, <3>2, <4>1 DEF SentBy
      <4> QED
        BY <3>1, <3>2, <4>2 DEF e
    <3>3. CASE g.id # id
      <4>1. SentBy(device[g.id], g) /\ g.id \in Ids
        BY <1>5
      <4>2. device'[g.id] = device[g.id]
        BY <1>4, <3>3, <4>1
      <4> QED
        BY <3>1, <4>1, <4>2
    <3> QED
      BY <3>1, <3>2, <3>3
  <2> QED
    BY <1>2, <2>1, <2>2 DEF W
<1>7. InSequence(X)
  <2>1. ASSUME NEW g \in W, g.id = id
        PROVE  /\ g.packet = f.packet => g.len = f.len
               /\ ~ (g.packet = f.packet /\ g.no = f.no)
               /\ g.at < f.at /\ ~ EarlierFrame(f, g)
    BY <1>2, <1>3, <1>5, <2>1 DEF SentBy, EarlierFrame, d
  <2>2. ~ EarlierFrame(f, f)
    BY <1>2, <1>3 DEF EarlierFrame
  <2>3. InSequence(W)
    BY DEF Wire, W
  <2>4. \A g, h \in W : g.id = h.id =>
          /\ g.packet = h.packet => g.len = h.len
          /\ g.packet = h.packet /\ g.no = h.no => g.at = h.at
          /\ EarlierFrame(g, h) => g.at < h.at
    BY <2>3 DEF InSequence
  <2> QED
    BY <1>2, <2>1, <2>2, <2>4 DEF InSequence, W
<1>8. \A i \in Ids : AllThere(X, i, device'[i])
  <2>1. ASSUME NEW i, NEW p, NEW n PROVE Came(W, i, p, n) => Came(X, i, p, n)
    BY DEF Came, W
  <2>2. \A i \in Ids : AllThere(W, i, device[i])
    BY DEF Wire, W
  <2>3. ASSUME NEW i \in Ids, i # id PROVE AllThere(X, i, device'[i])
    BY <1>2, <1>4, <2>1, <2>2, <2>3 DEF AllThere, W
  <2>4. Came(X, id, d.packet, d.no)
    BY <1>2 DEF Came
  <2>5. /\ \A p \in 1..(d.packet - 1) : Came(X, id, p, 0)
        /\ \A g \in W : g.id = id /\ g.packet < d.packet =>
             \A n \in 0..(FramesOf(id, g.len) - 1) : Came(X, id, g.packet, n)
        /\ \A n \in 0..(d.no - 1) : Came(X, id, d.packet, n)
    BY <2>1, <2>2 DEF AllThere, d
  <2>6. \A n \in 0..d.no : Came(X, id, d.packet, n)
    <3>1. \A n \in 0..d.no : n \in 0..(d.no - 1) \/ n = d.no
      BY <1>3
    <3> QED
      BY <2>4, <2>5, <3>1
  <2>7. AllThere(X, id, e)
    <3>1. CASE e.packet = d.packet /\ e.no = d.no + 1
      <4>1. d.no + 1 - 1 = d.no /\ ~(f.packet < e.packet)
        BY <1>2, <1>3, <3>1
      <4>2. \A g \in X : g.id = id /\ g.packet < e.packet => g \in W
        BY <4>1 DEF W
      <4>3. e.no - 1 = d.no
        BY <1>3, <3>1
      <4>4. \A p \in 1..(e.packet - 1) : Came(X, id, p, 0)
        BY <2>5, <3>1
      <4>5. \A g \in X : g.id = id /\ g.packet < e.packet =>
              \A n \in 0..(FramesOf(id, g.len) - 1) : Came(X, id, g.packet, n)
        <5> HIDE DEF X
        <5> QED
          BY <2>5, <3>1, <4>2
      <4>6. \A n \in 0..(e.no - 1) : Came(X, id, e.packet, n)
        <5> HIDE DEF X
        <5> QED
          BY <2>6, <3>1, <4>3
      <4> QED
        BY <4>4, <4>5, <4>6 DEF AllThere
    <3>2. CASE e.packet = d.packet + 1 /\ e.no = 0 /\ d.no + 1 = FramesOf(id, d.len)
      <4>1. ASSUME NEW p \in 1..(e.packet - 1) PROVE Came(X, id, p, 0)
        <5>1. p \in 1..(d.packet - 1) \/ p = d.packet
          BY <1>3, <3>2
        <5>2. 0 \in 0..d.no
          BY <1>3
        <5> QED
          BY <2>5, <2>6, <5>1, <5>2
      <4>2. ASSUME NEW g \in X, g.id = id, g.packet < e.packet,
                   NEW n \in 0..(FramesOf(id, g.len) - 1)
            PROVE  Came(X, id, g.packet, n)
        <5>1. CASE g \in W /\ g.packet < d.packet
          BY <2>5, <4>2, <5>1
        <5>2. CASE g.packet = d.packet /\ g.len = d.len
          <6>1. n \in 0..d.no
            BY <1>3, <3>2, <5>2
          <6> QED
            BY <2>6, <5>2, <6>1
        <5>3. g \in W => SentBy(d, g) /\ g.packet \in Nat
          BY <1>5, <4>2 DEF d
        <5>4. g \in W => g.packet < d.packet \/ (g.packet = d.packet /\ g.len = d.len)
          BY <5>3 DEF SentBy
        <5>5. g \in W \/ g = f
          BY DEF W
        <5> QED
          BY <1>2, <5>1, <5>2, <5>4, <5>5
      <4>3. 0..(e.no - 1) = {}
        BY <3>2
      <4> QED
        BY <4>1, <4>2, <4>3 DEF AllThere
    <3> QED
      BY <1>4, <3>1, <3>2
  <2> QED
    BY <2>3, <2>7 DEF e
<1>9. Wire(X, device', arrived')
  BY <1>1, <1>5, <1>6, <1>7, <1>8 DEF Wire, W
<1> QED
  BY <1>1, <1>9 DEF Wire, InSequence, AllThere, Came, SentBy, EarlierFrame, LengthsOf, FramesOf, Frames

\* A frame that arrives is newer than all others.
LEMMA ArriveOnce ==
  ASSUME IInv, Wire(OnWire, device, arrived), Once, NEW id \in Ids, Arrive(id)
  PROVE  Once'
<1> DEFINE f == [id |-> id, packet |-> device[id].packet, no |-> device[id].no,
                 len |-> device[id].len, at |-> arrived + 1]
<1>1. /\ \A b \in Full' : (b \in Full /\ rx'[b] = rx[b]) \/ (b \notin Full /\ rx'[b] = f)
      /\ \A b, c \in Full' : b \notin Full /\ c \notin Full => b = c
  BY ArriveAdds
<1>2. f.at = arrived + 1 /\ arrived \in Nat /\ read' = read
  BY DEF Arrive, IInv, TypeOK
<1>3. \A g \in OnWire : g.at <= arrived /\ g.at \in Nat
  BY DEF Wire, Frames
<1>4. /\ \A i \in DOMAIN read : read[i] \in OnWire
      /\ \A b \in Full : rx[b] \in OnWire
  BY DEF OnWire, Seen
<1>5. \A i \in DOMAIN read : read[i].at # f.at
  BY <1>2, <1>3, <1>4
<1>6. \A b \in Full : rx[b].at # f.at
  BY <1>2, <1>3, <1>4
<1> HIDE DEF f
<1> QED
  BY <1>1, <1>2, <1>5, <1>6 DEF Once

\* A frame that is read stays where it can be seen, and only there.
LEMMA ReadMoves ==
  ASSUME IInv, Once, GetMessage
  PROVE  OnWire' = OnWire /\ Once'
<1>1. /\ pc \in Buffers /\ rx[pc] # None /\ frame = rx[pc] /\ pc \in Full
      /\ rx' = [rx EXCEPT ![pc] = None] /\ rx \in [Buffers -> Frames \cup {None}]
      /\ lost' = lost
  BY DEF GetMessage, IInv, TypeOK, frame, Full
<1>2. /\ read' = Append(read, frame) /\ read \in Seq(Frames) /\ frame \in Frames
  BY GetMessageKeeps DEF GetMessage, IInv, TypeOK
<1>3. /\ DOMAIN read' = DOMAIN read \cup {Len(read) + 1} /\ Len(read) + 1 \notin DOMAIN read
      /\ \A i \in DOMAIN read : read'[i] = read[i]
      /\ read'[Len(read) + 1] = frame
  BY <1>2
<1>4. Full' = Full \ {pc} /\ \A b \in Full' : rx'[b] = rx[b]
  BY <1>1 DEF Full
<1> DEFINE held == {rx[b] : b \in Full}
           were == {read[i] : i \in DOMAIN read}
<1>5. held = held' \cup {frame}
  <2>1. held = {rx[b] : b \in Full \ {pc}} \cup {rx[pc]}
    BY <1>1
  <2>2. held' = {rx[b] : b \in Full \ {pc}}
    BY <1>4
  <2> QED
    BY <1>1, <2>1, <2>2
<1>6. were' = were \cup {frame}
  BY <1>3
<1>7. OnWire' = OnWire
  BY <1>1, <1>5, <1>6 DEF OnWire, Seen
<1>8. Once'
  BY <1>1, <1>3, <1>4 DEF Once
<1> QED
  BY <1>7, <1>8

\* Nothing has come yet.
LEMMA InitWire == Init => Wire(OnWire, device, arrived) /\ Once
<1> SUFFICES ASSUME Init PROVE Wire(OnWire, device, arrived) /\ Once
  OBVIOUS
<1>1. OnWire = {} /\ Full = {} /\ DOMAIN read = {}
  BY DEF Init, OnWire, Seen, Full
<1>2. \A id \in Ids : device[id].packet = 1 /\ device[id].no = 0
  BY DEF Init
<1>3. 1..(1 - 1) = {} /\ 0..(0 - 1) = {}
  OBVIOUS
<1>4. \A id \in Ids : AllThere({}, id, device[id])
  BY <1>2, <1>3 DEF AllThere
<1> QED
  BY <1>1, <1>4 DEF Wire, InSequence, Once

\* Every step keeps the frames complete and in order.
LEMMA NextWire ==
  IInv /\ Wire(OnWire, device, arrived) /\ Once /\ [Next]_vars =>
    (Wire(OnWire, device, arrived) /\ Once)'
<1> SUFFICES ASSUME IInv, Wire(OnWire, device, arrived), Once, [Next]_vars
             PROVE  (Wire(OnWire, device, arrived) /\ Once)'
  OBVIOUS
<1>1. ASSUME OnWire' = OnWire, UNCHANGED <<device, arrived>> PROVE Wire(OnWire, device, arrived)'
  BY <1>1 DEF Wire, InSequence, AllThere, Came, SentBy, EarlierFrame, LengthsOf, FramesOf, Frames
<1>2. CASE \E id \in Ids : Arrive(id)
  BY <1>2, ArriveOnWire, ArriveOnce
<1>3. CASE GetMessage
  <2>1. UNCHANGED <<device, arrived>>
    BY <1>3 DEF GetMessage
  <2> QED
    BY <1>1, <1>3, <2>1, ReadMoves
<1>4. CASE UNCHANGED <<device, arrived, rx, read, lost>>
  <2>1. OnWire' = OnWire /\ Full' = Full
    BY <1>4 DEF OnWire, Seen, Full
  <2>2. Once'
    BY <1>4, <2>1 DEF Once
  <2> QED
    BY <1>1, <1>4, <2>1, <2>2
<1>5. CheckBoth \/ CheckOne \/ UNCHANGED vars => UNCHANGED <<device, arrived, rx, read, lost>>
  BY DEF CheckBoth, CheckOne, vars
<1>6. Single \/ Short \/ Open \/ Orphan \/ OutOfOrder \/ Continue \/ Complete => GetMessage
  BY DEF Single, Short, Open, Orphan, OutOfOrder, Continue, Complete
<1> QED
  BY <1>2, <1>3, <1>4, <1>5, <1>6 DEF Next

------------------------------------------------------------------------------
(***************************************************************************)
(* What was handed over at every frame that has been read.                 *)
(***************************************************************************)

\* Frames numbered by their place among themselves have different numbers, and
\* all numbers below how many they are.
LEMMA NumbersFill ==
  ASSUME NEW s \in Seq(Frames), NEW R \in SUBSET (1..Len(s)),
         \A i \in R : s[i].no = Cardinality({j \in R : j < i})
  PROVE  /\ IsFiniteSet(R) /\ Cardinality(R) \in Nat
         /\ \A i \in R : s[i].no \in 0..(Cardinality(R) - 1)
         /\ \A i, j \in R : i < j => s[i].no < s[j].no
         /\ \A l \in 0..(Cardinality(R) - 1) : \E i \in R : s[i].no = l
<1> DEFINE below(i) == {j \in R : j < i}
           c == Cardinality(R)
<1>1. IsFiniteSet(R) /\ c \in Nat /\ R \subseteq Nat
  <2>1. Len(s) \in Nat /\ IsFiniteSet(1..Len(s))
    BY FS_Interval
  <2>2. IsFiniteSet(R)
    BY <2>1, FS_Subset
  <2> QED
    BY <2>1, <2>2, FS_CardinalityType
<1>2. \A i \in R : IsFiniteSet(below(i)) /\ Cardinality(below(i)) \in Nat
  <2>1. \A i \in R : below(i) \in SUBSET R
    OBVIOUS
  <2> QED
    BY <1>1, <2>1, FS_Subset, FS_CardinalityType
<1>6. \A i \in R : s[i].no = Cardinality(below(i)) /\ s[i].no \in Nat
  BY <1>2
<1>3. ASSUME NEW i \in R PROVE s[i].no \in 0..(c - 1)
  <2>1. below(i) \in SUBSET R /\ below(i) # R
    BY <1>1
  <2>2. Cardinality(below(i)) <= c /\ Cardinality(below(i)) # c
    BY <1>1, <2>1, FS_Subset
  <2> HIDE DEF below, c
  <2> QED
    BY <1>1, <1>2, <1>6, <2>2
<1>4. ASSUME NEW i \in R, NEW j \in R, i < j PROVE s[i].no < s[j].no
  <2>1. below(i) \in SUBSET below(j) /\ i \in below(j) /\ i \notin below(i)
    <3>1. i \in Nat /\ j \in Nat /\ \A k \in R : k \in Nat
      BY <1>1
    <3>2. (\A k \in R : k < i => k < j) /\ ~(i < i)
      BY <1>4, <3>1
    <3>3. \A k \in below(i) : k \in below(j)
      BY <3>2
    <3>4. i \in below(j) /\ i \notin below(i)
      BY <1>4, <3>2
    <3> QED
      BY <3>3, <3>4
  <2>2. Cardinality(below(i)) <= Cardinality(below(j))
        /\ Cardinality(below(i)) # Cardinality(below(j))
    BY <1>2, <2>1, FS_Subset
  <2> HIDE DEF below
  <2> QED
    BY <1>2, <1>6, <2>2
<1>5. ASSUME NEW l \in 0..(c - 1) PROVE \E i \in R : s[i].no = l
  <2> DEFINE T == {s[i].no : i \in R}
             number == [i \in R |-> s[i].no]
  <2>1. ASSUME NEW i \in R, NEW j \in R, s[i].no = s[j].no PROVE i = j
    <3>1. i \in Nat /\ j \in Nat /\ s[i].no \in Nat /\ s[j].no \in Nat
      BY <1>1, <1>6
    <3>2. ~ (i < j) /\ ~ (j < i)
      BY <1>4, <2>1, <3>1
    <3> QED
      BY <3>1, <3>2
  <2>2. number \in Bijection(R, T)
    <3>1. number \in [R -> T] /\ \A t \in T : \E i \in R : number[i] = t
      OBVIOUS
    <3>2. \A i, j \in R : number[i] = number[j] => i = j
      BY <2>1
    <3> QED
      BY <3>1, <3>2 DEF Bijection, Injection, Surjection, IsInjective
  <2>3. ExistsBijection(R, T)
    BY <2>2 DEF ExistsBijection
  <2>4. Cardinality(T) = c
    BY <1>1, <2>3, FS_Bijection
  <2>5. IsFiniteSet(0..(c - 1)) /\ Cardinality(0..(c - 1)) = c
    BY <1>1, FS_Interval
  <2>6. T \in SUBSET (0..(c - 1))
    BY <1>3
  <2>7. T = 0..(c - 1)
    BY <2>4, <2>5, <2>6, FS_Subset
  <2> QED
    BY <2>7
<1> QED
  BY <1>1, <1>3, <1>4, <1>5

\* All numbers up to the last frame's are in a packet.
LEMMA PacketIsFull ==
  ASSUME read \in Seq(Frames), NEW n \in DOMAIN read, NEW m \in 1..n, IsPacket(m, n)
  PROVE  /\ Run(m, n) \in SUBSET DOMAIN read
         /\ \A i, j \in Run(m, n) : i < j => read[i].no < read[j].no
         /\ \A l \in 0..read[n].no : \E i \in Run(m, n) : read[i].no = l
         /\ \A i \in Run(m, n) : read[i].no \in 0..read[n].no
         /\ read[n].no = FramesOf(read[m].id, read[m].len) - 1
         /\ read[m].no = 0
<1> DEFINE R == Run(m, n)
<1>1. /\ R \in SUBSET (1..Len(read)) /\ \A i \in R : i \in Nat /\ i >= m /\ i <= n
      /\ DOMAIN read = 1..Len(read)
  BY DEF Run
<1>2. m \in R /\ n \in R /\ Cardinality(R) = FramesOf(read[m].id, read[m].len)
  BY DEF IsPacket
<1>3. /\ IsFiniteSet(R) /\ Cardinality(R) \in Nat
      /\ \A i \in R : read[i].no \in 0..(Cardinality(R) - 1)
      /\ \A i, j \in R : i < j => read[i].no < read[j].no
      /\ \A l \in 0..(Cardinality(R) - 1) : \E i \in R : read[i].no = l
  <2>1. \A i \in R : read[i].no = Cardinality({j \in R : j < i})
    BY DEF IsPacket
  <2> HIDE DEF R
  <2> QED
    BY <1>1, <2>1, NumbersFill
<1> HIDE DEF R
<1>4. Cardinality(R) - 1 \in 0..(Cardinality(R) - 1)
  <2>1. read[n].no \in 0..(Cardinality(R) - 1)
    BY <1>2, <1>3
  <2> QED
    BY <1>3, <2>1
<1>5. read[n].no = Cardinality(R) - 1
  <2>1. PICK i \in R : read[i].no = Cardinality(R) - 1
    BY <1>3, <1>4
  <2>2. i = n \/ i < n
    BY <1>1, <1>2
  <2>3. i < n => read[i].no < read[n].no
    BY <1>2, <1>3
  <2>4. read[n].no \in 0..(Cardinality(R) - 1)
    BY <1>2, <1>3
  <2> QED
    BY <1>3, <2>1, <2>2, <2>3, <2>4
<1>6. read[m].no = 0
  <2>1. PICK i \in R : read[i].no = 0
    BY <1>3, <1>4
  <2>2. i = m \/ m < i
    BY <1>1, <1>2
  <2>3. m < i => read[m].no < read[i].no
    BY <1>2, <1>3
  <2>4. read[m].no \in 0..(Cardinality(R) - 1)
    BY <1>2, <1>3
  <2> QED
    BY <1>3, <2>1, <2>2, <2>3, <2>4
<1> QED
  BY <1>1, <1>2, <1>3, <1>5, <1>6 DEF R

EachDelivered == \A n \in DOMAIN read : {d \in Handed : d.at = n} = DueAt(n)

\* What was due at a frame does not change with the frames after it.
LEMMA DueStays ==
  ASSUME read \in Seq(Frames), NEW f \in Frames, read' = Append(read, f), NEW n \in DOMAIN read
  PROVE  DueAt(n)' = DueAt(n)
<1>1. /\ n \in Nat \ {0} /\ n <= Len(read) /\ DOMAIN read = 1..Len(read) /\ Len(read) \in Nat
      /\ \A i \in 1..n : i \in DOMAIN read /\ read'[i] = read[i]
  OBVIOUS
<1>2. read'[n] = read[n]
  BY <1>1
<1>3. ASSUME NEW m \in 1..n
      PROVE  /\ Run(m, n)' = Run(m, n) /\ \A i \in Run(m, n) : read'[i] = read[i]
             /\ read'[m] = read[m]
  <2>1. \A i \in m..n : i \in 1..n
    BY <1>1
  <2> QED
    BY <1>1, <1>2, <2>1 DEF Run
<1>4. ASSUME NEW m \in 1..n PROVE IsPacket(m, n)' <=> IsPacket(m, n)
  BY <1>3 DEF IsPacket
<1>5. ASSUME NEW m \in 1..n, IsPacket(m, n) PROVE Packet(m, n)' = Packet(m, n)
  <2> DEFINE R == Run(m, n)
             pick(l) == CHOOSE i \in R : read[i].no = l
             picked(l) == CHOOSE i \in R : read'[i].no = l
  <2>1. Run(m, n)' = R /\ \A i \in R : read'[i] = read[i]
    BY <1>3
  <2>2. ASSUME NEW l \in 0..read[n].no PROVE read'[picked(l)] = read[pick(l)]
    <3>1. \E i \in R : read[i].no = l
      BY <1>5, PacketIsFull
    <3>2. picked(l) = pick(l)
      BY <2>1
    <3>3. pick(l) \in R
      BY <3>1
    <3> QED
      BY <2>1, <3>2, <3>3
  <2>3. Packet(m, n) = [l \in 0..read[n].no |-> read[pick(l)].packet]
    BY DEF Packet
  <2>4. Packet(m, n)' = [l \in 0..read'[n].no |-> read'[picked(l)].packet]
    BY <2>1 DEF Packet
  <2> HIDE DEF R, pick, picked
  <2> QED
    BY <1>2, <2>2, <2>3, <2>4
<1>6. {i \in 1..(n - 1) : IsPacket(i, n)'} = {i \in 1..(n - 1) : IsPacket(i, n)}
  <2>1. \A i \in 1..(n - 1) : i \in 1..n
    BY <1>1
  <2> QED
    BY <1>4, <2>1
<1>7. \A m \in {i \in 1..(n - 1) : IsPacket(i, n)} : Packet(m, n)' = Packet(m, n)
  <2>1. \A i \in 1..(n - 1) : i \in 1..n
    BY <1>1
  <2> QED
    BY <1>5, <2>1
<1> QED
  BY <1>2, <1>6, <1>7 DEF DueAt

\* Nothing is handed over at a frame afterwards.
LEMMA HandedStays ==
  ASSUME IInv, HandedBefore, GetMessage, NEW parts,
         Hand(parts) \/ UNCHANGED delivered, NEW n \in DOMAIN read
  PROVE  {d \in Handed' : d.at = n} = {d \in Handed : d.at = n}
<1>1. n \in Nat /\ n < Len(read) + 1 /\ Len(read) \in Nat
  BY DEF IInv, TypeOK
<1>2. CASE UNCHANGED delivered
  BY <1>2 DEF Handed
<1>3. CASE ~ UNCHANGED delivered
  <2> DEFINE d == [id |-> frame.id, at |-> Len(read) + 1, parts |-> parts]
  <2>1. delivered' = Append(delivered, d) /\ delivered \in Seq(Messages)
    BY <1>3 DEF Hand, HandedBefore
  <2>2. d.at # n
    BY <1>1
  <2> HIDE DEF d
  <2>3. Handed' = Handed \cup {d}
    BY <2>1 DEF Handed
  <2> QED
    BY <2>2, <2>3
<1> QED
  BY <1>2, <1>3

\* At every frame the messages were handed over that were due at it.
LEMMA NextEach ==
  IInv /\ Delivery /\ EachDelivered /\ [Next]_vars /\ Delivery' => EachDelivered'
<1> SUFFICES ASSUME IInv, Delivery, EachDelivered, [Next]_vars, Delivery' PROVE EachDelivered'
  OBVIOUS
<1>1. CASE UNCHANGED <<delivered, read>>
  <2>1. \A m, n : Run(m, n)' = Run(m, n)
    BY <1>1 DEF Run
  <2>2. \A n : DueAt(n)' = DueAt(n)
    <3> DEFINE content(s, frames, n) == [k \in 0..s[n].no |->
                                           s[CHOOSE i \in frames : s[i].no = k].packet]
    <3>1. ASSUME NEW m, NEW n PROVE Packet(m, n)' = Packet(m, n)
      <4>1. /\ Packet(m, n)' = content(read', Run(m, n)', n)
            /\ Packet(m, n) = content(read, Run(m, n), n)
        BY DEF Packet
      <4> HIDE DEF content
      <4> QED
        BY <1>1, <2>1, <4>1
    <3>2. \A m, n : IsPacket(m, n)' <=> IsPacket(m, n)
      BY <1>1, <2>1 DEF IsPacket
    <3> QED
      BY <1>1, <3>1, <3>2 DEF DueAt
  <2> QED
    BY <1>1, <2>2 DEF EachDelivered, Handed
<1>2. CASE GetMessage /\ \E parts : Hand(parts) \/ UNCHANGED delivered
  <2>1. PICK parts : Hand(parts) \/ UNCHANGED delivered
    BY <1>2
  <2>2. read' = Append(read, frame) /\ read \in Seq(Frames) /\ frame \in Frames
    BY <1>2, GetMessageKeeps DEF GetMessage, IInv, TypeOK
  <2>3. ASSUME NEW n \in DOMAIN read PROVE {d \in Handed' : d.at = n} = DueAt(n)'
    BY <1>2, <2>1, <2>2, HandedStays, DueStays DEF Delivery, EachDelivered
  <2>4. Len(read)' = Len(read) + 1 /\ DOMAIN read' = DOMAIN read \cup {Len(read) + 1}
        /\ read' # <<>>
    BY <2>2
  <2>5. {d \in Handed' : d.at = Len(read)'} = DueAt(Len(read))'
    BY <2>4 DEF Delivery, DeliversPackets
  <2>6. ASSUME NEW n, n = Len(read)' PROVE {d \in Handed' : d.at = n} = DueAt(n)'
    BY <2>5, <2>6
  <2> QED
    BY <2>3, <2>4, <2>6 DEF EachDelivered
<1>3. \/ UNCHANGED <<delivered, read>>
      \/ GetMessage /\ \E parts : Hand(parts) \/ UNCHANGED delivered
  BY DEF Next, Arrive, CheckBoth, CheckOne, vars, Single, Short, Open, Orphan, OutOfOrder,
         Continue, Complete
<1> QED
  BY <1>1, <1>2, <1>3

------------------------------------------------------------------------------
(***************************************************************************)
(* What an undisturbed packet can rely on.                                 *)
(***************************************************************************)
Received == IInv /\ Wire(OnWire, device, arrived) /\ Once

\* Its frames are seen, and read before and after those of other packets as they
\* were sent.
LEMMA InTurn ==
  ASSUME Received, NEW id, NEW p, ~ Disturbed(id, p),
         NEW l \in DOMAIN read, NEW i \in DOMAIN read, read[l].id = id, read[i].id = id,
         EarlierFrame(read[l], read[i]), p \in {read[l].packet, read[i].packet}
  PROVE  l < i
<1>1. read[l] \in OnWire /\ read[i] \in OnWire /\ read[l] \in Seen /\ read[i] \in Seen
  BY DEF OnWire, Seen
<1>2. read[l].at < read[i].at /\ read[l].at \in Nat /\ read[i].at \in Nat
  BY <1>1 DEF Received, Wire, InSequence, Frames
<1>3. l \in Nat /\ i \in Nat
  BY DEF Received, IInv, TypeOK
<1>4. ~ Overtook(read[i], read[l])
  BY <1>1 DEF Disturbed
<1>5. ~ (i < l)
  BY <1>2, <1>4 DEF Overtook
<1>6. l # i
  BY <1>2
<1> QED
  BY <1>3, <1>5, <1>6

\* A frame of it that came before one that has been read has been read before it.
LEMMA ReadInTurn ==
  ASSUME Received, NEW p, NEW i \in DOMAIN read, ~ Disturbed(read[i].id, p),
         NEW g \in OnWire, g.id = read[i].id, EarlierFrame(g, read[i]), g.packet = p
  PROVE  \E j \in DOMAIN read : j < i /\ read[j] = g
<1>1. read[i] \in OnWire /\ read[i] \in Seen
  BY DEF OnWire, Seen
<1>2. g.at < read[i].at /\ g.at \in Nat /\ read[i].at \in Nat
  BY <1>1 DEF Received, Wire, InSequence, Frames
<1>3. g \in Seen
  BY DEF OnWire, Disturbed
<1>4. ~ Overtook(read[i], g)
  BY <1>1, <1>3 DEF Disturbed
<1>5. \A b \in Buffers : rx[b] # g
  BY <1>2, <1>4 DEF Overtook
<1>6. PICK j \in DOMAIN read : read[j] = g
  BY <1>3, <1>5 DEF Seen, Full
<1>7. j < i
  BY <1>6, InTurn
<1> QED
  BY <1>6, <1>7

\* What is known of a frame that has been read.
LEMMA ReadFrame ==
  ASSUME Received, NEW i \in DOMAIN read
  PROVE  /\ read[i] \in OnWire /\ read[i] \in Frames
         /\ SentBy(device[read[i].id], read[i])
         /\ read[i].packet \in Nat \ {0} /\ read[i].no \in 0..31 /\ read[i].id \in Ids
         /\ read[i].len \in 6..223 /\ read[i].at \in Nat
         /\ device[read[i].id].packet \in Nat \ {0} /\ device[read[i].id].no \in 0..31
         /\ AllThere(OnWire, read[i].id, device[read[i].id])
<1>1. read[i] \in OnWire
  BY DEF OnWire, Seen
<1>2. read[i] \in Frames
  BY <1>1 DEF Received, Wire
<1>3. read[i].id \in Ids
  BY <1>2 DEF Frames
<1> QED
  BY <1>1, <1>2, <1>3 DEF Received, Wire, IInv, TypeOK, Frames

\* The frames of a packet are all treated as parts of it, or none.
LEMMA MultiPacket ==
  ASSUME NEW f \in Frames, NEW g \in Frames, NEW d, SentBy(d, f), Multi(f),
         g.id = f.id, g.packet = f.packet, g.len = f.len
  PROVE  Multi(g) /\ Key(g) = Key(f) /\ f.len > 6
<1>1. f.len \in 6..223 /\ f.no \in Nat /\ f.id \in Fast
  BY DEF Frames, Multi
<1>2. f.no < 1 + (f.len \div 7)
  BY <1>1 DEF SentBy, FramesOf
<1>3. f.len > 6
  BY <1>1, <1>2 DEF Multi
<1> QED
  BY <1>1, <1>3 DEF Multi, Key

\* A frame of a packet that is not the message's first one: its packet was disturbed.
LEMMA StrangerDisturbed ==
  ASSUME Received, NEW n \in DOMAIN read, NEW m \in 1..(n - 1), IsPacket(m, n),
         NEW i \in Run(m, n), read[i].packet # read[m].packet
  PROVE  Disturbed(read[n].id, read[i].packet)
<1> DEFINE id == read[n].id
           p == read[i].packet
<1> SUFFICES ASSUME ~ Disturbed(id, p) PROVE FALSE
  OBVIOUS
<1>1. /\ read \in Seq(Frames) /\ n \in Nat /\ m \in 1..n /\ m \in DOMAIN read /\ m \in Nat
      /\ i \in DOMAIN read /\ i \in Nat /\ i <= n /\ m \in Run(m, n)
      /\ DOMAIN read = 1..Len(read)
  BY DEF Received, IInv, TypeOK, IsPacket, Run
<1>12. /\ SentBy(device[read[i].id], read[i])
       /\ read[i].packet \in Nat \ {0} /\ read[m].packet \in Nat \ {0} /\ read[i].no \in Nat
       /\ device[read[i].id].packet \in Nat /\ device[read[i].id].no \in Nat
       /\ AllThere(OnWire, read[i].id, device[read[i].id])
  <2>1. i \in DOMAIN read /\ m \in DOMAIN read
    BY <1>1
  <2> QED
    BY <2>1, ReadFrame
<1>2. /\ read[m].no = 0 /\ \A j, l \in Run(m, n) : j < l => read[j].no < read[l].no
  BY <1>1, PacketIsFull
<1>3. m < i /\ read[i].no > 0 /\ read[i].no \in Nat
  <2>1. i # m /\ m <= i
    BY <1>1 DEF Run
  <2>2. m < i
    BY <1>1, <2>1
  <2>3. read[i].no \in Nat
    BY <1>12
  <2>4. read[m].no < read[i].no
    BY <1>1, <1>2, <2>2
  <2> QED
    BY <1>2, <2>2, <2>3, <2>4
<1>4. read[m].id = id /\ read[i].id = id /\ Multi(read[i]) /\ Key(read[i]) = Key(read[n])
  BY <1>1 DEF Run, Key
<1>5. PICK q \in OnWire : q.id = id /\ q.packet = p /\ q.no = 0
  <2> DEFINE d == device[id]
  <2>1. /\ p < d.packet \/ (p = d.packet /\ read[i].no < d.no)
        /\ p \in Nat \ {0} /\ d.packet \in Nat /\ d.no \in Nat
        /\ AllThere(OnWire, id, d)
    <3>1. /\ SentBy(device[read[i].id], read[i]) /\ read[i].packet \in Nat \ {0}
          /\ device[read[i].id].packet \in Nat /\ device[read[i].id].no \in Nat
          /\ AllThere(OnWire, read[i].id, device[read[i].id])
      BY <1>12
    <3>2. device[read[i].id] = d
      BY <1>4
    <3> HIDE DEF d
    <3> QED
      BY <1>4, <3>1, <3>2 DEF SentBy
  <2>2. Came(OnWire, id, p, 0)
    <3>1. CASE p < d.packet
      <4>1. p \in 1..(d.packet - 1)
        BY <2>1, <3>1
      <4> QED
        BY <2>1, <4>1 DEF AllThere
    <3>2. CASE p = d.packet /\ read[i].no < d.no
      <4>1. 0 \in 0..(d.no - 1)
        BY <1>3, <2>1, <3>2
      <4> QED
        BY <2>1, <3>2, <4>1 DEF AllThere
    <3> QED
      BY <2>1, <3>1, <3>2
  <2> QED
    BY <2>2 DEF Came
<1>6. EarlierFrame(q, read[i])
  BY <1>3, <1>5 DEF EarlierFrame
<1>7. PICK j \in DOMAIN read : j < i /\ read[j] = q
  BY <1>1, <1>4, <1>5, <1>6, ReadInTurn
<1>8. Multi(read[j]) /\ Key(read[j]) = Key(read[n])
  <2>1. read[j].len = read[i].len
    BY <1>1, <1>4, <1>5, <1>7, ReadFrame DEF Received, Wire, InSequence
  <2> QED
    BY <1>1, <1>4, <1>5, <1>7, <2>1, ReadFrame, MultiPacket
<1>9. j \in Nat
  BY <1>1, <1>7
<1>10. CASE m <= j
  <2>1. j \in Run(m, n)
    BY <1>1, <1>7, <1>8, <1>9, <1>10 DEF Run
  <2>2. ~ (m < j)
    BY <1>1, <1>2, <1>5, <1>7, <2>1
  <2> QED
    BY <1>1, <1>5, <1>7, <1>9, <1>10, <2>2
<1>11. CASE j < m
  <2>1. CASE read[m].packet < p
    <3>1. EarlierFrame(read[m], read[j])
      BY <1>5, <1>7, <2>1 DEF EarlierFrame
    <3>2. m < j
      BY <1>1, <1>4, <1>5, <1>7, <3>1, InTurn
    <3> QED
      BY <1>1, <1>9, <1>11, <3>2
  <2>2. CASE p < read[m].packet
    <3>1. EarlierFrame(read[i], read[m])
      BY <2>2 DEF EarlierFrame
    <3>2. i < m
      BY <1>1, <1>4, <3>1, InTurn
    <3> QED
      BY <1>1, <1>3, <3>2
  <2> QED
    BY <1>1, <2>1, <2>2, ReadFrame
<1> QED
  BY <1>1, <1>9, <1>10, <1>11

\* And so was the packet of the message's first frame.
LEMMA FirstDisturbed ==
  ASSUME Received, NEW n \in DOMAIN read, NEW m \in 1..(n - 1), IsPacket(m, n),
         NEW i \in Run(m, n), read[i].packet # read[m].packet
  PROVE  Disturbed(read[n].id, read[m].packet)
<1> DEFINE id == read[n].id
           p == read[m].packet
           k == read[i].no
<1> SUFFICES ASSUME ~ Disturbed(id, p) PROVE FALSE
  OBVIOUS
<1>1. /\ read \in Seq(Frames) /\ n \in Nat /\ m \in 1..n /\ m \in DOMAIN read /\ m \in Nat
      /\ i \in DOMAIN read /\ i \in Nat /\ i <= n /\ m \in Run(m, n)
      /\ DOMAIN read = 1..Len(read)
  BY DEF Received, IInv, TypeOK, IsPacket, Run
<1>12. /\ SentBy(device[read[i].id], read[i])
       /\ read[i].packet \in Nat \ {0} /\ read[m].packet \in Nat \ {0} /\ read[i].no \in Nat
       /\ device[read[i].id].packet \in Nat /\ device[read[i].id].no \in Nat
       /\ AllThere(OnWire, read[i].id, device[read[i].id])
  <2>1. i \in DOMAIN read /\ m \in DOMAIN read
    BY <1>1
  <2> QED
    BY <2>1, ReadFrame
<1>2. /\ read[m].no = 0 /\ \A j, l \in Run(m, n) : j < l => read[j].no < read[l].no
      /\ k \in 0..read[n].no /\ read[n].no = FramesOf(read[m].id, read[m].len) - 1
  BY <1>1, PacketIsFull
<1>3. m < i /\ k > 0 /\ k \in Nat
  <2>1. i # m /\ m <= i
    BY <1>1 DEF Run
  <2> QED
    BY <1>1, <1>2, <2>1, ReadFrame
<1>4. /\ read[m].id = id /\ read[i].id = id
      /\ Multi(read[m]) /\ Key(read[m]) = Key(read[n])
  BY <1>1 DEF Run, Key
<1>5. p < read[i].packet
  <2>1. ~ (read[i].packet < p)
    <3>1. ASSUME read[i].packet < p PROVE FALSE
      <4>1. EarlierFrame(read[i], read[m])
        BY <3>1 DEF EarlierFrame
      <4>2. i < m
        BY <1>1, <1>4, <4>1, InTurn
      <4> QED
        BY <1>1, <1>3, <4>2
    <3> QED
      BY <3>1
  <2>2. read[i].packet \in Nat /\ p \in Nat
    BY <1>12
  <2> QED
    BY <2>1, <2>2
<1>6. PICK g \in OnWire : g.id = id /\ g.packet = p /\ g.no = k
  <2>1. p < device[id].packet /\ AllThere(OnWire, id, device[id]) /\ read[m] \in OnWire
    BY <1>1, <1>4, <1>5, ReadFrame DEF SentBy
  <2>2. k \in 0..(FramesOf(id, read[m].len) - 1)
    BY <1>2, <1>4
  <2>3. Came(OnWire, id, p, k)
    BY <1>4, <2>1, <2>2 DEF AllThere
  <2> QED
    BY <2>3 DEF Came
<1>7. PICK j \in DOMAIN read : j < i /\ read[j] = g
  <2>1. EarlierFrame(g, read[i])
    BY <1>5, <1>6 DEF EarlierFrame
  <2> QED
    BY <1>1, <1>4, <1>6, <2>1, ReadInTurn
<1>8. Multi(read[j]) /\ Key(read[j]) = Key(read[n])
  <2>1. read[j].len = read[m].len
    BY <1>1, <1>4, <1>6, <1>7, ReadFrame DEF Received, Wire, InSequence
  <2> QED
    BY <1>1, <1>4, <1>6, <1>7, <2>1, ReadFrame, MultiPacket
<1>9. m < j
  <2>1. EarlierFrame(read[m], read[j])
    BY <1>2, <1>3, <1>6, <1>7 DEF EarlierFrame
  <2> QED
    BY <1>1, <1>4, <1>6, <1>7, <2>1, InTurn
<1>10. j \in Run(m, n)
  BY <1>1, <1>7, <1>8, <1>9 DEF Run
<1>11. read[j].no < read[i].no
  BY <1>2, <1>7, <1>10
<1> QED
  BY <1>3, <1>6, <1>7, <1>11

\* A message that was handed over at frame n is a frame or a packet.
LEMMA HandedIsDue ==
  ASSUME Received, HandedBefore, EachDelivered, NEW d \in Handed
  PROVE  /\ d.at \in DOMAIN read /\ d \in DueAt(d.at) /\ d.id = read[d.at].id
         /\ \/ d.parts = [k \in {0} |-> read[d.at].packet]
            \/ \E m \in 1..(d.at - 1) : IsPacket(m, d.at) /\ d.parts = Packet(m, d.at)
<1>1. PICK i \in DOMAIN delivered : d = delivered[i]
  BY DEF Handed
<1>2. d.at \in Nat \ {0} /\ d.at <= Len(read)
  <2>1. d \in Messages /\ d.at <= Len(read)
    BY <1>1 DEF HandedBefore
  <2> QED
    BY <2>1 DEF Messages
<1>3. d.at \in DOMAIN read
  BY <1>2 DEF Received, IInv, TypeOK
<1>4. d \in DueAt(d.at)
  BY <1>3 DEF EachDelivered
<1> QED
  BY <1>3, <1>4 DEF DueAt

\* What a packet holds at a number is what a frame of it with that number carried.
LEMMA PartOfPacket ==
  ASSUME Received, NEW n \in DOMAIN read, NEW m \in 1..(n - 1), IsPacket(m, n),
         NEW k \in DOMAIN Packet(m, n)
  PROVE  \E i \in Run(m, n) : read[i].no = k /\ Packet(m, n)[k] = read[i].packet
<1>1. DOMAIN Packet(m, n) = 0..read[n].no
  BY DEF Packet
<1>2. read \in Seq(Frames) /\ m \in 1..n
  BY DEF Received, IInv, TypeOK
<1> DEFINE i == CHOOSE j \in Run(m, n) : read[j].no = k
<1>3. \E j \in Run(m, n) : read[j].no = k
  BY <1>1, <1>2, PacketIsFull
<1>4. i \in Run(m, n) /\ read[i].no = k
  BY <1>3
<1>5. Packet(m, n)[k] = read[i].packet
  BY <1>1 DEF Packet
<1> QED
  BY <1>4, <1>5

\* A message of two packets is made of disturbed ones.
LEMMA MixedIsDisturbed == Received /\ HandedBefore /\ EachDelivered => MixedOnlyByFaults
<1> SUFFICES ASSUME Received, HandedBefore, EachDelivered,
                    NEW d \in Handed, NEW a \in DOMAIN d.parts, NEW b \in DOMAIN d.parts,
                    d.parts[a] # d.parts[b]
             PROVE  /\ Disturbed(d.id, d.parts[a]) /\ Disturbed(d.id, d.parts[b])
                    /\ d.parts[a] % Sequences = d.parts[b] % Sequences
  BY DEF MixedOnlyByFaults
<1> DEFINE n == d.at
<1>1. n \in DOMAIN read /\ d.id = read[n].id
  BY HandedIsDue
<1>2. ~ (d.parts = [k \in {0} |-> read[n].packet])
  OBVIOUS
<1>3. PICK m \in 1..(n - 1) : IsPacket(m, n) /\ d.parts = Packet(m, n)
  BY <1>2, HandedIsDue
<1>4. PICK i \in Run(m, n) : read[i].no = a /\ d.parts[a] = read[i].packet
  BY <1>1, <1>3, PartOfPacket
<1>5. PICK j \in Run(m, n) : read[j].no = b /\ d.parts[b] = read[j].packet
  BY <1>1, <1>3, PartOfPacket
<1> HIDE DEF n
<1>6. Disturbed(d.id, read[i].packet) /\ Disturbed(d.id, read[j].packet)
  <2>1. read[i].packet # read[j].packet
    BY <1>4, <1>5
  <2>2. CASE read[i].packet # read[m].packet
    <3>1. Disturbed(d.id, read[i].packet) /\ Disturbed(d.id, read[m].packet)
      BY <1>1, <1>3, <2>2, StrangerDisturbed, FirstDisturbed
    <3>2. read[j].packet # read[m].packet => Disturbed(d.id, read[j].packet)
      BY <1>1, <1>3, StrangerDisturbed
    <3> QED
      BY <3>1, <3>2
  <2>3. CASE read[j].packet # read[m].packet
    <3>1. Disturbed(d.id, read[j].packet) /\ Disturbed(d.id, read[m].packet)
      BY <1>1, <1>3, <2>3, StrangerDisturbed, FirstDisturbed
    <3>2. read[i].packet # read[m].packet => Disturbed(d.id, read[i].packet)
      BY <1>1, <1>3, StrangerDisturbed
    <3> QED
      BY <3>1, <3>2
  <2> QED
    BY <2>1, <2>2, <2>3
<1>7. Key(read[i]) = Key(read[j])
  BY DEF Run
<1>8. read[i].packet % Sequences = read[j].packet % Sequences
  BY <1>7 DEF Key
<1> QED
  BY <1>4, <1>5, <1>6, <1>8

\* The converse of NumbersFill.
LEMMA NumbersCount ==
  ASSUME NEW s \in Seq(Frames), NEW R \in SUBSET (1..Len(s)), NEW c \in Nat,
         \A i \in R : s[i].no \in 0..(c - 1),
         \A i, j \in R : i < j => s[i].no < s[j].no,
         \A l \in 0..(c - 1) : \E i \in R : s[i].no = l
  PROVE  /\ Cardinality(R) = c
         /\ \A i \in R : s[i].no = Cardinality({j \in R : j < i})
<1>1. IsFiniteSet(R) /\ R \subseteq Nat
  <2>1. Len(s) \in Nat /\ IsFiniteSet(1..Len(s)) /\ 1..Len(s) \subseteq Nat
    BY FS_Interval
  <2>2. IsFiniteSet(R)
    BY <2>1, FS_Subset
  <2> QED
    BY <2>1, <2>2
<1>2. ASSUME NEW k \in 0..c
      PROVE  Cardinality({i \in R : s[i].no < k}) = k
  <2> DEFINE U == {i \in R : s[i].no < k}
             T == 0..(k - 1)
             number == [i \in U |-> s[i].no]
  <2>1. IsFiniteSet(U)
    <3>1. U \in SUBSET R
      OBVIOUS
    <3> QED
      BY <1>1, <3>1, FS_Subset
  <2>2. \A i \in U : s[i].no \in T
    OBVIOUS
  <2>3. \A l \in T : \E i \in U : s[i].no = l
    <3>1. \A l \in T : l \in 0..(c - 1) /\ l < k
      OBVIOUS
    <3> QED
      BY <3>1
  <2>4. ASSUME NEW i \in U, NEW j \in U, s[i].no = s[j].no PROVE i = j
    <3>1. i \in Nat /\ j \in Nat /\ s[i].no \in Nat
      BY <1>1
    <3>2. ~ (i < j) /\ ~ (j < i)
      <4>1. i < j => s[i].no < s[j].no
        OBVIOUS
      <4>2. j < i => s[j].no < s[i].no
        OBVIOUS
      <4> QED
        BY <2>4, <3>1, <4>1, <4>2
    <3> QED
      BY <3>1, <3>2
  <2> HIDE DEF U, T
  <2>5. number \in Bijection(U, T)
    <3>1. number \in [U -> T] /\ \A l \in T : \E i \in U : number[i] = l
      BY <2>2, <2>3
    <3>2. \A i, j \in U : number[i] = number[j] => i = j
      BY <2>4
    <3> QED
      BY <3>1, <3>2 DEF Bijection, Injection, Surjection, IsInjective
  <2>6. Cardinality(T) = Cardinality(U)
    BY <2>1, <2>5, FS_Bijection DEF ExistsBijection
  <2>7. Cardinality(T) = k
    BY FS_Interval DEF T
  <2> QED
    BY <2>6, <2>7 DEF U
<1>3. Cardinality(R) = c
  <2>1. {i \in R : s[i].no < c} = R
    OBVIOUS
  <2> QED
    BY <1>2, <2>1
<1>4. ASSUME NEW i \in R PROVE s[i].no = Cardinality({j \in R : j < i})
  <2>1. s[i].no \in 0..c
    OBVIOUS
  <2>2. ASSUME NEW j \in R PROVE j < i <=> s[j].no < s[i].no
    <3>1. i \in Nat /\ j \in Nat /\ s[i].no \in Nat /\ s[j].no \in Nat
      BY <1>1
    <3>2. /\ j < i => s[j].no < s[i].no
          /\ i < j => s[i].no < s[j].no
      OBVIOUS
    <3> QED
      BY <3>1, <3>2
  <2>3. {j \in R : j < i} = {j \in R : s[j].no < s[i].no}
    BY <2>2
  <2> QED
    BY <1>2, <2>1, <2>3
<1> QED
  BY <1>3, <1>4

\* All frames of a packet that came through undamaged have been read, in order and
\* with no other frame of their key between them.
LEMMA UndamagedIsPacket ==
  ASSUME Received, NEW id \in Ids, NEW p \in 1..(device[id].packet - 1), ~ Disturbed(id, p),
         \A b \in Full : ~ (rx[b].id = id /\ rx[b].packet = p)
  PROVE  \E m \in DOMAIN read :
           /\ read[m].id = id /\ read[m].packet = p
           /\ \/ ~ Multi(read[m])
              \/ \E n \in DOMAIN read : /\ Multi(read[n]) /\ read[n].id = id
                                       /\ m \in 1..(n - 1) /\ IsPacket(m, n)
                                       /\ \A i \in Run(m, n) : read[i].packet = p
<1>1. /\ AllThere(OnWire, id, device[id]) /\ p \in Nat \ {0} /\ device[id].packet \in Nat
      /\ p < device[id].packet
      /\ read \in Seq(Frames) /\ DOMAIN read = 1..Len(read) /\ Len(read) \in Nat
  BY DEF Received, Wire, IInv, TypeOK
<1>2. ASSUME NEW g \in OnWire, g.id = id, g.packet = p
      PROVE  \E i \in DOMAIN read : read[i] = g
  BY <1>2 DEF OnWire, Seen, Disturbed
<1>3. PICK m \in DOMAIN read : read[m].id = id /\ read[m].packet = p /\ read[m].no = 0
  <2>1. Came(OnWire, id, p, 0)
    BY <1>1 DEF AllThere
  <2> QED
    BY <1>2, <2>1 DEF Came
<1> DEFINE L == read[m].len
           c == FramesOf(id, L)
<1>4. SUFFICES ASSUME Multi(read[m])
               PROVE  \E n \in DOMAIN read : /\ Multi(read[n]) /\ read[n].id = id
                                            /\ m \in 1..(n - 1) /\ IsPacket(m, n)
                                            /\ \A i \in Run(m, n) : read[i].packet = p
  BY <1>3
<1>5. /\ read[m] \in OnWire /\ read[m] \in Frames /\ SentBy(device[id], read[m]) /\ L \in 6..223
      /\ m \in Nat \ {0}
  BY <1>1, <1>3, ReadFrame
<1>6. c \in 2..32 /\ id \in Fast
  <2>1. id \in Fast /\ L > 6
    BY <1>3, <1>4, <1>5 DEF Multi
  <2>2. L \div 7 \in 1..31
    BY <1>5, <2>1
  <2> QED
    BY <2>1, <2>2 DEF FramesOf
<1> HIDE DEF L, c
\* Where its frames are.
<1>7. ASSUME NEW k \in 0..(c - 1)
      PROVE  \E i \in DOMAIN read : read[i].id = id /\ read[i].packet = p /\ read[i].no = k
  <2>1. Came(OnWire, id, p, k)
    BY <1>1, <1>3, <1>5 DEF AllThere, c, L
  <2> QED
    BY <1>2, <2>1 DEF Came
<1>8. PICK n \in DOMAIN read : read[n].id = id /\ read[n].packet = p /\ read[n].no = c - 1
  <2>1. c - 1 \in 0..(c - 1)
    BY <1>6
  <2> QED
    BY <1>7, <2>1
<1>9. ASSUME NEW i \in DOMAIN read, read[i].id = id, read[i].packet = p
      PROVE  /\ Multi(read[i]) /\ Key(read[i]) = Key(read[m])
             /\ read[i].no \in 0..(c - 1) /\ i \in Nat
  <2>1. read[i] \in OnWire /\ read[i] \in Frames /\ SentBy(device[id], read[i])
        /\ read[i].no \in 0..31 /\ i \in Nat
    BY <1>1, <1>9, ReadFrame
  <2>2. read[i].len = L
    BY <1>3, <1>5, <1>9, <2>1 DEF Received, Wire, InSequence, L
  <2>3. Multi(read[i]) /\ Key(read[i]) = Key(read[m])
    BY <1>3, <1>4, <1>5, <1>9, <2>1, <2>2, MultiPacket DEF L
  <2>4. read[i].no < c
    BY <1>9, <2>1, <2>2 DEF SentBy, c
  <2> QED
    BY <1>6, <2>1, <2>3, <2>4
\* Its frames have different numbers, which rise.
<1>10. ASSUME NEW i \in DOMAIN read, NEW j \in DOMAIN read, i < j,
              read[i].id = id, read[i].packet = p, read[j].id = id, read[j].packet = p
       PROVE  read[i].no < read[j].no
  <2>1. read[i].no \in Nat /\ read[j].no \in Nat /\ i \in Nat /\ j \in Nat
    BY <1>6, <1>9, <1>10
  <2>2. read[i] \in OnWire /\ read[j] \in OnWire
    BY ReadFrame
  <2>3. read[i].no # read[j].no
    <3>1. read[i].at # read[j].at
      BY <1>10, <2>1 DEF Received, Once
    <3> QED
      BY <1>10, <2>2, <3>1 DEF Received, Wire, InSequence
  <2>4. ~ (read[j].no < read[i].no)
    <3>1. ASSUME read[j].no < read[i].no PROVE FALSE
      <4>1. EarlierFrame(read[j], read[i])
        BY <1>10, <3>1 DEF EarlierFrame
      <4>2. j < i
        BY <1>10, <4>1, InTurn
      <4> QED
        BY <1>10, <2>1, <4>2
    <3> QED
      BY <3>1
  <2> QED
    BY <2>1, <2>3, <2>4
<1>11. ASSUME NEW i \in DOMAIN read, NEW j \in DOMAIN read,
              read[i].id = id, read[i].packet = p, read[j].id = id, read[j].packet = p,
              read[i].no <= read[j].no
       PROVE  i <= j
  <2>1. read[i].no \in Nat /\ read[j].no \in Nat /\ i \in Nat /\ j \in Nat
    BY <1>6, <1>9, <1>11
  <2>2. ~ (j < i)
    BY <1>10, <1>11, <2>1
  <2> QED
    BY <2>1, <2>2
<1>12. m <= n /\ m # n /\ n \in Nat
  <2>1. n \in Nat /\ read[m].no <= read[n].no /\ read[m].no # read[n].no
    BY <1>3, <1>6, <1>8, <1>9
  <2> QED
    BY <1>3, <1>8, <1>11, <2>1
<1> DEFINE R == Run(m, n)
<1>13. ASSUME NEW i \in R PROVE i \in DOMAIN read /\ i \in m..n /\ read[i].id = id /\ read[i].packet = p
  <2>1. i \in DOMAIN read /\ i \in m..n /\ Key(read[i]) = Key(read[n]) /\ i \in Nat
    BY <1>1, <1>5, <1>8, <1>12 DEF Run
  <2>2. read[i].id = id
    BY <1>8, <2>1 DEF Key
  <2>3. ~ (read[i].packet < p)
    <3>1. ASSUME read[i].packet < p PROVE FALSE
      <4>1. EarlierFrame(read[i], read[m])
        BY <1>3, <3>1 DEF EarlierFrame
      <4>2. i < m
        BY <1>3, <2>1, <2>2, <4>1, InTurn
      <4> QED
        BY <1>5, <2>1, <4>2
    <3> QED
      BY <3>1
  <2>4. ~ (p < read[i].packet)
    <3>1. ASSUME p < read[i].packet PROVE FALSE
      <4>1. EarlierFrame(read[n], read[i])
        BY <1>8, <3>1 DEF EarlierFrame
      <4>2. n < i
        BY <1>8, <2>1, <2>2, <4>1, InTurn
      <4> QED
        BY <1>12, <2>1, <4>2
    <3> QED
      BY <3>1
  <2>5. read[i].packet \in Nat
    BY <2>1, ReadFrame
  <2> QED
    BY <1>1, <2>1, <2>2, <2>3, <2>4, <2>5
<1>14. ASSUME NEW i \in DOMAIN read, read[i].id = id, read[i].packet = p PROVE i \in R
  <2>1. read[i].no \in 0..(c - 1) /\ read[m].no <= read[i].no /\ read[i].no <= read[n].no
    BY <1>3, <1>6, <1>8, <1>9, <1>14
  <2>2. m <= i /\ i <= n /\ i \in Nat
    BY <1>3, <1>8, <1>9, <1>11, <1>14, <2>1
  <2>3. Multi(read[i]) /\ Key(read[i]) = Key(read[n])
    BY <1>8, <1>9, <1>14
  <2> QED
    BY <1>5, <1>12, <2>2, <2>3 DEF Run
<1>15. /\ R \in SUBSET (1..Len(read))
       /\ \A i \in R : read[i].no \in 0..(c - 1)
       /\ \A i, j \in R : i < j => read[i].no < read[j].no
       /\ \A l \in 0..(c - 1) : \E i \in R : read[i].no = l
  <2> HIDE DEF R
  <2>1. R \in SUBSET (1..Len(read))
    BY <1>1, <1>13
  <2>2. \A i \in R : read[i].no \in 0..(c - 1)
    BY <1>9, <1>13
  <2>3. \A i, j \in R : i < j => read[i].no < read[j].no
    BY <1>10, <1>13
  <2>4. \A l \in 0..(c - 1) : \E i \in R : read[i].no = l
    BY <1>7, <1>14
  <2> QED
    BY <2>1, <2>2, <2>3, <2>4
<1>16. Cardinality(R) = c /\ \A i \in R : read[i].no = Cardinality({j \in R : j < i})
  <2>1. c \in Nat
    BY <1>6
  <2> HIDE DEF R
  <2> QED
    BY <1>1, <1>15, <2>1, NumbersCount
<1>17. IsPacket(m, n)
  BY <1>3, <1>8, <1>14, <1>16 DEF IsPacket, c, L
<1>18. m \in 1..(n - 1) /\ Multi(read[n]) /\ \A i \in Run(m, n) : read[i].packet = p
  BY <1>5, <1>8, <1>9, <1>12, <1>13
<1> QED
  BY <1>8, <1>17, <1>18

\* A packet that came through undamaged has been handed over.
LEMMA UndamagedIsHanded == Received /\ HandedBefore /\ EachDelivered => UndamagedDelivered
<1> SUFFICES ASSUME Received, HandedBefore, EachDelivered,
                    NEW id \in Registered, NEW p \in 1..(device[id].packet - 1),
                    ~ Disturbed(id, p),
                    \A b \in Full : ~ (rx[b].id = id /\ rx[b].packet = p)
             PROVE  \E d \in Handed : d.id = id /\ \A k \in DOMAIN d.parts : d.parts[k] = p
  BY DEF UndamagedDelivered
<1>1. id \in Ids
  BY CANAssumption
<1>2. PICK m \in DOMAIN read :
         /\ read[m].id = id /\ read[m].packet = p
         /\ \/ ~ Multi(read[m])
            \/ \E n \in DOMAIN read : /\ Multi(read[n]) /\ read[n].id = id
                                     /\ m \in 1..(n - 1) /\ IsPacket(m, n)
                                     /\ \A i \in Run(m, n) : read[i].packet = p
  BY <1>1, UndamagedIsPacket
<1>3. \A n \in DOMAIN read : DueAt(n) \subseteq Handed
  BY DEF EachDelivered
<1>4. CASE ~ Multi(read[m])
  <2> DEFINE d == [id |-> read[m].id, at |-> m, parts |-> [k \in {0} |-> read[m].packet]]
  <2>1. d \in DueAt(m)
    BY <1>2, <1>4 DEF DueAt
  <2>2. d.id = id /\ \A k \in DOMAIN d.parts : d.parts[k] = p
    BY <1>2
  <2> QED
    BY <1>3, <2>1, <2>2
<1>5. ASSUME NEW n \in DOMAIN read, Multi(read[n]), read[n].id = id,
             m \in 1..(n - 1), IsPacket(m, n), \A i \in Run(m, n) : read[i].packet = p
      PROVE  \E d \in Handed : d.id = id /\ \A k \in DOMAIN d.parts : d.parts[k] = p
  <2> DEFINE d == [id |-> read[n].id, at |-> n, parts |-> Packet(m, n)]
  <2>1. d \in DueAt(n)
    BY <1>5 DEF DueAt
  <2>2. \A k \in DOMAIN Packet(m, n) : Packet(m, n)[k] = p
    BY <1>5, PartOfPacket
  <2>3. d.id = id /\ d.parts = Packet(m, n)
    BY <1>5
  <2> QED
    BY <1>3, <2>1, <2>2, <2>3
<1> QED
  BY <1>2, <1>4, <1>5

\* What holds of all frames and messages so far.
FullInv == Received /\ Waiting /\ Delivery /\ EachDelivered

\* The invariant of the wire, the entries and the messages holds at first and is
\* kept by every step.
THEOREM ReceiveInvariance == Spec => []FullInv
<1>1. Init => FullInv
  <2>1. Init => EachDelivered
    BY DEF Init, EachDelivered
  <2> QED
    BY <2>1, InitEstablishes, InitWire, InitDelivers DEF FullInv, Received
<1>2. FullInv /\ [Next]_vars => FullInv'
  BY NextKeeps, NextWire, NextWaits, NextDelivers, NextEach DEF FullInv, Received
<1> QED
  BY <1>1, <1>2, PTL DEF Spec

\* ParseFastPkg() makes one message of two packets only if they have the same sequence
\* id and each of them lost a frame or had two change places, for any number of
\* sequence ids, lengths and devices.
THEOREM MixturesNeedFaults == Spec => []MixedOnlyByFaults
<1>1. FullInv => MixedOnlyByFaults
  BY MixedIsDisturbed DEF FullInv, Delivery
<1> QED
  BY <1>1, ReceiveInvariance, PTL

\* A packet all frames of which came, and in order, is handed over whole, whatever
\* FastPackages still held of the packets before it.
THEOREM UndamagedArrive == Spec => []UndamagedDelivered
<1>1. FullInv => UndamagedDelivered
  BY UndamagedIsHanded DEF FullInv, Delivery
<1> QED
  BY <1>1, ReceiveInvariance, PTL
==============================================================================
