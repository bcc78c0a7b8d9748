----------------------------- MODULE SensorNodes -----------------------------
(***************************************************************************)
(* The nodes that turn CAN frames into readings: CANWindsensorNode,        *)
(* CANCurrentSensorNode and CANArduinoNode of NavigationSystem/Hardwares.  *)
(* A frame has a kind, its PGN or its id, and processPGN() and             *)
(* processFrame() have a branch for each kind, which sets some of the      *)
(* node's members, one after the other, on the thread of CANService.  The  *)
(* node's own thread, or the bus thread when a DataRequest asks for it,    *)
(* puts all members into a message under the node's lock.  Only the wind   *)
(* sensor takes that lock for writing too.  A member's value is the number *)
(* of the frame it comes from among those of its kind, 0 before the first. *)
(***************************************************************************)
EXTENDS Integers

CONSTANTS
  Sensors,      \* the nodes
  Unguarded,    \* those whose processFrame() takes no lock
  Asked,        \* those that answer a DataRequest
  Kinds,        \* the PGNs and ids of frames
  KindOf,       \* for a node and a member, the kind of frame that sets it
  Tested,       \* for a node, the members that it wants one of set before it
                \* sends; none if it always sends
  MemberCount,  \* how many members a node has
  MaxFrames     \* bound on the frames of all nodes together

Members == 1..MemberCount

ASSUME SensorConstants ==
  /\ Unguarded \subseteq Sensors /\ Asked \subseteq Sensors
  /\ MemberCount \in Nat \ {0} /\ MaxFrames \in Nat
  /\ KindOf \in [Sensors -> [Members -> Kinds]]
  /\ Tested \in [Sensors -> SUBSET Members]

Nobody == "nobody"
NoFrame == "none"

VARIABLES
  served,    \* frames received in all
  frames,    \* frames received, per node and kind
  member,    \* the node's members
  locked,    \* who has m_lock: the CAN thread, the node's thread, the bus's
             \* thread or nobody
  arriving,  \* the kind of frame the CAN thread is at
  writing,   \* the member the CAN thread comes to next, 0 when it is elsewhere
  reading,   \* the member the message takes next, 0 when none is being made
  message,   \* the message being made
  sent       \* the last message on the bus

sensorVars ==
  <<served, frames, member, locked, arriving, writing, reading, message, sent>>

Readings == [Members -> Nat]

SensorTypeOK ==
  /\ served \in 0..MaxFrames
  /\ frames \in [Sensors -> [Kinds -> Nat]]
  /\ member \in [Sensors -> Readings]
  /\ locked \in [Sensors -> {"can", "node", "bus", Nobody}]
  /\ arriving \in [Sensors -> Kinds \cup {NoFrame}]
  /\ writing \in [Sensors -> 0..MemberCount + 1]
  /\ reading \in [Sensors -> 0..MemberCount + 1]
  /\ message \in [Sensors -> Readings]
  /\ sent \in [Sensors -> Readings]

Nothing == [f \in Members |-> 0]

SensorInit ==
  /\ served = 0
  /\ frames = [s \in Sensors |-> [k \in Kinds |-> 0]]
  /\ member = [s \in Sensors |-> Nothing]
  /\ locked = [s \in Sensors |-> Nobody]
  /\ arriving = [s \in Sensors |-> NoFrame]
  /\ writing = [s \in Sensors |-> 0]
  /\ reading = [s \in Sensors |-> 0]
  /\ message = [s \in Sensors |-> Nothing]
  /\ sent = [s \in Sensors |-> Nothing]

Holds(s, who) == locked' = [locked EXCEPT ![s] = who]

\* Some member of the node comes from frames of this kind.
Takes(s, k) == \E f \in Members : KindOf[s][f] = k

------------------------------------------------------------------------------
(* The thread of CANService, which serves one frame at a time.               *)

FrameComesUnlocked(s, k) ==
  /\ \A t \in Sensors : writing[t] = 0
  /\ Takes(s, k)
  /\ served < MaxFrames /\ served' = served + 1
  /\ frames' = [frames EXCEPT ![s][k] = frames[s][k] + 1]
  /\ arriving' = [arriving EXCEPT ![s] = k]
  /\ writing' = [writing EXCEPT ![s] = 1]
  /\ UNCHANGED <<member, locked, reading, message, sent>>

\* run() calls processPGN() or processFrame(), which enters the branch of the
\* frame's kind.
FrameComes(s, k) ==
  /\ \A t \in Sensors : writing[t] = 0
  /\ Takes(s, k)
  /\ served < MaxFrames /\ served' = served + 1
  /\ IF s \in Unguarded THEN UNCHANGED locked
     ELSE locked[s] = Nobody /\ Holds(s, "can")
  /\ frames' = [frames EXCEPT ![s][k] = frames[s][k] + 1]
  /\ arriving' = [arriving EXCEPT ![s] = k]
  /\ writing' = [writing EXCEPT ![s] = 1]
  /\ UNCHANGED <<member, reading, message, sent>>

\* The branch sets the member.
InBranch(s) == KindOf[s][writing[s]] = arriving[s]

\* A try_lock() that gives up while a message is being made.
WriteMemberIfFree(s) ==
  /\ writing[s] \in Members
  /\ member' = [member EXCEPT ![s][writing[s]] =
                  IF InBranch(s) /\ locked[s] # "node"
                  THEN frames[s][arriving[s]] ELSE member[s][writing[s]]]
  /\ writing' = [writing EXCEPT ![s] = writing[s] + 1]
  /\ UNCHANGED <<served, frames, locked, arriving, reading, message, sent>>

\* The members of the other branches keep their values.
WriteMember(s) ==
  /\ writing[s] \in Members
  /\ IF InBranch(s)
     THEN member' = [member EXCEPT ![s][writing[s]] = frames[s][arriving[s]]]
     ELSE UNCHANGED member
  /\ writing' = [writing EXCEPT ![s] = writing[s] + 1]
  /\ UNCHANGED <<served, frames, locked, arriving, reading, message, sent>>

FrameDone(s) ==
  /\ writing[s] = MemberCount + 1
  /\ writing' = [writing EXCEPT ![s] = 0]
  /\ arriving' = [arriving EXCEPT ![s] = NoFrame]
  /\ IF s \in Unguarded THEN UNCHANGED locked ELSE Holds(s, Nobody)
  /\ UNCHANGED <<served, frames, member, reading, message, sent>>

CANWrites(s) == WriteMember(s) \/ FrameDone(s)

------------------------------------------------------------------------------
(* The node's thread and the answer to a DataRequest.                        *)

\* Not all of the members that the node looks at are out of range.
HasData(s) == Tested[s] = {} \/ \E f \in Tested[s] : member[s][f] # 0

MakeMessage(s, who) ==
  /\ reading[s] = 0 /\ locked[s] = Nobody
  /\ HasData(s)
  /\ Holds(s, who)
  /\ reading' = [reading EXCEPT ![s] = 1]
  /\ UNCHANGED <<served, frames, member, arriving, writing, message, sent>>

\* The loop of the node's thread.
Wake(s) == MakeMessage(s, "node")

\* With no data it unlocks again and sleeps.
Sleep(s) ==
  /\ reading[s] = 0 /\ locked[s] = Nobody
  /\ ~HasData(s)
  /\ UNCHANGED sensorVars

\* processMessage() on the thread of the bus.
DataRequested(s) == s \in Asked /\ MakeMessage(s, "bus")

ReadMember(s) ==
  /\ reading[s] \in Members
  /\ message' = [message EXCEPT ![s][reading[s]] = member[s][reading[s]]]
  /\ reading' = [reading EXCEPT ![s] = reading[s] + 1]
  /\ UNCHANGED <<served, frames, member, locked, arriving, writing, sent>>

\* sendMessage(), then unlock().
SendReading(s) ==
  /\ reading[s] = MemberCount + 1
  /\ sent' = [sent EXCEPT ![s] = message[s]]
  /\ message' = [message EXCEPT ![s] = Nothing]
  /\ reading' = [reading EXCEPT ![s] = 0]
  /\ Holds(s, Nobody)
  /\ UNCHANGED <<served, frames, member, arriving, writing>>

SensorThread(s) == Wake(s) \/ Sleep(s) \/ ReadMember(s) \/ SendReading(s)

SensorNext ==
  \E s \in Sensors : \/ \E k \in Kinds : FrameComes(s, k)
                     \/ CANWrites(s) \/ SensorThread(s) \/ DataRequested(s)

SensorSpec == SensorInit /\ [][SensorNext]_sensorVars

------------------------------------------------------------------------------
\* The values that frames of one kind set come from one frame.
Whole(s, r) == \A f, g \in Members : KindOf[s][f] = KindOf[s][g] => r[f] = r[g]

\* In what a node sends that takes the lock on both sides, the values set by one
\* kind of frame come from one frame: wind direction and speed belong together,
\* the temperature has a frame of its own.  The nodes that write without the
\* lock may mix the values of several frames of one kind.
GuardedReadingsWhole == \A s \in Sensors \ Unguarded : Whole(s, sent[s])

\* The last message has the values of the last frame of every kind.
Current(s) == \A f \in Members : sent[s][f] = frames[s][KindOf[s][f]]

\* A frame has come that sets a member the node looks at before it sends.
Heard(s) == Tested[s] = {} \/ \E f \in Tested[s] : frames[s][KindOf[s][f]] # 0
==============================================================================
