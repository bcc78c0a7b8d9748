# A TLA+ verification of the sailing robot's navigation system

The repository holds the control software of the sailing robots ASPire and
Janet: C++ under `src/NavigationSystem`, set-up scripts and data.  This
directory specifies the parts of it in which threads, the message bus, the
database and the network meet, checks them with TLC and proves what matters
most about them with TLAPS.

Paths below are relative to `src/NavigationSystem` unless they start with `src/`.

## 1. The system

A *node* is an object that registers message types with the **message bus** and
gets them in `processMessage()`, always on the bus thread.  An *active node* also
has a thread of its own, which shares the node's members with the bus thread.
`main_ASPire.cpp` constructs the nodes, initialises them one after the other,
starts the active ones and then calls `MessageBus::run()` and stays there.

| Component | State | Operations | Hard behaviour |
|---|---|---|---|
| `MessageBus` | two queues, two pointers to them, one mutex, the registrations | `registerNode`, `sendMessage`, `run`, `processMessages`, `stop` | senders on every thread and in handlers; an unlocked `size()`; a swap that is half inside the lock; `stop()` at any time |
| `WaypointMgrNode` | target waypoint, leg, stay timer | `init`, `processMessage` (state, new waypoints), harvest | the table is replaced by another thread between and during its queries |
| `DBHandler` | one SQLite connection, `m_databaseLock`, the tables | lookups, replacement of a table, insertion and export of logs | one connection for all threads: transactions are not isolated, locks are taken by some users only |
| `DBLoggerNode`, `DBLogger` | the current `LogItem`, a FIFO, a batch | collect, `log`, worker thread | copies of an item that changes; signals; batches |
| `HTTPSyncNode` | flags, index of the last pushed item | push logs, push and fetch waypoints and configurations | calls that fail or whose answer is lost; flags written by two threads |
| `CollidableMgr`, `CollidableList` | AIS contacts, visual field | add, remove old ones, walk through | writers, voters and a garbage collector on different threads |
| `AISProcessing` | received positions and sizes | collect, forward | members shared without the lock; `main_ASPire.cpp` constructs the node and does not start it |
| `LineFollowNode` | leg, wind buffer, tack direction | message handlers, a course every loop | the thread takes the lock three times per loop, or not at all |
| `LocalNavigationModule`, arbiter, voters | boat state, ballots | ballot and winner | 16-bit sums, all courses vetoed |
| `CANService`, MCP2515 driver | receivers, reassembly of fast packets, send queue, two receive buffers | `registerForReading`, `run`, `sendCANMessage` | lost and swapped frames, reused sequence ids |
| State estimation, wind state | last sensor values | combine | values that are not there yet |
| Low-level controllers | set points, last commands | compute a command every loop | set points that change during a loop |
| `XbeePacketNetwork`, `XbeeSyncNode` | message fragments | split, reassemble, relay | lost and duplicated packets |
| Drivers, camera, simulation, mathematics | | | device I/O and floating-point arithmetic |

What makes the components correct, in a sentence each:

- **Bus**: every accepted message is handed, once and in order, to every
  registered node that wants it, whatever the senders do meanwhile.
- **Mission**: waypoints are harvested in order, by a vessel that is there, and
  the node always ends up sailing to the first waypoint of the present mission.
- **Logging**: a reading is stored at most once and in order, full batches are
  stored, and every log item reaches the server.
- **Contacts**: nobody touches the vector without the lock, and lock and flag are given
  back by whoever took them.
- **CAN**: packets that come through undamaged are delivered whole, whatever was lost
  before them; frames do not starve in the controller.
- **Synchronisation**: when nothing is flagged or under way any more, boat and server
  hold the same configurations and waypoints.
- **Line follow**: the line starts where its leg was announced to start, and the course
  on the bus catches up with leg, position and wind.
- **Arbiter**: the course sent is the best one that no voter vetoed.
- **Actuation**: rudder and sail come to follow the last course, and no thread of the
  boat brings commands out of order.
- **CAN nodes**: the values that one kind of frame sets go into a message together, where
  the lock is taken on both sides; everywhere a node that has data comes to send the values of the
  last frame of each kind.
- **Radio**: a message put together from packets is one message, whole as far as sizes of 8
  bits allow.

## 2. Modules

| Module | Models |
|---|---|
| `BusDefs` | messages, registrations, the routing rule |
| `OrderedBroadcast` | abstract: what nodes rely on, without queues, locks or threads |
| `MessageBus` | `MessageBus/MessageBus.{h,cpp}`, in steps of its threads |
| `MessageBusProofs` | inductive invariant, refinement of `OrderedBroadcast` |
| `Mission` | table `currentMission`, `WaypointMgrNode`, HTTPSync's replacement, the logger's transactions on the same connection, restarts |
| `LogPipeline` | `DBLoggerNode`, `DBLogger`, `insertDataLogs()`, `pushDatalogs()`, `getLogsAsJSON()` |
| `AISContacts` | `CollidableMgr`'s contacts and `CollidableList` |
| `AISContactsProofs` | for any writers: mutual exclusion, one contact per vessel and a list that stands still while it is read, up to the first skipped lock; lock and flag always come back |
| `CANReceive` | the receive buffers of the CAN controller, the driver, `CANService::run()` and `ParseFastPkg()` |
| `CANReceiveProofs` | types; the driver lets no frame starve; what is handed over, whole and mixed |
| `HTTPSync` | the flags and the fetching and pushing thread of `HTTPSyncNode` |
| `LineFollow` | the handlers and the thread of `LineFollowNode` |
| `Ballots` | `LocalNavigationModule::startBallot()`, `ASRArbiter`, `ASRCourseBallot` |
| `Actuation` | `CourseRegulatorNode`, `WingsailControlNode`, `ActuatorNodeASPire`, the sending half of `CANService` and the MCP2515 |
| `SensorNodes` | the threads in `CANWindsensorNode`, `CANCurrentSensorNode`, `CANArduinoNode` |
| `PacketNetwork` | `XbeePacketNetwork`, `SLIP.h`, the frames of `DataLink` |
| `MCOnboard` | the six modules above side by side, with their fairness |
| `MCReception` | `CANReceive` and `AISContacts` side by side |
| `MissionProofs` | the node agrees with the table, waypoints come in order |
| `LogPipelineProofs` | readings keep their order, only late ones are lost, no item is skipped |
| `PacketNetworkProofs` | messages arrive as they were sent |
| `OnboardProofs` | an inductive invariant for each of the other five modules of `MCOnboard`, and the composition |
| `NaturalOrder` | least elements, induction for sets of numbers, loops as functions: what the proofs about recursive functions rest on |
| `MC*` | small instances for TLC |

### MessageBus

One variable per member: `front` and `back` say which of the two queue objects
the pointers name, `mutex` and `push` are the lock and the push under way in it,
`pc` and `cursor` are the bus thread's position in `run()` and in the loop over
the registrations.  `log` and `got` are history: what has been pushed, and which
messages each node has been handed.

- A push is two steps (`SendBegin`, `SendEnd`), so that the bus thread can look
  at the queue in the middle of it; as that is a data race, it may then see
  either answer (`SeesMessages`, `SeesNothing`).
- The swap is two steps, `Flip` in the lock and `SetBack` after it.
- A handler is a period (`Deliver` to `HandlerReturns`) in which the bus thread
  itself may send.
- `RegisterBegin` is the look at `m_Running` in both forms of `registerNode()`, `RegisterEnd`
  the change of the vector.  Neither takes a lock, so `run()` may be entered in between, and after
  `stop()` registrations are accepted again.  A registration that ends after `run()` was entered
  races with the loop over the vector, which is undefined behaviour: `late` notes it, and a
  behaviour ends there.  `MessageBus.h:10` says that nodes are added before the bus runs, and the
  main programs do so; what they are promised is said of behaviours without `late`.  One
  thread makes the registrations, in the constructors of the nodes.
- The optional message log file is left out.

Properties: `BacklogInOrder`, `DispatchIsolated`, `ExactlyOnce`, `NoHalfBatch`,
`ImplementsBroadcast` (refinement: the abstract `completed` is the number of messages taken
off both queues, `spoilt` is `late`, after which `OrderedBroadcast` promises nothing),
`EventuallyDistributed`, `StopReturns`.

### Mission

Row *i* of `table` has id *i*: the scripts and the server number the waypoints of
a mission from 1.  A place stands for a circle around a waypoint; the vessel is
inside one or the other.  Every SQL statement is one step, and so is every lock
operation; `tx` and `saved` are the connection's transaction.  The two queries for the
previous waypoint (`MAX(id)`, which is `PrevId`, and its row) are one step; what may come between
them only changes where a leg starts, until the notice that follows is handled.

- `WaypointMgrNode` is on the bus thread: `ReceiveState`, `ReceiveNotice`, `Check`,
  `Harvest`, then `Lookup`, `LoadRow`, `LoadPrev`, `Send` for `sendMessage()`.  It
  never locks, and `Send` unlocks all the same.
- HTTPSync: `Fetch`, then `transactionalReplaceTable()` statement by statement,
  with the path on which `END` is skipped (`SyncInsertErrors`: nothing to insert, no statement,
  or values of the last rows that cannot be bound), and `SyncDone`.
- The logger: only its lock and its transactions, with `END` before or after the
  unlock.  A batch of several items has a transaction for each of them under one lock; the model
  gives the lock back in between, which the stray unlock of `WaypointMgrNode` can bring about
  anyway.  A single item is inserted without a transaction, and only takes the lock.
- `Restart` models the death of the process at any point and the boot after it;
  SQLite undoes an open transaction, the harvests in it included.
- `astray` is history and marks what the code gives up on: a failed lookup or
  replacement has no retry.  Properties speak of the times without.

Left out: `m_routeTime` and `m_totalTime` (only logged), `m_isCheckpoint`, the
`CourseDataMsg` of `sendNavigationInformation()`, the failure of a single `INSERT`
(only logged by the code), and `m_prevId`, which goes with `m_prevLongitude`.

Properties: `Converged`, `HarvestedInOrder`, `MissionCompleted`, and
`StayedDesignatedTime`, which fails.

### LogPipeline

`dataLogs_compass` stands for the tables with several readings per item,
`dataLogs_system` is the index.  A reading is a number; `compass` keeps for each
row the reading and, for the properties, the item it belongs to.  The ids the
index gets are computed as `insertDataLogs()` computes them (`CompassId`).  Whether
a push is of one item or of a chunk depends on errors of other calls just before,
so either may happen.  A failed push may have reached the server.

`late` is history: the readings that came between the unlock and the clearing of
the queues.

Properties: `StoredOnceInOrder`, `OnlyLateReadingsLost`, `NoItemSkipped`,
`BatchesAreStored`, `CaughtUp`, and `NewItemsAreSent`, which fails.

### AISContacts

`Adders` call `addAISContact()` (the simulator's node in simulation builds, `AISProcessing` where
it is started), `Collectors` are the garbage collector, which both main programs start.  All of them
share their way in (`Call`, `Lock`, `Mark`) and out (`Unlock`, `Clear`); `flag` is `ownAISLock`, read
and written outside the lock.  Voters look at the size without the lock (`Look`), lock at the first
`next()`, walk, start over for the next course (`Again`) and let go.  `next()` on a list that
has been emptied throws.  `Young` is what `removeOldAISContacts()` leaves.

`skipped` is history: a writer has found the flag set and gone on without the lock.  It may have been
set by a thread inside, or by one between its unlock and line 88; either way others may be in the
vector.  `Exclusive` is what the code promises, and fails.  What holds is said up to that moment for
any number of writers; `NothingLeftBehind` holds after it as well: nobody goes away with the lock, and a
flag that stayed set, which would do away with the lock for good, does not occur.

Properties: `ExclusiveUntilSkipped`, `NothingLeftBehind`, `OneContactPerVessel`,
`StableWhileRead`, and `Exclusive`, which fails.

### CANReceive

The devices on the wire send the frames of their packets in order; `rx` is the
MCP2515's pair of receive buffers with roll-over, and a frame that finds both full
is `lost`.  `CheckBoth` and `CheckOne` are `MCP2515_CheckMessage()`; the buffer is
read in a later step, so that a frame may arrive in between: `PickFirst` is then
wrong about which buffer is older and two frames change places.  One action per
way `run()` and `ParseFastPkg()` can treat the frame that was read: `Single`,
`Short`, `Open`, `Orphan`, `OutOfOrder`, `Continue`, `Complete`.  `packages` is the
map `FastPackages`, its entries keep the bytes that are missing, the number of
the latest frame and, instead of `Data`, the packet each frame came from.

Assumptions: `None`, the content of an empty receive buffer, is not a frame
(`NoneIsNoFrame`); announced lengths are 6 or more (`ParseFastPkg()` writes six bytes of
frame 0 in any case); receivers register in constructors, before `start()`.  Left out:
the decoding in the nodes; the sending half of `run()` is in `Actuation`.

Properties: `DeliversPackets` (the map against a reference definition over all
frames read), `MixedOnlyByFaults`, `UndamagedDelivered`, `NoFrameStarves`.  That a
message may be a mixture of two packets is a fact about the code; the property
says exactly when: the packets use the same sequence id, and each of them lost a
frame or had two change places.

### HTTPSync

Configurations and waypoints are version numbers on either side; `updated` says
that the server has an edit it has not handed out.  The thread turns from one kind
to the other: `NewsOnServer` or `NothingNew`, then `Fetched` and `Stored`, or
`ReadData`, `PushArrives` and `PushAnswered`, and at every call a failure before or
after it has reached the server.  `NoticeHandled` is `processMessage()`, which sets a
flag while the thread is anywhere.  `slip` is history: it marks the two ways in which a
kind gets out of step for good, a change announced during a push, whose flag is
cleared when the push ends (`overlooked`), and an edit that the server has handed out
and the boat has lost (`mislaid`).  `LocalChange` is a harvest; of the messages that
`processMessage()` knows, only `WaypointData` is sent by anybody, so that the
configurations have no local changes in this code.  The second look at the flag after six seconds in
`pushWaypoints()` never differs from the first, as nobody else clears it.  The
`WaypointData` that follows a fetch makes the boat push what it has just fetched.

Properties: `NothingForgotten`, `SyncedOrSlipped`, and `LocalChangesArePushed`, which
fails.

### LineFollow

A course is the record of what it was calculated from: leg, start of the line,
position, wind.  The test of `ifBoatPassedOrEnteredWP_setPrevWPToBoatPos()` and the two
assignments behind it are steps of their own, because they take no lock; a handler
that comes in between (`torn`) makes the outcome of the test open, since the thread
may have read members of two states.  `Beyond` and `Within` are the tests of
the code in the plane.  The tack is looked up under a second lock, so it has a wind of its
own.  The hysteresis of the tack and the angles are abstracted.

Properties: `LineStartsAsAnnounced`, `AtMostOneOldCourse`, `CourseCatchesUp`.

### Ballots

One step per voter and per course scanned.  `ToInt16` is the conversion that both the
product and the sum go through; `tally` is history with the exact sums.  The winner's
index is uninitialised until a course is better than -1, `Stack` is what it may hold.
`LastCourseVoter` is constructed with the name `Course`, so the feedback in
`LocalNavigationModule.cpp:214`, which looks for `LastCourseVoter`, reaches nobody;
it is a vote like any other here.

Property: `WinnerIsBest`, with what the code needs for it as premises: the sums fit
and some course is neither vetoed nor negative.

### Actuation

A command is the number of the `LocalNavigation` message it comes from.  `Calculate`
and `SendCommand` are two steps of a regulator's thread, which calculates under its lock and
sends after it, in every turn of its loop; `bus` is the message bus with an
order of its own for either receiver; `CommandHandled` queues a frame of both angles;
`Transmit` moves it to the first free transmit buffer and `Dropped` is the frame for which
there is none.  `OnTheWire` picks any pending buffer: the controller does not keep the
order of equal priorities.

Properties: `FramesInOrder`, `FinallySteered`.

### SensorNodes

A member's value is the number of the frame it comes from among those of its kind, its PGN or
id.  `KindOf` says which kind sets a member: PGN 130306 the direction and the speed of the wind, 130311 its
temperature; 701 the feedback of the actuator unit, 702 only the state of the remote control.
`FrameComes`, `WriteMember` and `FrameDone` are the CAN thread in a node's `processPGN()` or
`processFrame()`, which `Unguarded` nodes run without the lock and which leaves the members of other
kinds alone (`InBranch`); `Wake` or `Sleep`, `ReadMember`, `SendReading` are the node's thread, and
`DataRequested` is the bus thread that makes the same message in the wind sensor's `processMessage()`.

`Tested` are the members that a node wants one of set before it sends.  The state of the remote control is
not among them: as long as only frames 702 come, `CANArduinoNode` sends nothing, so that
`ReadingsCatchUp` speaks of nodes that have `Heard` of what they test.  `CANCurrentSensorNode`, in which
the test is commented out, always sends and takes no lock for writing; it is the case `Tested[s] = {}`,
which the proofs cover and the runs, with the other two nodes, do not.

A message of the wind sensor may hold a new temperature and an old wind.  `GuardedReadingsWhole` is
therefore about each kind: direction and speed are of one frame.

Properties: `GuardedReadingsWhole`, `ReadingsCatchUp`.

### PacketNetwork

A byte is its width on the wire.  `PacketCount` and `SplitSize` are the two loops of
`SLIP.h`; both count widths, and `transmit()` takes a width for a number of bytes and
passes the whole message's size for every packet, so that the last packet reads past
the end of the message and may get any memory (`SplitSizes`).  Sizes have 8 bits: that of a packet
(`SplitSizes`), of its frame (`FrameSize`) and of the whole message at the receiver
(`PayloadSize`) are taken modulo `SizeCount`.  A packet whose width jumps over `MaxData` grows
beyond it.  A frame that is too long or whose size has come round to 0 is dropped by
`DataLink::transmit()` (`Sendable`), a very short one by the receiver (`Receivable`); `unfit` notes the
messages this happens to.  `foundEnd`
in `DataLink::receive()` is not initialised: a frame may be taken for ended at its
start, which loses it, one of the reasons behind `Lose`.  The checksum is not
looked at by the code.  One direction is modelled, from a boat that is not the master.
`main_janet.cpp` starts no thread for the node, so on that boat packets only pile up.

Properties: `ReceivedAsSent`, in three parts: a callback gets the packets of one message, all
of them, in order and from its first byte on; callbacks come in the order of sending; without a loss
every message that is not under way has come.  And `FullMessageSize`, which fails: the callback is told
how many bytes they hold.  The exceptions of the first are what the code really does:

- A message with escaped bytes (`~Plain`) may lose its end, because `transmit()` cuts at
  widths where it means bytes.  So may one of 128 bytes or more, if the memory behind it makes a size come
  round; shorter ones without escaped bytes come to their last byte, which is proved.
- What the callback is told is the number of bytes modulo 256.  A message of 233 to 255 bytes is five
  packets of 58 bytes (if the memory behind it needs no escaping either), 290 together: it is told 34.
  `processPacket()` copies all 290 into a block of 34, which is undefined behaviour; the model goes on
  as if the memory behind the block were free.  The same holds for `frame[frameSize - 2]` of a
  frame whose size came round to 0 or 1.
- Ids are used again after `IdCount` messages, and two messages that meet under one id may be
  taken for one (`Aliased`).
- A message of one packet overtakes the waiting packets of a longer one with its id
  (`Overtook`).  `IdCount > 1` is assumed, so that two messages in a row have different ids.

## 3. Runs

| Run | Instance | Shows |
|---|---|---|
| `bus_core` | 3 nodes, 2 with the same NodeID, a sending thread and a sending handler, 3 messages, registrations at any time | all properties of the bus |
| `bus_stop` | the same, 1 message | finding 1 |
| `mission_sail` | missions of 1 and 2 waypoints, a stay, one replacement, fairness | harvest order and completion |
| `mission_resync` | no stays, two replacements and then a restart, or a restart and one replacement in either order | convergence |
| `mission_stay` | a stay, no replacement | finding 2 |
| `ais_two` | a thread that adds, the garbage collector, 1 voter, 2 vessels | finding 3 |
| `logs_all` | batches of 2, chunks of 2, 2 readings, 4 items, fairness | nothing stored twice, skipped or stuck |
| `logs_gap` | the same | finding 4 |
| `onboard` | six components side by side: 2 kinds of data, 2 changes, 2 failures; 2 legs, 4 places, 2 positions and 2 winds; 2 voters, 3 courses, 4-value integers on either side of 0; 2 courses through 2 regulators and 2 transmit buffers; wind sensor and actuator unit with 3 members of 2 kinds each and 3 frames; 4 messages of 1 to 4 packets, 2 ids, sizes modulo 8, 3 losses | 8 invariants and 4 liveness properties, a component's in its own states |
| `http_lost_change` | the instance of `HTTPSync` with one kind's changes | finding 5 |
| `radio_size` | one message of 7 bytes without escapes, packets of 2, sizes modulo 8, no losses | finding 6 |
| `reception` | 2 sequence ids, 3 fast packets of 6, 13 or 14 bytes, a single frame of another device; and, beside it, the contacts as in `ais_two` | what is delivered, mixed up, and when; lock, flag and list of the contacts |

Bounds: `MaxAccepted`, `MaxSyncs`, `MaxRestarts`, `MaxStay`, `MaxReadings`, `MaxItems`,
`MaxPackets` bound one behaviour and appear in the guards.  Three messages let one wait in the
front queue while one is distributed and a handler sends the third; the sending
thread, the handler and the swap make three parties at the lock.  Two waypoints give one
with and one without a predecessor; two replacements let the second meet what the
first left behind (an open transaction, a notice under way); a restart before a
replacement counts for one of the two (`syncs + restarts < MaxSyncs`).  Two readings and
four items give items with none, one and two readings in batches of two, a
backlog of more than a chunk, and an item before the first push.  Three packets and two
sequence ids make the first and the third share a key; 13 bytes end with a frame,
14 one byte after it.  `MaxMishaps` of two lets a push and the fetch after it
fail; a version more than the mishaps lets something change behind them.  Two legs, the second
of which starts where the first one ends, let a leg come while the thread is in its
unlocked part.  Four as `Half` lets the sums of two voters of weight 1 and 2 overflow.
`BusBound` and `CANBound` bound queues that have no bound in the code; the MCP2515
has three transmit buffers, two (`LastBuffer = 1`) let frames overtake each other and be
dropped.  `IdCount` is 256 in the code; with 2, the fourth message meets the packets
of the second.  The four messages have one packet or several, with and without escaped bytes, one packet
that grows beyond `MaxData`, and one message whose sizes do not fit.  `SizeCount` is 256 in the code,
with packets of 58 bytes; with 8 and packets of 2, four packets reach it.  A size of a frame
that has come round to 0 does not occur in the run.  An empty table comes from an insert
that fails (`SyncInsertErrors`).  The proofs
leave all bounds arbitrary.

`MCOnboard` and `MCReception` compose modules that share no variable.  Interleaving them would
only multiply their states, so `part` says at the start which one runs: the runs check the sum
of six and of two state spaces, in each of which the others stay in their initial states.

`MessageBus` runs do not check for deadlock: after `stop()` `run()` returns and the
system really stops.  Neither do `reception`, where the devices fall silent after
their last packet and the driver polls in vain, and `radio_size`, which ends with its one message.  The
others do.

**Fairness.**  Threads keep being scheduled: weak fairness of `BusStep`, of each
`SendEnd`, of `NodeStep`, `SyncStep`, `LoggerStep`, `WorkerStep`, `PushBegin \/ Select`.
Nobody has to send, stop or log.  In `Mission`, `Tick` is weakly fair (time passes);
`ReceiveNotice` is strongly fair because the bus distributes every message
(`EventuallyDistributed`); `BoatArrives` is strongly fair, an assumption about the
sailing; `Harvest` is strongly fair because a failing UPDATE is retried with the next
state message and is assumed not to fail for ever.  In `LogPipeline`,
`PushSucceeds` is strongly fair: the network is not down for ever.  In `MCOnboard`
the threads, the handlers of what the bus has queued and the transmit buffers are
weakly fair; `SendCommand` is strongly fair only because of `BusBound`, which the real
queue does not have: without it a regulator can always send.  Failures there are bounded by
`MaxMishaps`, so nothing is assumed about them.  Nothing has to change, arrive or be lost.

## 4. Findings

1. *A stop that comes early is lost.*  `run()` begins with `m_Running.store(true)`
   (`MessageBus.cpp:83`).  `Tests/unit-tests/MessageBusTestHelper.h` starts it on another
   thread and promises to stop it on destruction; if the destructor's `stop()` comes
   first, its `m_fut.get()` waits for ever.
2. *The stay of a waypoint is that of its predecessor.*  `getWaypointValues()` fills
   `nextStayTime` a second time, from the previous row (`DBHandler.cpp:827`).
3. *The contacts' flag defeats their lock.*  `ownAISLock` belongs to nobody
   (`CollidableMgr.cpp:52`).  The garbage collector always runs (`main_ASPire.cpp:308`,
   `main_janet.cpp:238`); wherever there are contacts a second thread adds them, the simulator's node in
   simulation builds (`SimulationNode.cpp:259`) or `AISProcessing` where it is started.  One of
   them that finds the flag of the other goes into the vector without the lock, also when the other has
   just given the lock back and a voter is reading.
4. *Readings are never sent.*  The ids in the index are arithmetic that holds only
   if every item has exactly one reading (`DBHandler.cpp:1120`).
5. *A change during a push is overlooked.*  `pushWaypoints()` clears its flag when the
   call has come back (`HTTPSyncNode.cpp:205`, the same for configurations in
   `pushConfigs()`); a message that has set it meanwhile is undone, and the change is
   not pushed before the next one.
6. *A long radio message is cut.*  `processPacket()` sums up the sizes of the packets in 8 bits
   (`XbeePacketNetwork.cpp:316`), allocates a block of that size and copies all packets into it:
   messages of 233 bytes and more overrun the heap, and the callback gets a few of their bytes.

## 5. Proofs

`MessageBusProofs`, for every set of nodes, ids, types, messages and senders, from
the two assumptions `BusConstants` and `ThreadConstants`:

- `Invariance`: the inductive invariant `IInv`.  `TypeOK` and the properties are not
  inductive; it adds `Locking` (who pushes where, and that a push belongs to the
  owner of the lock), `Pointers` (the two pointers name different queues except
  between the halves of the swap, where `tmp` is the missing one), `Backlog` (the
  queues hold the end of `log`), `Distribution` and `Phases` (what the back queue
  is in each phase) and `OnePerID` (one registration per NodeID, without which a
  second one could be handed another's messages).
- From it `TypeCorrect`, `NoPushOnBackQueue`, `NothingLostOrReordered`,
  `HandedExactlyOnce`, `ReturnsAfterBatch`.
- `Refinement`: the initial states map to initial states; `SendEnd` maps to
  `Accept`, `Deliver` to `Deliver`, `Pop` to `Complete`, `RunBegin` to `Close`,
  `RegisterEnd` to `Subscribe`, or to `Spoil` when it is late, and every other step to a stutter.

Neither the order of the queues nor the return between two batches depends on when nodes are registered;
what each node is handed does, and is promised only without `late`.

`MissionProofs`: `TypeCorrect`, `NodeConverges`, `WaypointsInOrder`.  `Converged` speaks of
the times at which nothing is under way; the invariant says what holds meanwhile.
`LookupAgrees` goes through the places of `sendMessage()`: as long as the table has not been
replaced since the first query, what has been looked up so far agrees with it.  If it has
been replaced, `NewsPending` says who will notice: the replacement is still running, or announced on the
bus, or the node is about to look, unless the node is astray.  `AtTarget` says that an UPDATE is due only where the
vessel is.  `Counted` ties the notices to the replacements.

`LogPipelineProofs`: `StoredInOrder`, `OnlyLateLost`, `ItemsGapless`, `TypeCorrect`.  What the
worker has and what waits for it are one sequence, `Pending`.  `ReadingsOrdered` says that the
table and the items of `Pending` are ascending, one after the other; `ItemOrdered` that the `LogItem`
comes after them once it has been cleared, since before it repeats what was logged;
`ReadingsKept` where each reading is; `ItemsCounted` that every item logged is in the queue, the
batch or the index; `PushInIndex` that a push is of items in the index, behind the last one pushed.

`AISContactsProofs`, from `AISConstants`, for any numbers of writers, voters and vessels:

- `LockedUntilSkipped`.  The invariant `LockInv` says that, as long as no writer has skipped
  the lock, every thread between its lock and its unlock owns it.  The gap between an unlock and the clearing
  of the flag is part of it: a writer that waited for the mutex and gets it there owns it, and loses only
  its flag.
- `LockAndFlagComeBack`, without that premise: each step of a writer or a voter hands on the reason why lock
  and flag will be given back.
- `ListStableWhileRead` from `LockInv`.
- `EachVesselOnce`.  A contact is looked for and written in two steps; `NotFoundIsNew` says
  that what was not found is still absent when it is appended, which the lock makes true.
- `TypeCorrect`.  `WritesReport` keeps the garbage collector from the writing step;
  `YoungAreLeft` says what it leaves.

`skipped` is a premise about a step of the program, not about its configuration: the run `ais_two`
shows that the programs with contacts do reach it.

`CANReceiveProofs`, from `CANAssumption`:

- `CANTypeCorrect`.  The devices' part of the invariant (`Device`) bounds the frame
  numbers by the announced length, and with it what an entry can hold.
- `FramesDoNotStarve`.  The invariant `Chip` says what `PickFirst` knows: a frame in
  RXB0 is never overtaken; one in RXB1 only while `PickFirst` is TRUE, which then
  stays FALSE until RXB1 has been read.
- `HandsOverPackets`, whatever is lost or changes places.  The property compares the map with
  a definition over all frames read.  The invariant `Waiting` joins the two: there is an entry
  for a key exactly if its frames since its latest first frame were read in order, the packet is
  not complete, and the entry holds what those frames carried.  Each frame that is read
  settles what is due for it (`HandedBefore`: later frames change nothing in that).
- `MixturesNeedFaults`, `UndamagedArrive`.  Here the wire comes in.  `Wire` says that all frames
  a device has sent are among those read, waiting or lost, in the order it sent them and none
  missing; `Once` that each is in one place; `EachDelivered` that what is due at a frame has
  been handed over.  The rest is an argument about one state: a message with frames of
  two packets has, for each of them, a frame that is lost or was read out of turn; a packet
  without such frames fills its numbers from 0 to the last (`NumbersFill`), and is due at its
  last frame.

`OnboardProofs`, part `HTTPSync`, from `HTTPConstants`: `HTTPTypeCorrect`, `FlagsForgetNothing`.
`NothingForgotten` is not inductive, as it does not say what a flag stands for while it is
being served.  `Busy` adds it: during a fetch the edit is still at the server or in the
payload, and during a push the flag is still set and the payload is the boat's version, or
another message is waiting or has been overlooked.  One lemma per action.

Part `LineFollow`, from `LineConstants`: `LineTypeCorrect`, `LineKeepsItsStart`,
`OneOldCourse`.  `ReachedNoted` ties the history to what the thread could see;
`MovesForReason` says that between the test and the assignments the end has been reached
or a handler has come in; `OldCourseGone` that once an old course is out none is waiting.

Part `Ballots`, from `BallotConstants`: `BallotTypeCorrect`, `WinnerIsElected`.  The
invariant says that the tally is the exact sum modulo the width, which makes them
equal when the sum fits (`FitsExactly`), and that the scan so far has found the first of
the best courses so far.

Part `Actuation`, from `ActuationConstants`: `ActTypeCorrect`, `FramesStayInOrder`.
Behind the order of the frames is the order of all numbers on the way: angles are not newer than
targets, messages lie between what their sender and their receiver know
(`BusBetween`), and those of one kind wait in order (`BusInOrder`).

Part `SensorNodes`, from `SensorConstants`: `SensorTypeCorrect`,
`GuardedReadingsStayWhole`.  The invariant `Exclusion` is the lock's promise: who is inside
holds it, the CAN thread, the node's or the bus's; whenever nobody writes, the members that one kind of
frame sets are of one frame, and while somebody does, those of the other kinds are; and what has been read for
the message so far is what the members still hold.

The composition: `OnboardParts` says that a behaviour of `OnboardSpec` is a behaviour of each of
the six components, as the steps of one leave the variables of the others alone; with it
every theorem about a component holds of the composition, and `OnboardTypeCorrect` is the first
to use it.

`PacketNetworkProofs`, from `RadioConstants`: `RadioTypeCorrect`, `MessagesComeAsSent`, for any
messages, any sizes of packets and bursts and any number of ids above one.

- The loops of `SLIP.h` and of `processReceivedPackets()` are recursive functions.  `CountLoop`,
  `SizeLoop`, `OffsetsLoop`, `ProcessLoop` say that they compute something, and give the
  equation of one turn; `InductionUpTo` then carries a fact from turn to turn.
  `PlainIsCovered`: the packets of a message without escaped bytes reach its end, if it is shorter than
  half of what a size can say, since no size can then come round.
- `PayloadLoop`: the sum in 8 bits is the sum modulo 256 (`SumRemainder`, from what a remainder is).
- The order of all packets is `Sent`.  Every queue is `Rising` in it, and all that is in a
  queue is `Sound`: a packet of the message it names, at its place in the cut of that message.
- The calls so far are `Good` (packets of one id, in the order of sending, as many as the
  first one says) and follow each other (`After`); without losses they are `Complete`.  `Waits` says what of a
  message is waiting for its rest.  `Stands` is all of this at one turn of the loop, kept by
  both halves of the turn (`EndStands`, `AddStands`).
- One lemma per action (`MessageKeeps`, `BurstKeeps`, `LoseKeeps`, `ReceiveKeeps`), and last the argument
  from the invariant to the property (`InvariantIsAsSent`).

`NaturalOrder` is needed because the library's induction theorems take an operator as a
parameter, which the installed provers cannot instantiate.  It derives induction for *sets* of
natural numbers (`InductionOverNat`, `InductionUpTo`) from the existence of least elements, and from
that `LoopComputes`: a loop of *m* turns over a set computes a function.  With these, what a
recursive function computes can be proved as long as it is stated for a set of
turns, which every fold here allows.

Every invariant that a passing run checks is stated by a theorem.  Only model-checked are
the liveness properties (`EventuallyDistributed`, `StopReturns`, `MissionCompleted`,
`BatchesAreStored`, `CaughtUp`, `SyncedOrSlipped`, `CourseCatchesUp`, `FinallySteered`, `ReadingsCatchUp`):
they rest on fairness, and so on ENABLED, which the prover cannot treat.  So are the
six violations, which are about single behaviours.

## 6. Not modelled, and the plan

Floating-point geometry and control laws, device drivers, the camera, image
processing, development tools and the scripts are left out: they keep no state
that several parties share, or their correctness is numerical.  `PROJECT.json`
lists every part with its reason.

What the modelled components leave out is named in their sections.  Hazards that no
property covers have their reason in `PROJECT.json`: the stay timer that keeps counting when the
vessel leaves the radius, the lookup without a retry, the list that is emptied between
`length()` and `next()` (modelled, but the code promises nothing), the wrap of the last
pushed id with an option that is off, and fast packets shorter than a frame.  Others are modelled, but
what goes wrong by them is left out of the properties by a history variable or a premise, since the
code gives no second chance: `late` in `MessageBus`, `fresh` and `astray` in `Mission`, `mislaid` in
`HTTPSync`, `clash` in `LineFollow`, sums that do not fit and ballots without a winner in `Ballots`.

Next, in this order:

1. The visual field and its fading in `CollidableMgr`; `StateEstimationNode` with the
   sensors it combines; shutdown of the threads.
2. `CANMarineSensorTransmissionNode` and the requests of the data collection.
3. `Mission` and `LineFollow` composed over the bus's waypoint messages.
4. Proofs: an abstract log, to which items are only appended and from which they
   are only sent, and that `LogPipeline` implements it; the same for a lock that excludes until it is skipped
   and `AISContacts`, and for a mission that only shrinks between replacements and `Mission`.
