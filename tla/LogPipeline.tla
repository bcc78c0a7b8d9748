----------------------------- MODULE LogPipeline -----------------------------
(***************************************************************************)
(* The way of a sensor reading from the message bus to the server:         *)
(* DBLoggerNode collects readings in its LogItem and copies it to the      *)
(* DBLogger every loop, the DBLogger's worker writes batches of items with *)
(* DBHandler::insertDataLogs(), and the HTTPSync thread pushes the rows,   *)
(* in chunks it asks DBHandler::getLogsAsJSON() for.                       *)
(*                                                                         *)
(* Of the tables, dataLogs_compass stands for the two that take several    *)
(* readings of an item (the other is dataLogs_current_sensors), and        *)
(* dataLogs_system is the index, one row per item.  Locks that enclose a   *)
(* single step here are left out; those of the database are in Mission.    *)
(***************************************************************************)
EXTENDS Integers, SequencesExt, FiniteSetsExt

CONSTANTS
  Buffer,       \* m_bufferItems, the items per batch
  Chunk,        \* items per push, 25; after a connection error it is 1
  OnlyLatest,   \* push_only_latest_logs
  UIntMax,      \* the largest unsigned int
  MaxReadings,  \* bound: readings in one behaviour
  MaxItems      \* bound: items logged in one behaviour

ASSUME LogConstants ==
  /\ Buffer \in Nat \ {0} /\ Chunk \in Nat \ {0}
  /\ OnlyLatest \in BOOLEAN
  /\ MaxReadings \in Nat /\ MaxItems \in Nat
  /\ UIntMax \in Nat /\ MaxItems < UIntMax

VARIABLES
  read,       \* readings processed so far; they are numbered
  item,       \* item.m_compassItems
  cleared,    \* the node's thread has emptied the queue after the last log()
  logged,     \* items logged so far
  late,       \* history: readings between the copy of the item and its clearing
  fifo,       \* m_logFifoIn
  batch,      \* logFifoOut
  worker,     \* where the worker thread is
  base,       \* compassModelId of the running insertDataLogs()
  number,     \* its logNumber
  compass,    \* dataLogs_compass: the reading of row i and, for the
              \* properties, the index row of the item it belongs to
  system,     \* dataLogs_system: column compass_id
  last,       \* m_dataLogsSystemLastId
  first,      \* history: what last was before the first push
  sync,       \* where the HTTPSync thread is in pushDatalogs()
  upTo,       \* its chunkEnd
  rows,       \* the compass rows it has selected
  sent        \* history: index rows and compass rows the server has received

nodeVars   == <<read, item, cleared, logged, late>>
workerVars == <<batch, base, number, compass, system>>
syncVars   == <<last, first, sync, upTo, rows, sent>>
vars == <<nodeVars, fifo, worker, workerVars, syncVars>>

TypeOK ==
  /\ read \in 0..MaxReadings /\ logged \in 0..MaxItems
  /\ item \in Seq(1..MaxReadings) /\ cleared \in BOOLEAN
  /\ late \subseteq 1..MaxReadings
  /\ fifo \in Seq(Seq(1..MaxReadings)) /\ batch \in Seq(Seq(1..MaxReadings))
  /\ worker \in {"check", "waiting", "drain", "insert", "index"}
  /\ base \in Nat \ {0} /\ number \in 0..MaxItems
  /\ compass \in Seq([reading : 1..MaxReadings, of : 1..MaxItems])
  /\ system \in Seq(Nat)
  /\ last \in 0..UIntMax /\ first \in 0..UIntMax
  /\ sync \in {"idle", "select", "call"}
  /\ upTo \in 0..MaxItems /\ rows \subseteq 1..MaxReadings
  /\ sent.items \subseteq 1..MaxItems /\ sent.rows \subseteq 1..MaxReadings

Init ==
  /\ read = 0 /\ item = <<>> /\ cleared = TRUE /\ logged = 0 /\ late = {}
  /\ fifo = <<>> /\ batch = <<>>
  /\ worker = "check" /\ base = 1 /\ number = 0
  /\ compass = <<>> /\ system = <<>>
  /\ last = 0 /\ first = 0
  /\ sync = "idle" /\ upTo = 0 /\ rows = {}
  /\ sent = [items |-> {}, rows |-> {}]

------------------------------------------------------------------------------
(* DBLoggerNode *)

\* processMessage(CompassData).
Reading ==
  /\ read < MaxReadings
  /\ read' = read + 1
  /\ item' = Append(item, read + 1)
  /\ late' = IF cleared THEN late ELSE late \cup {read + 1}
  /\ UNCHANGED <<cleared, logged, fifo, worker, workerVars, syncVars>>

\* An item put in the queue without a signal.
LogQuietly ==
  /\ cleared
  /\ logged < MaxItems
  /\ logged' = logged + 1
  /\ fifo' = Append(fifo, item)
  /\ cleared' = FALSE
  /\ UNCHANGED <<read, item, late, worker, workerVars, syncVars>>

\* DBLogger::log(item): the item is copied and the worker is woken.
Log ==
  /\ cleared
  /\ logged < MaxItems
  /\ logged' = logged + 1
  /\ fifo' = Append(fifo, item)
  /\ worker' = IF worker = "waiting" THEN "check" ELSE worker
  /\ cleared' = FALSE
  /\ UNCHANGED <<read, item, late, workerVars, syncVars>>

\* The queue is kept, as the scalar fields of the item are.
KeepQueue ==
  /\ ~cleared
  /\ cleared' = TRUE
  /\ UNCHANGED <<read, item, logged, late, fifo, worker, workerVars, syncVars>>

\* clearCompassQueue(), after m_lock is released: a reading that came in since
\* the copy is dropped with the others.
ClearQueue ==
  /\ ~cleared
  /\ item' = <<>>
  /\ cleared' = TRUE
  /\ UNCHANGED <<read, logged, late, fifo, worker, workerVars, syncVars>>

------------------------------------------------------------------------------
(* DBLogger::workerThread() and DBHandler::insertDataLogs() *)

\* Under the lock: wait if there is nothing.
WorkerCheck ==
  /\ worker = "check"
  /\ worker' = IF fifo = <<>> THEN "waiting" ELSE "drain"
  /\ UNCHANGED <<nodeVars, fifo, workerVars, syncVars>>

WorkerDrain ==
  /\ worker = "drain" /\ fifo # <<>>
  /\ batch' = Append(batch, Head(fifo))
  /\ fifo' = Tail(fifo)
  /\ UNCHANGED <<nodeVars, worker, base, number, compass, system, syncVars>>

\* A batch that is not full is given up.
DrainedAndForgotten ==
  /\ worker = "drain" /\ fifo = <<>>
  /\ IF Len(batch) >= Buffer
     THEN /\ worker' = "insert"
          /\ base' = Len(compass) + 1 /\ number' = 0
          /\ UNCHANGED batch
     ELSE /\ worker' = "check"
          /\ batch' = <<>>
          /\ UNCHANGED <<base, number>>
  /\ UNCHANGED <<nodeVars, fifo, compass, system, syncVars>>

\* A full batch is stored; insertDataLogs() takes the next free row ids.
WorkerDrained ==
  /\ worker = "drain" /\ fifo = <<>>
  /\ IF Len(batch) >= Buffer
     THEN /\ worker' = "insert"
          /\ base' = Len(compass) + 1 /\ number' = 0
     ELSE /\ worker' = "check"
          /\ UNCHANGED <<base, number>>
  /\ UNCHANGED <<nodeVars, fifo, batch, compass, system, syncVars>>

\* _compassModelId: base id, plus the number of the item in the batch, plus
\* the number of its last reading in the item.
CompassId(readings) ==
  IF readings = <<>> THEN base - 1 ELSE base + number + Len(readings) - 1

Rows(readings) == [i \in DOMAIN readings |->
                     [reading |-> readings[i], of |-> Len(system) + 1]]

\* The loop of insertDataLogs() for one item: first its readings ...
InsertRows ==
  /\ worker = "insert" /\ batch # <<>>
  /\ compass' = compass \o Rows(Head(batch))
  /\ worker' = "index"
  /\ UNCHANGED <<nodeVars, fifo, batch, base, number, system, syncVars>>

\* ... then its index row.
InsertIndex ==
  /\ worker = "index"
  /\ system' = Append(system, CompassId(Head(batch)))
  /\ batch' = Tail(batch)
  /\ number' = number + 1
  /\ worker' = "insert"
  /\ UNCHANGED <<nodeVars, fifo, base, compass, syncVars>>

Inserted ==
  /\ worker = "insert" /\ batch = <<>>
  /\ worker' = "check"
  /\ UNCHANGED <<nodeVars, fifo, workerVars, syncVars>>

------------------------------------------------------------------------------
(* HTTPSyncNode::pushDatalogs() and DBHandler::getLogsAsJSON() *)

Predecessor(n) == IF n = 0 THEN UIntMax ELSE n - 1

\* The latest item is left to be pushed, as with push_only_latest_logs.
AdoptedOneLess(latest) == IF last = 0 THEN latest - 1 ELSE last

\* m_dataLogsSystemLastId before anything is pushed in this round.
Adopted(latest) ==
  LET l == IF OnlyLatest THEN Max({last, Predecessor(latest)}) ELSE last
  IN  IF l = 0 THEN latest ELSE l

\* The latest item is taken for the one that was pushed last.
BehindByTwo(after, latest) == after + 1 < latest

Behind(after, latest) == after < latest

\* The compass rows selected with the index rows (after, to].
RowsOf(after, to) ==
  {i \in DOMAIN compass : /\ system[after] < i
                          /\ i <= Max({system[k] : k \in 1..to})}

\* Whether m_connectionErrors is zero has been decided by the calls that
\* getConfigsFromServer() and getWaypointsFromServer() made just before.
PushBegin ==
  LET latest == Len(system)
      after  == Adopted(latest)
  IN
  /\ sync = "idle"
  /\ last' = after
  /\ first' = IF last = 0 \/ OnlyLatest THEN after ELSE first
  /\ IF Behind(after, latest)
     THEN /\ sync' = "select"
          /\ upTo' \in {Min({after + n, latest}) : n \in {1, Chunk}}
     ELSE UNCHANGED <<sync, upTo>>
  /\ UNCHANGED <<nodeVars, fifo, worker, workerVars, rows, sent>>

\* getLogsAsJSON().
Select ==
  /\ sync = "select"
  /\ rows' = RowsOf(last, upTo)
  /\ sync' = "call"
  /\ UNCHANGED <<nodeVars, fifo, worker, workerVars, last, first, upTo, sent>>

Received == [items |-> sent.items \cup ((last + 1)..upTo),
             rows  |-> sent.rows \cup rows]

PushSucceeds ==
  /\ sync = "call"
  /\ sent' = Received
  /\ last' = upTo
  /\ sync' = "idle" /\ rows' = {}
  /\ UNCHANGED <<nodeVars, fifo, worker, workerVars, first, upTo>>

\* A failed push that is not repeated.
PushGivesUp ==
  /\ sync = "call"
  /\ sent' \in {sent, Received}
  /\ last' = upTo
  /\ sync' = "idle" /\ rows' = {}
  /\ UNCHANGED <<nodeVars, fifo, worker, workerVars, first, upTo>>

\* The call fails, whether or not the server had received the data.
PushFails ==
  /\ sync = "call"
  /\ sent' \in {sent, Received}
  /\ sync' = "idle" /\ rows' = {}
  /\ UNCHANGED <<nodeVars, fifo, worker, workerVars, last, first, upTo>>

------------------------------------------------------------------------------
NodeStep == Reading \/ Log \/ ClearQueue

WorkerStep ==
  \/ WorkerCheck \/ WorkerDrain \/ WorkerDrained
  \/ InsertRows \/ InsertIndex \/ Inserted

SyncStep == PushBegin \/ Select \/ PushSucceeds \/ PushFails

Next == NodeStep \/ WorkerStep \/ SyncStep

Spec == Init /\ [][Next]_vars

\* The threads keep running and the network is not down for ever.
FairSpec ==
  /\ Spec
  /\ WF_vars(WorkerStep) /\ WF_vars(PushBegin \/ Select) /\ SF_vars(PushSucceeds)

------------------------------------------------------------------------------
(* Properties *)

\* Through two queues, copies of a LogItem that is written to meanwhile, and
\* batches, a reading is stored at most once and the readings keep their order
\* (DBLoggerNodeThreadFunc(), workerThread(), insertDataLogs()).
StoredOnceInOrder ==
  \A i, k \in DOMAIN compass : i < k => compass[i].reading < compass[k].reading

\* A reading is in the LogItem, on its way to the table or in it, unless it came
\* in after DBLoggerNodeThreadFunc() had copied the item and before it emptied
\* the queue: no batch that is too small for the moment, no item that comes in
\* while the worker drains or stores, is left out.  (SQLite takes the rows.)
OnlyLateReadingsLost ==
  \A r \in 1..read :
    \/ r \in late
    \/ r \in Range(item)
    \/ \E i \in DOMAIN fifo : r \in Range(fifo[i])
    \/ \E i \in DOMAIN batch : r \in Range(batch[i])
    \/ \E i \in DOMAIN compass : compass[i].reading = r

\* Log items are pushed without a gap, through retries with a smaller chunk and
\* answers that got lost: what lies between the first item to be pushed and
\* m_dataLogsSystemLastId has been received (pushDatalogs()).
NoItemSkipped == last <= MaxItems => (first + 1)..last \subseteq sent.items

\* A full batch does not stay in memory: no signal is lost between log() and
\* the worker's wait.
BatchesAreStored ==
  Len(fifo) + Len(batch) >= Buffer ~> Len(fifo) + Len(batch) < Buffer

\* What is in the index is pushed eventually, or was there before the first
\* push.
CaughtUp == \A n \in 1..MaxItems : Len(system) >= n ~> last >= n

\* "will send new log items from here on (items >%d)" (HTTPSyncNode.cpp:145):
\* the readings of all items after the first are sent with them.
NewItemsAreSent ==
  \A i \in DOMAIN compass :
    first > 0 /\ compass[i].of > first /\ compass[i].of <= last => i \in sent.rows
==============================================================================
