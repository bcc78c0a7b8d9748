------------------------------- MODULE Mission -------------------------------
(***************************************************************************)
(* The mission: the table currentMission, the WaypointMgrNode that sails   *)
(* it on the bus thread, the HTTPSyncNode thread that replaces it with     *)
(* what the server sends, and the DBLogger thread whose transactions run   *)
(* on the same SQLite connection under the same m_databaseLock.            *)
(*                                                                         *)
(* SQLite serialises single calls on the connection; it does not isolate   *)
(* the threads that share it.  Every statement is one step.                *)
(***************************************************************************)
EXTENDS Integers, Sequences, FiniteSetsExt

CONSTANTS
  Places,       \* where a waypoint can lie and the vessel can be
  NoPlace,      \* the coordinates of a node that has not loaded any
  Missions,     \* what the server or the mission scripts can put in the table
  MaxStay,      \* the longest stay_time
  MaxSyncs,     \* bound: missions the server sends (see Fetch)
  MaxRestarts   \* bound: restarts of the program in one behaviour

Waypoint == [place : Places, stay : 0..MaxStay]
Row      == [place : Places, stay : 0..MaxStay, harvested : BOOLEAN]

ASSUME MissionConstants ==
  /\ NoPlace \notin Places
  /\ Missions \subseteq Seq(Waypoint)
  /\ MaxStay \in Nat /\ MaxSyncs \in Nat /\ MaxRestarts \in Nat

VARIABLES
  table,      \* currentMission as the connection sees it; row i has id i
  tx,         \* a transaction is open on the connection
  saved,      \* what ROLLBACK would restore while it is
  mutex,      \* owner of m_databaseLock
  sync,       \* where the HTTPSync thread is in getWaypointsFromServer()
  incoming,   \* the mission it received
  syncs,      \* missions received so far
  notices,    \* ServerWaypointsReceived messages on the bus
  logger,     \* where the DBLogger thread is in insertDataLogs()
  pc,         \* where the bus thread is in WaypointMgrNode
  after,      \* where it goes on after sendMessage()
  vessel,     \* m_vesselLongitude, m_vesselLatitude
  next,       \* m_nextId, m_nextLongitude and -Latitude, m_nextStayTime
  prev,       \* m_prevLongitude, m_prevLatitude
  timer,      \* m_waypointTimer; elapsed counts from its last start
  restarts,   \* restarts so far
  announced,  \* the last WaypointDataMsg sent
  fresh,      \* history: the table is as it was when sendMessage() last read it
  astray      \* history: a lookup or a replacement failed since the last lookup

dbVars     == <<table, tx, saved, mutex>>
syncVars   == <<sync, incoming, syncs>>
nodeVars   == <<pc, after, vessel, next, prev, timer, announced>>
vars == <<dbVars, syncVars, notices, logger, nodeVars, restarts, fresh, astray>>

Free == "free"
Target == [id : Nat, place : Places \cup {NoPlace}, stay : 0..MaxStay]
Leg == [id : Nat, place : Places \cup {NoPlace}, from : Places \cup {NoPlace}]

TypeOK ==
  /\ table \in Seq(Row) /\ saved \in Seq(Row)
  /\ tx \in BOOLEAN
  /\ mutex \in {Free, "sync", "logger"}
  /\ sync \in {"off", "idle", "lock", "begin", "delete", "insert", "end",
               "rollback", "done"}
  /\ incoming \in Seq(Waypoint)
  /\ syncs \in 0..MaxSyncs /\ restarts \in 0..MaxRestarts
  /\ notices \in 0..MaxSyncs
  /\ logger \in {"idle", "open", "overrun"}
  /\ pc \in {"idle", "check", "update", "min", "row", "prev", "send"}
  /\ after \in {"idle", "check"}
  /\ vessel \in Places
  /\ next \in Target
  /\ prev \in Places \cup {NoPlace}
  /\ timer \in [running : BOOLEAN, elapsed : 0..(MaxStay + 1)]
  /\ announced \in Leg
  /\ fresh \in BOOLEAN /\ astray \in BOOLEAN

Unharvested(t) == {i \in DOMAIN t : ~t[i].harvested}
\* A MIN(id) over no rows that reads as -1.
FirstIdOfNull(t) == IF Unharvested(t) = {} THEN -1 ELSE Min(Unharvested(t))

\* SELECT MIN(id) ... WHERE harvested = 0, whose NULL reads as 0.
FirstId(t) == IF Unharvested(t) = {} THEN 0 ELSE Min(Unharvested(t))

Unsailed(w) == [place |-> w.place, stay |-> w.stay, harvested |-> FALSE]

Stopped == [running |-> FALSE, elapsed |-> 0]

\* main() constructs the nodes and calls init(), which enters sendMessage().
Booted ==
  /\ sync = "off" /\ incoming = <<>> /\ notices = 0
  /\ logger = "idle"
  /\ pc = "min" /\ after = "idle"
  /\ vessel \in Places
  /\ next \in [id : {0}, place : {NoPlace}, stay : 0..MaxStay]
  /\ prev = NoPlace
  /\ timer = Stopped
  /\ announced = [id |-> 0, place |-> NoPlace, from |-> NoPlace]
  /\ fresh = FALSE /\ astray = FALSE

Init ==
  /\ \E m \in Missions : table = [i \in DOMAIN m |-> Unsailed(m[i])]
  /\ tx = FALSE /\ saved = <<>>
  /\ mutex = Free
  /\ syncs = 0 /\ restarts = 0
  /\ Booted

------------------------------------------------------------------------------
(* WaypointMgrNode, on the bus thread. *)

\* processMessage(StateMessage).
ReceiveState(p) ==
  /\ pc = "idle" /\ sync # "off"
  /\ vessel' = p
  /\ pc' = "check"
  /\ UNCHANGED <<dbVars, syncVars, notices, logger, after, next, prev, timer,
                 announced, restarts, fresh, astray>>

\* processMessage(ServerWaypointsReceived) enters sendMessage().
ReceiveNotice ==
  /\ pc = "idle" /\ sync # "off"
  /\ notices > 0
  /\ notices' = notices - 1
  /\ pc' = "min" /\ after' = "check"
  /\ UNCHANGED <<dbVars, syncVars, logger, vessel, next, prev, timer,
                 announced, restarts, fresh, astray>>

InRadius == next.id # 0 /\ vessel = next.place

Started(t) == IF t.running THEN t ELSE [running |-> TRUE, elapsed |-> 0]

\* A radius test on the waypoint that was left.
CheckAnywhere ==
  /\ pc = "check"
  /\ next.id # 0
  /\ pc' = "update"
  /\ UNCHANGED <<dbVars, syncVars, notices, logger, after, vessel, next, prev,
                 timer, announced, restarts, fresh, astray>>

\* harvestWaypoint(): outside the radius nothing happens, not even to a timer
\* that runs; inside, the waypoint is due at once or when the timer says so.
Check ==
  LET t   == IF InRadius /\ next.stay > 0 THEN Started(timer) ELSE timer
      due == InRadius /\ (next.stay > 0 => t.elapsed > next.stay)
  IN
  /\ pc = "check"
  /\ timer' = t
  /\ pc' = IF due THEN "update" ELSE "idle"
  /\ UNCHANGED <<dbVars, syncVars, notices, logger, after, vessel, next, prev,
                 announced, restarts, fresh, astray>>

\* waypointReached(): UPDATE currentMission SET harvested = 1 WHERE id =
\* m_nextId.  An UPDATE that finds no such row succeeds too.
Harvest ==
  /\ pc = "update"
  /\ table' = [i \in DOMAIN table |->
                 IF i = next.id THEN [table[i] EXCEPT !.harvested = TRUE]
                 ELSE table[i]]
  /\ timer' = Stopped
  /\ pc' = "min" /\ after' = "idle"
  /\ UNCHANGED <<tx, saved, mutex, syncVars, notices, logger, vessel, next,
                 prev, announced, restarts, fresh, astray>>

\* The UPDATE fails: false is returned and the next StateMessage retries.
HarvestFails ==
  /\ pc = "update"
  /\ pc' = "idle"
  /\ UNCHANGED <<dbVars, syncVars, notices, logger, after, vessel, next, prev,
                 timer, announced, restarts, fresh, astray>>

------------------------------------------------------------------------------
(* WaypointMgrNode::sendMessage() and DBHandler::getWaypointValues(). *)

\* The lookup takes the oldest waypoint whether or not it was harvested.
LookupAny ==
  /\ pc = "min"
  /\ next' = [next EXCEPT !.id = IF table = <<>> THEN 0 ELSE 1]
  /\ pc' = "row"
  /\ fresh' = TRUE
  /\ astray' = (astray /\ sync # "idle")
  /\ UNCHANGED <<dbVars, syncVars, notices, logger, after, vessel, prev, timer,
                 announced, restarts>>

\* The first query overwrites m_nextId.
Lookup ==
  /\ pc = "min"
  /\ next' = [next EXCEPT !.id = FirstId(table)]
  /\ pc' = "row"
  /\ fresh' = TRUE
  /\ astray' = (astray /\ sync # "idle")
  /\ UNCHANGED <<dbVars, syncVars, notices, logger, after, vessel, prev, timer,
                 announced, restarts>>

\* The second query overwrites the rest of the target.  Without such a row,
\* as for id 0, nothing is overwritten, foundPrev stays false and the lookup
\* still succeeds.
LoadRow ==
  /\ pc = "row"
  /\ IF next.id \in DOMAIN table
     THEN /\ next' = [next EXCEPT !.place = table[next.id].place,
                                  !.stay = table[next.id].stay]
          /\ pc' = "prev"
          /\ UNCHANGED prev
     ELSE /\ prev' = IF next.id # 0 THEN vessel ELSE prev
          /\ pc' = "send"
          /\ UNCHANGED next
  /\ UNCHANGED <<dbVars, syncVars, notices, logger, after, vessel, timer,
                 announced, restarts, fresh, astray>>

\* MAX(id) ... WHERE id < m_nextId.
PrevId(t, i) == Max({0} \cup {j \in DOMAIN t : j < i})

\* The same statement once more for that id.  It fills the columns of the
\* previous waypoint, but also stay_time, into m_nextStayTime.
LoadPrev ==
  LET p == PrevId(table, next.id) IN
  /\ pc = "prev"
  /\ IF p # 0
     THEN /\ prev' = table[p].place
          /\ next' = [next EXCEPT !.stay = table[p].stay]
     ELSE /\ prev' = vessel
          /\ UNCHANGED next
  /\ pc' = "send"
  /\ UNCHANGED <<dbVars, syncVars, notices, logger, after, vessel, timer,
                 announced, restarts, fresh, astray>>

\* WaypointDataMsg if there is a target; m_db.unlock(), a lock the node never
\* took; init() returns to main(), which goes on to start the threads.
Send ==
  /\ pc = "send"
  /\ announced' =
       IF next.id = 0 THEN announced
       ELSE [id |-> next.id, place |-> next.place, from |-> prev]
  /\ mutex' = Free
  /\ pc' = after
  /\ sync' = IF sync = "off" THEN "idle" ELSE sync
  /\ UNCHANGED <<table, tx, saved, incoming, syncs, notices, logger, after,
                 vessel, next, prev, timer, restarts, fresh, astray>>

\* One of the queries fails: no message, but unlock().
LookupFails ==
  /\ pc \in {"min", "row", "prev"}
  /\ mutex' = Free
  /\ pc' = after
  /\ sync' = IF sync = "off" THEN "idle" ELSE sync
  /\ astray' = TRUE
  /\ UNCHANGED <<table, tx, saved, incoming, syncs, notices, logger, after,
                 vessel, next, prev, timer, announced, restarts, fresh>>

\* Time passes for a timer that runs.
Tick ==
  /\ timer.running /\ timer.elapsed <= MaxStay
  /\ timer' = [timer EXCEPT !.elapsed = @ + 1]
  /\ UNCHANGED <<dbVars, syncVars, notices, logger, pc, after, vessel, next,
                 prev, announced, restarts, fresh, astray>>

------------------------------------------------------------------------------
(* HTTPSyncNode::getWaypointsFromServer(), receiveWayPoints() and            *)
(* transactionalReplaceTable(), on the HTTPSync thread.                      *)

\* The server has a new mission and it arrived.  The bound counts the
\* restarts before it too: with MaxSyncs = 2, two missions and then a restart, or
\* one mission before or after a restart.
Fetch(m) ==
  /\ sync = "idle"
  /\ syncs + restarts < MaxSyncs
  /\ incoming' = m
  /\ syncs' = syncs + 1
  /\ sync' = "lock"
  /\ UNCHANGED <<dbVars, notices, logger, nodeVars, restarts, fresh, astray>>

SyncLock ==
  /\ sync = "lock"
  /\ mutex = Free
  /\ mutex' = "sync"
  /\ sync' = "begin"
  /\ UNCHANGED <<table, tx, saved, incoming, syncs, notices, logger, nodeVars,
                 restarts, fresh, astray>>

\* BEGIN fails inside an open transaction; like every other failure of the
\* three statements this leads to ROLLBACK.
SyncBegin ==
  /\ sync = "begin"
  /\ IF tx
     THEN /\ sync' = "rollback"
          /\ UNCHANGED <<tx, saved>>
     ELSE /\ tx' = TRUE /\ saved' = table
          /\ sync' = "delete"
  /\ UNCHANGED <<table, mutex, incoming, syncs, notices, logger, nodeVars,
                 restarts, fresh, astray>>

SyncDelete ==
  /\ sync = "delete"
  /\ table' = <<>>
  /\ sync' = "insert"
  /\ fresh' = FALSE
  /\ UNCHANGED <<tx, saved, mutex, incoming, syncs, notices, logger, nodeVars,
                 restarts, astray>>

SyncInsert ==
  /\ sync = "insert"
  /\ Len(table) < Len(incoming)
  /\ table' = Append(table, Unsailed(incoming[Len(table) + 1]))
  /\ fresh' = FALSE
  /\ UNCHANGED <<tx, saved, mutex, syncVars, notices, logger, nodeVars,
                 restarts, astray>>

SyncInserted ==
  /\ sync = "insert"
  /\ incoming # <<>> /\ Len(table) = Len(incoming)
  /\ sync' = "end"
  /\ UNCHANGED <<dbVars, incoming, syncs, notices, logger, nodeVars, restarts,
                 fresh, astray>>

\* insertTableRowsErrors() reports an error when there is nothing to insert, the
\* INSERT cannot be prepared or values cannot be bound to it: here those of the
\* last rows.  END is then skipped, the transaction stays open, and the
\* replacement counts as a success.
SyncInsertErrors ==
  /\ sync = "insert"
  /\ table = <<>> \/ Len(table) < Len(incoming)
  /\ sync' = "done"
  /\ UNCHANGED <<dbVars, incoming, syncs, notices, logger, nodeVars, restarts,
                 fresh, astray>>

\* END, which fails if somebody else ended the transaction.
SyncEnd ==
  /\ sync = "end"
  /\ tx' = FALSE /\ saved' = <<>>
  /\ sync' = IF tx THEN "done" ELSE "rollback"
  /\ UNCHANGED <<table, mutex, incoming, syncs, notices, logger, nodeVars,
                 restarts, fresh, astray>>

\* BEGIN, DELETE or END fails for a reason outside the program.
SyncStatementFails ==
  /\ sync \in {"begin", "delete", "end"}
  /\ sync' = "rollback"
  /\ UNCHANGED <<dbVars, incoming, syncs, notices, logger, nodeVars, restarts,
                 fresh, astray>>

\* ROLLBACK, unlock, and no message: the node is not told.
SyncRollback ==
  /\ sync = "rollback"
  /\ table' = IF tx THEN saved ELSE table
  /\ tx' = FALSE /\ saved' = <<>>
  /\ mutex' = Free
  /\ sync' = "idle"
  /\ fresh' = (fresh /\ ~tx)
  /\ astray' = TRUE
  /\ UNCHANGED <<incoming, syncs, notices, logger, nodeVars, restarts>>

\* A replacement that does not tell the node.
SyncDoneSilently ==
  /\ sync = "done"
  /\ mutex' = Free
  /\ sync' = "idle"
  /\ UNCHANGED <<table, tx, saved, incoming, syncs, notices, logger, nodeVars,
                 restarts, fresh, astray>>

\* Unlock, return true, send ServerWaypointsReceived.
SyncDone ==
  /\ sync = "done"
  /\ mutex' = Free
  /\ notices' = notices + 1
  /\ sync' = "idle"
  /\ UNCHANGED <<table, tx, saved, incoming, syncs, logger, nodeVars,
                 restarts, fresh, astray>>

------------------------------------------------------------------------------
(* The locking and the transactions of DBHandler::insertDataLogs(), on the   *)
(* DBLogger thread.  The log rows themselves are in module LogPipeline.         *)

\* Lock and BEGIN, whose result is not looked at.  Each of several items has a
\* transaction of its own; the lock, which is kept between them, can be lost to
\* the stray unlock, so that it makes no difference to let it go here.
LoggerBegin ==
  /\ logger = "idle" /\ sync # "off"
  /\ mutex = Free
  /\ mutex' = "logger"
  /\ tx' = TRUE
  /\ saved' = IF tx THEN saved ELSE table
  /\ logger' = "open"
  /\ UNCHANGED <<table, syncVars, notices, nodeVars, restarts, fresh, astray>>

\* END, which ends whatever transaction is open, and unlock.
LoggerEnd ==
  /\ logger = "open"
  /\ tx' = FALSE /\ saved' = <<>>
  /\ mutex' = Free
  /\ logger' = "idle"
  /\ UNCHANGED <<table, syncVars, notices, nodeVars, restarts, fresh, astray>>

\* After an overrun the unlock comes first ...
LoggerUnlock ==
  /\ logger = "open"
  /\ mutex' = Free
  /\ logger' = "overrun"
  /\ UNCHANGED <<table, tx, saved, syncVars, notices, nodeVars, restarts,
                 fresh, astray>>

\* ... and END later.
LoggerEndLate ==
  /\ logger = "overrun"
  /\ tx' = FALSE /\ saved' = <<>>
  /\ logger' = "idle"
  /\ UNCHANGED <<table, mutex, syncVars, notices, nodeVars, restarts, fresh,
                 astray>>

\* The program dies and is started again; SQLite undoes an open transaction.
Restart ==
  /\ sync # "off"
  /\ restarts < MaxRestarts
  /\ restarts' = restarts + 1
  /\ table' = IF tx THEN saved ELSE table
  /\ tx' = FALSE /\ saved' = <<>>
  /\ mutex' = Free
  /\ syncs' = syncs
  /\ sync' = "off" /\ incoming' = <<>> /\ notices' = 0
  /\ logger' = "idle"
  /\ pc' = "min" /\ after' = "idle"
  /\ vessel' \in Places
  /\ next' \in [id : {0}, place : {NoPlace}, stay : 0..MaxStay]
  /\ prev' = NoPlace
  /\ timer' = Stopped
  /\ announced' = [id |-> 0, place |-> NoPlace, from |-> NoPlace]
  /\ fresh' = FALSE /\ astray' = FALSE

------------------------------------------------------------------------------
NodeStep == ReceiveNotice \/ Check \/ Lookup \/ LoadRow \/ LoadPrev \/ Send

SyncStep ==
  \/ SyncLock \/ SyncBegin \/ SyncDelete \/ SyncInsert \/ SyncInserted
  \/ SyncInsertErrors \/ SyncEnd \/ SyncRollback \/ SyncDone

LoggerStep == LoggerBegin \/ LoggerEnd \/ LoggerUnlock \/ LoggerEndLate

Next ==
  \/ \E p \in Places : ReceiveState(p)
  \/ NodeStep \/ Harvest \/ HarvestFails \/ LookupFails
  \/ Tick
  \/ \E m \in Missions : Fetch(m)
  \/ SyncStep \/ SyncStatementFails
  \/ LoggerStep
  \/ Restart

Spec == Init /\ [][Next]_vars

\* The boat keeps reporting its position, sooner or later at the waypoint it
\* is told to sail to.
BoatArrives == \E p \in Places : p = next.place /\ ReceiveState(p)

\* Threads keep being scheduled, time passes, the boat gets to its waypoint,
\* the bus hands every message out in its turn, and an UPDATE that is retried
\* does not fail for ever.
FairSpec ==
  /\ Spec
  /\ WF_vars(NodeStep) /\ WF_vars(SyncStep) /\ WF_vars(LoggerStep)
  /\ WF_vars(Tick)
  /\ SF_vars(ReceiveNotice) /\ SF_vars(BoatArrives) /\ SF_vars(Harvest)

------------------------------------------------------------------------------
(* Properties *)

Quiet == pc = "idle" /\ sync = "idle" /\ notices = 0

\* Whatever mixture of two missions the node reads while the table is being
\* replaced, and whoever ends or enters the transaction meanwhile: once the
\* notice has been handled the boat is told to sail to the first unharvested
\* waypoint, from the one before it (or, the first time, from anywhere).  Only
\* a failed lookup or a failed replacement leaves it astray.
Converged ==
  Quiet /\ ~astray =>
    LET i == FirstId(table) IN
      /\ next.id = i
      /\ i # 0 => /\ next.place = table[i].place
                  /\ announced.id = i /\ announced.place = table[i].place
                  /\ i > 1 => announced.from = table[i - 1].place

\* The node marks row i, which it read and which has not been replaced since,
\* as harvested.
Harvests(i) ==
  /\ pc = "update" /\ fresh /\ ~astray /\ UNCHANGED <<sync, restarts>>
  /\ i \in DOMAIN table \cap DOMAIN table'
  /\ ~table[i].harvested /\ table'[i].harvested

\* A waypoint is marked as harvested only by a vessel that is at it and has
\* harvested all waypoints before it, unless the table has been replaced since
\* it was read or the last lookup failed (waypointReached()).
HarvestedInOrder ==
  [][ \A i \in DOMAIN table : Harvests(i) =>
        /\ vessel = table[i].place
        /\ \A j \in 1..(i - 1) : table[j].harvested ]_vars

\* A mission that is not replaced any more is sailed to its end.
MissionCompleted == <>[](Unharvested(table) = {} \/ astray)

\* "Check if boat has stayed the designated amount of time"
\* (WaypointMgrNode.cpp:160): no waypoint is harvested before the timer has
\* passed the stay_time its row designates.
StayedDesignatedTime ==
  [][ \A i \in DOMAIN table : Harvests(i) /\ table[i].stay > 0 =>
        timer.running /\ timer.elapsed > table[i].stay ]_vars
==============================================================================
