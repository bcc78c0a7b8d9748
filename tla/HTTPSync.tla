------------------------------ MODULE HTTPSync -------------------------------
(***************************************************************************)
(* NavigationSystem/HTTPSync: how the boat and the server come to hold the *)
(* same configs and waypoints.  The node's thread asks the server for news *)
(* of one kind after the other, fetches them if there are any, and pushes  *)
(* its own data otherwise, when a flag asks for it.  Messages from the bus *)
(* set the flags while the thread is in the middle of a call.  Data is a   *)
(* version number: it matters only which change it comes from.             *)
(***************************************************************************)
EXTENDS Integers

CONSTANTS
  Announced,     \* kinds whose local changes a node announces on the bus
  MaxVersion,    \* bound on the changes made by the boat and by the user
  MaxMishaps     \* bound on failed calls and failed database accesses

DataKinds == {"configs", "waypoints"}

ASSUME HTTPConstants ==
  /\ Announced \subseteq DataKinds
  /\ MaxVersion \in Nat /\ MaxMishaps \in Nat

VARIABLES
  onBoat,      \* version in the boat's database, per kind
  onServer,    \* version on the server
  updated,     \* the server has an edit that it has not handed out
  needPush,    \* m_configsNeedPush, m_waypointsNeedPush
  notices,     \* messages on the bus that will set the flag
  syncPc,      \* where the thread is
  turn,        \* the kind it is busy with
  payload,     \* the version in the call under way
  version,     \* history: number of changes so far
  mishaps,     \* history: number of failures so far
  slip         \* history: how a kind may have got out of step

httpVars == <<onBoat, onServer, updated, needPush, notices, syncPc, turn,
              payload, version, mishaps, slip>>
httpData == <<onBoat, onServer, updated, version>>

Versions == 0..MaxVersion + 1
Slips == {"none", "late", "overlooked", "mislaid"}

HTTPTypeOK ==
  /\ onBoat \in [DataKinds -> Versions] /\ onServer \in [DataKinds -> Versions]
  /\ updated \in [DataKinds -> BOOLEAN] /\ needPush \in [DataKinds -> BOOLEAN]
  /\ notices \in [DataKinds -> Nat]
  /\ syncPc \in {"check", "fetch", "store", "read", "push", "answer"}
  /\ turn \in DataKinds
  /\ payload \in Versions
  /\ version \in 1..MaxVersion + 1 /\ mishaps \in 0..MaxMishaps
  /\ slip \in [DataKinds -> Slips]

\* The boat starts with a database that the server has not seen.
HTTPInit ==
  /\ onBoat = [k \in DataKinds |-> 1] /\ onServer = [k \in DataKinds |-> 0]
  /\ updated = [k \in DataKinds |-> FALSE]
  /\ needPush = [k \in DataKinds |-> TRUE]
  /\ notices = [k \in DataKinds |-> 0]
  /\ syncPc = "check" /\ turn = "configs" /\ payload = 0
  /\ version = 1 /\ mishaps = 0
  /\ slip = [k \in DataKinds |-> "none"]

Goto(there) == syncPc' = there /\ turn' = turn

\* The thread has done with this kind and turns to the other one.
Done == /\ syncPc' = "check"
        /\ turn' = IF turn = "configs" THEN "waypoints" ELSE "configs"

At(there, k) == syncPc = there /\ turn = k

Mishap == mishaps < MaxMishaps /\ mishaps' = mishaps + 1

Slipped(k, how) == slip' = [slip EXCEPT ![k] = how]

------------------------------------------------------------------------------
(* The thread: getConfigsFromServer() and getWaypointsFromServer().          *)

\* checkIfNew...() says yes: the flag is cleared before the data is fetched.
NewsOnServer(k) ==
  /\ At("check", k) /\ updated[k]
  /\ needPush' = [needPush EXCEPT ![k] = FALSE]
  /\ Goto("fetch")
  /\ UNCHANGED <<httpData, notices, payload, mishaps, slip>>

NoNews(k) ==
  /\ IF needPush[k] THEN Goto("read") ELSE Done
  /\ UNCHANGED <<httpData, needPush, notices, payload, slip>>

\* It says no.
NothingNew(k) == /\ At("check", k) /\ ~updated[k]
                 /\ NoNews(k) /\ UNCHANGED mishaps

\* It gets no answer, which the callers take for a no.
CheckFails(k) == At("check", k) /\ NoNews(k) /\ Mishap

\* getData() brings the data; the server has then handed out its edit.
Fetched(k) ==
  /\ At("fetch", k)
  /\ payload' = onServer[k]
  /\ updated' = [updated EXCEPT ![k] = FALSE]
  /\ Goto("store")
  /\ UNCHANGED <<onBoat, onServer, version, needPush, notices, mishaps, slip>>

\* The call does not reach the server.
FetchFails(k) ==
  /\ At("fetch", k) /\ Done /\ Mishap
  /\ UNCHANGED <<httpData, needPush, notices, payload, slip>>

\* The server hands out its edit, but the answer is lost.
FetchAnswerLost(k) ==
  /\ At("fetch", k) /\ Done /\ Mishap
  /\ updated' = [updated EXCEPT ![k] = FALSE]
  /\ Slipped(k, "mislaid")
  /\ UNCHANGED <<onBoat, onServer, version, needPush, notices, payload>>

\* receiveConfigs(), receiveWayPoints(): the tables are replaced.  The new
\* waypoints make WaypointMgr send the WaypointData that sets the flag again.
Stored(k) ==
  /\ At("store", k) /\ Done
  /\ onBoat' = [onBoat EXCEPT ![k] = payload]
  /\ notices' = [notices EXCEPT ![k] =
                   IF k = "waypoints" THEN notices[k] + 1 ELSE notices[k]]
  /\ Slipped(k, "none")
  /\ UNCHANGED <<onServer, updated, version, needPush, payload, mishaps>>

\* Parsing or the database fails: what the server has handed out is dropped.
StoreFails(k) ==
  /\ At("store", k) /\ Done /\ Mishap
  /\ Slipped(k, "mislaid")
  /\ UNCHANGED <<httpData, needPush, notices, payload>>

\* pushConfigs(), pushWaypoints(): getConfigs(), getWayPointsAsJSON().  Only
\* this thread clears the flag, so the second look at it after six seconds of
\* sleep never ends a push.
ReadData(k) ==
  /\ At("read", k)
  /\ payload' = onBoat[k]
  /\ Slipped(k, "none")
  /\ Goto("push")
  /\ UNCHANGED <<httpData, needPush, notices, mishaps>>

\* A push that is tried once only, as the comment at the end of pushConfigs()
\* proposes.
PushFailsAndQuits(k) ==
  /\ At("read", k) \/ At("push", k)
  /\ Done /\ Mishap
  /\ needPush' = [needPush EXCEPT ![k] = FALSE]
  /\ UNCHANGED <<httpData, notices, payload, slip>>

\* The query finds no rows or fails, or the call does not reach the server.
PushFails(k) ==
  /\ At("read", k) \/ At("push", k)
  /\ Done /\ Mishap
  /\ UNCHANGED <<httpData, needPush, notices, payload, slip>>

\* The server stores the data that performCURLCall() brings.
PushArrives(k) ==
  /\ At("push", k)
  /\ onServer' = [onServer EXCEPT ![k] = payload]
  /\ Goto("answer")
  /\ UNCHANGED <<onBoat, updated, version, needPush, notices, payload, mishaps,
                 slip>>

\* The call has succeeded: the flag is cleared, whoever has set it meanwhile.
PushAnswered(k) ==
  /\ At("answer", k) /\ Done
  /\ needPush' = [needPush EXCEPT ![k] = FALSE]
  /\ Slipped(k, IF slip[k] = "late" THEN "overlooked" ELSE slip[k])
  /\ UNCHANGED <<httpData, notices, payload, mishaps>>

\* The answer is lost: the call has failed as far as the boat knows.
PushAnswerLost(k) ==
  /\ At("answer", k) /\ Done /\ Mishap
  /\ UNCHANGED <<httpData, needPush, notices, payload, slip>>

------------------------------------------------------------------------------
(* Around the thread.                                                        *)

NoticeIgnored(k) ==
  /\ notices[k] > 0
  /\ notices' = [notices EXCEPT ![k] = notices[k] - 1]
  /\ UNCHANGED <<httpData, needPush, syncPc, turn, payload, mishaps, slip>>

\* processMessage(): LocalConfigChange, LocalWaypointChange and WaypointData.
NoticeHandled(k) ==
  /\ notices[k] > 0
  /\ notices' = [notices EXCEPT ![k] = notices[k] - 1]
  /\ needPush' = [needPush EXCEPT ![k] = TRUE]
  /\ slip' = IF At("push", k) \/ At("answer", k)
             THEN [slip EXCEPT ![k] = "late"] ELSE slip
  /\ UNCHANGED <<httpData, syncPc, turn, payload, mishaps>>

\* A node changes the boat's data and announces it: WaypointMgr does when it
\* marks a waypoint as harvested.
LocalChange(k) ==
  /\ k \in Announced
  /\ version <= MaxVersion
  /\ version' = version + 1
  /\ onBoat' = [onBoat EXCEPT ![k] = version + 1]
  /\ notices' = [notices EXCEPT ![k] = notices[k] + 1]
  /\ UNCHANGED <<onServer, updated, needPush, syncPc, turn, payload, mishaps,
                 slip>>

\* The user edits the data on the server.
UserEdit(k) ==
  /\ version <= MaxVersion
  /\ version' = version + 1
  /\ onServer' = [onServer EXCEPT ![k] = version + 1]
  /\ updated' = [updated EXCEPT ![k] = TRUE]
  /\ UNCHANGED <<onBoat, needPush, notices, syncPc, turn, payload, mishaps,
                 slip>>

SyncThread ==
  \E k \in DataKinds :
    \/ NewsOnServer(k) \/ NothingNew(k) \/ CheckFails(k)
    \/ Fetched(k) \/ FetchFails(k) \/ FetchAnswerLost(k)
    \/ Stored(k) \/ StoreFails(k)
    \/ ReadData(k) \/ PushFails(k) \/ PushArrives(k)
    \/ PushAnswered(k) \/ PushAnswerLost(k)

HTTPNext ==
  \/ SyncThread
  \/ \E k \in DataKinds : NoticeHandled(k) \/ LocalChange(k) \/ UserEdit(k)

HTTPSpec == HTTPInit /\ [][HTTPNext]_httpVars

------------------------------------------------------------------------------
\* The kind k can get out of step only in one of two ways: a change announced
\* while a push was under way has been overlooked, or an edit that the server
\* has handed out has been lost on the way into the database.
OutOfStep(k) == slip[k] \in {"overlooked", "mislaid"}

\* When nothing more is going to move the kind k, no flag set, no message on
\* its way and no edit waiting at the server, boat and server hold the same
\* version of it, unless it has got out of step.  It is what the flags of
\* HTTPSyncNode are for, whatever calls fail and whenever messages come.
NothingForgotten ==
  \A k \in DataKinds :
    needPush[k] \/ notices[k] > 0 \/ updated[k] \/ At("store", k)
      \/ OutOfStep(k) \/ onBoat[k] = onServer[k]
==============================================================================
