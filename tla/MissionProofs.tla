---------------------------- MODULE MissionProofs -----------------------------
(***************************************************************************)
(* Proofs about Mission, for any missions, places and stays and any number *)
(* of replacements and restarts: waypoints are harvested in order, and the *)
(* node ends up sailing to the first waypoint of the mission in the table. *)
(***************************************************************************)
EXTENDS Mission, NaturalOrder, SequenceTheorems

\* The missions received cover the notices on the bus and the replacement
\* under way.
Counted == notices + (IF sync \in {"off", "idle"} THEN 0 ELSE 1) <= syncs

\* The target is the first unharvested waypoint of the table ...
TargetIsFirst == next.id = FirstId(table)

\* ... its coordinates are that row's ...
PlaceIsRead == next.id # 0 => next.place = table[next.id].place

\* ... and the node has told where it is, and where the leg to it begins.
LegIsAnnounced ==
  next.id # 0 =>
    /\ announced.id = next.id /\ announced.place = next.place
    /\ next.id > 1 => announced.from = table[next.id - 1].place

\* What sendMessage() has read so far agrees with a table that has not been
\* replaced since its first query; when it is through, all of it does, unless
\* a lookup or a replacement failed.
LookupAgrees ==
  fresh =>
    /\ pc \in {"row", "prev", "send"} => TargetIsFirst
    /\ pc \in {"prev", "send"} => PlaceIsRead
    /\ pc = "send" /\ next.id > 1 => prev = table[next.id - 1].place
    /\ pc \in {"idle", "check", "update"} /\ ~astray =>
         TargetIsFirst /\ PlaceIsRead /\ LegIsAnnounced

\* A waypoint is due only where the vessel is.
AtTarget == pc = "update" => next.id # 0 /\ vessel = next.place

\* A replacement of the table that the node has not seen is still under way,
\* announced on the bus, about to be read, or failed.
NewsPending ==
  \/ fresh \/ astray
  \/ pc = "min" \/ notices > 0
  \/ sync \in {"insert", "end", "rollback", "done"}

Agreement == LookupAgrees /\ AtTarget /\ NewsPending

IInv == TypeOK /\ Counted /\ Agreement

------------------------------------------------------------------------------
(* What the first query finds.                                               *)

\* FirstId is 0 when all rows are harvested; otherwise it is that of a row
\* that is not harvested while all rows before it are.
LEMMA FirstIdIsFirst ==
  ASSUME NEW t \in Seq(Row)
  PROVE  /\ FirstId(t) \in Nat
         /\ FirstId(t) # 0 =>
              /\ FirstId(t) \in DOMAIN t
              /\ ~t[FirstId(t)].harvested
              /\ \A j \in 1..(FirstId(t) - 1) : t[j].harvested
         /\ \A i \in DOMAIN t : ~t[i].harvested => FirstId(t) # 0
<1> DEFINE U == Unharvested(t)
<1>1. DOMAIN t = 1..Len(t) /\ Len(t) \in Nat
  OBVIOUS
<1>2. \A i \in DOMAIN t : t[i].harvested \in BOOLEAN
  <2>1. \A i \in DOMAIN t : t[i] \in Row
    BY <1>1
  <2> QED
    BY <2>1 DEF Row
<1>3. U \in SUBSET Nat /\ \A i : i \in U <=> i \in DOMAIN t /\ ~t[i].harvested
  BY <1>1 DEF Unharvested
<1>4. CASE U = {}
  <2>1. FirstId(t) = 0
    BY <1>4 DEF FirstId
  <2> QED
    BY <1>3, <1>4, <2>1
<1>5. CASE U # {}
  <2>1. PICK x \in U : \A y \in U : x <= y
    BY <1>3, <1>5, LeastElement
  <2>2. Min(U) \in U /\ \A y \in U : Min(U) <= y
    <3> HIDE DEF U
    <3> QED
      BY <2>1 DEF Min
  <2>3. FirstId(t) = Min(U)
    BY <1>5 DEF FirstId
  <2> HIDE DEF U
  <2>4. FirstId(t) \in U /\ \A y \in U : FirstId(t) <= y
    BY <2>2, <2>3
  <2>5. \A j \in 1..(FirstId(t) - 1) : j \in DOMAIN t /\ j \notin U
    BY <1>1, <1>3, <2>4
  <2> QED
    BY <1>1, <1>2, <1>3, <2>4, <2>5
<1> QED
  BY <1>4, <1>5

\* PrevId is 0 or the id of a row; before a row there is none further away.
LEMMA PrevIdIsPrev ==
  ASSUME NEW t \in Seq(Row), NEW i \in Nat
  PROVE  /\ PrevId(t, i) # 0 => PrevId(t, i) \in DOMAIN t
         /\ i \in DOMAIN t /\ i > 1 => PrevId(t, i) = i - 1
<1> DEFINE B == {0} \cup {j \in DOMAIN t : j < i}
<1>1. DOMAIN t = 1..Len(t) /\ Len(t) \in Nat
  OBVIOUS
<1>2. B \in SUBSET Nat /\ B # {} /\ \A y \in B : y <= Len(t)
  BY <1>1
<1>3. \A y : y \in B <=> y = 0 \/ (y \in DOMAIN t /\ y < i)
  OBVIOUS
<1>4. PrevId(t, i) = Max(B)
  BY DEF PrevId
<1> HIDE DEF B
<1>5. PICK x \in B : \A y \in B : x >= y
  BY <1>1, <1>2, GreatestElement
<1>6. Max(B) \in B /\ \A y \in B : Max(B) >= y
  BY <1>5 DEF Max
<1>7. PrevId(t, i) # 0 => PrevId(t, i) \in DOMAIN t
  BY <1>3, <1>4, <1>6
<1>8. ASSUME i \in DOMAIN t, i > 1 PROVE PrevId(t, i) = i - 1
  <2>1. i - 1 \in B
    BY <1>1, <1>3, <1>8
  <2>2. PrevId(t, i) \in Nat /\ PrevId(t, i) < i /\ PrevId(t, i) >= i - 1
    BY <1>2, <1>3, <1>4, <1>6, <1>8, <2>1
  <2> QED
    BY <2>2
<1> QED
  BY <1>7, <1>8

------------------------------------------------------------------------------
(* Types.                                                                    *)

\* A mission whose rows are not harvested is a table.
LEMMA UnsailedRow == ASSUME NEW w \in Waypoint PROVE Unsailed(w) \in Row
BY DEF Waypoint, Row, Unsailed

\* The program starts with what the mission scripts left and nothing loaded.
LEMMA TypeInit == Init => TypeOK /\ Counted
<1> SUFFICES ASSUME Init PROVE TypeOK /\ Counted
  OBVIOUS
<1>1. table \in Seq(Row)
  <2>1. PICK m \in Missions : table = [i \in DOMAIN m |-> Unsailed(m[i])]
    BY DEF Init
  <2>2. m \in Seq(Waypoint)
    BY MissionConstants
  <2>3. \A i \in 1..Len(m) : Unsailed(m[i]) \in Row
    BY <2>2, UnsailedRow
  <2> QED
    BY <2>1, <2>2, <2>3
<1>2. saved \in Seq(Row) /\ incoming \in Seq(Waypoint)
  BY DEF Init, Booted
<1>3. next \in Target /\ announced \in Leg
  BY DEF Init, Booted, Target, Leg
<1>4. timer \in [running : BOOLEAN, elapsed : 0..(MaxStay + 1)]
  BY MissionConstants DEF Init, Booted, Stopped
<1>5. MaxStay \in Nat /\ MaxSyncs \in Nat /\ MaxRestarts \in Nat
  BY MissionConstants
<1>6. Counted
  BY DEF Init, Booted, Counted
<1>7. tx \in BOOLEAN /\ fresh \in BOOLEAN /\ astray \in BOOLEAN
  BY DEF Init, Booted
<1>8. /\ mutex = Free /\ sync = "off" /\ syncs = 0 /\ restarts = 0 /\ notices = 0
      /\ logger = "idle" /\ pc = "min" /\ after = "idle"
      /\ vessel \in Places /\ prev = NoPlace
  BY DEF Init, Booted
<1> QED
  BY <1>1, <1>2, <1>3, <1>4, <1>5, <1>6, <1>7, <1>8 DEF TypeOK


\* The part of the invariant that the lemmas of this section preserve.
Typed == TypeOK /\ Counted

\* The columns of a row have their types.
LEMMA TableRow ==
  ASSUME NEW t \in Seq(Row), NEW i \in DOMAIN t
  PROVE  t[i].place \in Places /\ t[i].stay \in 0..MaxStay
<1>1. t[i] \in Row
  OBVIOUS
<1> QED
  BY <1>1 DEF Row

\* The handlers and harvestWaypoint() change the position, the timer and the
\* mark in a row.
LEMMA HandlersKeepTypes ==
  ASSUME Typed,
         \/ \E p \in Places : ReceiveState(p)
         \/ ReceiveNotice \/ Check \/ Harvest \/ HarvestFails
  PROVE  Typed'
<1> USE DEF Typed, Counted
<1>1. ASSUME NEW p \in Places, ReceiveState(p) PROVE Typed'
  BY <1>1 DEF ReceiveState, TypeOK, dbVars, syncVars
<1>2. ASSUME ReceiveNotice PROVE Typed'
  <2>1. notices' \in 0..MaxSyncs /\ notices' = notices - 1
    BY <1>2, MissionConstants DEF ReceiveNotice, TypeOK
  <2> QED
    BY <1>2, <2>1 DEF ReceiveNotice, TypeOK, dbVars, syncVars
<1>3. ASSUME Check PROVE Typed'
  <2>1. timer' \in [running : BOOLEAN, elapsed : 0..(MaxStay + 1)]
    BY <1>3, MissionConstants DEF Check, Started, TypeOK
  <2>2. pc' \in {"update", "idle"}
    BY <1>3 DEF Check
  <2> QED
    BY <1>3, <2>1, <2>2 DEF Check, TypeOK, dbVars, syncVars
<1>4. ASSUME Harvest PROVE Typed'
  <2>1. table' \in Seq(Row)
    <3>1. \A i \in 1..Len(table) : table[i] \in Row
      BY DEF TypeOK
    <3>2. \A i \in 1..Len(table) : [table[i] EXCEPT !.harvested = TRUE] \in Row
      BY <3>1 DEF Row
    <3>3. DOMAIN table = 1..Len(table) /\ Len(table) \in Nat
      BY DEF TypeOK
    <3>4. table' = [i \in 1..Len(table) |->
                      IF i = next.id THEN [table[i] EXCEPT !.harvested = TRUE]
                      ELSE table[i]]
      BY <1>4, <3>3 DEF Harvest
    <3>5. table' \in [1..Len(table) -> Row]
      BY <3>1, <3>2, <3>4
    <3> QED
      BY <3>3, <3>5
  <2>2. timer' \in [running : BOOLEAN, elapsed : 0..(MaxStay + 1)]
    BY <1>4, MissionConstants DEF Harvest, Stopped
  <2> QED
    BY <1>4, <2>1, <2>2 DEF Harvest, TypeOK, syncVars
<1>5. ASSUME HarvestFails PROVE Typed'
  BY <1>5 DEF HarvestFails, TypeOK, dbVars, syncVars
<1> QED
  BY <1>1, <1>2, <1>3, <1>4, <1>5

\* sendMessage() changes the target and the leg.
LEMMA LookupKeepsTypes ==
  ASSUME Typed, Lookup \/ LoadRow \/ LoadPrev \/ Send \/ LookupFails
  PROVE  Typed'
<1> USE DEF Typed, Counted
<1>1. ASSUME Lookup PROVE Typed'
  <2>1. next' \in Target
    BY <1>1, FirstIdIsFirst DEF Lookup, TypeOK, Target
  <2>2. astray' \in BOOLEAN
    BY <1>1 DEF Lookup
  <2> QED
    BY <1>1, <2>1, <2>2 DEF Lookup, TypeOK, dbVars, syncVars
<1>2. ASSUME LoadRow PROVE Typed'
  <2>1. next' \in Target
    BY <1>2, TableRow DEF LoadRow, TypeOK, Target
  <2>2. prev' \in Places \cup {NoPlace} /\ pc' \in {"prev", "send"}
    BY <1>2 DEF LoadRow, TypeOK
  <2> QED
    BY <1>2, <2>1, <2>2 DEF LoadRow, TypeOK, dbVars, syncVars
<1>3. ASSUME LoadPrev PROVE Typed'
  <2> DEFINE p == PrevId(table, next.id)
  <2>3. p # 0 => table[p].place \in Places /\ table[p].stay \in 0..MaxStay
    <3>1. table \in Seq(Row) /\ next.id \in Nat
      BY DEF TypeOK, Target
    <3>2. p # 0 => p \in DOMAIN table
      BY <3>1, PrevIdIsPrev
    <3> HIDE DEF p
    <3> QED
      BY <3>1, <3>2, TableRow
  <2>4. next \in Target /\ vessel \in Places
    BY DEF TypeOK
  <2>5. /\ p # 0 => prev' = table[p].place /\ next' = [next EXCEPT !.stay = table[p].stay]
        /\ p = 0 => prev' = vessel /\ next' = next
        /\ pc' = "send"
    BY <1>3 DEF LoadPrev
  <2> HIDE DEF p
  <2>1. next' \in Target
    BY <2>3, <2>4, <2>5 DEF Target
  <2>2. prev' \in Places \cup {NoPlace} /\ pc' = "send"
    BY <2>3, <2>4, <2>5
  <2> QED
    BY <1>3, <2>1, <2>2 DEF LoadPrev, TypeOK, dbVars, syncVars
<1>4. ASSUME Send PROVE Typed'
  <2>1. announced' \in Leg
    BY <1>4 DEF Send, TypeOK, Target, Leg
  <2>2. sync' \in {"off", "idle"} <=> sync \in {"off", "idle"}
    BY <1>4 DEF Send
  <2>3. sync' \in {sync, "idle"}
    BY <1>4 DEF Send
  <2> QED
    BY <1>4, <2>1, <2>2, <2>3 DEF Send, TypeOK
<1>5. ASSUME LookupFails PROVE Typed'
  <2>1. sync' \in {"off", "idle"} <=> sync \in {"off", "idle"}
    BY <1>5 DEF LookupFails
  <2>2. sync' \in {sync, "idle"}
    BY <1>5 DEF LookupFails
  <2> QED
    BY <1>5, <2>1, <2>2 DEF LookupFails, TypeOK
<1> QED
  BY <1>1, <1>2, <1>3, <1>4, <1>5

\* The replacement changes the table and, at its end, the notices.
LEMMA SyncKeepsTypes ==
  ASSUME Typed,
         (\E m \in Missions : Fetch(m)) \/ SyncStep \/ SyncStatementFails
  PROVE  Typed'
<1> USE DEF Typed, Counted
<1>1. ASSUME NEW m \in Missions, Fetch(m) PROVE Typed'
  <2>1. incoming' \in Seq(Waypoint) /\ syncs' \in 0..MaxSyncs
    BY <1>1, MissionConstants DEF Fetch, TypeOK
  <2> QED
    BY <1>1, <2>1 DEF Fetch, TypeOK, dbVars, nodeVars
<1>2. ASSUME SyncLock PROVE Typed'
  BY <1>2 DEF SyncLock, TypeOK, nodeVars
<1>3. ASSUME SyncBegin PROVE Typed'
  <2>1. saved' \in Seq(Row) /\ tx' \in BOOLEAN /\ sync' \in {"rollback", "delete"}
    BY <1>3 DEF SyncBegin, TypeOK
  <2> QED
    BY <1>3, <2>1 DEF SyncBegin, TypeOK, nodeVars
<1>4. ASSUME SyncDelete PROVE Typed'
  <2>1. table' \in Seq(Row)
    BY <1>4 DEF SyncDelete
  <2>2. fresh' \in BOOLEAN
    BY <1>4 DEF SyncDelete
  <2> QED
    BY <1>4, <2>1, <2>2 DEF SyncDelete, TypeOK, nodeVars
<1>5. ASSUME SyncInsert PROVE Typed'
  <2>1. Len(table) + 1 \in DOMAIN incoming
    BY <1>5 DEF SyncInsert, TypeOK
  <2>2. incoming[Len(table) + 1] \in Waypoint
    BY <2>1 DEF TypeOK
  <2>3. Unsailed(incoming[Len(table) + 1]) \in Row
    BY <2>2, UnsailedRow
  <2>4. table' \in Seq(Row)
    BY <1>5, <2>3 DEF SyncInsert, TypeOK
  <2>5. /\ fresh' \in BOOLEAN
        /\ UNCHANGED <<tx, saved, mutex, sync, incoming, syncs, notices, logger,
                       nodeVars, restarts, astray>>
    BY <1>5 DEF SyncInsert, syncVars
  <2> QED
    BY <2>4, <2>5 DEF TypeOK, nodeVars
<1>6. ASSUME SyncInserted PROVE Typed'
  BY <1>6 DEF SyncInserted, TypeOK, dbVars, nodeVars
<1>7. ASSUME SyncInsertErrors PROVE Typed'
  BY <1>7 DEF SyncInsertErrors, TypeOK, dbVars, nodeVars
<1>8. ASSUME SyncEnd PROVE Typed'
  <2>1. saved' \in Seq(Row) /\ sync' \in {"done", "rollback"}
    BY <1>8 DEF SyncEnd
  <2>2. tx' \in BOOLEAN
    BY <1>8 DEF SyncEnd
  <2> QED
    BY <1>8, <2>1, <2>2 DEF SyncEnd, TypeOK, nodeVars
<1>9. ASSUME SyncStatementFails PROVE Typed'
  BY <1>9 DEF SyncStatementFails, TypeOK, dbVars, nodeVars
<1>10. ASSUME SyncRollback PROVE Typed'
  <2>1. table' \in Seq(Row) /\ saved' \in Seq(Row)
    BY <1>10 DEF SyncRollback, TypeOK
  <2>2. tx' \in BOOLEAN /\ fresh' \in BOOLEAN /\ astray' \in BOOLEAN
    BY <1>10 DEF SyncRollback
  <2> QED
    BY <1>10, <2>1, <2>2 DEF SyncRollback, TypeOK, nodeVars
<1>11. ASSUME SyncDone PROVE Typed'
  <2>1. notices' \in 0..MaxSyncs
    BY <1>11, MissionConstants DEF SyncDone, TypeOK
  <2> QED
    BY <1>11, <2>1 DEF SyncDone, TypeOK, nodeVars
<1> QED
  BY <1>1, <1>2, <1>3, <1>4, <1>5, <1>6, <1>7, <1>8, <1>9, <1>10, <1>11
  DEF SyncStep

\* The logger touches the transaction and the lock; time and restarts.
LEMMA OthersKeepTypes ==
  ASSUME Typed, Tick \/ LoggerStep \/ Restart \/ UNCHANGED vars
  PROVE  Typed'
<1> USE DEF Typed, Counted
<1>1. ASSUME Tick PROVE Typed'
  <2>1. timer' \in [running : BOOLEAN, elapsed : 0..(MaxStay + 1)]
    <3>1. timer.elapsed + 1 \in 0..(MaxStay + 1)
      BY <1>1, MissionConstants DEF Tick, TypeOK
    <3> QED
      BY <1>1, <3>1 DEF Tick, TypeOK
  <2> QED
    BY <1>1, <2>1 DEF Tick, TypeOK, dbVars, syncVars
<1>2. ASSUME LoggerBegin PROVE Typed'
  <2>1. saved' \in Seq(Row) /\ tx' \in BOOLEAN
    BY <1>2 DEF LoggerBegin, TypeOK
  <2> QED
    BY <1>2, <2>1 DEF LoggerBegin, TypeOK, syncVars, nodeVars
<1>3. ASSUME LoggerEnd \/ LoggerEndLate PROVE Typed'
  <2>1. saved' = <<>>
    BY <1>3 DEF LoggerEnd, LoggerEndLate
  <2>2. tx' \in BOOLEAN
    BY <1>3 DEF LoggerEnd, LoggerEndLate
  <2> QED
    BY <1>3, <2>1, <2>2 DEF LoggerEnd, LoggerEndLate, TypeOK, syncVars, nodeVars
<1>4. ASSUME LoggerUnlock PROVE Typed'
  BY <1>4 DEF LoggerUnlock, TypeOK, syncVars, nodeVars
<1>5. ASSUME Restart PROVE Typed'
  <2>1. table' \in Seq(Row) /\ saved' \in Seq(Row) /\ incoming' \in Seq(Waypoint)
    BY <1>5 DEF Restart, TypeOK
  <2>2. tx' \in BOOLEAN /\ fresh' \in BOOLEAN /\ astray' \in BOOLEAN
    BY <1>5 DEF Restart
  <2>3. next' \in Target /\ announced' \in Leg
    BY <1>5 DEF Restart, Target, Leg
  <2>4. timer' \in [running : BOOLEAN, elapsed : 0..(MaxStay + 1)]
    BY <1>5, MissionConstants DEF Restart, Stopped
  <2>5. /\ restarts' \in 0..MaxRestarts /\ notices' \in 0..MaxSyncs
        /\ syncs' = syncs /\ syncs \in 0..MaxSyncs
    BY <1>5, MissionConstants DEF Restart, TypeOK
  <2>6. /\ mutex' = Free /\ sync' = "off" /\ notices' = 0 /\ logger' = "idle"
        /\ pc' = "min" /\ after' = "idle" /\ vessel' \in Places /\ prev' = NoPlace
    BY <1>5 DEF Restart
  <2> QED
    BY <2>1, <2>2, <2>3, <2>4, <2>5, <2>6 DEF TypeOK
<1>6. ASSUME UNCHANGED vars PROVE Typed'
  BY <1>6 DEF vars, dbVars, syncVars, nodeVars, TypeOK
<1> QED
  BY <1>1, <1>2, <1>3, <1>4, <1>5, <1>6 DEF LoggerStep

------------------------------------------------------------------------------
(* What the node has read agrees with the table.                             *)

\* Before the first lookup nothing is claimed.
LEMMA AgreementInit == Init => Agreement
BY DEF Init, Booted, Agreement, LookupAgrees, AtTarget, NewsPending

\* Steps that leave the node and the table alone, and lose no news, keep the
\* agreement.
LEMMA AsideKeepsAgreement ==
  ASSUME Agreement, UNCHANGED <<table, nodeVars, fresh, astray>>,
         notices <= notices', notices \in Nat, notices' \in Nat,
         sync \in {"insert", "end", "rollback", "done"} =>
           \/ sync' \in {"insert", "end", "rollback", "done"}
           \/ notices' > 0
  PROVE  Agreement'
BY DEF Agreement, LookupAgrees, AtTarget, NewsPending, TargetIsFirst, PlaceIsRead,
       LegIsAnnounced, nodeVars, FirstId, Unharvested

\* The handlers: a waypoint is due only at the target.
LEMMA HandlersKeepAgreement ==
  ASSUME Agreement,
         \/ \E p \in Places : ReceiveState(p)
         \/ ReceiveNotice \/ Check \/ Harvest \/ HarvestFails
  PROVE  Agreement'
<1> USE DEF Agreement, LookupAgrees, AtTarget, NewsPending, TargetIsFirst, PlaceIsRead,
            LegIsAnnounced, dbVars, syncVars, FirstId, Unharvested
<1>1. ASSUME NEW p \in Places, ReceiveState(p) PROVE Agreement'
  BY <1>1 DEF ReceiveState
<1>2. ASSUME ReceiveNotice PROVE Agreement'
  BY <1>2 DEF ReceiveNotice
<1>3. ASSUME Check PROVE Agreement'
  <2>1. pc' = "update" => next.id # 0 /\ vessel = next.place
    BY <1>3 DEF Check, InRadius
  <2>2. pc' \in {"update", "idle"}
    BY <1>3 DEF Check
  <2> QED
    BY <1>3, <2>1, <2>2 DEF Check
<1>4. ASSUME Harvest PROVE Agreement'
  BY <1>4 DEF Harvest
<1>5. ASSUME HarvestFails PROVE Agreement'
  BY <1>5 DEF HarvestFails
<1> QED
  BY <1>1, <1>2, <1>3, <1>4, <1>5

\* sendMessage() reads id, row and previous row of one and the same table, or
\* the table is not fresh any more.
LEMMA LookupKeepsAgreement ==
  ASSUME TypeOK, Agreement, Lookup \/ LoadRow \/ LoadPrev \/ Send \/ LookupFails
  PROVE  Agreement'
<1> DEFINE f == FirstId(table)
<1>a. /\ f \in Nat
      /\ f # 0 => f \in DOMAIN table
      /\ table \in Seq(Row) /\ next \in Target
  BY FirstIdIsFirst DEF TypeOK
<1>b. \A t : FirstId(t) = IF {i \in DOMAIN t : ~t[i].harvested} = {} THEN 0
                          ELSE Min({i \in DOMAIN t : ~t[i].harvested})
  BY DEF FirstId, Unharvested
<1> USE DEF Agreement, LookupAgrees, AtTarget, NewsPending, TargetIsFirst, PlaceIsRead,
            LegIsAnnounced, dbVars, syncVars
<1>1. ASSUME Lookup PROVE Agreement'
  <2>1. next'.id = f /\ table' = table /\ pc' = "row" /\ fresh'
    BY <1>1, <1>a DEF Lookup, Target
  <2> QED
    BY <2>1
<1>2. ASSUME LoadRow PROVE Agreement'
  <2>1. next'.id = next.id /\ table' = table /\ pc = "row"
    BY <1>2, <1>a DEF LoadRow, Target
  <2>2. CASE next.id \in DOMAIN table
    <3>1. next'.place = table[next.id].place /\ pc' = "prev"
      BY <1>2, <1>a, <2>2 DEF LoadRow, Target
    <3> QED
      BY <1>2, <2>1, <3>1 DEF LoadRow
  <2>3. CASE next.id \notin DOMAIN table
    <3>1. pc' = "send" /\ (fresh => next.id = 0)
      BY <1>2, <1>a, <2>3 DEF LoadRow
    <3> QED
      BY <1>2, <2>1, <3>1 DEF LoadRow
  <2> QED
    BY <2>2, <2>3
<1>3. ASSUME LoadPrev PROVE Agreement'
  <2>1. /\ next'.id = next.id /\ next'.place = next.place
        /\ table' = table /\ pc = "prev" /\ pc' = "send"
    BY <1>3, <1>a DEF LoadPrev, Target
  <2>2. ASSUME fresh, next.id > 1 PROVE prev' = table[next.id - 1].place
    <3>1. next.id \in DOMAIN table /\ next.id \in Nat
      BY <1>a, <2>1, <2>2 DEF Target
    <3>2. PrevId(table, next.id) = next.id - 1 /\ next.id - 1 # 0
      BY <1>a, <2>2, <3>1, PrevIdIsPrev
    <3> QED
      BY <1>3, <3>2 DEF LoadPrev
  <2> QED
    BY <1>3, <2>1, <2>2 DEF LoadPrev
<1>4. ASSUME Send PROVE Agreement'
  <2>1. next.id # 0 => announced' = [id |-> next.id, place |-> next.place, from |-> prev]
    BY <1>4 DEF Send
  <2>2. pc' \in {"idle", "check"} /\ pc = "send"
    BY <1>4 DEF Send, TypeOK
  <2>3. UNCHANGED <<table, next, fresh, astray, notices>>
    BY <1>4 DEF Send
  <2>4. LookupAgrees'
    BY <2>1, <2>2, <2>3
  <2>5. sync \in {"insert", "end", "rollback", "done"} => sync' = sync
    BY <1>4 DEF Send
  <2> QED
    BY <2>2, <2>3, <2>4, <2>5
<1>5. ASSUME LookupFails PROVE Agreement'
  <2>1. pc' \in {"idle", "check"} /\ astray'
    BY <1>5 DEF LookupFails, TypeOK
  <2> QED
    BY <2>1
<1> QED
  BY <1>1, <1>2, <1>3, <1>4, <1>5

\* A replacement makes the table not fresh, and ends with a notice or counts as
\* failed.
LEMMA SyncKeepsAgreement ==
  ASSUME TypeOK, Agreement,
         (\E m \in Missions : Fetch(m)) \/ SyncStep \/ SyncStatementFails
  PROVE  Agreement'
<1>a. notices \in Nat
  BY MissionConstants DEF TypeOK
<1>1. ASSUME NEW m \in Missions, Fetch(m) PROVE Agreement'
  BY <1>a, <1>1, AsideKeepsAgreement DEF Fetch, dbVars
<1>2. ASSUME SyncLock PROVE Agreement'
  BY <1>a, <1>2, AsideKeepsAgreement DEF SyncLock
<1>3. ASSUME SyncBegin PROVE Agreement'
  BY <1>a, <1>3, AsideKeepsAgreement DEF SyncBegin
<1>4. ASSUME SyncDelete \/ SyncInsert PROVE Agreement'
  <2>1. /\ ~fresh' /\ sync' = "insert"
        /\ UNCHANGED <<pc, next, vessel>>
    BY <1>4 DEF SyncDelete, SyncInsert, syncVars, nodeVars
  <2> QED
    BY <2>1 DEF Agreement, LookupAgrees, AtTarget, NewsPending
<1>5. ASSUME SyncInserted PROVE Agreement'
  BY <1>a, <1>5, AsideKeepsAgreement DEF SyncInserted, dbVars
<1>6. ASSUME SyncInsertErrors PROVE Agreement'
  BY <1>a, <1>6, AsideKeepsAgreement DEF SyncInsertErrors, dbVars
<1>7. ASSUME SyncEnd PROVE Agreement'
  <2>1. sync' \in {"done", "rollback"}
    BY <1>7 DEF SyncEnd
  <2> QED
    BY <1>a, <1>7, <2>1, AsideKeepsAgreement DEF SyncEnd
<1>8. ASSUME SyncStatementFails PROVE Agreement'
  BY <1>a, <1>8, AsideKeepsAgreement DEF SyncStatementFails, dbVars
<1>9. ASSUME SyncRollback PROVE Agreement'
  <2>1. astray' /\ UNCHANGED <<pc, next, vessel, prev>> /\ (fresh' => fresh /\ table' = table)
    BY <1>9 DEF SyncRollback, nodeVars
  <2> QED
    BY <2>1 DEF Agreement, LookupAgrees, AtTarget, NewsPending, TargetIsFirst, PlaceIsRead,
                FirstId, Unharvested
<1>10. ASSUME SyncDone PROVE Agreement'
  <2>1. notices' = notices + 1
    BY <1>10 DEF SyncDone
  <2> QED
    BY <1>a, <1>10, <2>1, AsideKeepsAgreement DEF SyncDone
<1> QED
  BY <1>1, <1>2, <1>3, <1>4, <1>5, <1>6, <1>7, <1>8, <1>9, <1>10 DEF SyncStep

\* Neither the logger's transactions nor time touch the table, and a restart
\* begins with a lookup.
LEMMA OthersKeepAgreement ==
  ASSUME TypeOK, Agreement, Tick \/ LoggerStep \/ Restart \/ UNCHANGED vars
  PROVE  Agreement'
<1>a. notices \in Nat
  BY MissionConstants DEF TypeOK
<1>1. ASSUME Tick PROVE Agreement'
  BY <1>1 DEF Tick, dbVars, syncVars, Agreement, LookupAgrees, AtTarget, NewsPending,
              TargetIsFirst, PlaceIsRead, LegIsAnnounced, FirstId, Unharvested
<1>2. ASSUME LoggerStep PROVE Agreement'
  <2>1. UNCHANGED <<table, syncVars, notices, nodeVars, fresh, astray>>
    BY <1>2 DEF LoggerStep, LoggerBegin, LoggerEnd, LoggerUnlock, LoggerEndLate
  <2> QED
    BY <1>a, <2>1, AsideKeepsAgreement DEF syncVars
<1>3. ASSUME Restart PROVE Agreement'
  <2>1. pc' = "min" /\ ~fresh'
    BY <1>3 DEF Restart
  <2> QED
    BY <2>1 DEF Agreement, LookupAgrees, AtTarget, NewsPending
<1>4. ASSUME UNCHANGED vars PROVE Agreement'
  BY <1>a, <1>4, AsideKeepsAgreement DEF vars, dbVars, syncVars
<1> QED
  BY <1>1, <1>2, <1>3, <1>4

------------------------------------------------------------------------------
(* The theorems.                                                             *)

\* The inductive invariant: the variables have their types, and the node's
\* knowledge agrees with the table or news of the table is on its way.
THEOREM Invariance == Spec => []IInv
<1>1. Init => IInv
  BY TypeInit, AgreementInit DEF IInv
<1>2. IInv /\ [Next]_vars => IInv'
  <2> SUFFICES ASSUME IInv, [Next]_vars PROVE IInv'
    OBVIOUS
  <2>1. Typed /\ TypeOK /\ Agreement
    BY DEF IInv, Typed
  <2>2. CASE \/ \E p \in Places : ReceiveState(p)
             \/ ReceiveNotice \/ Check \/ Harvest \/ HarvestFails
    <3>1. Typed' /\ Agreement'
      BY <2>1, <2>2, HandlersKeepTypes, HandlersKeepAgreement
    <3> QED
      BY <3>1 DEF IInv, Typed
  <2>3. CASE Lookup \/ LoadRow \/ LoadPrev \/ Send \/ LookupFails
    <3>1. Typed' /\ Agreement'
      BY <2>1, <2>3, LookupKeepsTypes, LookupKeepsAgreement
    <3> QED
      BY <3>1 DEF IInv, Typed
  <2>4. CASE (\E m \in Missions : Fetch(m)) \/ SyncStep \/ SyncStatementFails
    <3>1. Typed' /\ Agreement'
      BY <2>1, <2>4, SyncKeepsTypes, SyncKeepsAgreement
    <3> QED
      BY <3>1 DEF IInv, Typed
  <2>5. CASE Tick \/ LoggerStep \/ Restart \/ UNCHANGED vars
    <3>1. Typed' /\ Agreement'
      BY <2>1, <2>5, OthersKeepTypes, OthersKeepAgreement
    <3> QED
      BY <3>1 DEF IInv, Typed
  <2> QED
    BY <2>2, <2>3, <2>4, <2>5 DEF Next, NodeStep
<1> QED
  BY <1>1, <1>2, PTL DEF Spec

\* Every variable keeps its type: no lookup, replacement or failed statement
\* brings the target, the timer or the counters out of their ranges.
THEOREM TypeCorrect == Spec => []TypeOK
<1>1. IInv => TypeOK
  BY DEF IInv
<1> QED
  BY <1>1, Invariance, PTL

\* Once the notice of a replacement has been handled the boat is told to sail
\* to the first unharvested waypoint, for any missions, replacements and
\* restarts (WaypointMgrNode.cpp:112-131, DBHandler.cpp, HTTPSyncNode.cpp).
THEOREM NodeConverges == Spec => []Converged
<1>1. IInv => Converged
  <2> SUFFICES ASSUME IInv, Quiet, ~astray
               PROVE  LET i == FirstId(table) IN
                        /\ next.id = i
                        /\ i # 0 => /\ next.place = table[i].place
                                    /\ announced.id = i
                                    /\ announced.place = table[i].place
                                    /\ i > 1 => announced.from = table[i - 1].place
    BY DEF Converged
  <2>1. fresh
    BY DEF IInv, Agreement, NewsPending, Quiet
  <2>2. TargetIsFirst /\ PlaceIsRead /\ LegIsAnnounced
    BY <2>1 DEF IInv, Agreement, LookupAgrees, Quiet
  <2> QED
    BY <2>2 DEF TargetIsFirst, PlaceIsRead, LegIsAnnounced
<1> QED
  BY <1>1, Invariance, PTL

\* Only the UPDATE of waypointReached() marks a row that stays in the table.
LEMMA OnlyHarvestMarks ==
  ASSUME TypeOK, [Next]_vars, NEW i \in DOMAIN table, Harvests(i)
  PROVE  Harvest /\ i = next.id
<1>1. i \in DOMAIN table' /\ ~table[i].harvested /\ table'[i].harvested
      /\ UNCHANGED <<sync, restarts>>
  BY DEF Harvests
<1>2. table' # table
  BY <1>1
<1>3. ~SyncInsert
  <2> SUFFICES ASSUME SyncInsert PROVE FALSE
    OBVIOUS
  <2>1. table' = Append(table, Unsailed(incoming[Len(table) + 1]))
    BY DEF SyncInsert
  <2>2. table'[i] = table[i]
    BY <2>1 DEF TypeOK
  <2> QED
    BY <1>1, <2>2
<1>4. ~SyncDelete /\ ~SyncRollback /\ ~Restart
  BY <1>1, MissionConstants DEF SyncDelete, SyncRollback, Restart, TypeOK
<1>5. Harvest
  BY <1>2, <1>3, <1>4
  DEF Next, NodeStep, SyncStep, LoggerStep, vars, ReceiveState, ReceiveNotice, Check, Lookup,
      LoadRow, LoadPrev, Send, HarvestFails, LookupFails, Tick, Fetch, SyncLock, SyncBegin,
      SyncInserted, SyncInsertErrors, SyncEnd, SyncDone, SyncStatementFails, LoggerBegin,
      LoggerEnd, LoggerUnlock, LoggerEndLate, dbVars
<1>6. i = next.id
  BY <1>1, <1>5 DEF Harvest
<1> QED
  BY <1>5, <1>6

\* A waypoint is harvested only by a vessel that is at it, after all waypoints
\* before it, for any missions, replacements and restarts (waypointReached()).
THEOREM WaypointsInOrder == Spec => HarvestedInOrder
<1>1. IInv /\ [Next]_vars =>
        \A i \in DOMAIN table : Harvests(i) =>
          /\ vessel = table[i].place
          /\ \A j \in 1..(i - 1) : table[j].harvested
  <2> SUFFICES ASSUME IInv, [Next]_vars, NEW i \in DOMAIN table, Harvests(i)
               PROVE  /\ vessel = table[i].place
                      /\ \A j \in 1..(i - 1) : table[j].harvested
    OBVIOUS
  <2>1. Harvest /\ i = next.id
    BY OnlyHarvestMarks DEF IInv
  <2>2. pc = "update" /\ fresh /\ ~astray
    BY DEF Harvests
  <2>3. TargetIsFirst /\ PlaceIsRead /\ next.id # 0 /\ vessel = next.place
    BY <2>2 DEF IInv, Agreement, LookupAgrees, AtTarget
  <2>4. \A j \in 1..(FirstId(table) - 1) : table[j].harvested
    BY <2>3, FirstIdIsFirst DEF IInv, TypeOK, TargetIsFirst
  <2> QED
    BY <2>1, <2>3, <2>4 DEF TargetIsFirst, PlaceIsRead
<1> QED
  BY <1>1, Invariance, PTL DEF Spec, HarvestedInOrder
==============================================================================
