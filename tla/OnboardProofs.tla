---------------------------- MODULE OnboardProofs ----------------------------
(*****************************************************************************)
(* Proofs about five components, and about their composition with the packet *)
(* network in MCOnboard: three active nodes, whose own threads share members *)
(* with the handlers on the bus thread (HTTPSync, LineFollow, and the        *)
(* ballots of the local navigation), and the two sides of the CAN bus on the *)
(* boat: Actuation, which sends commands, and SensorNodes, which send on     *)
(* what they receive.                                                        *)
(*****************************************************************************)
EXTENDS MCOnboard, PacketNetworkProofs, SequenceTheorems, TLAPS

------------------------------------------------------------------------------
(* HTTPSync: the flags forget nothing, for any number of changes and         *)
(* failures and any set of kinds that are announced.                         *)

\* What NothingForgotten says of one kind.
Remembered(k) ==
  needPush[k] \/ notices[k] > 0 \/ updated[k] \/ At("store", k)
    \/ OutOfStep(k) \/ onBoat[k] = onServer[k]

\* What holds while the thread is busy with k: the flag stays set until the
\* push is over, and the edit that is being fetched is still at the server or
\* in the payload.
Busy(k) ==
  /\ At("fetch", k) => updated[k]
  /\ At("store", k) => payload = onServer[k] \/ updated[k]
  /\ At("read", k) \/ At("push", k) \/ At("answer", k) => needPush[k]
  /\ At("push", k) \/ At("answer", k) =>
       payload = onBoat[k] \/ notices[k] > 0 \/ slip[k] = "late"
  /\ At("answer", k) => payload = onServer[k] \/ updated[k]

HTTPInv == HTTPTypeOK /\ \A k \in DataKinds : Remembered(k) /\ Busy(k)

\* Both flags are set at the start, so all is remembered.
LEMMA HTTPStarts == HTTPInit => HTTPInv
<1> SUFFICES ASSUME HTTPInit PROVE HTTPInv
  OBVIOUS
<1>1. HTTPTypeOK
  BY HTTPConstants DEF HTTPInit, HTTPTypeOK, Versions, Slips, DataKinds
<1>2. \A k \in DataKinds : Remembered(k) /\ Busy(k)
  BY DEF HTTPInit, Remembered, Busy, At
<1> QED BY <1>1, <1>2 DEF HTTPInv

\* The other kind is not concerned by a step that leaves its data alone.
LEMMA OtherKind ==
  ASSUME NEW k \in DataKinds, NEW j \in DataKinds, j # k, turn = k,
         Remembered(j), turn' = k \/ syncPc' = "check",
         /\ onBoat'[j] = onBoat[j] /\ onServer'[j] = onServer[j]
         /\ updated'[j] = updated[j] /\ needPush'[j] = needPush[j]
         /\ notices'[j] = notices[j] /\ slip'[j] = slip[j]
  PROVE  Remembered(j)' /\ Busy(j)'
BY DEF Remembered, Busy, At, OutOfStep

\* The thread turns to the other kind.
LEMMA DoneType ==
  ASSUME HTTPTypeOK, Done
  PROVE  turn' \in DataKinds /\ syncPc' = "check"
BY DEF HTTPTypeOK, Done, DataKinds

\* The flag is cleared, but the server still has the edit.
LEMMA NewsKeeps == ASSUME HTTPInv, NEW k \in DataKinds, NewsOnServer(k) PROVE HTTPInv'
<1> USE DEF HTTPInv, NewsOnServer, At, httpData, Goto
<1>1. HTTPTypeOK'
  BY HTTPConstants DEF HTTPTypeOK, Versions, Slips, DataKinds
<1>2. Remembered(k)' /\ Busy(k)'
  BY DEF HTTPTypeOK, Remembered, Busy, OutOfStep
<1>3. ASSUME NEW j \in DataKinds, j # k PROVE Remembered(j)' /\ Busy(j)'
  BY <1>3, OtherKind DEF HTTPTypeOK
<1> QED BY <1>1, <1>2, <1>3

\* Without news the flag decides and stays.
LEMMA NothingNewKeeps == ASSUME HTTPInv, NEW k \in DataKinds, NothingNew(k) PROVE HTTPInv'
<1> USE DEF HTTPInv, NothingNew, At, httpData, NoNews, Goto, Done
<1>1. HTTPTypeOK'
  BY HTTPConstants DEF HTTPTypeOK, Versions, Slips, DataKinds
<1>2. Remembered(k)' /\ Busy(k)'
  BY DEF HTTPTypeOK, Remembered, Busy, OutOfStep
<1>3. ASSUME NEW j \in DataKinds, j # k PROVE Remembered(j)' /\ Busy(j)'
  BY <1>3, OtherKind DEF HTTPTypeOK
<1> QED BY <1>1, <1>2, <1>3

\* A check that fails counts as no news.
LEMMA CheckFailsKeeps == ASSUME HTTPInv, NEW k \in DataKinds, CheckFails(k) PROVE HTTPInv'
<1> USE DEF HTTPInv, CheckFails, At, httpData, NoNews, Goto, Done, Mishap
<1>1. HTTPTypeOK'
  BY HTTPConstants DEF HTTPTypeOK, Versions, Slips, DataKinds
<1>2. Remembered(k)' /\ Busy(k)'
  BY DEF HTTPTypeOK, Remembered, Busy, OutOfStep
<1>3. ASSUME NEW j \in DataKinds, j # k PROVE Remembered(j)' /\ Busy(j)'
  BY <1>3, OtherKind DEF HTTPTypeOK
<1> QED BY <1>1, <1>2, <1>3

\* The edit leaves the server and is in the payload.
LEMMA FetchedKeeps == ASSUME HTTPInv, NEW k \in DataKinds, Fetched(k) PROVE HTTPInv'
<1> USE DEF HTTPInv, Fetched, At, httpData, Goto
<1>1. HTTPTypeOK'
  BY HTTPConstants DEF HTTPTypeOK, Versions, Slips, DataKinds
<1>2. Remembered(k)' /\ Busy(k)'
  BY DEF HTTPTypeOK, Remembered, Busy, OutOfStep
<1>3. ASSUME NEW j \in DataKinds, j # k PROVE Remembered(j)' /\ Busy(j)'
  BY <1>3, OtherKind DEF HTTPTypeOK
<1> QED BY <1>1, <1>2, <1>3

\* The edit stays at the server.
LEMMA FetchFailsKeeps == ASSUME HTTPInv, NEW k \in DataKinds, FetchFails(k) PROVE HTTPInv'
<1> USE DEF HTTPInv, FetchFails, At, httpData, Done, Mishap
<1>1. HTTPTypeOK'
  BY HTTPConstants DEF HTTPTypeOK, Versions, Slips, DataKinds
<1>2. Remembered(k)' /\ Busy(k)'
  BY DEF HTTPTypeOK, Remembered, Busy, OutOfStep
<1>3. ASSUME NEW j \in DataKinds, j # k PROVE Remembered(j)' /\ Busy(j)'
  BY <1>3, OtherKind DEF HTTPTypeOK
<1> QED BY <1>1, <1>2, <1>3

\* The edit is handed out and lost: the kind is out of step.
LEMMA FetchLostKeeps == ASSUME HTTPInv, NEW k \in DataKinds, FetchAnswerLost(k) PROVE HTTPInv'
<1> USE DEF HTTPInv, FetchAnswerLost, At, httpData, Done, Mishap, Slipped
<1>1. HTTPTypeOK'
  BY HTTPConstants DEF HTTPTypeOK, Versions, Slips, DataKinds
<1>2. Remembered(k)' /\ Busy(k)'
  BY DEF HTTPTypeOK, Remembered, Busy, OutOfStep
<1>3. ASSUME NEW j \in DataKinds, j # k PROVE Remembered(j)' /\ Busy(j)'
  BY <1>3, OtherKind DEF HTTPTypeOK
<1> QED BY <1>1, <1>2, <1>3

\* The boat now has the edit, unless there is a newer one.
LEMMA StoredKeeps == ASSUME HTTPInv, NEW k \in DataKinds, Stored(k) PROVE HTTPInv'
<1> USE DEF HTTPInv, Stored, At, httpData, Done, Slipped
<1>1. HTTPTypeOK'
  BY HTTPConstants DEF HTTPTypeOK, Versions, Slips, DataKinds
<1>2. Remembered(k)' /\ Busy(k)'
  BY DEF HTTPTypeOK, Remembered, Busy, OutOfStep
<1>3. ASSUME NEW j \in DataKinds, j # k PROVE Remembered(j)' /\ Busy(j)'
  BY <1>3, OtherKind DEF HTTPTypeOK
<1> QED BY <1>1, <1>2, <1>3

\* The edit is lost: the kind is out of step.
LEMMA StoreFailsKeeps == ASSUME HTTPInv, NEW k \in DataKinds, StoreFails(k) PROVE HTTPInv'
<1> USE DEF HTTPInv, StoreFails, At, httpData, Done, Mishap, Slipped
<1>1. HTTPTypeOK'
  BY HTTPConstants DEF HTTPTypeOK, Versions, Slips, DataKinds
<1>2. Remembered(k)' /\ Busy(k)'
  BY DEF HTTPTypeOK, Remembered, Busy, OutOfStep
<1>3. ASSUME NEW j \in DataKinds, j # k PROVE Remembered(j)' /\ Busy(j)'
  BY <1>3, OtherKind DEF HTTPTypeOK
<1> QED BY <1>1, <1>2, <1>3

\* The payload is what the boat has.
LEMMA ReadKeeps == ASSUME HTTPInv, NEW k \in DataKinds, ReadData(k) PROVE HTTPInv'
<1> USE DEF HTTPInv, ReadData, At, httpData, Goto, Slipped
<1>1. HTTPTypeOK'
  BY HTTPConstants DEF HTTPTypeOK, Versions, Slips, DataKinds
<1>2. Remembered(k)' /\ Busy(k)'
  BY DEF HTTPTypeOK, Remembered, Busy, OutOfStep
<1>3. ASSUME NEW j \in DataKinds, j # k PROVE Remembered(j)' /\ Busy(j)'
  BY <1>3, OtherKind DEF HTTPTypeOK
<1> QED BY <1>1, <1>2, <1>3

\* The flag stays set.
LEMMA PushFailsKeeps == ASSUME HTTPInv, NEW k \in DataKinds, PushFails(k) PROVE HTTPInv'
<1> USE DEF HTTPInv, PushFails, At, httpData, Done, Mishap
<1>1. HTTPTypeOK'
  BY HTTPConstants DEF HTTPTypeOK, Versions, Slips, DataKinds
<1>2. Remembered(k)' /\ Busy(k)'
  BY DEF HTTPTypeOK, Remembered, Busy, OutOfStep
<1>3. ASSUME NEW j \in DataKinds, j # k PROVE Remembered(j)' /\ Busy(j)'
  BY <1>3, OtherKind DEF HTTPTypeOK
<1> QED BY <1>1, <1>2, <1>3

\* The server has the payload, the flag is still set.
LEMMA PushArrivesKeeps == ASSUME HTTPInv, NEW k \in DataKinds, PushArrives(k) PROVE HTTPInv'
<1> USE DEF HTTPInv, PushArrives, At, httpData, Goto
<1>1. HTTPTypeOK'
  BY HTTPConstants DEF HTTPTypeOK, Versions, Slips, DataKinds
<1>2. Remembered(k)' /\ Busy(k)'
  BY DEF HTTPTypeOK, Remembered, Busy, OutOfStep
<1>3. ASSUME NEW j \in DataKinds, j # k PROVE Remembered(j)' /\ Busy(j)'
  BY <1>3, OtherKind DEF HTTPTypeOK
<1> QED BY <1>1, <1>2, <1>3

\* The flag goes; a change that came too late has been overlooked.
LEMMA AnsweredKeeps == ASSUME HTTPInv, NEW k \in DataKinds, PushAnswered(k) PROVE HTTPInv'
<1> USE DEF HTTPInv, PushAnswered, At, httpData, Done, Slipped
<1>1. HTTPTypeOK'
  BY HTTPConstants DEF HTTPTypeOK, Versions, Slips, DataKinds
<1>2. Remembered(k)' /\ Busy(k)'
  BY DEF HTTPTypeOK, Remembered, Busy, OutOfStep
<1>3. ASSUME NEW j \in DataKinds, j # k PROVE Remembered(j)' /\ Busy(j)'
  BY <1>3, OtherKind DEF HTTPTypeOK
<1> QED BY <1>1, <1>2, <1>3

\* The flag stays set.
LEMMA AnswerLostKeeps == ASSUME HTTPInv, NEW k \in DataKinds, PushAnswerLost(k) PROVE HTTPInv'
<1> USE DEF HTTPInv, PushAnswerLost, At, httpData, Done, Mishap
<1>1. HTTPTypeOK'
  BY HTTPConstants DEF HTTPTypeOK, Versions, Slips, DataKinds
<1>2. Remembered(k)' /\ Busy(k)'
  BY DEF HTTPTypeOK, Remembered, Busy, OutOfStep
<1>3. ASSUME NEW j \in DataKinds, j # k PROVE Remembered(j)' /\ Busy(j)'
  BY <1>3, OtherKind DEF HTTPTypeOK
<1> QED BY <1>1, <1>2, <1>3

\* A message becomes a flag.
LEMMA NoticeKeeps == ASSUME HTTPInv, NEW k \in DataKinds, NoticeHandled(k) PROVE HTTPInv'
<1> USE DEF HTTPInv, NoticeHandled, At, httpData
<1>1. HTTPTypeOK'
  BY HTTPConstants DEF HTTPTypeOK, Versions, Slips, DataKinds
<1>2. Remembered(k)' /\ Busy(k)'
  BY DEF HTTPTypeOK, Remembered, Busy, OutOfStep
<1>3. ASSUME NEW j \in DataKinds, j # k PROVE Remembered(j)' /\ Busy(j)'
  BY <1>3 DEF HTTPTypeOK, Remembered, Busy, OutOfStep
<1> QED BY <1>1, <1>2, <1>3

\* The change is announced by a message.
LEMMA LocalChangeKeeps == ASSUME HTTPInv, NEW k \in DataKinds, LocalChange(k) PROVE HTTPInv'
<1> USE DEF HTTPInv, LocalChange, At, httpData
<1>1. HTTPTypeOK'
  BY HTTPConstants DEF HTTPTypeOK, Versions, Slips, DataKinds
<1>2. Remembered(k)' /\ Busy(k)'
  BY DEF HTTPTypeOK, Remembered, Busy, OutOfStep
<1>3. ASSUME NEW j \in DataKinds, j # k PROVE Remembered(j)' /\ Busy(j)'
  BY <1>3 DEF HTTPTypeOK, Remembered, Busy, OutOfStep
<1> QED BY <1>1, <1>2, <1>3

\* The edit waits at the server.
LEMMA UserEditKeeps == ASSUME HTTPInv, NEW k \in DataKinds, UserEdit(k) PROVE HTTPInv'
<1> USE DEF HTTPInv, UserEdit, At, httpData
<1>1. HTTPTypeOK'
  BY HTTPConstants DEF HTTPTypeOK, Versions, Slips, DataKinds
<1>2. Remembered(k)' /\ Busy(k)'
  BY DEF HTTPTypeOK, Remembered, Busy, OutOfStep
<1>3. ASSUME NEW j \in DataKinds, j # k PROVE Remembered(j)' /\ Busy(j)'
  BY <1>3 DEF HTTPTypeOK, Remembered, Busy, OutOfStep
<1> QED BY <1>1, <1>2, <1>3

\* The invariant is about the variables only.
LEMMA HTTPStutters == HTTPInv /\ UNCHANGED httpVars => HTTPInv'
BY DEF HTTPInv, HTTPTypeOK, Remembered, Busy, At, OutOfStep, httpVars

\* The inductive invariant holds whatever calls fail and messages come.
THEOREM HTTPInvariance == HTTPSpec => []HTTPInv
<1>1. ASSUME HTTPInv, HTTPNext PROVE HTTPInv'
  BY <1>1, NewsKeeps, NothingNewKeeps, CheckFailsKeeps, FetchedKeeps,
     FetchFailsKeeps, FetchLostKeeps, StoredKeeps, StoreFailsKeeps, ReadKeeps,
     PushFailsKeeps, PushArrivesKeeps, AnsweredKeeps, AnswerLostKeeps,
     NoticeKeeps, LocalChangeKeeps, UserEditKeeps DEF HTTPNext, SyncThread
<1>2. HTTPInv /\ [HTTPNext]_httpVars => HTTPInv'
  BY <1>1, HTTPStutters
<1> QED BY HTTPStarts, <1>2, PTL DEF HTTPSpec

\* The variables of HTTPSyncNode's exchange with the server keep their types.
THEOREM HTTPTypeCorrect == HTTPSpec => []HTTPTypeOK
<1>1. HTTPInv => HTTPTypeOK
  BY DEF HTTPInv
<1> QED BY HTTPInvariance, <1>1, PTL

\* With any number of failures, changes on both sides and messages at any time
\* a difference between boat and server is pending or has one of two causes.
THEOREM FlagsForgetNothing == HTTPSpec => []NothingForgotten
<1>1. HTTPInv => NothingForgotten
  BY DEF HTTPInv, NothingForgotten, Remembered
<1> QED BY HTTPInvariance, <1>1, PTL

------------------------------------------------------------------------------
(* LineFollow: its variables keep their types, the line starts where its leg *)
(* was announced to start, and a new leg is followed by at most one course   *)
(* for an older one.                                                         *)

\* Whenever the boat can be taken to be at the end of the leg, reached says so.
ReachedNoted ==
  leg > 0 => reached \/ TRUE \notin PassedOrEntered(leg, prev, vessel)

\* The thread moves the start only for a reason: the end has been reached or
\* a handler has come in between.
MovesForReason ==
  linePc \in {"lon", "lat"} /\ leg > 0 => reached \/ torn

\* Once a course for an older leg is out, none is waiting to be published.
OldCourseGone ==
  /\ behind \in {0, 1}
  /\ behind = 1 /\ linePc = "tack" => course.leg >= leg

LineInv == /\ LineTypeOK /\ ReachedNoted /\ MovesForReason
           /\ LineStartsAsAnnounced /\ OldCourseGone

------------------------------------------------------------------------------
\* Points and Nowhere are made of coordinates, and only Nowhere has Unset.
LEMMA PointParts ==
  ASSUME NEW p \in Points \cup {Nowhere}
  PROVE  /\ p \in Coordinates \X Coordinates
         /\ p[1] \in Coordinates /\ p[2] \in Coordinates
         /\ p = Nowhere <=> Unset \in {p[1], p[2]}
<1>1. CASE p = Nowhere
  BY <1>1 DEF Nowhere, Coordinates
<1>2. CASE p \in Points
  <2>1. p \in Int \X Int /\ p[1] # Unset /\ p[2] # Unset
    BY <1>2, LineConstants
  <2>2. p = <<p[1], p[2]>>
    BY <2>1
  <2>3. p[1] \in Coordinates /\ p[2] \in Coordinates
    BY <1>2 DEF Coordinates
  <2>4. p # Nowhere
    BY <2>1 DEF Nowhere
  <2> QED BY <2>1, <2>2, <2>3, <2>4
<1> QED BY <1>1, <1>2

\* An announced leg is a record of two points.
LEMMA LegParts ==
  ASSUME NEW l \in 1..Len(Legs)
  PROVE  Legs[l].from \in Points \cup {Nowhere} /\ Legs[l].next \in Points
<1>1. Legs[l] \in [from : Points \cup {Nowhere}, next : Points]
  BY LineConstants, ElementOfSeq
<1> QED BY <1>1

\* What follows from the types alone.
LEMMA LineTypeInit == LineInit => LineTypeOK
<1> SUFFICES ASSUME LineInit PROVE LineTypeOK
  OBVIOUS
<1>1. Len(Legs) \in Nat /\ MaxWinds \in Nat /\ MaxStates \in Nat
  BY LineConstants
<1>2. Nowhere \in Coordinates \X Coordinates
  BY PointParts
<1>3. NoCourse \in Courses
  BY <1>1, <1>2 DEF NoCourse, Courses
<1>4. /\ leg \in 0..Len(Legs) /\ wind \in 0..MaxWinds
      /\ positions \in 0..MaxStates /\ behind \in Nat
  BY <1>1 DEF LineInit
<1>5. published \in [course : Courses, tackWind : 0..MaxWinds]
  <2>1. 0 \in 0..MaxWinds
    BY <1>1
  <2> QED BY <1>3, <2>1 DEF LineInit
<1>6. /\ vessel = Nowhere /\ prev = Nowhere /\ start = Nowhere
      /\ linePc = "look" /\ course = NoCourse
      /\ reached = FALSE /\ torn = FALSE /\ clash = FALSE
  BY DEF LineInit
<1> QED BY <1>2, <1>3, <1>4, <1>5, <1>6 DEF LineTypeOK

\* No step of a handler or of the thread leaves the types.
LEMMA LineTypeStep == LineTypeOK /\ [LineNext]_lineVars => LineTypeOK'
<1> SUFFICES ASSUME LineTypeOK, [LineNext]_lineVars PROVE LineTypeOK'
  OBVIOUS
<1>0. /\ Len(Legs) \in Nat /\ MaxWinds \in Nat /\ MaxStates \in Nat
      /\ leg \in Nat /\ wind \in Nat
  BY LineConstants DEF LineTypeOK
<1>a. vessel \in Coordinates \X Coordinates
  BY PointParts DEF LineTypeOK
<1>b. /\ prev \in Coordinates \X Coordinates
      /\ vessel[1] \in Coordinates /\ vessel[2] \in Coordinates
      /\ prev[1] \in Coordinates /\ prev[2] \in Coordinates
  BY <1>a DEF LineTypeOK
<1>1. CASE StateHandled
  BY <1>0, <1>1 DEF StateHandled, Notes, Unlocked, LineTypeOK
<1>2. CASE WindHandled
  BY <1>0, <1>2 DEF WindHandled, LineTypeOK
<1>3. CASE WaypointHandled
  <2>1. leg + 1 \in 1..Len(Legs) /\ leg' = leg + 1
    BY <1>0, <1>3 DEF WaypointHandled, LineTypeOK
  <2>2. StartOf(leg + 1) \in Points \cup {Nowhere}
    BY <2>1, LegParts DEF StartOf, LineTypeOK
  <2>3. StartOf(leg + 1) \in Coordinates \X Coordinates
    BY <2>2, PointParts
  <2>4. leg' \in 0..Len(Legs)
    BY <1>0, <2>1
  <2>5. reached' \in BOOLEAN /\ torn' \in BOOLEAN
    BY <1>3 DEF WaypointHandled, Notes, Unlocked, LineTypeOK
  <2>6. /\ prev' \in Coordinates \X Coordinates
        /\ start' \in Points \cup {Nowhere}
        /\ clash' \in BOOLEAN /\ behind' \in Nat
        /\ UNCHANGED <<vessel, wind, linePc, course, published, positions>>
    BY <1>3, <2>2, <2>3 DEF WaypointHandled
  <2> QED BY <2>4, <2>5, <2>6 DEF LineTypeOK
<1>4. CASE Look
  BY <1>4 DEF Look, LineTypeOK
<1>5. CASE TestPassed
  BY <1>5 DEF TestPassed, LineTypeOK
<1>6. CASE MovePrevLon
  BY <1>b, <1>6 DEF MovePrevLon, Notes, LineTypeOK
<1>7. CASE MovePrevLat
  BY <1>b, <1>7 DEF MovePrevLat, Notes, LineTypeOK
<1>8. CASE CalculateTargetCourse
  <2>1. prev' \in Coordinates \X Coordinates
    BY <1>a, <1>8 DEF CalculateTargetCourse, LineTypeOK
  <2>2. course' \in Courses /\ linePc' \in {"look", "tack"}
    <3>1. CASE leg = 0 \/ vessel = Nowhere \/ wind = 0
      BY <1>8, <3>1 DEF CalculateTargetCourse, LineTypeOK
    <3>2. CASE ~(leg = 0 \/ vessel = Nowhere \/ wind = 0)
      <4>1. course' = [leg |-> leg, from |-> prev', at |-> vessel, wind |-> wind]
            /\ linePc' = "tack"
        BY <1>8, <3>2 DEF CalculateTargetCourse
      <4> QED BY <2>1, <4>1 DEF Courses, LineTypeOK
    <3> QED BY <3>1, <3>2
  <2>3. /\ start' \in Points \cup {Nowhere} /\ reached' \in BOOLEAN
        /\ UNCHANGED <<leg, vessel, wind, published, positions, torn, clash,
                       behind>>
    BY <1>8 DEF CalculateTargetCourse, Notes, LineTypeOK
  <2> QED BY <2>1, <2>2, <2>3 DEF LineTypeOK
<1>9. CASE PublishCourse
  <2>1. published' \in [course : Courses, tackWind : 0..MaxWinds]
    BY <1>9 DEF PublishCourse, LineTypeOK
  <2> QED BY <1>9, <2>1 DEF PublishCourse, LineTypeOK
<1>10. CASE UNCHANGED lineVars
  BY <1>10 DEF lineVars, LineTypeOK
<1> QED
  BY <1>1, <1>2, <1>3, <1>4, <1>5, <1>6, <1>7, <1>8, <1>9, <1>10
  DEF LineNext, LineThread

------------------------------------------------------------------------------
\* A step whose histories are noted keeps ReachedNoted.
LEMMA NotesKeep ==
  ASSUME Notes(leg', prev', vessel')
  PROVE  ReachedNoted'
BY DEF Notes, ReachedNoted, PassedOrEntered, Beyond, Within

\* A step that leaves alone what ReachedNoted is about keeps it.
LEMMA SameNotes ==
  ASSUME ReachedNoted, UNCHANGED <<leg, prev, vessel, reached>>
  PROVE  ReachedNoted'
BY DEF ReachedNoted, PassedOrEntered, Beyond, Within

\* Every step keeps note of the end of the leg.
LEMMA ReachedStep == LineInv /\ [LineNext]_lineVars => ReachedNoted'
<1> SUFFICES ASSUME LineInv, [LineNext]_lineVars PROVE ReachedNoted'
  OBVIOUS
<1>1. CASE StateHandled \/ WaypointHandled \/ MovePrevLon \/ MovePrevLat
           \/ CalculateTargetCourse
  <2>1. Notes(leg', prev', vessel')
    BY <1>1 DEF StateHandled, WaypointHandled, MovePrevLon, MovePrevLat,
       CalculateTargetCourse
  <2> QED BY <2>1, NotesKeep
<1>2. CASE \/ WindHandled \/ Look \/ TestPassed \/ PublishCourse
           \/ UNCHANGED lineVars
  BY <1>2, SameNotes DEF LineInv, WindHandled, Look, TestPassed,
     PublishCourse, lineVars
<1> QED BY <1>1, <1>2 DEF LineNext, LineThread

\* The thread's unlocked decision is backed by reached or torn.
LEMMA ReasonStep == LineInv /\ [LineNext]_lineVars => MovesForReason'
<1> SUFFICES ASSUME LineInv, [LineNext]_lineVars PROVE MovesForReason'
  OBVIOUS
<1> USE DEF LineInv, MovesForReason
<1>1. CASE StateHandled
  BY <1>1 DEF StateHandled, Unlocked
<1>2. CASE WaypointHandled
  BY <1>2 DEF WaypointHandled, Unlocked
<1>3. CASE TestPassed
  <2>1. CASE torn
    BY <1>3, <2>1 DEF TestPassed
  <2>2. CASE ~torn
    <3>1. linePc' \in {"lon", "lat"}
            => TRUE \in PassedOrEntered(leg, prev, vessel)
      <4>1. PICK passed \in PassedOrEntered(leg, prev, vessel) :
              linePc' = IF passed THEN "lon" ELSE "calculate"
        BY <1>3, <2>2 DEF TestPassed
      <4>2. passed \in BOOLEAN
        BY <4>1 DEF PassedOrEntered
      <4> QED BY <4>1, <4>2
    <3> QED BY <1>3, <3>1 DEF TestPassed, ReachedNoted
  <2> QED BY <2>1, <2>2
<1>4. CASE MovePrevLon
  BY <1>4 DEF MovePrevLon, Notes
<1>5. CASE Look \/ MovePrevLat \/ CalculateTargetCourse \/ PublishCourse
  BY <1>5 DEF Look, MovePrevLat, CalculateTargetCourse, PublishCourse
<1>6. CASE WindHandled \/ UNCHANGED lineVars
  BY <1>6 DEF WindHandled, lineVars
<1> QED
  BY <1>1, <1>2, <1>3, <1>4, <1>5, <1>6 DEF LineNext, LineThread

\* The start of the line stays the announced one until the end is reached.
LEMMA StartStep == LineInv /\ [LineNext]_lineVars => LineStartsAsAnnounced'
<1> SUFFICES ASSUME LineInv, [LineNext]_lineVars,
                    leg' > 0, ~reached', ~clash'
             PROVE  prev' = start'
  BY DEF LineStartsAsAnnounced
<1> USE DEF LineInv, LineStartsAsAnnounced
<1>1. CASE StateHandled
  BY <1>1 DEF StateHandled, Notes
<1>2. CASE WaypointHandled
  BY <1>2 DEF WaypointHandled
<1>3. CASE MovePrevLon \/ MovePrevLat
  <2>1. leg' = leg /\ ~reached /\ ~torn /\ linePc \in {"lon", "lat"}
    BY <1>3 DEF MovePrevLon, MovePrevLat, Notes
  <2> QED BY <2>1 DEF MovesForReason
<1>4. CASE CalculateTargetCourse
  <2>1. leg' = leg /\ ~reached /\ clash' = clash
    BY <1>4 DEF CalculateTargetCourse, Notes
  <2>2. prev = start /\ start \in Points \cup {Nowhere}
    BY <2>1 DEF LineTypeOK
  <2>3. start = Nowhere <=> Unset \in {prev[1], prev[2]}
    BY <2>2, PointParts
  <2> QED BY <1>4, <2>2, <2>3 DEF CalculateTargetCourse
<1>5. CASE WindHandled \/ Look \/ TestPassed \/ PublishCourse
  BY <1>5 DEF WindHandled, Look, TestPassed, PublishCourse
<1>6. CASE UNCHANGED lineVars
  BY <1>6 DEF lineVars
<1> QED
  BY <1>1, <1>2, <1>3, <1>4, <1>5, <1>6 DEF LineNext, LineThread

\* After one course for an older leg the next one is for the newest.
LEMMA OldCourseStep == LineInv /\ [LineNext]_lineVars => OldCourseGone'
<1> SUFFICES ASSUME LineInv, [LineNext]_lineVars PROVE OldCourseGone'
  OBVIOUS
<1> USE DEF LineInv, OldCourseGone
<1>0. leg \in Nat /\ course.leg \in Nat
  BY LineConstants DEF LineTypeOK, Courses
<1>1. CASE StateHandled \/ WindHandled
  BY <1>1 DEF StateHandled, WindHandled
<1>2. CASE WaypointHandled
  BY <1>2 DEF WaypointHandled
<1>3. CASE Look \/ TestPassed \/ MovePrevLon \/ MovePrevLat
  BY <1>3 DEF Look, TestPassed, MovePrevLon, MovePrevLat
<1>4. CASE CalculateTargetCourse
  <2>1. linePc' = "tack" => course'.leg = leg
    BY <1>4 DEF CalculateTargetCourse
  <2> QED BY <1>0, <1>4, <2>1 DEF CalculateTargetCourse
<1>5. CASE PublishCourse
  BY <1>0, <1>5 DEF PublishCourse
<1>6. CASE UNCHANGED lineVars
  BY <1>6 DEF lineVars
<1> QED
  BY <1>1, <1>2, <1>3, <1>4, <1>5, <1>6 DEF LineNext, LineThread

------------------------------------------------------------------------------
\* The inductive invariant holds for any legs, points, radius and bounds.
THEOREM LineInvariance == LineSpec => []LineInv
<1>1. LineInit => LineInv
  BY LineTypeInit DEF LineInit, LineInv, ReachedNoted, MovesForReason,
     LineStartsAsAnnounced, OldCourseGone
<1>2. LineInv /\ [LineNext]_lineVars => LineInv'
  <2> SUFFICES ASSUME LineInv, [LineNext]_lineVars PROVE LineInv'
    OBVIOUS
  <2>1. LineTypeOK'
    BY LineTypeStep DEF LineInv
  <2>2. ReachedNoted' /\ MovesForReason' /\ LineStartsAsAnnounced'
        /\ OldCourseGone'
    BY ReachedStep, ReasonStep, StartStep, OldCourseStep
  <2> QED BY <2>1, <2>2 DEF LineInv
<1> QED BY <1>1, <1>2, PTL DEF LineSpec

\* Type correctness of LineFollowNode's state.
THEOREM LineTypeCorrect == LineSpec => []LineTypeOK
<1>1. LineInv => LineTypeOK
  BY DEF LineInv
<1> QED BY <1>1, LineInvariance, PTL

\* The line starts where processWaypointMessage() was told, until the boat has
\* reached the waypoint or a handler has run into the unlocked part.
THEOREM LineKeepsItsStart == LineSpec => []LineStartsAsAnnounced
<1>1. LineInv => LineStartsAsAnnounced
  BY DEF LineInv
<1> QED BY <1>1, LineInvariance, PTL

\* Only a course that was already calculated comes after a newer leg.
THEOREM OneOldCourse == LineSpec => []AtMostOneOldCourse
<1>1. LineInv => AtMostOneOldCourse
  BY DEF LineInv, OldCourseGone, AtMostOneOldCourse
<1> QED BY <1>1, LineInvariance, PTL

------------------------------------------------------------------------------
(* Ballots: a ballot elects the best course, for any number of voters and    *)
(* courses, any votes and any weights.                                       *)

(* The conversion to 16 bits: what wraps around in between does no harm.     *)

\* ToInt16(n) differs from n by a multiple of 2^16.
LEMMA SameModulo ==
  ASSUME NEW n \in Int
  PROVE  \E k \in Int : ToInt16(n) = n + k * (2 * Half)
<1> DEFINE m == 2 * Half
           q == (n + Half) \div m
           r == (n + Half) % m
<1>1. m \in Nat \ {0}
  BY BallotConstants
<1>2. n + Half \in Int
  BY BallotConstants
<1>3. q \in Int /\ r \in Int /\ n + Half = q * m + r
  BY <1>1, <1>2
<1>4. ToInt16(n) = r - Half
  BY DEF ToInt16
<1>5. r - Half = n + (-q) * m
  <2> HIDE DEF q, r, m
  <2>1. (-q) * m = -(q * m)
    BY <1>1, <1>3
  <2>2. q * m \in Int
    BY <1>1, <1>3
  <2> QED BY <1>3, <2>1, <2>2, BallotConstants
<1>6. -q \in Int
  BY <1>3
<1> HIDE DEF q, r
<1> QED BY <1>4, <1>5, <1>6

\* ToInt16(n) is a 16-bit number.
LEMMA Int16Range ==
  ASSUME NEW n \in Int
  PROVE  ToInt16(n) \in (-Half)..(Half - 1)
<1> DEFINE m == 2 * Half
<1>1. m \in Nat \ {0}
  BY BallotConstants
<1>2. (n + Half) % m \in 0..(m - 1)
  BY <1>1, BallotConstants
<1> QED BY <1>1, <1>2, BallotConstants DEF ToInt16

\* Two 16-bit numbers that differ by a multiple of 2^16 are equal.
LEMMA UniqueModulo ==
  ASSUME NEW x \in (-Half)..(Half - 1), NEW y \in (-Half)..(Half - 1),
         NEW k \in Int, x = y + k * (2 * Half)
  PROVE  x = y
<1>1. CASE k = 0
  BY <1>1, BallotConstants
<1>2. CASE k >= 1
  <2>1. k * (2 * Half) >= 2 * Half
    BY <1>2, BallotConstants
  <2> QED BY <2>1, BallotConstants
<1>3. CASE k <= -1
  <2>1. k * (2 * Half) <= -(2 * Half)
    BY <1>3, BallotConstants
  <2> QED BY <2>1, BallotConstants
<1> QED BY <1>1, <1>2, <1>3

\* A sum of 16-bit numbers is right modulo 2^16, whatever wrapped on the way.
LEMMA SumModulo ==
  ASSUME NEW a \in Int, NEW b \in Int
  PROVE  ToInt16(ToInt16(a) + ToInt16(b)) = ToInt16(a + b)
<1> DEFINE m == 2 * Half
           x == ToInt16(ToInt16(a) + ToInt16(b))
           y == ToInt16(a + b)
<1>0. m \in Nat \ {0}
  BY BallotConstants
<1>1. ToInt16(a) \in Int /\ ToInt16(b) \in Int
  BY Int16Range, BallotConstants
<1>2. PICK i \in Int : ToInt16(a) = a + i * m
  BY SameModulo
<1>3. PICK j \in Int : ToInt16(b) = b + j * m
  BY SameModulo
<1>4. PICK k \in Int : x = (ToInt16(a) + ToInt16(b)) + k * m
  <2>1. ToInt16(a) + ToInt16(b) \in Int
    BY <1>1
  <2> QED BY <2>1, SameModulo
<1>5. PICK l \in Int : y = (a + b) + l * m
  <2>1. a + b \in Int
    OBVIOUS
  <2> QED BY <2>1, SameModulo
<1>6. x \in (-Half)..(Half - 1) /\ y \in (-Half)..(Half - 1)
  BY <1>1, Int16Range
<1> HIDE DEF x, y, m
<1>7. x = y + (i + j + k - l) * m
  <2>1. (i + j + k - l) * m = i * m + j * m + k * m - l * m
    BY <1>0
  <2>2. i * m \in Int /\ j * m \in Int /\ k * m \in Int /\ l * m \in Int
    BY <1>0
  <2> QED BY <1>2, <1>3, <1>4, <1>5, <2>1, <2>2
<1>8. i + j + k - l \in Int
  OBVIOUS
<1>9. x = y
  BY <1>6, <1>7, <1>8, UniqueModulo DEF m
<1> QED BY <1>9 DEF x, y

\* A sum that fits is exact.
LEMMA FitsExactly ==
  ASSUME NEW n \in (-Half)..(Half - 1)
  PROVE  ToInt16(n) = n
<1>1. n \in Int
  BY BallotConstants
<1>2. ToInt16(n) \in (-Half)..(Half - 1)
  BY <1>1, Int16Range
<1>3. PICK k \in Int : ToInt16(n) = n + k * (2 * Half)
  BY <1>1, SameModulo
<1> QED BY <1>2, <1>3, UniqueModulo

------------------------------------------------------------------------------
(* The ballot. *)

\* The arbiter's sums are what the voters meant, reduced to 16 bits.
Counted ==
  /\ courses = [i \in CourseSet |-> ToInt16(tally.sum[i])]
  /\ veto = tally.veto

\* Among the courses below scanned, highestIndex is the first of those with
\* the most votes; highestValue is -1 as long as none of them can win.
ScanIsRight ==
  ballotPc \in {"scan", "elected"} =>
    /\ highestValue >= -1
    /\ highestValue >= 0 =>
         /\ highestIndex \in 0..(scanned - 1)
         /\ ~veto[highestIndex] /\ courses[highestIndex] = highestValue
    /\ \A j \in 0..(scanned - 1) :
         ~veto[j] => /\ courses[j] <= highestValue
                     /\ j < highestIndex /\ highestValue >= 0
                          => courses[j] < highestValue

ScanIsOver == ballotPc = "elected" => scanned = CourseCount

BallotInv == BallotTypeOK /\ Counted /\ ScanIsRight /\ ScanIsOver

\* A weighted vote is an integer.
LEMMA Product ==
  ASSUME NEW b \in Ballot, NEW i \in CourseSet, NEW v \in 1..VoterCount
  PROVE  b.votes[i] * Weight[v] \in Int
<1>1. b.votes[i] \in Int /\ Weight[v] \in Int
  BY BallotConstants DEF Ballot
<1> QED BY <1>1

\* No ballot has been cast, nothing has been scanned.
LEMMA BallotStarts == BallotInit => BallotInv
<1> SUFFICES ASSUME BallotInit PROVE BallotInv
  OBVIOUS
<1>1. ToInt16(0) = 0
  BY FitsExactly, BallotConstants
<1>2. Counted
  BY <1>1 DEF BallotInit, Counted, Zeroes, NoVeto
<1>3. BallotTypeOK
  BY BallotConstants DEF BallotInit, BallotTypeOK, Zeroes, NoVeto, CourseSet
<1> QED BY <1>2, <1>3 DEF BallotInit, BallotInv, ScanIsRight, ScanIsOver

\* clear() makes the tally agree with the exact sums again.
LEMMA StartKeeps == BallotInv /\ StartBallot => BallotInv'
<1> SUFFICES ASSUME BallotInv, StartBallot PROVE BallotInv'
  OBVIOUS
<1>1. ToInt16(0) = 0
  BY FitsExactly, BallotConstants
<1>2. Counted'
  BY <1>1 DEF StartBallot, Counted, Zeroes, NoVeto
<1>3. BallotTypeOK'
  BY BallotConstants DEF BallotInv, StartBallot, BallotTypeOK, Zeroes, NoVeto
<1> QED BY <1>2, <1>3 DEF StartBallot, BallotInv, ScanIsRight, ScanIsOver

\* A vote is added to both, modulo the width of the integers.
LEMMA CastKeeps == BallotInv /\ CastVote => BallotInv'
<1> SUFFICES ASSUME BallotInv, CastVote PROVE BallotInv'
  OBVIOUS
<1> USE DEF BallotInv
<1>1. PICK b \in Ballot :
        /\ courses' = [i \in CourseSet |->
                         ToInt16(courses[i] + ToInt16(b.votes[i] * Weight[voter]))]
        /\ veto' = [i \in CourseSet |-> veto[i] \/ b.veto[i]]
        /\ tally' = [sum |-> [i \in CourseSet |->
                                tally.sum[i] + b.votes[i] * Weight[voter]],
                     veto |-> [i \in CourseSet |-> tally.veto[i] \/ b.veto[i]]]
  BY DEF CastVote
<1>2. voter \in 1..VoterCount
  BY BallotConstants DEF CastVote, BallotTypeOK
<1> DEFINE p(i) == b.votes[i] * Weight[voter]
<1>3. \A i \in CourseSet : p(i) \in Int
  BY <1>2, Product
<1>4. \A i \in CourseSet : tally.sum[i] \in Int
  BY DEF BallotTypeOK
<1> HIDE DEF p
<1>5. tally'.sum = [i \in CourseSet |-> tally.sum[i] + p(i)]
  BY <1>1 DEF p
<1>6. courses' = [i \in CourseSet |-> ToInt16(tally'.sum[i])]
  <2> SUFFICES ASSUME NEW i \in CourseSet
               PROVE  ToInt16(courses[i] + ToInt16(p(i))) = ToInt16(tally'.sum[i])
    BY <1>1 DEF p
  <2>1. courses[i] = ToInt16(tally.sum[i])
    BY DEF Counted
  <2>2. tally'.sum[i] = tally.sum[i] + p(i)
    BY <1>5
  <2> QED BY <2>1, <2>2, <1>3, <1>4, SumModulo
<1>7. veto' = tally'.veto
  BY <1>1 DEF Counted
<1>8. BallotTypeOK'
  <2>1. tally'.sum \in [CourseSet -> Int]
    BY <1>3, <1>4, <1>5
  <2>2. \A i \in CourseSet : ToInt16(tally'.sum[i]) \in (-Half)..(Half - 1)
    BY <2>1, Int16Range
  <2>3. courses' \in [CourseSet -> (-Half)..(Half - 1)]
    BY <1>6, <2>2
  <2>4. veto' \in [CourseSet -> BOOLEAN] /\ tally'.veto \in [CourseSet -> BOOLEAN]
    BY <1>1 DEF Ballot, BallotTypeOK
  <2>5. tally' \in [sum : [CourseSet -> Int], veto : [CourseSet -> BOOLEAN]]
    BY <1>1, <2>1, <2>4
  <2>6. (voter + 1) \in 1..VoterCount + 1
    BY <1>2, BallotConstants
  <2> QED BY <2>3, <2>4, <2>5, <2>6 DEF CastVote, BallotTypeOK
<1> QED BY <1>6, <1>7, <1>8 DEF CastVote, Counted, ScanIsRight, ScanIsOver

\* A scan starts with nothing found.
LEMMA StartScanKeeps == BallotInv /\ StartScan => BallotInv'
<1> SUFFICES ASSUME BallotInv, StartScan PROVE BallotInv'
  OBVIOUS
<1> USE DEF BallotInv, StartScan
<1>1. BallotTypeOK'
  BY BallotConstants DEF BallotTypeOK
<1>2. Counted'
  BY DEF Counted
<1>3. ScanIsRight' /\ ScanIsOver'
  BY DEF ScanIsRight, ScanIsOver
<1> QED BY <1>1, <1>2, <1>3

\* One more course is compared with the best one so far.
LEMMA ScanKeeps == BallotInv /\ ScanCourse => BallotInv'
<1> SUFFICES ASSUME BallotInv, ScanCourse PROVE BallotInv'
  OBVIOUS
<1> USE DEF BallotInv, ScanCourse
<1>1. scanned \in CourseSet /\ scanned + 1 \in 0..CourseCount
  BY BallotConstants DEF BallotTypeOK, CourseSet
<1>2. /\ courses[scanned] \in (-Half)..(Half - 1)
      /\ \A j \in CourseSet : courses[j] \in Int
      /\ highestValue \in Int /\ highestIndex \in Int
  BY <1>1, BallotConstants DEF BallotTypeOK
<1>3. BallotTypeOK'
  BY <1>1, <1>2 DEF BallotTypeOK, CourseSet
<1>4. Counted'
  BY DEF Counted
<1>5. ScanIsRight'
  <2>1. \A j \in 0..scanned : j \in 0..(scanned - 1) \/ j = scanned
    BY <1>1 DEF CourseSet
  <2>2. \A j \in 0..scanned : courses[j] \in Int
    BY <1>1, <1>2, BallotConstants DEF CourseSet
  <2>3. /\ highestValue >= -1
        /\ highestValue >= 0 =>
             /\ highestIndex \in 0..(scanned - 1)
             /\ ~veto[highestIndex] /\ courses[highestIndex] = highestValue
        /\ \A j \in 0..(scanned - 1) :
             ~veto[j] => /\ courses[j] <= highestValue
                         /\ j < highestIndex /\ highestValue >= 0
                              => courses[j] < highestValue
    BY DEF ScanIsRight
  <2>4. scanned \in Int /\ scanned >= 0 /\ (scanned + 1) - 1 = scanned
    BY <1>1 DEF CourseSet
  <2>5. CASE Better(scanned)
    <3>1. highestIndex' = scanned /\ highestValue' = courses[scanned]
      BY <2>5
    <3>2. courses[scanned] > highestValue /\ ~veto[scanned]
      BY <2>5 DEF Better
    <3>3. \A j \in 0..scanned :
            ~veto[j] => /\ courses[j] <= courses[scanned]
                        /\ j < scanned => courses[j] < courses[scanned]
      BY <1>2, <2>1, <2>2, <2>3, <2>4, <3>2
    <3> QED BY <1>2, <2>3, <2>4, <3>1, <3>2, <3>3 DEF ScanIsRight
  <2>6. CASE ~Better(scanned)
    <3>1. highestIndex' = highestIndex /\ highestValue' = highestValue
      BY <2>6
    <3>2. veto[scanned] \/ courses[scanned] <= highestValue
      BY <1>2, <2>6 DEF Better
    <3>3. highestValue >= 0 => ~(scanned < highestIndex)
      BY <1>2, <2>3, <2>4
    <3>4. \A j \in 0..scanned :
            ~veto[j] => /\ courses[j] <= highestValue
                        /\ j < highestIndex /\ highestValue >= 0
                             => courses[j] < highestValue
      BY <2>1, <2>3, <3>2, <3>3
    <3>5. highestValue >= 0 => highestIndex \in 0..scanned
      BY <1>2, <2>3, <2>4
    <3> QED BY <2>3, <2>4, <3>1, <3>4, <3>5 DEF ScanIsRight
  <2> QED BY <2>5, <2>6
<1>6. ScanIsOver'
  BY DEF ScanIsOver
<1> QED BY <1>3, <1>4, <1>5, <1>6

\* All courses have been scanned when the winner is sent.
LEMMA SendKeeps == BallotInv /\ SendCourse => BallotInv'
BY DEF BallotInv, SendCourse, BallotTypeOK, Counted, ScanIsRight, ScanIsOver

\* The invariant is about the variables only.
LEMMA BallotStutters == BallotInv /\ UNCHANGED ballotVars => BallotInv'
BY DEF BallotInv, ballotVars, BallotTypeOK, Counted, ScanIsRight, ScanIsOver

\* The inductive invariant holds in every state of every ballot.
THEOREM BallotInvariance == BallotSpec => []BallotInv
<1>1. BallotInv /\ [BallotNext]_ballotVars => BallotInv'
  BY StartKeeps, CastKeeps, StartScanKeeps, ScanKeeps, SendKeeps, BallotStutters
     DEF BallotNext
<1> QED BY BallotStarts, <1>1, PTL DEF BallotSpec

\* The variables of LocalNavigationModule's ballot keep their types, the
\* arbiter's sums 16 bits.
THEOREM BallotTypeCorrect == BallotSpec => []BallotTypeOK
<1>1. BallotInv => BallotTypeOK
  BY DEF BallotInv
<1> QED BY BallotInvariance, <1>1, PTL

\* For any voters, votes and weights getWinner() elects the best course, though
\* sums may wrap around while votes are cast, as long as the last ones fit.
THEOREM WinnerIsElected == BallotSpec => []WinnerIsBest
<1>1. BallotInv => WinnerIsBest
  <2> SUFFICES ASSUME BallotInv, ballotPc = "elected", Fits, Eligible # {}
               PROVE  Best(highestIndex)
    BY DEF WinnerIsBest
  <2>1. CourseSet = 0..(scanned - 1) /\ scanned \in Int
    BY BallotConstants DEF BallotInv, ScanIsOver, CourseSet
  <2>2. \A i \in CourseSet : courses[i] = tally.sum[i] /\ courses[i] \in Int
    BY FitsExactly DEF BallotInv, Counted, Fits, BallotTypeOK
  <2>3. veto = tally.veto /\ highestValue \in Int /\ highestIndex \in Int
    BY BallotConstants DEF BallotInv, Counted, BallotTypeOK
  <2>4. /\ highestValue >= -1
        /\ highestValue >= 0 =>
             /\ highestIndex \in CourseSet
             /\ ~veto[highestIndex] /\ courses[highestIndex] = highestValue
        /\ \A j \in CourseSet :
             ~veto[j] => /\ courses[j] <= highestValue
                         /\ j < highestIndex /\ highestValue >= 0
                              => courses[j] < highestValue
    BY <2>1 DEF BallotInv, ScanIsRight
  <2>5. PICK e \in CourseSet : ~veto[e] /\ courses[e] >= 0
    BY <2>2, <2>3 DEF Eligible
  <2>6. highestValue >= 0
    BY <2>2, <2>3, <2>4, <2>5
  <2>7. highestIndex \in Eligible
    BY <2>2, <2>3, <2>4, <2>6 DEF Eligible
  <2>8. \A j \in Eligible : /\ tally.sum[j] <= tally.sum[highestIndex]
                            /\ j < highestIndex
                                 => tally.sum[j] < tally.sum[highestIndex]
    BY <2>2, <2>3, <2>4, <2>6 DEF Eligible
  <2> QED BY <2>7, <2>8 DEF Best
<1> QED BY BallotInvariance, <1>1, PTL

------------------------------------------------------------------------------
(* Actuation: the boat's own threads never bring commands out of order, for  *)
(* any number of courses and transmit buffers and any bounds on the queues.  *)

\* What a regulator has calculated is not newer than the course it knows, nor
\* that than the last one; the actuator's angles are not newer than either.
RegulatorsBehind ==
  \A r \in Regulators :
    /\ angle[r] <= target[r] /\ target[r] <= lastCourse
    /\ command[r] # 0 => angle[r] <= command[r] /\ command[r] <= target[r]

\* The number of a message on the bus lies between what its receiver knows and
\* what its sender knows.
Between(m) ==
  /\ m.to = "regulator" => target[m.which] <= m.number /\ m.number <= lastCourse
  /\ m.to = "actuator" =>
       /\ angle[m.which] <= m.number /\ m.number <= target[m.which]
       /\ command[m.which] # 0 => m.number <= command[m.which]
BusBetween == \A i \in 1..Len(bus) : Between(bus[i])

\* Messages of the same kind wait on the bus in the order of their numbers.
Follows(m, n) == m.to = n.to /\ m.which = n.which => m.number <= n.number
BusInOrder ==
  \A i, j \in 1..Len(bus) : i < j => Follows(bus[i], bus[j])

ActInv == /\ ActTypeOK /\ RegulatorsBehind /\ BusBetween /\ BusInOrder
          /\ FramesInOrder

\* With empty queues and neutral values everything is in order.
LEMMA ActStarts == ActInit => ActInv
<1> SUFFICES ASSUME ActInit PROVE ActInv
  OBVIOUS
<1> USE DEF ActInit
<1>1. 0 \in Numbers
  BY ActuationConstants DEF Numbers
<1>2. Neutral \in Frame /\ \A r \in Regulators : Neutral[r] = 0
  BY <1>1 DEF Neutral, Frame
<1>3. ActTypeOK
  BY <1>1, <1>2 DEF ActTypeOK
<1>4. RegulatorsBehind
  BY <1>2 DEF RegulatorsBehind
<1>5. BusBetween /\ BusInOrder
  BY DEF BusBetween, BusInOrder
<1>6. FramesInOrder
  BY DEF FramesInOrder
<1> QED BY <1>3, <1>4, <1>5, <1>6 DEF ActInv

\* All the numbers that are compared are integers.
LEMMA Values ==
  ASSUME ActTypeOK
  PROVE  /\ lastCourse \in Int
         /\ \A r \in Regulators : /\ target[r] \in Int /\ command[r] \in Int
                                  /\ angle[r] \in Int
         /\ \A m \in Messages : m.which \in Regulators /\ m.number \in Int
         /\ \A i \in 1..Len(bus) : bus[i] \in Messages
         /\ Len(bus) \in Nat
<1>1. \A n \in Numbers : n \in Int
  BY DEF Numbers
<1>2. \A i \in 1..Len(bus) : bus[i] \in Messages
  BY ElementOfSeq DEF ActTypeOK
<1>3. Len(bus) \in Nat
  BY LenProperties DEF ActTypeOK
<1> QED BY <1>1, <1>2, <1>3 DEF ActTypeOK, Frame, Messages

\* A new message that nothing on the bus follows keeps the bus in order.
LEMMA AppendInOrder ==
  ASSUME bus \in Seq(Messages), BusInOrder, NEW m \in Messages,
         \A i \in 1..Len(bus) : Follows(bus[i], m),
         bus' = Append(bus, m)
  PROVE  BusInOrder'
<1>1. /\ Len(bus') = Len(bus) + 1 /\ Len(bus) \in Nat
      /\ \A i \in 1..Len(bus) : bus'[i] = bus[i]
      /\ bus'[Len(bus) + 1] = m
  BY AppendProperties, LenProperties
<1> SUFFICES ASSUME NEW i \in 1..Len(bus'), NEW j \in 1..Len(bus'), i < j
             PROVE  Follows(bus'[i], bus'[j])
  BY DEF BusInOrder, Follows
<1>2. i \in 1..Len(bus)
  BY <1>1
<1>3. CASE j \in 1..Len(bus)
  BY <1>1, <1>2, <1>3 DEF BusInOrder
<1>4. CASE j = Len(bus) + 1
  BY <1>1, <1>2, <1>4
<1> QED BY <1>1, <1>3, <1>4

\* A message less keeps the bus in order.
LEMMA TailInOrder ==
  ASSUME bus \in Seq(Messages), bus # <<>>, BusInOrder, bus' = Tail(bus)
  PROVE  /\ BusInOrder' /\ Head(bus) = bus[1]
         /\ \A i \in 1..Len(bus') : /\ i + 1 \in 1..Len(bus)
                                    /\ bus'[i] = bus[i + 1]
                                    /\ Follows(Head(bus), bus'[i])
<1>1. /\ Len(bus') = Len(bus) - 1 /\ Len(bus) \in Nat \ {0}
      /\ \A i \in 1..Len(bus') : bus'[i] = bus[i + 1]
  BY HeadTailProperties, LenProperties, EmptySeq
<1>2. Head(bus) = bus[1]
  OBVIOUS
<1>3. \A i \in 1..Len(bus') : i + 1 \in 1..Len(bus) /\ 1 < i + 1
  BY <1>1
<1>4. \A i \in 1..Len(bus') : Follows(Head(bus), bus'[i])
  BY <1>1, <1>2, <1>3 DEF BusInOrder
<1>5. BusInOrder'
  <2> SUFFICES ASSUME NEW i \in 1..Len(bus'), NEW j \in 1..Len(bus'), i < j
               PROVE  Follows(bus'[i], bus'[j])
    BY DEF BusInOrder, Follows
  <2> QED BY <1>1, <1>3 DEF BusInOrder
<1> QED BY <1>1, <1>2, <1>3, <1>4, <1>5

\* A new course is newer than all that is on its way.
LEMMA NewCourseKeeps == ActInv /\ NewCourse => ActInv'
<1> SUFFICES ASSUME ActInv, NewCourse PROVE ActInv'
  OBVIOUS
<1> DEFINE n == lastCourse + 1
           m1 == ToRegulator("rudder", n)
           m2 == ToRegulator("wingsail", n)
<1>1. n \in Numbers /\ n \in Int /\ lastCourse \in Int /\ lastCourse' = n
  BY ActuationConstants DEF ActInv, ActTypeOK, Numbers, NewCourse
<1>2. m1 \in Messages /\ m2 \in Messages /\ <<m1, m2>> \in Seq(Messages)
  BY <1>1 DEF Messages, Regulators, ToRegulator
<1>3. bus \in Seq(Messages) /\ Len(bus) \in Nat
  BY LenProperties DEF ActInv, ActTypeOK
<1>4. bus' = bus \o <<m1, m2>>
  BY DEF NewCourse
<1>5. /\ bus' \in Seq(Messages) /\ Len(bus') = Len(bus) + 2
      /\ \A i \in 1..Len(bus) : bus'[i] = bus[i]
      /\ bus'[Len(bus) + 1] = m1 /\ bus'[Len(bus) + 2] = m2
  <2>1. Len(<<m1, m2>>) = 2 /\ <<m1, m2>>[1] = m1 /\ <<m1, m2>>[2] = m2
    OBVIOUS
  <2>2. /\ bus' \in Seq(Messages)
        /\ Len(bus') = Len(bus) + 2
        /\ \A i \in 1..(Len(bus) + 2) :
             bus'[i] = IF i <= Len(bus) THEN bus[i] ELSE <<m1, m2>>[i - Len(bus)]
    <3> HIDE DEF m1, m2
    <3> QED BY <1>2, <1>3, <1>4, <2>1, ConcatProperties
  <2>3. bus'[Len(bus) + 1] = <<m1, m2>>[1] /\ bus'[Len(bus) + 2] = <<m1, m2>>[2]
    <3>1. /\ Len(bus) + 1 \in 1..(Len(bus) + 2) /\ ~(Len(bus) + 1 <= Len(bus))
          /\ (Len(bus) + 1) - Len(bus) = 1
          /\ Len(bus) + 2 \in 1..(Len(bus) + 2) /\ ~(Len(bus) + 2 <= Len(bus))
          /\ (Len(bus) + 2) - Len(bus) = 2
      BY <1>3
    <3> QED BY <2>2, <3>1
  <2>4. \A i \in 1..Len(bus) : i \in 1..(Len(bus) + 2) /\ i <= Len(bus)
    BY <1>3
  <2> QED BY <2>1, <2>2, <2>3, <2>4
<1>6. \A i \in 1..Len(bus') : i \in 1..Len(bus) \/ i = Len(bus) + 1 \/ i = Len(bus) + 2
  BY <1>3, <1>5
<1>7. /\ m1.to = "regulator" /\ m1.which = "rudder" /\ m1.number = n
      /\ m2.to = "regulator" /\ m2.which = "wingsail" /\ m2.number = n
  BY DEF ToRegulator
<1> HIDE DEF m1, m2
<1>8. /\ \A r \in Regulators : /\ target[r] \in Int /\ command[r] \in Int
                               /\ angle[r] \in Int /\ target[r] <= lastCourse
      /\ \A i \in 1..Len(bus) : bus[i] \in Messages
      /\ \A m \in Messages : m.which \in Regulators /\ m.number \in Int
                             /\ m.to \in {"regulator", "actuator"}
  BY Values DEF ActInv, RegulatorsBehind, Messages
<1>9. ActTypeOK'
  BY <1>1, <1>5 DEF ActInv, ActTypeOK, NewCourse
<1>10. RegulatorsBehind'
  BY <1>1, <1>8 DEF ActInv, RegulatorsBehind, NewCourse
<1>11. BusBetween'
  <2>1. \A i \in 1..Len(bus) : Between(bus[i])'
    BY <1>1, <1>5, <1>8 DEF ActInv, BusBetween, Between, NewCourse
  <2>2. target["rudder"] <= n /\ target["wingsail"] <= n
    BY <1>1, <1>8 DEF Regulators
  <2> QED BY <1>1, <1>5, <1>6, <1>7, <2>1, <2>2 DEF BusBetween, Between, NewCourse
<1>12. BusInOrder'
  <2>1. \A i \in 1..Len(bus) : Follows(bus[i], m1) /\ Follows(bus[i], m2)
    BY <1>1, <1>7, <1>8 DEF ActInv, BusBetween, Between, Follows
  <2>2. Follows(m1, m2)
    BY <1>7 DEF Follows
  <2> SUFFICES ASSUME NEW i \in 1..Len(bus'), NEW j \in 1..Len(bus'), i < j
               PROVE  Follows(bus'[i], bus'[j])
    BY DEF BusInOrder, Follows
  <2>3. CASE i \in 1..Len(bus) /\ j \in 1..Len(bus)
    BY <1>5, <2>3 DEF ActInv, BusInOrder
  <2>4. CASE i \in 1..Len(bus) /\ j \notin 1..Len(bus)
    BY <1>5, <1>6, <2>1, <2>4
  <2>5. CASE i \notin 1..Len(bus)
    <3>1. i = Len(bus) + 1 /\ j = Len(bus) + 2
      BY <1>3, <1>6, <2>5
    <3> QED BY <1>5, <2>2, <3>1
  <2> QED BY <2>3, <2>4, <2>5
<1>13. FramesInOrder'
  BY DEF ActInv, FramesInOrder, NotNewer, NewCourse
<1> QED BY <1>9, <1>10, <1>11, <1>12, <1>13 DEF ActInv

\* The command calculated is the course the regulator knows.
LEMMA CalculateKeeps == ASSUME ActInv, NEW r \in Regulators, Calculate(r)
                        PROVE  ActInv'
<1>1. command' = [command EXCEPT ![r] = target[r]]
  BY DEF Calculate
<1>2. command \in Frame /\ target \in Frame /\ target[r] \in Numbers
  BY DEF ActInv, ActTypeOK, Frame
<1>3. \A q \in Regulators : command'[q] = IF q = r THEN target[r] ELSE command[q]
  BY <1>1, <1>2 DEF Frame
<1>4. ActTypeOK'
  <2>1. command' \in Frame
    BY <1>1, <1>2 DEF Frame
  <2> QED BY <2>1 DEF ActInv, ActTypeOK, Calculate
<1>5. \A q \in Regulators : target[q] \in Int
  BY Values DEF ActInv
<1>6. RegulatorsBehind'
  BY <1>3, <1>5 DEF ActInv, RegulatorsBehind, Calculate
<1>7. BusBetween'
  <2> SUFFICES ASSUME NEW i \in 1..Len(bus) PROVE Between(bus[i])'
    BY DEF BusBetween, Calculate
  <2>1. bus[i].which \in Regulators /\ Between(bus[i])
    BY Values DEF ActInv, BusBetween
  <2> QED BY <1>3, <2>1 DEF Between, Calculate
<1>8. BusInOrder' /\ FramesInOrder'
  BY DEF ActInv, BusInOrder, Follows, FramesInOrder, NotNewer, Calculate
<1> QED BY <1>4, <1>6, <1>7, <1>8 DEF ActInv

\* A command goes behind the older messages for the same actuator.
LEMMA SendCommandKeeps == ASSUME ActInv, NEW r \in Regulators, SendCommand(r)
                   PROVE  ActInv'
<1> DEFINE m == ToActuator(r, command[r])
<1>1. /\ m \in Messages
      /\ m.to = "actuator" /\ m.which = r /\ m.number = command[r]
  BY DEF ActInv, ActTypeOK, Frame, Messages, ToActuator
<1>2. /\ bus' = Append(bus, m) /\ command[r] # 0
      /\ command' = [command EXCEPT ![r] = 0]
  BY DEF SendCommand
<1>3. bus \in Seq(Messages) /\ command \in Frame /\ 0 \in Numbers
  BY ActuationConstants DEF ActInv, ActTypeOK, Numbers
<1>4. \A q \in Regulators : command'[q] = IF q = r THEN 0 ELSE command[q]
  BY <1>2, <1>3 DEF Frame
<1> HIDE DEF m
<1>5. /\ bus' \in Seq(Messages)
      /\ Len(bus') = Len(bus) + 1 /\ Len(bus) \in Nat
      /\ \A i \in 1..Len(bus) : bus'[i] = bus[i]
      /\ bus'[Len(bus) + 1] = m
  BY <1>1, <1>2, <1>3, AppendProperties, LenProperties
<1>6. ActTypeOK'
  <2>1. command' \in Frame
    BY <1>2, <1>3 DEF Frame
  <2> QED BY <1>5, <2>1 DEF ActInv, ActTypeOK, SendCommand
<1>7. RegulatorsBehind'
  BY <1>4 DEF ActInv, RegulatorsBehind, SendCommand
<1>8. \A i \in 1..Len(bus) : bus[i].which \in Regulators /\ Between(bus[i])
  BY Values DEF ActInv, BusBetween
<1>9. BusBetween'
  <2> SUFFICES ASSUME NEW i \in 1..Len(bus') PROVE Between(bus[i])'
    BY DEF BusBetween, Between
  <2>1. CASE i \in 1..Len(bus)
    BY <1>4, <1>5, <1>8, <2>1 DEF Between, SendCommand
  <2>2. CASE i = Len(bus) + 1
    <3>1. angle[r] <= command[r] /\ command[r] <= target[r]
      BY <1>2 DEF ActInv, RegulatorsBehind
    <3> QED BY <1>1, <1>4, <1>5, <2>2, <3>1 DEF Between, SendCommand
  <2> QED BY <1>5, <2>1, <2>2
<1>10. BusInOrder'
  <2>1. \A i \in 1..Len(bus) : Follows(bus[i], m)
    BY <1>1, <1>2, <1>8 DEF Between, Follows
  <2> QED BY <1>1, <1>2, <1>3, <2>1, AppendInOrder DEF ActInv
<1>11. FramesInOrder'
  BY DEF ActInv, FramesInOrder, NotNewer, SendCommand
<1> QED BY <1>6, <1>7, <1>9, <1>10, <1>11 DEF ActInv

\* A regulator takes the oldest course that waits for it.
LEMMA CourseHandledKeeps == ActInv /\ CourseHandled => ActInv'
<1> SUFFICES ASSUME ActInv, CourseHandled PROVE ActInv'
  OBVIOUS
<1> DEFINE h == Head(bus)
<1>1. /\ bus # <<>> /\ bus' = Tail(bus) /\ h.to = "regulator"
      /\ target' = [target EXCEPT ![h.which] = h.number]
  BY DEF CourseHandled
<1>2. bus \in Seq(Messages) /\ h \in Messages /\ bus' \in Seq(Messages)
  BY <1>1, HeadTailProperties DEF ActInv, ActTypeOK
<1>3. /\ BusInOrder' /\ h = bus[1]
      /\ \A i \in 1..Len(bus') : /\ i + 1 \in 1..Len(bus)
                                 /\ bus'[i] = bus[i + 1]
                                 /\ Follows(h, bus'[i])
  BY <1>1, <1>2, TailInOrder DEF ActInv
<1>4. /\ h.which \in Regulators /\ h.number \in Numbers /\ h.number \in Int
      /\ \A r \in Regulators : target[r] \in Int
      /\ \A r \in Regulators : angle[r] \in Int /\ command[r] \in Int
  BY <1>2, Values DEF ActInv, Messages
<1>5. 1 \in 1..Len(bus) /\ Len(bus) \in Nat
  BY <1>1, <1>2, LenProperties, EmptySeq
<1>6. target[h.which] <= h.number /\ h.number <= lastCourse
  BY <1>1, <1>3, <1>5 DEF ActInv, BusBetween, Between
<1>7. \A r \in Regulators :
        target'[r] = IF r = h.which THEN h.number ELSE target[r]
  BY <1>1, <1>4 DEF ActInv, ActTypeOK, Frame
<1> HIDE DEF h
<1>8. ActTypeOK'
  <2>1. target' \in Frame
    BY <1>1, <1>4 DEF ActInv, ActTypeOK, Frame
  <2> QED BY <1>2, <2>1 DEF ActInv, ActTypeOK, CourseHandled
<1>9. lastCourse \in Int
  BY Values DEF ActInv
<1>10. RegulatorsBehind'
  BY <1>4, <1>6, <1>7, <1>9 DEF ActInv, RegulatorsBehind, CourseHandled
<1>11. BusBetween'
  <2> SUFFICES ASSUME NEW i \in 1..Len(bus') PROVE Between(bus[i])'
    BY DEF BusBetween, Between
  <2>1. /\ bus'[i] \in Messages /\ Between(bus'[i]) /\ Follows(h, bus'[i])
        /\ bus'[i].which \in Regulators /\ bus'[i].number \in Int
    BY <1>3, Values DEF ActInv, BusBetween
  <2>2. CASE bus'[i].to = "regulator"
    BY <1>1, <1>4, <1>7, <2>1, <2>2 DEF Between, Follows, CourseHandled
  <2>3. CASE bus'[i].to # "regulator"
    <3>1. target[bus'[i].which] <= target'[bus'[i].which]
      BY <1>4, <1>6, <1>7, <2>1
    <3>2. target'[bus'[i].which] \in Int
      BY <1>4, <1>7, <2>1
    <3> QED BY <1>4, <2>1, <2>3, <3>1, <3>2 DEF Between, CourseHandled
  <2> QED BY <2>2, <2>3
<1>12. FramesInOrder'
  BY DEF ActInv, FramesInOrder, NotNewer, CourseHandled
<1> QED BY <1>3, <1>8, <1>10, <1>11, <1>12 DEF ActInv

\* Frames are compared by numbers, so NotNewer is transitive on them.
LEMMA NotNewerTransitive ==
  ASSUME NEW f \in Frame, NEW g \in Frame, NEW h \in Frame,
         NotNewer(f, g), NotNewer(g, h)
  PROVE  NotNewer(f, h)
<1>1. \A r \in Regulators : f[r] \in Int /\ g[r] \in Int /\ h[r] \in Int
  BY DEF Frame, Numbers
<1> QED BY <1>1 DEF NotNewer

\* All the frames on their way have the type of a frame.
LEMMA FrameValues ==
  ASSUME ActTypeOK
  PROVE  /\ \A i \in 1..Len(queue) : queue[i] \in Frame
         /\ \A b \in Buffers : buffer[b] # None => buffer[b].frame \in Frame
         /\ angle \in Frame /\ Len(queue) \in Nat
<1>1. \A i \in 1..Len(queue) : queue[i] \in Frame
  BY ElementOfSeq DEF ActTypeOK
<1>2. \A b \in Buffers : buffer[b] # None => buffer[b].frame \in Frame
  BY DEF ActTypeOK, Pending
<1> QED BY <1>1, <1>2, LenProperties DEF ActTypeOK

\* The frame made of both angles is not older than any queued one.
LEMMA CommandHandledKeeps == ActInv /\ CommandHandled => ActInv'
<1> SUFFICES ASSUME ActInv, CommandHandled PROVE ActInv'
  OBVIOUS
<1> DEFINE h == Head(bus)
<1>1. /\ bus # <<>> /\ bus' = Tail(bus) /\ h.to = "actuator"
      /\ angle' = [angle EXCEPT ![h.which] = h.number]
      /\ queue' = Append(queue, angle')
  BY DEF CommandHandled
<1>2. bus \in Seq(Messages) /\ h \in Messages /\ bus' \in Seq(Messages)
  BY <1>1, HeadTailProperties DEF ActInv, ActTypeOK
<1>3. /\ BusInOrder' /\ h = bus[1]
      /\ \A i \in 1..Len(bus') : /\ i + 1 \in 1..Len(bus)
                                 /\ bus'[i] = bus[i + 1]
                                 /\ Follows(h, bus'[i])
  BY <1>1, <1>2, TailInOrder DEF ActInv
<1>4. /\ h.which \in Regulators /\ h.number \in Numbers /\ h.number \in Int
      /\ \A r \in Regulators : /\ target[r] \in Int /\ angle[r] \in Int
                               /\ command[r] \in Int
  BY <1>2, Values DEF ActInv, Messages
<1>5. 1 \in 1..Len(bus) /\ Len(bus) \in Nat
  BY <1>1, <1>2, LenProperties, EmptySeq
<1>6. /\ angle[h.which] <= h.number /\ h.number <= target[h.which]
      /\ command[h.which] # 0 => h.number <= command[h.which]
  BY <1>1, <1>3, <1>5 DEF ActInv, BusBetween, Between
<1>7. \A r \in Regulators :
        angle'[r] = IF r = h.which THEN h.number ELSE angle[r]
  BY <1>1, <1>4 DEF ActInv, ActTypeOK, Frame
<1>8. angle' \in Frame /\ angle \in Frame
  BY <1>1, <1>4 DEF ActInv, ActTypeOK, Frame
<1> HIDE DEF h
<1>9. NotNewer(angle, angle') /\ NotNewer(angle', angle')
  BY <1>4, <1>6, <1>7 DEF NotNewer
<1>10. queue \in Seq(Frame)
  BY DEF ActInv, ActTypeOK
<1>11. /\ queue' \in Seq(Frame)
       /\ Len(queue') = Len(queue) + 1 /\ Len(queue) \in Nat
       /\ \A i \in 1..Len(queue) : queue'[i] = queue[i]
       /\ queue'[Len(queue) + 1] = angle'
  BY <1>1, <1>8, <1>10, AppendProperties, LenProperties
<1>12. \A i \in 1..Len(queue') : i \in 1..Len(queue) \/ i = Len(queue) + 1
  BY <1>11
<1>13. ActTypeOK'
  BY <1>2, <1>8, <1>11 DEF ActInv, ActTypeOK, CommandHandled
<1>14. RegulatorsBehind'
  BY <1>4, <1>6, <1>7 DEF ActInv, RegulatorsBehind, CommandHandled
<1>15. BusBetween'
  <2> SUFFICES ASSUME NEW i \in 1..Len(bus') PROVE Between(bus[i])'
    BY DEF BusBetween, Between
  <2>1. /\ Between(bus'[i]) /\ Follows(h, bus'[i])
        /\ bus'[i].which \in Regulators
    BY <1>3, Values DEF ActInv, BusBetween
  <2> QED BY <1>1, <1>7, <2>1 DEF Between, Follows, CommandHandled
<1>16. FramesInOrder'
  <2>1. \A i \in 1..Len(queue) : /\ NotNewer(queue[i], angle')
                                 /\ queue[i] \in Frame
    BY <1>8, <1>9, FrameValues, NotNewerTransitive DEF ActInv, FramesInOrder
  <2>2. \A b \in Buffers : buffer[b] # None => NotNewer(buffer[b].frame, angle')
    BY <1>8, <1>9, FrameValues, NotNewerTransitive DEF ActInv, FramesInOrder
  <2>3. \A i \in 1..Len(queue') : NotNewer(queue'[i], angle')
    BY <1>9, <1>11, <1>12, <2>1
  <2>4. \A i, j \in 1..Len(queue') : i < j => NotNewer(queue'[i], queue'[j])
    <3> SUFFICES ASSUME NEW i \in 1..Len(queue'), NEW j \in 1..Len(queue'), i < j
                 PROVE  NotNewer(queue'[i], queue'[j])
      OBVIOUS
    <3>1. i \in 1..Len(queue)
      BY <1>11
    <3>2. CASE j \in 1..Len(queue)
      BY <1>11, <3>1, <3>2 DEF ActInv, FramesInOrder
    <3>3. CASE j = Len(queue) + 1
      BY <1>11, <2>1, <3>1, <3>3
    <3> QED BY <1>12, <3>2, <3>3
  <2>5. \A b \in Buffers, i \in 1..Len(queue') :
          buffer[b] # None => NotNewer(buffer[b].frame, queue'[i])
    BY <1>11, <1>12, <2>2 DEF ActInv, FramesInOrder
  <2>6. buffer' = buffer
    BY DEF CommandHandled
  <2>7. (\A i \in 1..Len(queue) : NotNewer(queue[i], angle))'
    BY <2>3
  <2>8. (\A i, j \in 1..Len(queue) : i < j => NotNewer(queue[i], queue[j]))'
    BY <2>4
  <2>9. (\A b \in Buffers, i \in 1..Len(queue) :
           buffer[b] # None => NotNewer(buffer[b].frame, queue[i]))'
    BY <2>5, <2>6
  <2>10. (\A b \in Buffers : buffer[b] # None => NotNewer(buffer[b].frame, angle))'
    BY <2>2, <2>6
  <2> QED BY <2>7, <2>8, <2>9, <2>10 DEF FramesInOrder
<1> QED BY <1>3, <1>13, <1>14, <1>15, <1>16 DEF ActInv

\* The queue without its head: everything in it is not older than the head.
LEMMA QueueTail ==
  ASSUME ActInv, queue # <<>>, queue' = Tail(queue)
  PROVE  /\ queue' \in Seq(Frame) /\ Head(queue) \in Frame
         /\ NotNewer(Head(queue), angle)
         /\ \A i \in 1..Len(queue') : /\ i + 1 \in 1..Len(queue)
                                      /\ queue'[i] = queue[i + 1]
                                      /\ NotNewer(Head(queue), queue'[i])
<1>1. queue \in Seq(Frame)
  BY DEF ActInv, ActTypeOK
<1>2. /\ queue' \in Seq(Frame) /\ Head(queue) \in Frame
      /\ Len(queue') = Len(queue) - 1 /\ Len(queue) \in Nat \ {0}
      /\ \A i \in 1..Len(queue') : queue'[i] = queue[i + 1]
  BY <1>1, HeadTailProperties, LenProperties, EmptySeq
<1>3. Head(queue) = queue[1] /\ 1 \in 1..Len(queue)
  BY <1>2
<1>4. \A i \in 1..Len(queue') : i + 1 \in 1..Len(queue) /\ 1 < i + 1
  BY <1>2
<1>5. \A i \in 1..Len(queue') : NotNewer(Head(queue), queue'[i])
  BY <1>2, <1>3, <1>4 DEF ActInv, FramesInOrder
<1>6. NotNewer(Head(queue), angle)
  BY <1>3 DEF ActInv, FramesInOrder
<1> QED BY <1>2, <1>4, <1>5, <1>6

\* The oldest queued frame goes into a buffer.
LEMMA TransmitKeeps == ASSUME ActInv, NEW b \in Buffers, Transmit(b)
                       PROVE  ActInv'
<1> DEFINE f == Head(queue)
<1>1. /\ queue # <<>> /\ queue' = Tail(queue) /\ angle' = angle
      /\ buffer' = [buffer EXCEPT ![b] = [pending |-> TRUE, frame |-> f]]
  BY DEF Transmit
<1>2. /\ queue' \in Seq(Frame) /\ f \in Frame /\ NotNewer(f, angle)
      /\ \A i \in 1..Len(queue') : /\ i + 1 \in 1..Len(queue)
                                   /\ queue'[i] = queue[i + 1]
                                   /\ NotNewer(f, queue'[i])
  BY <1>1, QueueTail
<1> HIDE DEF f
<1>3. buffer' \in [Buffers -> Pending \cup {None}]
  BY <1>1, <1>2 DEF ActInv, ActTypeOK, Pending
<1>4. /\ buffer'[b].frame = f
      /\ \A c \in Buffers : c # b => buffer'[c] = buffer[c]
  BY <1>1 DEF ActInv, ActTypeOK
<1>5. ActTypeOK'
  BY <1>2, <1>3 DEF ActInv, ActTypeOK, Transmit
<1>6. RegulatorsBehind' /\ BusBetween' /\ BusInOrder'
  BY DEF ActInv, RegulatorsBehind, BusBetween, Between, BusInOrder, Follows,
         Transmit
<1>7. FramesInOrder'
  <2>1. (\A i \in 1..Len(queue) : NotNewer(queue[i], angle))'
    BY <1>1, <1>2 DEF ActInv, FramesInOrder
  <2>2. (\A i, j \in 1..Len(queue) : i < j => NotNewer(queue[i], queue[j]))'
    <3> SUFFICES ASSUME NEW i \in 1..Len(queue'), NEW j \in 1..Len(queue'), i < j
                 PROVE  NotNewer(queue'[i], queue'[j])
      OBVIOUS
    <3>1. i + 1 < j + 1
      BY <1>2, LenProperties
    <3> QED BY <1>2, <3>1 DEF ActInv, FramesInOrder
  <2>3. (\A c \in Buffers, i \in 1..Len(queue) :
           buffer[c] # None => NotNewer(buffer[c].frame, queue[i]))'
    BY <1>2, <1>4 DEF ActInv, FramesInOrder
  <2>4. (\A c \in Buffers : buffer[c] # None => NotNewer(buffer[c].frame, angle))'
    BY <1>1, <1>2, <1>4 DEF ActInv, FramesInOrder
  <2> QED BY <2>1, <2>2, <2>3, <2>4 DEF FramesInOrder
<1> QED BY <1>5, <1>6, <1>7 DEF ActInv

\* A queue that has lost its head is still in order.
LEMMA DroppedKeeps == ActInv /\ Dropped => ActInv'
<1> SUFFICES ASSUME ActInv, Dropped PROVE ActInv'
  OBVIOUS
<1>1. /\ queue # <<>> /\ queue' = Tail(queue) /\ angle' = angle
      /\ buffer' = buffer
  BY DEF Dropped
<1>2. /\ queue' \in Seq(Frame)
      /\ \A i \in 1..Len(queue') : /\ i + 1 \in 1..Len(queue)
                                   /\ queue'[i] = queue[i + 1]
  BY <1>1, QueueTail
<1>3. ActTypeOK'
  BY <1>2 DEF ActInv, ActTypeOK, Dropped
<1>4. RegulatorsBehind' /\ BusBetween' /\ BusInOrder'
  BY DEF ActInv, RegulatorsBehind, BusBetween, Between, BusInOrder, Follows,
         Dropped
<1>5. FramesInOrder'
  <2>1. (\A i \in 1..Len(queue) : NotNewer(queue[i], angle))'
    BY <1>1, <1>2 DEF ActInv, FramesInOrder
  <2>2. (\A i, j \in 1..Len(queue) : i < j => NotNewer(queue[i], queue[j]))'
    <3> SUFFICES ASSUME NEW i \in 1..Len(queue'), NEW j \in 1..Len(queue'), i < j
                 PROVE  NotNewer(queue'[i], queue'[j])
      OBVIOUS
    <3>1. i + 1 < j + 1
      BY <1>2, LenProperties
    <3> QED BY <1>2, <3>1 DEF ActInv, FramesInOrder
  <2>3. (\A c \in Buffers, i \in 1..Len(queue) :
           buffer[c] # None => NotNewer(buffer[c].frame, queue[i]))'
    BY <1>1, <1>2 DEF ActInv, FramesInOrder
  <2>4. (\A c \in Buffers : buffer[c] # None => NotNewer(buffer[c].frame, angle))'
    BY <1>1 DEF ActInv, FramesInOrder
  <2> QED BY <2>1, <2>2, <2>3, <2>4 DEF FramesInOrder
<1> QED BY <1>3, <1>4, <1>5 DEF ActInv

\* A buffer that is emptied leaves the others as they were.
LEMMA WireKeeps == ASSUME ActInv, NEW b \in Buffers, OnTheWire(b) PROVE ActInv'
<1>1. /\ buffer' = [buffer EXCEPT ![b] = None] /\ buffer[b] # None
      /\ applied' = buffer[b].frame
      /\ queue' = queue /\ angle' = angle
  BY DEF OnTheWire
<1>2. buffer' \in [Buffers -> Pending \cup {None}] /\ applied' \in Frame
  BY <1>1, FrameValues DEF ActInv, ActTypeOK
<1>3. buffer'[b] = None /\ \A c \in Buffers : c # b => buffer'[c] = buffer[c]
  BY <1>1 DEF ActInv, ActTypeOK
<1>4. ActTypeOK'
  BY <1>2 DEF ActInv, ActTypeOK, OnTheWire
<1>5. RegulatorsBehind' /\ BusBetween' /\ BusInOrder'
  BY DEF ActInv, RegulatorsBehind, BusBetween, Between, BusInOrder, Follows,
         OnTheWire
<1>6. FramesInOrder'
  BY <1>1, <1>3 DEF ActInv, FramesInOrder
<1> QED BY <1>4, <1>5, <1>6 DEF ActInv

\* The invariant is about the variables only.
LEMMA ActStutters == ActInv /\ UNCHANGED actVars => ActInv'
BY DEF ActInv, ActTypeOK, RegulatorsBehind, BusBetween, Between, BusInOrder,
       Follows, FramesInOrder, NotNewer, actVars

\* The inductive invariant: numbers do not decrease on the way from the last
\* course to the angles, nor in any queue on that way.
THEOREM ActInvariance == ActSpec => []ActInv
<1>1. ActInv /\ [ActNext]_actVars => ActInv'
  BY NewCourseKeeps, CourseHandledKeeps, CommandHandledKeeps, DroppedKeeps,
     TransmitKeeps, CalculateKeeps, SendCommandKeeps, WireKeeps, ActStutters
     DEF ActNext, Delivery, CANThread
<1> QED BY ActStarts, <1>1, PTL DEF ActSpec

\* The variables of regulators, actuator node and CANService keep their types.
THEOREM ActTypeCorrect == ActSpec => []ActTypeOK
<1>1. ActInv => ActTypeOK
  BY DEF ActInv
<1> QED BY ActInvariance, <1>1, PTL

\* No frame in CANService's queue or the controller's buffers is newer than one
\* behind it, whatever frames are dropped: with any number of buffers only the
\* controller's choice among them can bring commands out of order.
THEOREM FramesStayInOrder == ActSpec => []FramesInOrder
<1>1. ActInv => FramesInOrder
  BY DEF ActInv
<1> QED BY ActInvariance, <1>1, PTL

------------------------------------------------------------------------------
(* SensorNodes: its variables keep their types, and what a node sends that   *)
(* takes its lock on both sides has, for each kind of frame, the values of   *)
(* one frame.                                                                *)

Guarded == Sensors \ Unguarded

\* The lock of a guarded node is held by the thread that is inside.
LockHeld(s) ==
  /\ locked[s] = "can" <=> writing[s] # 0
  /\ locked[s] \in {"node", "bus"} <=> reading[s] # 0

\* The CAN thread still has to set this member from the frame it is at.
Late(s, f) == writing[s] # 0 /\ writing[s] <= f /\ KindOf[s][f] = arriving[s]

\* Every other member has the value of the last frame of its kind, a late one
\* that of the frame before.
Written(s) ==
  \A f \in Members :
    member[s][f] = frames[s][KindOf[s][f]] - (IF Late(s, f) THEN 1 ELSE 0)

\* What has been read so far is what the members still hold.
CopiedSoFar(s) ==
  \A f \in Members : f < reading[s] => message[s][f] = member[s][f]

Exclusion(s) == /\ LockHeld(s) /\ Written(s) /\ CopiedSoFar(s)
                /\ Whole(s, sent[s])

SensorInv == SensorTypeOK /\ \A s \in Guarded : Exclusion(s)

\* The variables of the sensor nodes start and stay within their types.
LEMMA SensorTypeInit == SensorInit => SensorTypeOK
BY SensorConstants DEF SensorInit, SensorTypeOK, Nothing, Readings, Members,
   Nobody

\* No step of the CAN thread, of a node's thread or of the bus leaves the types.
LEMMA SensorTypeStep == SensorTypeOK /\ [SensorNext]_sensorVars => SensorTypeOK'
<1> SUFFICES ASSUME SensorTypeOK, [SensorNext]_sensorVars
             PROVE  SensorTypeOK'
  OBVIOUS
<1> USE SensorConstants DEF SensorTypeOK, Members, Nobody
<1>1. ASSUME NEW s \in Sensors, NEW k \in Kinds, FrameComes(s, k)
      PROVE  SensorTypeOK'
  <2>1. frames[s] \in [Kinds -> Nat] /\ frames[s][k] + 1 \in Nat
    OBVIOUS
  <2>2. [frames[s] EXCEPT ![k] = frames[s][k] + 1] \in [Kinds -> Nat]
    BY <2>1
  <2>3. frames' = [frames EXCEPT ![s] = [frames[s] EXCEPT ![k] = frames[s][k] + 1]]
    BY <1>1 DEF FrameComes
  <2>4. frames' \in [Sensors -> [Kinds -> Nat]]
    BY <2>2, <2>3
  <2>5. arriving' \in [Sensors -> Kinds \cup {NoFrame}]
    BY <1>1 DEF FrameComes
  <2>6. served' \in 0..MaxFrames /\ writing' \in [Sensors -> 0..MemberCount + 1]
    BY <1>1 DEF FrameComes
  <2>7. locked' \in [Sensors -> {"can", "node", "bus", Nobody}]
    BY <1>1 DEF FrameComes, Holds
  <2> QED BY <1>1, <2>4, <2>5, <2>6, <2>7 DEF FrameComes
<1>2. ASSUME NEW s \in Sensors, WriteMember(s) PROVE SensorTypeOK'
  <2>1. writing' \in [Sensors -> 0..MemberCount + 1]
    BY <1>2 DEF WriteMember
  <2>2. member' \in [Sensors -> Readings]
    <3>1. CASE ~InBranch(s)
      BY <1>2, <3>1 DEF WriteMember
    <3>2. CASE InBranch(s)
      <4>1. KindOf[s][writing[s]] \in Kinds
        BY <1>2 DEF WriteMember
      <4>2. member[s] \in Readings /\ frames[s][arriving[s]] \in Nat
        BY <3>2, <4>1 DEF InBranch
      <4>3. [member[s] EXCEPT ![writing[s]] = frames[s][arriving[s]]] \in Readings
        BY <1>2, <4>2 DEF WriteMember, Readings
      <4>4. member' = [member EXCEPT ![s] =
                         [member[s] EXCEPT ![writing[s]] = frames[s][arriving[s]]]]
        BY <1>2, <3>2 DEF WriteMember
      <4> QED BY <4>3, <4>4
    <3> QED BY <3>1, <3>2
  <2> QED BY <1>2, <2>1, <2>2 DEF WriteMember
<1>3. ASSUME NEW s \in Sensors, FrameDone(s) PROVE SensorTypeOK'
  <2>1. locked' \in [Sensors -> {"can", "node", "bus", Nobody}]
    BY <1>3 DEF FrameDone, Holds
  <2>2. arriving' \in [Sensors -> Kinds \cup {NoFrame}]
    BY <1>3 DEF FrameDone
  <2>3. writing' \in [Sensors -> 0..MemberCount + 1]
    BY <1>3 DEF FrameDone
  <2>4. UNCHANGED <<served, frames, member, reading, message, sent>>
    BY <1>3 DEF FrameDone
  <2> QED BY <2>1, <2>2, <2>3, <2>4
<1>4. ASSUME NEW s \in Sensors, Wake(s) \/ DataRequested(s) PROVE SensorTypeOK'
  <2>1. PICK who \in {"node", "bus"} : MakeMessage(s, who)
    BY <1>4 DEF Wake, DataRequested
  <2>2. locked' \in [Sensors -> {"can", "node", "bus", Nobody}]
    BY <2>1 DEF MakeMessage, Holds
  <2>3. reading' \in [Sensors -> 0..MemberCount + 1]
    BY <2>1 DEF MakeMessage
  <2> QED BY <2>1, <2>2, <2>3 DEF MakeMessage
<1>5. ASSUME NEW s \in Sensors, ReadMember(s) PROVE SensorTypeOK'
  <2>1. message[s] \in Readings /\ member[s] \in Readings
    OBVIOUS
  <2>2. [message[s] EXCEPT ![reading[s]] = member[s][reading[s]]] \in Readings
    BY <1>5, <2>1 DEF ReadMember, Readings
  <2>3. message' = [message EXCEPT ![s] =
                      [message[s] EXCEPT ![reading[s]] = member[s][reading[s]]]]
    BY <1>5 DEF ReadMember
  <2>4. message' \in [Sensors -> Readings]
    BY <2>2, <2>3
  <2>5. reading' \in [Sensors -> 0..MemberCount + 1]
    BY <1>5 DEF ReadMember
  <2> QED BY <1>5, <2>4, <2>5 DEF ReadMember
<1>6. ASSUME NEW s \in Sensors, SendReading(s) PROVE SensorTypeOK'
  <2>1. Nothing \in Readings
    BY DEF Nothing, Readings
  <2> QED BY <1>6, <2>1 DEF SendReading, Holds
<1>7. CASE UNCHANGED sensorVars
  BY <1>7 DEF sensorVars
<1> QED
  BY <1>1, <1>2, <1>3, <1>4, <1>5, <1>6, <1>7
  DEF SensorNext, CANWrites, SensorThread, Sleep

\* At the start nobody is inside and nothing has come.
LEMMA ExclusionInit == SensorInit => \A s \in Guarded : Exclusion(s)
<1> SUFFICES ASSUME SensorInit, NEW s \in Guarded PROVE Exclusion(s)
  OBVIOUS
<1>1. /\ member[s] = Nothing /\ sent[s] = Nothing
      /\ locked[s] = Nobody /\ writing[s] = 0 /\ reading[s] = 0
      /\ frames[s] = [k \in Kinds |-> 0]
  BY DEF SensorInit, Guarded
<1>2. \A f \in Members : /\ Nothing[f] = 0 /\ ~(f < 0)
                         /\ KindOf[s][f] \in Kinds
  BY SensorConstants DEF Nothing, Members, Guarded
<1>3. LockHeld(s)
  BY <1>1 DEF LockHeld, Nobody
<1>4. Whole(s, sent[s])
  BY <1>1, <1>2 DEF Whole
<1>5. Written(s) /\ CopiedSoFar(s)
  BY <1>1, <1>2 DEF Written, Late, CopiedSoFar
<1> QED BY <1>3, <1>4, <1>5 DEF Exclusion

\* A step leaves alone what it does not mention of a guarded node.
LEMMA Untouched ==
  ASSUME NEW s \in Guarded, Exclusion(s),
         UNCHANGED <<frames[s], member[s], locked[s], arriving[s], writing[s],
                     reading[s], message[s], sent[s]>>
  PROVE  Exclusion(s)'
BY DEF Exclusion, LockHeld, Written, Late, CopiedSoFar, Whole

\* A frame of any kind at the free lock: its members become late.
LEMMA ExclusionFrame ==
  ASSUME SensorInv, NEW s \in Guarded, NEW k \in Kinds, FrameComes(s, k)
  PROVE  Exclusion(s)'
<1>1. SensorTypeOK /\ Exclusion(s) /\ s \in Sensors /\ s \notin Unguarded
  BY DEF SensorInv, Guarded
<1>2. /\ writing[s] = 0 /\ locked[s] = Nobody
      /\ frames'[s] = [frames[s] EXCEPT ![k] = frames[s][k] + 1]
      /\ arriving'[s] = k /\ writing'[s] = 1 /\ locked'[s] = "can"
      /\ UNCHANGED <<member, reading, message, sent>>
  BY <1>1 DEF FrameComes, Holds, SensorTypeOK
<1>3. reading[s] = 0
  BY <1>1, <1>2 DEF Exclusion, LockHeld, Nobody
<1>4. LockHeld(s)'
  BY <1>2, <1>3 DEF LockHeld
<1>5. Written(s)'
  <2>1. \A f \in Members : /\ f \in Nat \ {0} /\ KindOf[s][f] \in Kinds
                           /\ frames[s][KindOf[s][f]] \in Nat
                           /\ member[s][f] = frames[s][KindOf[s][f]]
    BY <1>1, <1>2, SensorConstants
    DEF Exclusion, Written, Late, Members, SensorTypeOK
  <2>2. \A f \in Members :
          frames'[s][KindOf[s][f]] =
            frames[s][KindOf[s][f]] + (IF KindOf[s][f] = k THEN 1 ELSE 0)
    BY <1>1, <1>2, <2>1 DEF SensorTypeOK
  <2>3. \A f \in Members : Late(s, f)' <=> KindOf[s][f] = k
    BY <1>2, <2>1 DEF Late
  <2> QED BY <1>2, <2>1, <2>2, <2>3 DEF Written
<1>6. CopiedSoFar(s)' /\ Whole(s, sent[s])'
  BY <1>1, <1>2 DEF Exclusion, CopiedSoFar, Whole
<1> QED BY <1>4, <1>5, <1>6 DEF Exclusion

\* The member the CAN thread comes to is late no more.
LEMMA ExclusionWrite ==
  ASSUME SensorInv, NEW s \in Guarded, WriteMember(s)
  PROVE  Exclusion(s)'
<1>1. SensorTypeOK /\ Exclusion(s) /\ s \in Sensors
  BY DEF SensorInv, Guarded
<1>2. /\ writing[s] \in Members /\ writing[s] \in Nat \ {0}
      /\ writing'[s] = writing[s] + 1
      /\ frames' = frames /\ arriving' = arriving
      /\ locked' = locked /\ reading' = reading
      /\ message' = message /\ sent' = sent
  BY <1>1, SensorConstants DEF WriteMember, SensorTypeOK, Members
<1>3. LockHeld(s)' /\ reading[s] = 0
  BY <1>1, <1>2 DEF Exclusion, LockHeld
<1>4. \A f \in Members : f \in Nat \ {0} /\ member'[s][f] =
        IF f = writing[s] /\ InBranch(s) THEN frames[s][arriving[s]]
        ELSE member[s][f]
  <2>1. \A f \in Members : f \in Nat \ {0}
    BY SensorConstants DEF Members
  <2>2. member \in [Sensors -> Readings] /\ DOMAIN member[s] = Members
    BY <1>1 DEF SensorTypeOK, Readings
  <2>3. CASE InBranch(s)
    <3>1. member'[s] = [member[s] EXCEPT ![writing[s]] = frames[s][arriving[s]]]
      BY <1>1, <2>2, <2>3 DEF WriteMember
    <3> QED BY <2>1, <2>2, <2>3, <3>1
  <2>4. CASE ~InBranch(s)
    BY <2>1, <2>4 DEF WriteMember
  <2> QED BY <2>3, <2>4
<1>5. \A f \in Members : /\ KindOf[s][f] \in Kinds
                         /\ frames[s][KindOf[s][f]] \in Nat
  BY <1>1, SensorConstants DEF SensorTypeOK
<1>6. \A f \in Members :
        Late(s, f)' <=> Late(s, f) /\ ~(f = writing[s] /\ InBranch(s))
  BY <1>2, <1>4 DEF Late, InBranch
<1>7. Written(s)'
  BY <1>1, <1>2, <1>4, <1>5, <1>6 DEF Exclusion, Written, InBranch
<1>8. CopiedSoFar(s)' /\ Whole(s, sent[s])'
  BY <1>1, <1>2, <1>3, <1>4 DEF Exclusion, CopiedSoFar, Whole
<1> QED BY <1>3, <1>7, <1>8 DEF Exclusion

\* With the last member behind it, the CAN thread leaves none late.
LEMMA ExclusionDone ==
  ASSUME SensorInv, NEW s \in Guarded, FrameDone(s)
  PROVE  Exclusion(s)'
<1>1. SensorTypeOK /\ Exclusion(s) /\ s \in Sensors /\ s \notin Unguarded
  BY DEF SensorInv, Guarded
<1>2. /\ writing[s] = MemberCount + 1 /\ writing'[s] = 0
      /\ locked'[s] = Nobody
      /\ UNCHANGED <<frames, member, reading, message, sent>>
  BY <1>1 DEF FrameDone, Holds, SensorTypeOK
<1>3. LockHeld(s)'
  BY <1>1, <1>2, SensorConstants DEF Exclusion, LockHeld, Nobody
<1>4. \A f \in Members : ~Late(s, f) /\ ~Late(s, f)'
  BY <1>2, SensorConstants DEF Late, Members
<1>5. Written(s)'
  BY <1>1, <1>2, <1>4 DEF Exclusion, Written
<1>6. CopiedSoFar(s)' /\ Whole(s, sent[s])'
  BY <1>1, <1>2 DEF Exclusion, CopiedSoFar, Whole
<1> QED BY <1>3, <1>5, <1>6 DEF Exclusion

\* A message is begun only while nobody writes, and has no values yet.
LEMMA ExclusionMake ==
  ASSUME SensorInv, NEW s \in Guarded, Wake(s) \/ DataRequested(s)
  PROVE  Exclusion(s)'
<1>1. SensorTypeOK /\ Exclusion(s) /\ s \in Sensors
  BY DEF SensorInv, Guarded
<1>2. PICK who \in {"node", "bus"} : MakeMessage(s, who)
  BY DEF Wake, DataRequested
<1>3. /\ locked[s] = Nobody /\ reading[s] = 0
      /\ locked'[s] = who /\ reading'[s] = 1
      /\ UNCHANGED <<frames, member, arriving, writing, message, sent>>
  BY <1>1, <1>2 DEF MakeMessage, Holds, SensorTypeOK
<1>4. LockHeld(s)'
  BY <1>1, <1>3 DEF Exclusion, LockHeld, Nobody
<1>5. CopiedSoFar(s)'
  BY <1>3, SensorConstants DEF CopiedSoFar, Members
<1>6. Written(s)' /\ Whole(s, sent[s])'
  BY <1>1, <1>3 DEF Exclusion, Written, Late, Whole
<1> QED BY <1>4, <1>5, <1>6 DEF Exclusion

\* One more value goes into the message.
LEMMA ExclusionRead ==
  ASSUME SensorInv, NEW s \in Guarded, ReadMember(s)
  PROVE  Exclusion(s)'
<1>1. SensorTypeOK /\ Exclusion(s) /\ s \in Sensors
  BY DEF SensorInv, Guarded
<1>2. /\ reading[s] \in Members /\ reading[s] \in Nat \ {0}
      /\ reading'[s] = reading[s] + 1
      /\ message'[s] = [message[s] EXCEPT ![reading[s]] = member[s][reading[s]]]
      /\ UNCHANGED <<frames, locked, arriving, writing, member, sent>>
  BY <1>1, SensorConstants DEF ReadMember, SensorTypeOK, Members
<1>3. LockHeld(s)'
  BY <1>1, <1>2 DEF Exclusion, LockHeld
<1>4. \A f \in Members : f \in Nat \ {0} /\ message'[s][f] =
        IF f = reading[s] THEN member[s][f] ELSE message[s][f]
  <2>1. message[s] \in Readings /\ \A f \in Members : f \in Nat \ {0}
    BY <1>1, SensorConstants DEF SensorTypeOK, Members
  <2>2. DOMAIN message[s] = Members
    BY <2>1 DEF Readings
  <2> QED BY <1>2, <2>1, <2>2
<1>5. CopiedSoFar(s)'
  BY <1>1, <1>2, <1>4 DEF Exclusion, CopiedSoFar
<1>6. Written(s)' /\ Whole(s, sent[s])'
  BY <1>1, <1>2 DEF Exclusion, Written, Late, Whole
<1> QED BY <1>3, <1>5, <1>6 DEF Exclusion

\* The message has all values, each that of the last frame of its kind.
LEMMA ExclusionSend ==
  ASSUME SensorInv, NEW s \in Guarded, SendReading(s)
  PROVE  Exclusion(s)'
<1>1. SensorTypeOK /\ Exclusion(s) /\ s \in Sensors
  BY DEF SensorInv, Guarded
<1>2. /\ reading[s] = MemberCount + 1 /\ reading'[s] = 0
      /\ locked'[s] = Nobody /\ sent'[s] = message[s]
      /\ UNCHANGED <<frames, member, arriving, writing>>
  BY <1>1 DEF SendReading, Holds, SensorTypeOK
<1>3. writing[s] = 0
  BY <1>1, <1>2, SensorConstants DEF Exclusion, LockHeld
<1>4. LockHeld(s)'
  BY <1>2, <1>3 DEF LockHeld, Nobody
<1>5. \A f \in Members : message[s][f] = frames[s][KindOf[s][f]]
  <2>1. \A f \in Members : /\ f < reading[s] /\ KindOf[s][f] \in Kinds
                           /\ frames[s][KindOf[s][f]] \in Nat
    BY <1>1, <1>2, SensorConstants DEF Members, SensorTypeOK
  <2> QED BY <1>1, <1>3, <2>1 DEF Exclusion, CopiedSoFar, Written, Late
<1>6. Whole(s, sent[s])'
  BY <1>2, <1>5 DEF Whole
<1>7. Written(s)'
  BY <1>1, <1>2 DEF Exclusion, Written, Late
<1>8. CopiedSoFar(s)'
  BY <1>2, SensorConstants DEF CopiedSoFar, Members
<1> QED BY <1>4, <1>6, <1>7, <1>8 DEF Exclusion

\* Every step keeps the lock's promise at every guarded node.
LEMMA ExclusionStep ==
  SensorInv /\ [SensorNext]_sensorVars => \A s \in Guarded : Exclusion(s)'
<1> SUFFICES ASSUME SensorInv, [SensorNext]_sensorVars, NEW s \in Guarded
             PROVE  Exclusion(s)'
  OBVIOUS
<1>0. SensorTypeOK /\ Exclusion(s) /\ s \in Sensors
  BY DEF SensorInv, Guarded
<1>1. ASSUME NEW t \in Sensors, t # s,
             \/ \E k \in Kinds : FrameComes(t, k)
             \/ WriteMember(t) \/ FrameDone(t)
             \/ Wake(t) \/ DataRequested(t) \/ ReadMember(t) \/ SendReading(t)
      PROVE  Exclusion(s)'
  <2> UNCHANGED <<frames[s], member[s], locked[s], arriving[s], writing[s],
                  reading[s], message[s], sent[s]>>
    BY <1>0, <1>1 DEF FrameComes, WriteMember, FrameDone, Wake, DataRequested,
       MakeMessage, ReadMember, SendReading, Holds, SensorTypeOK
  <2> QED BY <1>0, Untouched
<1>2. CASE UNCHANGED sensorVars
  BY <1>0, <1>2, Untouched DEF sensorVars
<1> QED
  BY <1>0, <1>1, <1>2, ExclusionFrame, ExclusionWrite, ExclusionDone,
     ExclusionMake, ExclusionRead, ExclusionSend
  DEF SensorNext, CANWrites, SensorThread, Sleep

\* The types and the lock's promise hold throughout, for any number of nodes,
\* members and frames.
THEOREM SensorInvariance == SensorSpec => []SensorInv
<1>1. SensorInit => SensorInv
  BY SensorTypeInit, ExclusionInit DEF SensorInv
<1>2. SensorInv /\ [SensorNext]_sensorVars => SensorInv'
  <2> SUFFICES ASSUME SensorInv, [SensorNext]_sensorVars PROVE SensorInv'
    OBVIOUS
  <2>1. SensorTypeOK'
    BY SensorTypeStep DEF SensorInv
  <2>2. \A s \in Guarded : Exclusion(s)'
    BY ExclusionStep
  <2> QED BY <2>1, <2>2 DEF SensorInv, Guarded
<1> QED BY <1>1, <1>2, PTL DEF SensorSpec

\* Type correctness of the sensor nodes.
THEOREM SensorTypeCorrect == SensorSpec => []SensorTypeOK
<1>1. SensorInv => SensorTypeOK
  BY DEF SensorInv
<1> QED BY <1>1, SensorInvariance, PTL

\* A node that takes m_lock for every frame, as CANWindsensorNode does, never
\* sends the values of two frames of one kind in one message, neither from its
\* own thread nor in answer to a DataRequest.
THEOREM GuardedReadingsStayWhole == SensorSpec => []GuardedReadingsWhole
<1>1. SensorInv => GuardedReadingsWhole
  BY DEF SensorInv, Guarded, Exclusion, GuardedReadingsWhole
<1> QED BY <1>1, SensorInvariance, PTL
------------------------------------------------------------------------------
(* The components side by side.                                              *)

\* In every step of the composition each component makes a step of its own or
\* none.
LEMMA OnboardSteps ==
  [OnboardNext]_onboardVars =>
    /\ [HTTPNext]_httpVars /\ [LineNext]_lineVars /\ [BallotNext]_ballotVars
    /\ [ActNext]_actVars /\ [SensorNext]_sensorVars /\ [RadioNext]_radioVars
<1> SUFFICES ASSUME [OnboardNext]_onboardVars
             PROVE  /\ [HTTPNext]_httpVars /\ [LineNext]_lineVars /\ [BallotNext]_ballotVars
                    /\ [ActNext]_actVars /\ [SensorNext]_sensorVars /\ [RadioNext]_radioVars
  OBVIOUS
<1>1. CASE InHTTP(HTTPNext)
  BY <1>1 DEF InHTTP
<1>2. CASE InLine(LineNext)
  BY <1>2 DEF InLine
<1>3. CASE InBallot(BallotNext)
  BY <1>3 DEF InBallot
<1>4. CASE InActuation(ActNext)
  BY <1>4 DEF InActuation
<1>5. CASE InSensors(SensorNext)
  BY <1>5 DEF InSensors
<1>6. CASE InRadio(RadioNext)
  BY <1>6 DEF InRadio
<1>7. CASE UNCHANGED onboardVars
  BY <1>7 DEF onboardVars
<1> QED
  BY <1>1, <1>2, <1>3, <1>4, <1>5, <1>6, <1>7 DEF OnboardNext

\* The composition is faithful to its parts: each of the six components behaves in
\* it as its own specification says, so that what is proved of one holds in it.
THEOREM OnboardParts ==
  OnboardSpec => HTTPSpec /\ LineSpec /\ BallotSpec /\ ActSpec /\ SensorSpec /\ RadioSpec
<1>1. OnboardInit => HTTPInit /\ LineInit /\ BallotInit /\ ActInit /\ SensorInit /\ RadioInit
  BY DEF OnboardInit
<1> QED
  BY <1>1, OnboardSteps, PTL DEF OnboardSpec, HTTPSpec, LineSpec, BallotSpec, ActSpec,
     SensorSpec, RadioSpec

\* OnboardTypeOK: the types of HTTPSyncNode, LineFollowNode, the ballots, the way of a
\* command to the CAN bus, the sensor nodes and the packet network.
THEOREM OnboardTypeCorrect == OnboardSpec => []OnboardTypeOK
<1>1. HTTPTypeOK /\ LineTypeOK /\ BallotTypeOK /\ ActTypeOK /\ SensorTypeOK /\ RadioTypeOK
        => OnboardTypeOK
  BY DEF OnboardTypeOK
<1> QED
  BY <1>1, OnboardParts, HTTPTypeCorrect, LineTypeCorrect, BallotTypeCorrect,
     ActTypeCorrect, SensorTypeCorrect, RadioTypeCorrect, PTL
==============================================================================
