----------------------------- MODULE LineFollow ------------------------------
(***************************************************************************)
(* NavigationSystem/Navigation/LineFollowNode: the node that turns the     *)
(* current leg, the boat's position and the wind into a course.  Handlers  *)
(* store what the bus brings under m_lock.  The thread first looks, and    *)
(* writes, without the lock: it moves the start of the line to the boat    *)
(* once the boat has reached the waypoint.  Then it calculates the course  *)
(* and the tack under the lock, in two goes, and publishes both.  Points   *)
(* are pairs <<longitude, latitude>> of a plane; the k-th leg announced    *)
(* stands for m_nextWaypointLon, m_nextWaypointLat and m_nextWaypointRadius. *)
(***************************************************************************)
EXTENDS Integers, Sequences

CONSTANTS
  Legs,        \* the legs WaypointMgr announces: [from : Points, next : Points]
  Points,      \* where waypoints and the boat can be
  Unset,       \* DATA_OUT_OF_RANGE
  Radius,      \* m_nextWaypointRadius
  MaxStates,   \* bound on the positions that arrive
  MaxWinds     \* bound on the wind readings that arrive

Nowhere == <<Unset, Unset>>

ASSUME LineConstants ==
  /\ Points \subseteq Int \X Int /\ Unset \notin Int
  /\ Legs \in Seq([from : Points \cup {Nowhere}, next : Points])
  /\ Radius \in Nat /\ MaxStates \in Nat /\ MaxWinds \in Nat

VARIABLES
  leg,         \* the leg last handled, 0 for none
  vessel,      \* m_VesselLon, m_VesselLat
  wind,        \* number of the reading in m_trueWindDir, 0 for none
  prev,        \* m_prevWaypointLon, m_prevWaypointLat
  linePc,      \* where the thread is
  course,      \* the course just calculated: what it was calculated from
  published,   \* the last course on the bus and the reading its tack is from
  positions,   \* history: positions received
  start,       \* history: where the leg was announced to start
  reached,     \* history: the boat may have reached the end of the leg
  torn,        \* history: a handler has come into the thread's unlocked part
  clash,       \* history: the thread wrote prev on this leg after that
  behind       \* history: courses for an older leg published on this one

lineVars == <<leg, vessel, wind, prev, linePc, course, published, positions,
              start, reached, torn, clash, behind>>

Coordinates == {p[1] : p \in Points} \cup {p[2] : p \in Points} \cup {Unset}
Courses == [leg : 0..Len(Legs), from : Coordinates \X Coordinates,
            at : Points \cup {Nowhere}, wind : 0..MaxWinds]
NoCourse == [leg |-> 0, from |-> Nowhere, at |-> Nowhere, wind |-> 0]

LineTypeOK ==
  /\ leg \in 0..Len(Legs) /\ wind \in 0..MaxWinds
  /\ vessel \in Points \cup {Nowhere}
  /\ prev \in Coordinates \X Coordinates
  /\ linePc \in {"look", "test", "lon", "lat", "calculate", "tack"}
  /\ course \in Courses
  /\ published \in [course : Courses, tackWind : 0..MaxWinds]
  /\ positions \in 0..MaxStates
  /\ start \in Points \cup {Nowhere}
  /\ reached \in BOOLEAN /\ torn \in BOOLEAN /\ clash \in BOOLEAN
  /\ behind \in Nat

LineInit ==
  /\ leg = 0 /\ vessel = Nowhere /\ wind = 0 /\ prev = Nowhere
  /\ linePc = "look" /\ course = NoCourse
  /\ published = [course |-> NoCourse, tackWind |-> 0]
  /\ positions = 0 /\ start = Nowhere
  /\ reached = FALSE /\ torn = FALSE /\ clash = FALSE /\ behind = 0

------------------------------------------------------------------------------
\* What calculateWaypointsOrthogonalLine() and calculateDTW() say of the boat
\* at v on the line from p to n: beyond the end of the line or within the
\* radius.  Of the numbers that stand for unset data they may say anything.
Beyond(p, n, v) ==
  (v[1] - n[1]) * (n[1] - p[1]) + (v[2] - n[2]) * (n[2] - p[2]) > 0
Within(n, v) ==
  (v[1] - n[1]) * (v[1] - n[1]) + (v[2] - n[2]) * (v[2] - n[2])
    < Radius * Radius
PassedOrEntered(l, p, v) ==
  IF l = 0 \/ Unset \in {p[1], p[2], v[1]} THEN BOOLEAN
  ELSE {Beyond(p, Legs[l].next, v) \/ Within(Legs[l].next, v)}

Unlocked == linePc \in {"test", "lon", "lat"}

\* The histories after a step to the leg l, the line's start p and the boat v.
Notes(l, p, v) ==
  reached' = (TRUE \in PassedOrEntered(l, p, v) \/ (l = leg /\ reached))

------------------------------------------------------------------------------
(* The handlers.                                                             *)

\* processStateMessage()
StateHandled ==
  /\ positions < MaxStates
  /\ positions' = positions + 1
  /\ vessel' \in Points
  /\ torn' = (torn \/ Unlocked)
  /\ Notes(leg, prev, vessel')
  /\ UNCHANGED <<leg, wind, prev, linePc, course, published, start, clash,
                 behind>>

\* processWindStateMessage()
WindHandled ==
  /\ wind < MaxWinds
  /\ wind' = wind + 1
  /\ UNCHANGED <<leg, vessel, prev, linePc, course, published, positions,
                 start, reached, torn, clash, behind>>

\* A leg with prevId 0, one from nowhere, starts where the boat is.
StartOf(l) == IF Legs[l].from = Nowhere THEN vessel ELSE Legs[l].from

WaypointHandledKeepingPrev ==
  /\ leg < Len(Legs)
  /\ leg' = leg + 1
  /\ prev' = IF Legs[leg + 1].from = Nowhere THEN prev ELSE Legs[leg + 1].from
  /\ start' = StartOf(leg + 1)
  /\ torn' = (torn \/ Unlocked) /\ clash' = FALSE
  /\ behind' = 0
  /\ Notes(leg + 1, prev', vessel)
  /\ UNCHANGED <<vessel, wind, linePc, course, published, positions>>

\* processWaypointMessage()
WaypointHandled ==
  /\ leg < Len(Legs)
  /\ leg' = leg + 1
  /\ prev' = StartOf(leg + 1)
  /\ start' = StartOf(leg + 1)
  /\ torn' = (torn \/ Unlocked) /\ clash' = FALSE
  /\ behind' = 0
  /\ Notes(leg + 1, prev', vessel)
  /\ UNCHANGED <<vessel, wind, linePc, course, published, positions>>

------------------------------------------------------------------------------
(* The thread.  ifBoatPassedOrEnteredWP_setPrevWPToBoatPos() takes no lock.  *)

Look ==
  /\ linePc = "look" /\ linePc' = "test"
  /\ torn' = FALSE
  /\ UNCHANGED <<leg, vessel, wind, prev, course, published, positions, start,
                 reached, clash, behind>>

\* A handler that has come in between may have been seen in part.
TestPassed ==
  /\ linePc = "test"
  /\ \E passed \in IF torn THEN BOOLEAN ELSE PassedOrEntered(leg, prev, vessel) :
       linePc' = IF passed THEN "lon" ELSE "calculate"
  /\ UNCHANGED <<leg, vessel, wind, prev, course, published, positions, start,
                 reached, torn, clash, behind>>

MovePrevLon ==
  /\ linePc = "lon" /\ linePc' = "lat"
  /\ prev' = <<vessel[1], prev[2]>>
  /\ clash' = (clash \/ torn)
  /\ Notes(leg, prev', vessel)
  /\ UNCHANGED <<leg, vessel, wind, course, published, positions, start, torn,
                 behind>>

MovePrevLatAndRest ==
  /\ linePc = "lat" /\ linePc' = "look"
  /\ prev' = <<prev[1], vessel[2]>>
  /\ clash' = (clash \/ torn)
  /\ Notes(leg, prev', vessel)
  /\ UNCHANGED <<leg, vessel, wind, course, published, positions, start, torn,
                 behind>>

MovePrevLat ==
  /\ linePc = "lat" /\ linePc' = "calculate"
  /\ prev' = <<prev[1], vessel[2]>>
  /\ clash' = (clash \/ torn)
  /\ Notes(leg, prev', vessel)
  /\ UNCHANGED <<leg, vessel, wind, course, published, positions, start, torn,
                 behind>>

\* The last course again as long as the boat has not moved.
CalculateWhenMoved ==
  /\ linePc = "calculate" /\ leg > 0 /\ vessel # Nowhere /\ wind > 0
  /\ linePc' = "tack"
  /\ course' = IF course.leg > 0 /\ course.at = vessel THEN course
               ELSE [leg |-> leg, from |-> prev, at |-> vessel, wind |-> wind]
  /\ UNCHANGED <<leg, vessel, wind, prev, published, positions, start, reached,
                 torn, clash, behind>>

\* calculateTargetCourse(): a line without a start starts at the boat; without
\* a leg, a position and a reading of the wind there is no course.
CalculateTargetCourse ==
  LET p == IF Unset \in {prev[1], prev[2]} THEN vessel ELSE prev IN
  /\ linePc = "calculate"
  /\ prev' = p
  /\ start' = IF start = Nowhere THEN vessel ELSE start
  /\ IF leg = 0 \/ vessel = Nowhere \/ wind = 0
     THEN linePc' = "look" /\ UNCHANGED course
     ELSE /\ linePc' = "tack"
          /\ course' = [leg |-> leg, from |-> p, at |-> vessel, wind |-> wind]
  /\ Notes(leg, p, vessel)
  /\ UNCHANGED <<leg, vessel, wind, published, positions, torn, clash, behind>>

\* getTargetTackStarboard() under a lock of its own, then the message is sent.
PublishCourse ==
  /\ linePc = "tack" /\ linePc' = "look"
  /\ published' = [course |-> course, tackWind |-> wind]
  /\ behind' = IF course.leg < leg THEN behind + 1 ELSE behind
  /\ UNCHANGED <<leg, vessel, wind, prev, course, positions, start, reached,
                 torn, clash>>

LineThread == \/ Look \/ TestPassed \/ MovePrevLon \/ MovePrevLat
              \/ CalculateTargetCourse \/ PublishCourse

LineNext == StateHandled \/ WindHandled \/ WaypointHandled \/ LineThread

LineSpec == LineInit /\ [][LineNext]_lineVars

------------------------------------------------------------------------------
\* As long as the boat has not reached the end of the leg, the line starts
\* where the message said, at the waypoint before or where the boat was,
\* unless the thread, without the lock, moved the start after a handler had
\* changed what it had looked at.
LineStartsAsAnnounced ==
  leg > 0 /\ ~reached /\ ~clash => prev = start

\* After a new leg has been handled at most one more course is published for
\* an older one, the one that was already calculated.
AtMostOneOldCourse == behind <= 1

\* There is all that a course takes.
Informed == leg > 0 /\ vessel # Nowhere /\ wind > 0

\* The course on the bus is for the newest leg, position and wind, its tack is
\* from the same wind, and its line starts where the node's line starts.
UpToDate ==
  /\ published.course = [leg |-> leg, from |-> prev, at |-> vessel,
                         wind |-> wind]
  /\ published.tackWind = wind
==============================================================================
