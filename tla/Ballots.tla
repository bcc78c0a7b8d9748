------------------------------- MODULE Ballots -------------------------------
(***************************************************************************)
(* NavigationSystem/Navigation/LocalNavigationModule: how the voters'      *)
(* ballots become a course.  A RequestCourse or WaypointData message       *)
(* starts a ballot: the arbiter's tally is cleared, every voter's weighted *)
(* votes and vetoes are added to it, and a scan over the courses finds the *)
(* winner.  The tally is an array of 16-bit integers; the sums that the    *)
(* voters meant are kept beside it.                                        *)
(***************************************************************************)
EXTENDS Integers

CONSTANTS
  VoterCount,   \* number of registered voters
  CourseCount,  \* 360 / COURSE_RESOLUTION
  Half,         \* 2^15: the arbiter's integers lie in -Half..Half - 1
  Votes,        \* what a voter can give to a course
  Weight,       \* int16_t weight() of each voter
  Stack         \* what an uninitialised uint16_t can hold

ASSUME BallotConstants ==
  /\ VoterCount \in Nat /\ CourseCount \in Nat /\ Half \in Nat \ {0}
  /\ Votes \subseteq Int
  /\ Weight \in [1..VoterCount -> Int]
  /\ Stack \subseteq Nat /\ Stack # {}

CourseSet == 0..CourseCount - 1
Ballot == [votes : [CourseSet -> Votes], veto : [CourseSet -> BOOLEAN]]

VARIABLES
  ballotPc,      \* where startBallot() is
  voter,         \* the voter whose ballot is cast next
  courses,       \* courseBallot.courses
  veto,          \* courseBallot.veto
  tally,         \* history: the exact sums and the vetoes of this ballot
  scanned,       \* i in getWinner()
  highestIndex,  \* highestIndex in getWinner(), then the target course
  highestValue

ballotVars == <<ballotPc, voter, courses, veto, tally, scanned, highestIndex,
                highestValue>>

BallotTypeOK ==
  /\ ballotPc \in {"wait", "cast", "scan", "elected"}
  /\ voter \in 1..VoterCount + 1
  /\ courses \in [CourseSet -> (-Half)..(Half - 1)]
  /\ veto \in [CourseSet -> BOOLEAN]
  /\ tally \in [sum : [CourseSet -> Int], veto : [CourseSet -> BOOLEAN]]
  /\ scanned \in 0..CourseCount
  /\ highestIndex \in Nat
  /\ highestValue \in (-Half)..(Half - 1)

Zeroes == [i \in CourseSet |-> 0]
NoVeto == [i \in CourseSet |-> FALSE]

BallotInit ==
  /\ ballotPc = "wait" /\ voter = 1
  /\ courses = Zeroes /\ veto = NoVeto
  /\ tally = [sum |-> Zeroes, veto |-> NoVeto]
  /\ scanned = 0 /\ highestValue = -1
  /\ highestIndex = 0

ToInt32(n) == n

\* The conversion to int16_t.
ToInt16(n) == ((n + Half) % (2 * Half)) - Half

StartWithoutClear ==
  /\ ballotPc \in {"wait", "elected"} /\ ballotPc' = "cast"
  /\ voter' = 1
  /\ tally' = [sum |-> Zeroes, veto |-> NoVeto]
  /\ UNCHANGED <<courses, veto, scanned, highestIndex, highestValue>>

\* startBallot(): clearBallot() is clear() on the arbiter's ballot.
StartBallot ==
  /\ ballotPc \in {"wait", "elected"} /\ ballotPc' = "cast"
  /\ voter' = 1
  /\ courses' = Zeroes /\ veto' = NoVeto
  /\ tally' = [sum |-> Zeroes, veto |-> NoVeto]
  /\ UNCHANGED <<scanned, highestIndex, highestValue>>

\* vote(), then castVote(): add() of the product, which its int16_t parameter
\* truncates, and setVeto().
CastVote ==
  /\ ballotPc = "cast" /\ voter <= VoterCount
  /\ \E b \in Ballot :
       /\ courses' = [i \in CourseSet |->
                        ToInt16(courses[i] + ToInt16(b.votes[i] * Weight[voter]))]
       /\ veto' = [i \in CourseSet |-> veto[i] \/ b.veto[i]]
       /\ tally' = [sum |-> [i \in CourseSet |->
                               tally.sum[i] + b.votes[i] * Weight[voter]],
                    veto |-> [i \in CourseSet |-> tally.veto[i] \/ b.veto[i]]]
  /\ voter' = voter + 1
  /\ UNCHANGED <<ballotPc, scanned, highestIndex, highestValue>>

\* getWinner(): highestIndex is not initialised.
StartScan ==
  /\ ballotPc = "cast" /\ voter > VoterCount
  /\ ballotPc' = "scan"
  /\ scanned' = 0 /\ highestValue' = -1
  /\ highestIndex' \in Stack
  /\ UNCHANGED <<voter, courses, veto, tally>>

Better(i) == courses[i] > highestValue /\ ~veto[i]

ScanCourse ==
  /\ ballotPc = "scan" /\ scanned < CourseCount
  /\ scanned' = scanned + 1
  /\ highestIndex' = IF Better(scanned) THEN scanned ELSE highestIndex
  /\ highestValue' = IF Better(scanned) THEN courses[scanned] ELSE highestValue
  /\ UNCHANGED <<ballotPc, voter, courses, veto, tally>>

\* The winner goes out as the target course of a LocalNavigationMsg.
SendCourse ==
  /\ ballotPc = "scan" /\ scanned = CourseCount
  /\ ballotPc' = "elected"
  /\ UNCHANGED <<voter, courses, veto, tally, scanned, highestIndex,
                 highestValue>>

BallotNext == \/ StartBallot \/ CastVote \/ StartScan \/ ScanCourse
              \/ SendCourse

BallotSpec == BallotInit /\ [][BallotNext]_ballotVars

------------------------------------------------------------------------------
\* What the voters said fits the arbiter's integers.
Fits == \A i \in CourseSet : tally.sum[i] \in (-Half)..(Half - 1)

\* The courses that can win: no voter vetoes them and the votes for them are
\* not negative on the whole.
Eligible == {i \in CourseSet : ~tally.veto[i] /\ tally.sum[i] >= 0}

\* i is what the voters want: no course that can win has more votes, none
\* before it has as many.
Best(i) ==
  /\ i \in Eligible
  /\ \A j \in Eligible : /\ tally.sum[j] <= tally.sum[i]
                         /\ j < i => tally.sum[j] < tally.sum[i]

\* The course sent to the bus is the best one of this ballot, whatever earlier
\* ballots left behind, as long as no sum overflows and some course can win.
\* Without one getWinner() returns an uninitialised number.
WinnerIsBest ==
  ballotPc = "elected" /\ Fits /\ Eligible # {} => Best(highestIndex)
==============================================================================
