------------------------------ MODULE MCOnboard ------------------------------
(***************************************************************************)
(* Model checking of six components that share no state, side by side:    *)
(* part says which of them runs, the others stay as they are.  The         *)
(* properties of one component are thus checked in its own states.         *)
(***************************************************************************)
EXTENDS HTTPSync, LineFollow, Ballots, Actuation, SensorNodes, PacketNetwork

VARIABLE part

onboardVars == <<part, httpVars, lineVars, ballotVars, actVars, sensorVars,
                 radioVars>>

\* The line's first leg starts at the boat, the second one where the first one
\* ends; the boat can be on the first leg, at its end, and off both legs.
MCLegs == << [from |-> Nowhere, next |-> <<2, 0>>],
             [from |-> <<2, 0>>, next |-> <<2, 2>>] >>
MCPoints == {<<0, 0>>, <<2, 0>>, <<2, 2>>, <<3, 1>>}
MCVotes == {-1, 2}
MCWeight == <<1, 2>>

\* Messages of two, two, one and four packets: the second one is cut in the
\* wrong places and its last byte is not sent, the last one holds more bytes
\* than a size can say, and the third one has the id of the first.  A last packet
\* may get more memory behind the message than fits a frame.
MCBytes == << <<1, 1, 1>>, <<2, 1, 2, 1, 1>>, <<1>>, <<1, 1, 1, 1, 1, 1, 1>> >>

\* Direction and speed of the wind come with one PGN, the temperature with
\* another one.  Of the feedback of the actuator unit, the state of the remote
\* control has a frame of its own and is not looked at.
MCKindOf == [s \in {"wind", "arduino"} |->
  IF s = "wind" THEN <<"130306", "130306", "130311">> ELSE <<"701", "701", "702">>]
MCTested == [s \in {"wind", "arduino"} |-> IF s = "wind" THEN {1, 2, 3} ELSE {1, 2}]

OnboardInit ==
  /\ part \in {"http", "line", "ballot", "actuation", "sensors", "radio"}
  /\ HTTPInit /\ LineInit /\ BallotInit /\ ActInit
  /\ SensorInit /\ RadioInit

InHTTP(Step) ==
  /\ part = "http" /\ Step
  /\ UNCHANGED <<part, lineVars, ballotVars, actVars, sensorVars,
                 radioVars>>
InLine(Step) ==
  /\ part = "line" /\ Step
  /\ UNCHANGED <<part, httpVars, ballotVars, actVars, sensorVars,
                 radioVars>>
InBallot(Step) ==
  /\ part = "ballot" /\ Step
  /\ UNCHANGED <<part, httpVars, lineVars, actVars, sensorVars,
                 radioVars>>
InActuation(Step) ==
  /\ part = "actuation" /\ Step
  /\ UNCHANGED <<part, httpVars, lineVars, ballotVars, sensorVars,
                 radioVars>>
InSensors(Step) ==
  /\ part = "sensors" /\ Step
  /\ UNCHANGED <<part, httpVars, lineVars, ballotVars, actVars, radioVars>>
InRadio(Step) ==
  /\ part = "radio" /\ Step
  /\ UNCHANGED <<part, httpVars, lineVars, ballotVars, actVars, sensorVars>>

OnboardNext ==
  \/ InHTTP(HTTPNext) \/ InLine(LineNext) \/ InBallot(BallotNext)
  \/ InActuation(ActNext) \/ InSensors(SensorNext)
  \/ InRadio(RadioNext)

\* Threads are scheduled again and again and the bus delivers what is queued;
\* the controller sends what is pending.  A thread that finds the bus at its
\* bound, which the real queue does not have, gets its turn when there is room.
OnboardFairness ==
  /\ WF_onboardVars(InHTTP(SyncThread))
  /\ \A k \in DataKinds : WF_onboardVars(InHTTP(NoticeHandled(k)))
  /\ WF_onboardVars(InLine(LineThread))
  /\ WF_onboardVars(InActuation(Delivery))
  /\ WF_onboardVars(InActuation(CANThread))
  /\ \A r \in Regulators : /\ WF_onboardVars(InActuation(Calculate(r)))
                           /\ SF_onboardVars(InActuation(SendCommand(r)))
  /\ \A b \in Buffers : WF_onboardVars(InActuation(OnTheWire(b)))
  /\ \A s \in Sensors : /\ WF_onboardVars(InSensors(CANWrites(s)))
                         /\ WF_onboardVars(InSensors(SensorThread(s)))

OnboardSpec == OnboardInit /\ [][OnboardNext]_onboardVars /\ OnboardFairness

------------------------------------------------------------------------------
\* The variables of the six components have their types.
OnboardTypeOK == HTTPTypeOK /\ LineTypeOK /\ BallotTypeOK /\ ActTypeOK
                 /\ SensorTypeOK /\ RadioTypeOK

\* Once the calls to the server succeed, boat and server come to hold the same
\* version of every kind and stay so, unless a change has been overlooked
\* during a push or an edit has been lost for good: HTTPSyncNode retries what
\* failed as long as the flag is set.
SyncedOrSlipped ==
  part = "http" =>
    \A k \in DataKinds : <>[](onBoat[k] = onServer[k]) \/ <>[]OutOfStep(k)

\* When nothing new arrives, LineFollowNode comes to publish the course for
\* the newest leg, position and wind, with a tack from the same wind, although
\* it reads and writes part of its state without the lock.
CourseCatchesUp == <>[](part = "line" /\ Informed => UpToDate)

\* When no new course comes, rudder and sail come to follow the last one and
\* stay with it, whatever frames CANService drops and the controller reorders:
\* the regulators' threads repeat their commands.
FinallySteered == <>[](Steered \/ part # "actuation")

\* When no more frames come, the last message of every node that has heard of
\* what it looks at has the values of the last frame of every kind, although
\* two of the nodes may send values of several frames: the next message puts it
\* right.
ReadingsCatchUp ==
  <>[](part = "sensors" => \A s \in Sensors : Heard(s) => Current(s))
==============================================================================
