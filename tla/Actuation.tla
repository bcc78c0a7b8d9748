------------------------------ MODULE Actuation ------------------------------
(***************************************************************************)
(* From a course to the sail and rudder servos of the ASPire:              *)
(* CourseRegulatorNode and WingsailControlNode calculate a command under   *)
(* their lock and then put it on the bus; ActuatorNodeASPire combines the  *)
(* latest of both into one CAN frame; the thread of CANService moves       *)
(* frames from its queue to the MCP2515, which has three transmit buffers. *)
(* With none of them free the frame is dropped without a word, and the     *)
(* controller sends pending frames in an order of its own.  Only that      *)
(* commands are sent again and again makes up for both.  A command is the  *)
(* number of the LocalNavigation message that it comes from.               *)
(***************************************************************************)
EXTENDS Integers, Sequences

CONSTANTS
  MaxCourse,   \* bound on the LocalNavigation messages
  BusBound,    \* bound on the messages waiting on the bus
  CANBound,    \* bound on m_MsgQueue
  LastBuffer   \* the transmit buffers are 0..LastBuffer: 0..2 on the MCP2515

ASSUME ActuationConstants ==
  /\ MaxCourse \in Nat /\ BusBound \in Nat /\ CANBound \in Nat
  /\ LastBuffer \in Nat

Regulators == {"rudder", "wingsail"}
Buffers == 0..LastBuffer

VARIABLES
  lastCourse, \* number of the last LocalNavigation message sent
  bus,        \* the messages that wait on the bus
  target,     \* the course each regulator knows, 0 for DATA_OUT_OF_RANGE
  command,    \* what each regulator's thread has calculated, 0 for none
  angle,      \* m_rudderAngle and m_wingsailAngle
  queue,      \* m_MsgQueue
  buffer,     \* the frame pending in each transmit buffer
  applied     \* what the actuator unit last received

actVars == <<lastCourse, bus, target, command, angle, queue, buffer, applied>>

Numbers == 0..MaxCourse
Messages == [to : {"regulator", "actuator"}, which : Regulators, number : Numbers]
Frame == [Regulators -> Numbers]
None == [pending |-> FALSE]
Pending == [pending : {TRUE}, frame : Frame]

ActTypeOK ==
  /\ lastCourse \in Numbers
  /\ bus \in Seq(Messages)
  /\ target \in Frame /\ command \in Frame /\ angle \in Frame
  /\ queue \in Seq(Frame)
  /\ buffer \in [Buffers -> Pending \cup {None}]
  /\ applied \in Frame

Neutral == [r \in Regulators |-> 0]

ActInit ==
  /\ lastCourse = 0 /\ bus = <<>>
  /\ target = Neutral /\ command = Neutral /\ angle = Neutral
  /\ queue = <<>>
  /\ buffer = [b \in Buffers |-> None]
  /\ applied = Neutral

------------------------------------------------------------------------------
ToRegulator(r, n) == [to |-> "regulator", which |-> r, number |-> n]
ToActuator(r, n) == [to |-> "actuator", which |-> r, number |-> n]

\* A navigation node sends a new course.  The bus hands it to one regulator
\* after the other.
NewCourse ==
  /\ lastCourse < MaxCourse /\ Len(bus) + 2 <= BusBound
  /\ lastCourse' = lastCourse + 1
  /\ bus' = bus \o << ToRegulator("rudder", lastCourse + 1),
                      ToRegulator("wingsail", lastCourse + 1) >>
  /\ UNCHANGED <<target, command, angle, queue, buffer, applied>>

CalculateOnChange(r) ==
  /\ command[r] = 0 /\ target[r] # angle[r]
  /\ command' = [command EXCEPT ![r] = target[r]]
  /\ UNCHANGED <<lastCourse, bus, target, angle, queue, buffer, applied>>

\* calculateRudderAngle(), simpleCalculateTailAngle(): no command without a
\* course.  The vessel's own course is known by then.
Calculate(r) ==
  /\ command[r] = 0 /\ target[r] # 0
  /\ command' = [command EXCEPT ![r] = target[r]]
  /\ UNCHANGED <<lastCourse, bus, target, angle, queue, buffer, applied>>

\* The thread sends what it has calculated, at every turn of its loop.
SendCommand(r) ==
  /\ command[r] # 0 /\ Len(bus) < BusBound
  /\ bus' = Append(bus, ToActuator(r, command[r]))
  /\ command' = [command EXCEPT ![r] = 0]
  /\ UNCHANGED <<lastCourse, target, angle, queue, buffer, applied>>

\* processLocalNavigationMessage() of either regulator.
CourseHandled ==
  /\ bus # <<>> /\ Head(bus).to = "regulator"
  /\ target' = [target EXCEPT ![Head(bus).which] = Head(bus).number]
  /\ bus' = Tail(bus)
  /\ UNCHANGED <<lastCourse, command, angle, queue, buffer, applied>>

\* ActuatorNodeASPire::processMessage(): sendCommandMessage() makes a frame of
\* both angles and sendCANMessage() queues it.
CommandHandled ==
  /\ bus # <<>> /\ Head(bus).to = "actuator"
  /\ Len(queue) < CANBound
  /\ angle' = [angle EXCEPT ![Head(bus).which] = Head(bus).number]
  /\ queue' = Append(queue, angle')
  /\ bus' = Tail(bus)
  /\ UNCHANGED <<lastCourse, target, command, buffer, applied>>

\* CANService::run(): getCANMessage(), then MCP2515_SendMessage(), which takes
\* the first free buffer.
Transmit(b) ==
  /\ queue # <<>>
  /\ buffer[b] = None /\ \A c \in Buffers : c < b => buffer[c] # None
  /\ buffer' = [buffer EXCEPT ![b] = [pending |-> TRUE, frame |-> Head(queue)]]
  /\ queue' = Tail(queue)
  /\ UNCHANGED <<lastCourse, bus, target, command, angle, applied>>

Requeued ==
  /\ queue # <<>>
  /\ \A b \in Buffers : buffer[b] # None
  /\ queue' = Append(Tail(queue), Head(queue))
  /\ UNCHANGED <<lastCourse, bus, target, command, angle, buffer, applied>>

\* MCP2515_SendMessage() finds no free buffer and returns 0, which nobody
\* looks at: the frame is gone.
Dropped ==
  /\ queue # <<>>
  /\ \A b \in Buffers : buffer[b] # None
  /\ queue' = Tail(queue)
  /\ UNCHANGED <<lastCourse, bus, target, command, angle, buffer, applied>>

\* The controller puts a pending frame on the wire, and the actuator unit
\* follows it.
OnTheWire(b) ==
  /\ buffer[b] # None
  /\ applied' = buffer[b].frame
  /\ buffer' = [buffer EXCEPT ![b] = None]
  /\ UNCHANGED <<lastCourse, bus, target, command, angle, queue>>

CANThread == Dropped \/ \E b \in Buffers : Transmit(b)
Delivery == CourseHandled \/ CommandHandled

ActNext ==
  \/ NewCourse \/ Delivery \/ CANThread
  \/ \E r \in Regulators : Calculate(r) \/ SendCommand(r)
  \/ \E b \in Buffers : OnTheWire(b)

ActSpec == ActInit /\ [][ActNext]_actVars

------------------------------------------------------------------------------
\* f is not newer than g, in the rudder's command nor in the wingsail's.
NotNewer(f, g) == \A r \in Regulators : f[r] <= g[r]

\* From the boat's latest commands back through the queue to the controller's
\* buffers no frame is newer than the one after it.  A command that comes to
\* the servos after a newer one can thus only have been overtaken among the
\* three buffers of the controller, never in the boat's own threads.
FramesInOrder ==
  /\ \A i \in 1..Len(queue) : NotNewer(queue[i], angle)
  /\ \A i, j \in 1..Len(queue) : i < j => NotNewer(queue[i], queue[j])
  /\ \A b \in Buffers, i \in 1..Len(queue) :
       buffer[b] # None => NotNewer(buffer[b].frame, queue[i])
  /\ \A b \in Buffers : buffer[b] # None => NotNewer(buffer[b].frame, angle)

\* Rudder and sail follow the last course.
Steered == \A r \in Regulators : applied[r] = lastCourse
==============================================================================
