--------------------------- MODULE MessageBusProofs --------------------------
(***************************************************************************)
(* Proofs about MessageBus, for any nodes, messages and threads.           *)
(***************************************************************************)
EXTENDS MessageBus, SequenceTheorems, TLAPS

\* The mutex is held exactly while a push is under way; that push goes to the
\* present front queue, because the pointers are only swapped under the mutex.
Locking ==
  /\ mutex = Free <=> push = NoPush
  /\ push # NoPush => push.slot = front
  /\ mutex = Bus => pc = "handler"

\* Where the three queue pointers point, and which queue is then empty.
Pointers ==
  /\ front = back <=> pc = "setback"
  /\ pc = "setback" => tmp # front
  /\ pc \notin {"setback", "dispatch", "handler"} => queue[back] = <<>>

\* BacklogInOrder, element by element.
Backlog ==
  /\ completed >= 0
  /\ \A i \in 1..Size(Older) : queue[Older][i] = log[completed + i]
  /\ \A i \in 1..Size(front) :
       queue[front][i] = log[completed + Size(Older) + i]

\* The distribution loop is inside its bounds, and a handler only runs for a
\* registration that wants the message at the head.
Distribution ==
  /\ pc = "dispatch" => cursor <= Len(registered) + 1
  /\ pc = "handler" => /\ queue[back] # <<>>
                       /\ cursor \in 1..Len(registered)
                       /\ Wants(registered[cursor], queue[back][1])

\* Until run() is entered nothing has been distributed.
Phases == pc = "idle" => completed = 0 /\ got = [n \in Nodes |-> {}]

\* getRegisteredNode() keeps one registration per NodeID.
OnePerID ==
  \A j, k \in DOMAIN registered :
    ID[registered[j].node] = ID[registered[k].node] => j = k

IInv ==
  /\ TypeOK
  /\ Locking
  /\ Pointers
  /\ Backlog
  /\ Distribution
  /\ Phases
  /\ OnePerID
  /\ ExactlyOnce

------------------------------------------------------------------------------
\* completed counts the log without the older and the front queue.
LEMMA CompletedCount ==
  ASSUME TypeOK
  PROVE  /\ Older \in Slots /\ Older # front
         /\ back # front => back = Older
         /\ Size(Older) \in Nat /\ Size(front) \in Nat /\ Len(log) \in Nat
         /\ completed = Len(log) - (Size(Older) + Size(front))
<1>1. front \in Slots /\ back \in Slots /\ Len(log) \in Nat
  BY DEF TypeOK
<1>2. Size("A") \in Nat /\ Size("B") \in Nat
  BY DEF TypeOK, Slots, Size
<1>3. CASE front = "A"
  BY <1>1, <1>2, <1>3 DEF Older, Slots, completed
<1>4. CASE front = "B"
  BY <1>1, <1>2, <1>4 DEF Older, Slots, completed
<1> QED BY <1>1, <1>3, <1>4 DEF Slots

\* The same in the next state.
LEMMA CompletedCountNext ==
  ASSUME TypeOK'
  PROVE  /\ Older' \in Slots /\ Older' # front'
         /\ back' # front' => back' = Older'
         /\ Size(Older)' \in Nat /\ Size(front)' \in Nat /\ Len(log') \in Nat
         /\ completed' = Len(log') - (Size(Older)' + Size(front)')
<1>1. front' \in Slots /\ back' \in Slots /\ Len(log') \in Nat
  BY DEF TypeOK
<1>2. Size("A")' \in Nat /\ Size("B")' \in Nat
  BY DEF TypeOK, Slots, Size
<1>3. CASE front' = "A"
  BY <1>1, <1>2, <1>3 DEF Older, Slots, completed, Size
<1>4. CASE front' = "B"
  BY <1>1, <1>2, <1>4 DEF Older, Slots, completed, Size
<1> QED BY <1>1, <1>3, <1>4 DEF Slots

\* getRegisteredNode() and subscribe() keep the registrations well typed and
\* one per NodeID, whatever node and types are enrolled, and take nothing from
\* those that were there.
LEMMA EnrolKeeps ==
  ASSUME BusConstants,
         NEW regs \in Seq(Registration), NEW n \in Nodes, NEW ts \in SUBSET Types,
         \A j, k \in DOMAIN regs : ID[regs[j].node] = ID[regs[k].node] => j = k
  PROVE  /\ Enrol(regs, n, ts) \in Seq(Registration)
         /\ \A j, k \in DOMAIN Enrol(regs, n, ts) :
              ID[Enrol(regs, n, ts)[j].node] = ID[Enrol(regs, n, ts)[k].node] => j = k
         /\ Len(regs) <= Len(Enrol(regs, n, ts))
         /\ \A k \in 1..Len(regs) : /\ Enrol(regs, n, ts)[k].node = regs[k].node
                                   /\ regs[k].types \subseteq Enrol(regs, n, ts)[k].types
<1> DEFINE new == Enrol(regs, n, ts)
<1>1. CASE \E k \in DOMAIN regs : ID[regs[k].node] = ID[n]
  <2> DOMAIN regs = 1..Len(regs)
    OBVIOUS
  <2>1. new = [k \in DOMAIN regs |->
                 IF ID[regs[k].node] = ID[n]
                 THEN [regs[k] EXCEPT !.types = @ \cup ts]
                 ELSE regs[k]]
    BY <1>1 DEF Enrol
  <2> HIDE DEF new
  <2>2. \A k \in 1..Len(regs) : /\ new[k] \in Registration /\ new[k].node = regs[k].node
                               /\ regs[k].types \subseteq new[k].types
    <3> SUFFICES ASSUME NEW k \in 1..Len(regs)
                 PROVE  /\ new[k] \in Registration /\ new[k].node = regs[k].node
                        /\ regs[k].types \subseteq new[k].types
      OBVIOUS
    <3>1. regs[k] \in Registration
      OBVIOUS
    <3>2. [regs[k] EXCEPT !.types = @ \cup ts] \in Registration
      BY <3>1 DEF Registration
    <3>3. /\ [regs[k] EXCEPT !.types = @ \cup ts].node = regs[k].node
          /\ regs[k].types \subseteq [regs[k] EXCEPT !.types = @ \cup ts].types
      BY <3>1 DEF Registration
    <3> QED BY <2>1, <3>1, <3>2, <3>3
  <2>3. new \in Seq(Registration) /\ DOMAIN new = DOMAIN regs /\ Len(new) = Len(regs)
    BY <2>1, <2>2
  <2> QED BY <2>2, <2>3 DEF new
<1>2. CASE ~ \E k \in DOMAIN regs : ID[regs[k].node] = ID[n]
  <2>1. new = Append(regs, [node |-> n, types |-> ts])
    BY <1>2 DEF Enrol
  <2> HIDE DEF new
  <2>2. [node |-> n, types |-> ts] \in Registration
    BY DEF Registration
  <2>3. new \in Seq(Registration)
    BY <2>1, <2>2
  <2>4. DOMAIN new = 1..(Len(regs) + 1)
    BY <2>1, <2>2
  <2>5. \A k \in 1..Len(regs) : new[k] = regs[k]
    BY <2>1, <2>2
  <2>6. new[Len(regs) + 1].node = n
    BY <2>1, <2>2
  <2>7. ASSUME NEW j \in DOMAIN new, NEW k \in DOMAIN new,
               ID[new[j].node] = ID[new[k].node]
        PROVE  j = k
    <3>1. CASE j \in DOMAIN regs /\ k \in DOMAIN regs
      BY <2>5, <2>7, <3>1
    <3>2. CASE j = Len(regs) + 1 /\ k \in DOMAIN regs
      BY <1>2, <2>5, <2>6, <2>7, <3>2
    <3>3. CASE j \in DOMAIN regs /\ k = Len(regs) + 1
      BY <1>2, <2>5, <2>6, <2>7, <3>3
    <3>4. CASE j = Len(regs) + 1 /\ k = Len(regs) + 1
      BY <3>4
    <3> QED BY <2>4, <3>1, <3>2, <3>3, <3>4
  <2>8. Len(regs) <= Len(new)
    BY <2>3, <2>4
  <2>9. \A k \in 1..Len(regs) : regs[k].types \subseteq new[k].types
    BY <2>5
  <2> QED BY <2>3, <2>5, <2>7, <2>8, <2>9 DEF new
<1> QED BY <1>1, <1>2

\* The constructor's state.
LEMMA InitIInv == ASSUME BusConstants, ThreadConstants, Init PROVE IInv
<1> USE DEF Init, Slots
<1>1. TypeOK
  <2>1. got \in [Nodes -> SUBSET (Nat \ {0})]
    OBVIOUS
  <2>2. queue \in [Slots -> Seq(Messages)] /\ log \in Seq(Messages)
        /\ registered \in Seq(Registration)
    OBVIOUS
  <2>3. /\ cursor \in Nat \ {0}
        /\ front \in Slots /\ back \in Slots /\ tmp \in Slots /\ pc \in PcValues
    BY DEF PcValues
  <2>6. running \in BOOLEAN /\ stopAsked \in BOOLEAN
    BY Zenon
  <2>4. mutex \in Threads \cup {Free}
    OBVIOUS
  <2>5. push \in [slot : Slots, msg : Messages] \cup {NoPush}
    OBVIOUS
  <2> QED BY <2>1, <2>2, <2>3, <2>4, <2>5, <2>6 DEF TypeOK
<1>2. Locking /\ Pointers /\ Distribution
  BY DEF Locking, Pointers, Distribution, ThreadConstants
<1>3. Size("A") = 0 /\ Size("B") = 0 /\ Len(log) = 0 /\ completed = 0
  BY DEF completed, Size
<1>4. Backlog /\ Phases
  BY <1>3 DEF Backlog, Phases, Older
<1>5. OnePerID /\ ExactlyOnce
  BY DEF OnePerID, ExactlyOnce
<1> QED BY <1>1, <1>2, <1>4, <1>5 DEF IInv

\* The look at m_Running changes nothing of the bus.
LEMMA RegisterBeginKeeps ==
  ASSUME BusConstants, IInv, NEW n \in Nodes, NEW ts \in SUBSET Types,
         RegisterBegin(n, ts)
  PROVE  IInv'
<1> USE DEF IInv, RegisterBegin, busVars
<1>1. completed' = completed
  BY DEF completed, Size
<1>2. [node |-> n, types |-> ts] \in Registration
  BY DEF Registration
<1>3. enrolling' \in SUBSET Registration
  BY <1>2
<1>4. TypeOK'
  BY <1>3 DEF TypeOK
<1>5. (Locking /\ Pointers /\ Backlog /\ Distribution /\ Phases /\ OnePerID)'
  BY <1>1 DEF Locking, Pointers, Backlog, Distribution, Phases, OnePerID, Older, Size
<1>6. ExactlyOnce'
  BY <1>1 DEF ExactlyOnce, Considered
<1> QED BY <1>4, <1>5, <1>6

\* A registration that comes in time finds nothing distributed yet, and one that
\* comes late takes nothing from the registration a handler runs for.
LEMMA RegisterEndKeeps ==
  ASSUME BusConstants, IInv, RegisterEnd
  PROVE  IInv'
<1> USE DEF IInv, RegisterEnd, busVars
<1>1. completed' = completed
  BY DEF completed, Size
<1>2. PICK r \in enrolling : registered' = Enrol(registered, r.node, r.types)
  OBVIOUS
<1>3. r.node \in Nodes /\ r.types \in SUBSET Types
  <2>1. r \in Registration
    BY DEF TypeOK
  <2> QED BY <2>1 DEF Registration
<1>4. registered \in Seq(Registration) /\ Len(registered) \in Nat
  BY DEF TypeOK
<1>5. /\ registered' \in Seq(Registration) /\ OnePerID'
      /\ Len(registered) <= Len(registered')
      /\ \A k \in 1..Len(registered) :
           /\ registered'[k].node = registered[k].node
           /\ registered[k].types \subseteq registered'[k].types
  BY <1>2, <1>3, <1>4, EnrolKeeps DEF OnePerID
<1>6. late' \in BOOLEAN /\ enrolling' \in SUBSET Registration
  BY Zenon
<1>7. TypeOK'
  BY <1>5, <1>6 DEF TypeOK
<1>8. (Locking /\ Pointers /\ Backlog /\ Phases)'
  BY <1>1 DEF Locking, Pointers, Backlog, Phases, Older, Size
<1>9. Distribution'
  <2>1. Len(registered') \in Nat /\ cursor \in Nat
    BY <1>7 DEF TypeOK
  <2>2. pc = "handler" =>
          /\ cursor \in 1..Len(registered) /\ cursor \in 1..Len(registered')
          /\ Wants(registered'[cursor], queue[back][1])
    BY <1>4, <1>5, <2>1 DEF Distribution, Wants
  <2> QED BY <1>4, <1>5, <2>1, <2>2 DEF Distribution
<1>10. ExactlyOnce'
  <2> SUFFICES ASSUME ~late' PROVE ExactlyOnce'
    BY DEF ExactlyOnce
  <2>1. pc = "idle" /\ completed = 0 /\ got = [k \in Nodes |-> {}]
    BY DEF Phases
  <2>2. \A k \in DOMAIN registered' : registered'[k].node \in Nodes
    <3> DEFINE regs == registered'
    <3>1. regs \in Seq(Registration)
      BY <1>5
    <3> HIDE DEF regs
    <3>2. \A k \in DOMAIN regs : regs[k] \in Registration
      BY <3>1
    <3> QED BY <3>2 DEF Registration, regs
  <2>3. \A k \in DOMAIN registered' : Considered(k)' = 0
    BY <1>1, <2>1 DEF Considered
  <2> QED BY <2>1, <2>2, <2>3 DEF ExactlyOnce
<1> QED BY <1>5, <1>7, <1>8, <1>9, <1>10

\* Taking the mutex changes neither the queues nor the log.
LEMMA SendBeginKeeps ==
  ASSUME ThreadConstants, IInv, NEW t \in Threads, NEW m \in Messages, SendBegin(t, m)
  PROVE  IInv'
<1> USE DEF IInv, SendBegin, busVars, callVars, Slots
<1>1. completed' = completed
  BY DEF completed, Size
<1>2. TypeOK'
  BY DEF TypeOK, Threads
<1>3. Locking'
  <2>1. front \in {"A", "B"}
    BY DEF TypeOK
  <2> QED BY <2>1 DEF Locking, Threads, ThreadConstants
<1>4. (Pointers /\ Backlog /\ Distribution /\ Phases /\ OnePerID)'
  BY <1>1 DEF Pointers, Backlog, Distribution, Phases, OnePerID, Older, Size
<1>5. ExactlyOnce'
  BY <1>1 DEF ExactlyOnce, Considered
<1> QED BY <1>2, <1>3, <1>4, <1>5

\* The push lands at the end of the front queue and at the end of the log.
LEMMA SendEndKeeps ==
  ASSUME ThreadConstants, IInv, ~late, NEW t \in Threads, SendEnd(t)
  PROVE  IInv'
<1>1. push # NoPush /\ push.slot = front /\ push.msg \in Messages
  BY DEF IInv, SendEnd, Locking, TypeOK, Threads, ThreadConstants
<1>2. /\ queue \in [Slots -> Seq(Messages)] /\ log \in Seq(Messages)
      /\ front \in Slots /\ back \in Slots
  BY DEF IInv, TypeOK
<1>3. /\ Older \in Slots /\ Older # front
      /\ back # front => back = Older
      /\ Size(Older) \in Nat /\ Size(front) \in Nat /\ Len(log) \in Nat
      /\ completed = Len(log) - (Size(Older) + Size(front))
      /\ completed \in Nat
  BY CompletedCount DEF IInv, Backlog
<1>4. TypeOK'
  BY <1>1, <1>2 DEF IInv, TypeOK, Threads, SendEnd, busVars, callVars, Slots
<1>5. /\ Older' = Older
      /\ queue'[front] = Append(queue[front], push.msg)
      /\ queue'[Older] = queue[Older]
      /\ Size(front)' = Size(front) + 1
      /\ Size(Older)' = Size(Older)
      /\ Len(log') = Len(log) + 1
      /\ \A i \in 1..Len(log) : log'[i] = log[i]
      /\ log'[Len(log) + 1] = push.msg
  <2>1. queue[front] \in Seq(Messages)
    BY <1>2
  <2>2. queue'[front] = Append(queue[front], push.msg) /\ queue'[Older] = queue[Older]
    BY <1>1, <1>2, <1>3 DEF SendEnd
  <2> QED BY <1>1, <1>2, <2>1, <2>2 DEF Older, SendEnd, busVars, callVars, Size
<1>6. completed' = completed
  BY <1>3, <1>4, <1>5, CompletedCountNext
<1>8. Locking'
  BY DEF IInv, SendEnd, busVars, callVars, Locking, Threads, ThreadConstants
<1>9. Pointers'
  BY <1>2, <1>3, <1>5 DEF IInv, SendEnd, busVars, callVars, Pointers
<1>10. Backlog'
  <2>1. ASSUME NEW i \in 1..Size(Older)
        PROVE  queue'[Older][i] = log'[completed + i]
    <3>1. queue[Older][i] = log[completed + i]
      BY DEF IInv, Backlog
    <3>2. completed + i \in 1..Len(log)
      BY <1>3
    <3> QED BY <1>5, <3>1, <3>2
  <2>2. ASSUME NEW i \in 1..Size(front)
        PROVE  queue'[front][i] = log'[completed + Size(Older) + i]
    <3>1. queue[front][i] = log[completed + Size(Older) + i]
      BY DEF IInv, Backlog
    <3>2. completed + Size(Older) + i \in 1..Len(log)
      BY <1>3
    <3>3. queue'[front][i] = queue[front][i]
      BY <1>1, <1>2, <1>5 DEF Size
    <3> QED BY <1>5, <3>1, <3>2, <3>3
  <2>3. queue'[front][Size(front) + 1] = push.msg
    <3>1. queue[front] \in Seq(Messages)
      BY <1>2
    <3> QED BY <1>1, <1>5, <3>1 DEF Size
  <2>4. completed + Size(Older) + (Size(front) + 1) = Len(log) + 1
    BY <1>3
  <2>5. \A i \in 1..(Size(front) + 1) :
          queue'[front][i] = log'[completed + Size(Older) + i]
    <3>1. \A i \in 1..(Size(front) + 1) : i \in 1..Size(front) \/ i = Size(front) + 1
      BY <1>3
    <3> QED BY <1>5, <2>2, <2>3, <2>4, <3>1
  <2>6. front' = front
    BY DEF SendEnd, busVars, callVars
  <2>7. \A i \in 1..Size(Older)' : queue'[Older'][i] = log'[completed' + i]
    BY <1>5, <1>6, <2>1
  <2>8. \A i \in 1..Size(front)' : queue'[front'][i] = log'[completed' + Size(Older)' + i]
    BY <1>5, <1>6, <2>5, <2>6
  <2>9. completed' >= 0
    BY <1>3, <1>6
  <2> QED BY <2>7, <2>8, <2>9 DEF Backlog
<1>11. pc \in {"dispatch", "handler"} => queue'[back] = queue[back]
  BY <1>3, <1>5 DEF IInv, Pointers
<1>12. (Distribution /\ Phases /\ OnePerID)'
  BY <1>6, <1>11 DEF IInv, SendEnd, busVars, callVars, Distribution, Phases, OnePerID
<1>13. ExactlyOnce'
  <2>1. \A k : Considered(k)' = Considered(k)
    BY <1>6, <1>11 DEF Considered, SendEnd, busVars, callVars
  <2>2. pc \in {"dispatch", "handler"} /\ queue[back] # <<>> => completed < Len(log)
    <3>1. pc \in {"dispatch", "handler"} => back = Older
      BY <1>3 DEF IInv, Pointers
    <3>2. queue[Older] # <<>> => Size(Older) > 0
      <4>1. queue[Older] \in Seq(Messages)
        BY <1>2, <1>3
      <4> QED BY <4>1 DEF Size
    <3> QED BY <1>3, <3>1, <3>2
  <2>3. \A k : Considered(k) \in 0..Len(log)
    BY <1>3, <2>2 DEF IInv, Considered, Distribution
  <2>4. \A k : \A i \in 1..Considered(k) : log'[i] = log[i]
    <3> SUFFICES ASSUME NEW k, NEW i \in 1..Considered(k) PROVE log'[i] = log[i]
      OBVIOUS
    <3>1. Considered(k) \in 0..Len(log)
      BY <2>3
    <3>2. i \in 1..Len(log)
      BY <1>3, <3>1
    <3> QED BY <1>5, <3>2
  <2>5. \A k \in DOMAIN registered :
          got[registered[k].node] = {i \in 1..Considered(k) : Wants(registered[k], log'[i])}
    BY <2>4 DEF IInv, ExactlyOnce
  <2> QED BY <2>1, <2>5 DEF ExactlyOnce, SendEnd, busVars, callVars
<1> QED BY <1>4, <1>8, <1>9, <1>10, <1>12, <1>13 DEF IInv

\* stop() only writes the flag.
LEMMA StopKeeps == ASSUME IInv, Stop PROVE IInv'
<1> USE DEF IInv, Stop, busVars, callVars
<1>1. completed' = completed
  BY DEF completed, Size
<1>2. running' \in BOOLEAN /\ stopAsked' \in BOOLEAN
  BY Zenon
<1>3. TypeOK'
  BY <1>2 DEF TypeOK
<1>4. (Locking /\ Pointers /\ Backlog /\ Distribution /\ OnePerID)'
  BY <1>1 DEF Locking, Pointers, Backlog, Distribution, OnePerID, Older, Size
<1>5. Phases'
  BY <1>1 DEF Phases
<1>6. ExactlyOnce'
  BY <1>1 DEF ExactlyOnce, Considered
<1> QED BY <1>3, <1>4, <1>5, <1>6

\* The steps of run() that touch neither queues nor nodes.
LEMMA LoopKeeps ==
  ASSUME IInv, RunBegin \/ LoopTop \/ SeesMessages \/ SeesNothing \/ SetBack \/ Drained
  PROVE  IInv'
<1> USE DEF IInv
<1>1. UNCHANGED <<registered, enrolling, late, queue, front, mutex, push, log, got, stopAsked, tmp>>
  BY DEF RunBegin, LoopTop, SeesMessages, SeesNothing, SetBack, Drained,
     callVars
<1>2. completed' = completed
  BY <1>1 DEF completed, Size
<1>3. running' \in BOOLEAN
  BY Zenon DEF TypeOK, RunBegin, LoopTop, SeesMessages, SeesNothing, SetBack, Drained
<1>4. cursor' \in Nat \ {0} /\ back' \in Slots /\ pc' \in PcValues
  BY DEF TypeOK, PcValues, RunBegin, LoopTop, SeesMessages, SeesNothing, SetBack, Drained
<1>5. TypeOK'
  BY <1>1, <1>3, <1>4 DEF TypeOK
<1>6. Locking'
  BY <1>1 DEF Locking, RunBegin, LoopTop, SeesMessages, SeesNothing, SetBack, Drained
<1>7. Pointers'
  BY <1>1 DEF Pointers, RunBegin, LoopTop, SeesMessages, SeesNothing, SetBack, Drained
<1>8. (Backlog /\ OnePerID)'
  BY <1>1, <1>2 DEF Backlog, OnePerID, Older, Size
<1>9. Distribution'
  <2>1. pc' # "handler"
    BY DEF RunBegin, LoopTop, SeesMessages, SeesNothing, SetBack, Drained
  <2>2. pc' = "dispatch" => cursor' = 1
    BY DEF RunBegin, LoopTop, SeesMessages, SeesNothing, SetBack, Drained
  <2>3. Len(registered') \in Nat
    BY <1>5 DEF TypeOK
  <2> QED BY <2>1, <2>2, <2>3 DEF Distribution
<1>10. Phases'
  <2>1. pc' # "idle"
    BY DEF RunBegin, LoopTop, SeesMessages, SeesNothing, SetBack, Drained
  <2> QED BY <2>1 DEF Phases
<1>11. ExactlyOnce'
  <2>1. \A k \in DOMAIN registered : Considered(k) = completed
    BY DEF Considered, RunBegin, LoopTop, SeesMessages, SeesNothing, SetBack, Drained
  <2>2. \A k \in DOMAIN registered : Considered(k)' = completed
    <3>1. pc' # "handler"
      BY DEF RunBegin, LoopTop, SeesMessages, SeesNothing, SetBack, Drained
    <3>2. pc' = "dispatch" => cursor' = 1
      BY DEF RunBegin, LoopTop, SeesMessages, SeesNothing, SetBack, Drained
    <3>3. \A k \in DOMAIN registered : k \in Nat /\ ~ (k < 1)
      BY DEF TypeOK
    <3> QED BY <1>2, <3>1, <3>2, <3>3 DEF Considered
  <2> QED BY <1>1, <2>1, <2>2 DEF ExactlyOnce
<1> QED BY <1>5, <1>6, <1>7, <1>8, <1>9, <1>10, <1>11

\* The swap: the queue that becomes the front one is empty, so the messages
\* that wait keep their order.
LEMMA FlipKeeps == ASSUME IInv, Flip PROVE IInv'
<1> USE DEF IInv
<1>1. /\ UNCHANGED <<registered, enrolling, late, queue, back, mutex, push, log, got, running, stopAsked, cursor>>
      /\ front' = back /\ tmp' = front /\ pc = "flip" /\ pc' = "setback" /\ mutex = Free
  BY DEF Flip, callVars
<1>2. front # back /\ queue[back] = <<>> /\ push = NoPush
  BY <1>1 DEF Pointers, Locking
<1>3. TypeOK'
  BY <1>1 DEF TypeOK, PcValues
<1>4. completed' = completed
  BY <1>1 DEF completed, Size
<1>5. Older = back /\ Older' = front
  BY <1>1, <1>2 DEF TypeOK, Slots, Older
<1>6. (Locking /\ Pointers /\ Distribution /\ Phases /\ OnePerID)'
  BY <1>1, <1>2, <1>4 DEF Locking, Pointers, Distribution, Phases, OnePerID
<1>7. Backlog'
  <2>1. Size(back) = 0 /\ Size(front) \in Nat /\ completed >= 0
    BY <1>2, CompletedCount DEF Backlog, Size
  <2>2. \A i \in 1..Size(front) : queue[front][i] = log[completed + i]
    <3> SUFFICES ASSUME NEW i \in 1..Size(front)
                 PROVE  queue[front][i] = log[completed + i]
      OBVIOUS
    <3>1. queue[front][i] = log[completed + Size(Older) + i]
      BY DEF Backlog
    <3>2. completed + Size(Older) + i = completed + i
      BY <1>5, <2>1, CompletedCount DEF Backlog
    <3> QED BY <3>1, <3>2
  <2>3. Size(Older)' = Size(front) /\ Size(front)' = Size(back)
    BY <1>1, <1>5 DEF Size
  <2>4. \A i \in 1..Size(Older)' : queue'[Older'][i] = log'[completed' + i]
    BY <1>1, <1>4, <1>5, <2>2, <2>3
  <2>5. \A i \in 1..Size(front)' : queue'[front'][i] = log'[completed' + Size(Older)' + i]
    BY <2>1, <2>3
  <2> QED BY <1>4, <2>1, <2>4, <2>5 DEF Backlog
<1>8. ExactlyOnce'
  BY <1>1, <1>4 DEF ExactlyOnce, Considered
<1> QED BY <1>3, <1>6, <1>7, <1>8

\* At the head of the back queue is the first message of the log that is not
\* completed.
LEMMA HeadIsNext ==
  ASSUME IInv, pc \in {"dispatch", "handler"}, queue[back] # <<>>
  PROVE  /\ back = Older /\ back # front
         /\ completed \in Nat /\ completed + 1 <= Len(log) /\ Size(back) >= 1
         /\ Head(queue[back]) = queue[back][1]
         /\ queue[back][1] = log[completed + 1]
<1> USE DEF IInv
<1>1. back # front /\ back = Older
  BY CompletedCount DEF Pointers
<1>2. queue[back] \in Seq(Messages)
  BY DEF TypeOK
<1>3. Size(back) >= 1 /\ Head(queue[back]) = queue[back][1]
  BY <1>2 DEF Size
<1>4. completed \in Nat /\ completed + 1 <= Len(log)
  BY <1>1, <1>3, CompletedCount DEF Backlog
<1>5. queue[back][1] = log[completed + 1]
  BY <1>1, <1>3, CompletedCount DEF Backlog
<1> QED BY <1>1, <1>3, <1>4, <1>5

\* A registration that does not want the head of the queue is passed over.
LEMMA SkipKeeps == ASSUME IInv, ~late, Skip PROVE IInv'
<1> USE DEF IInv
<1>1. /\ UNCHANGED <<registered, enrolling, late, queue, front, back, tmp, mutex, push, log, got, running, stopAsked, pc>>
      /\ cursor' = cursor + 1 /\ pc = "dispatch" /\ queue[back] # <<>>
      /\ cursor \in 1..Len(registered)
      /\ ~Wants(registered[cursor], Head(queue[back]))
  BY DEF Skip, Considering, TypeOK, callVars
<1>2. completed' = completed
  BY <1>1 DEF completed, Size
<1>3. TypeOK' /\ Len(registered) \in Nat
  BY <1>1 DEF TypeOK
<1>4. (Locking /\ Pointers /\ Backlog /\ Phases /\ OnePerID)'
  BY <1>1, <1>2 DEF Locking, Pointers, Backlog, Phases, OnePerID, Older, Size
<1>5. Distribution'
  BY <1>1, <1>3 DEF Distribution
<1>6. ExactlyOnce'
  <2>1. completed \in Nat /\ ~Wants(registered[cursor], log[completed + 1])
    BY <1>1, HeadIsNext
  <2> SUFFICES ASSUME NEW k \in DOMAIN registered
               PROVE  got[registered[k].node]
                        = {i \in 1..Considered(k)' : Wants(registered[k], log[i])}
    BY <1>1 DEF ExactlyOnce
  <2>2. got[registered[k].node] = {i \in 1..Considered(k) : Wants(registered[k], log[i])}
    BY DEF ExactlyOnce
  <2>3. k \in Nat
    BY DEF TypeOK
  <2>4. CASE k # cursor
    <3>1. k < cursor <=> k < cursor + 1
      BY <1>1, <2>3, <2>4
    <3>2. Considered(k)' = Considered(k)
      BY <1>1, <1>2, <3>1 DEF Considered
    <3> QED BY <2>2, <3>2
  <2>5. CASE k = cursor
    <3>1. Considered(k) = completed /\ Considered(k)' = completed + 1
      BY <1>1, <1>2, <2>3, <2>5 DEF Considered
    <3>2. \A i \in 1..(completed + 1) : i \in 1..completed \/ i = completed + 1
      BY <2>1
    <3>3. 1..completed \subseteq 1..(completed + 1)
      BY <2>1
    <3> QED BY <2>1, <2>2, <2>5, <3>1, <3>2, <3>3
  <2> QED BY <2>4, <2>5
<1> QED BY <1>3, <1>4, <1>5, <1>6

\* processMessage() is called for a registration that wants the message.
LEMMA DeliverKeeps == ASSUME BusConstants, IInv, ~late, Deliver PROVE IInv'
<1> USE DEF IInv
<1>1. /\ UNCHANGED <<registered, enrolling, late, queue, front, back, tmp, mutex, push, log, running, stopAsked, cursor>>
      /\ pc = "dispatch" /\ pc' = "handler" /\ queue[back] # <<>>
      /\ cursor \in 1..Len(registered)
      /\ Wants(registered[cursor], Head(queue[back]))
      /\ got' = [got EXCEPT ![registered[cursor].node] = @ \cup {completed + 1}]
  BY DEF Deliver, Considering, TypeOK, callVars
<1>2. completed' = completed
  BY <1>1 DEF completed, Size
<1>3. \A k \in DOMAIN registered : registered[k].node \in Nodes /\ k \in Nat
  <2>1. \A k \in DOMAIN registered : registered[k] \in Registration /\ k \in Nat
    BY DEF TypeOK
  <2> QED BY <2>1 DEF Registration
<1>4. /\ completed \in Nat /\ Head(queue[back]) = queue[back][1]
      /\ queue[back][1] = log[completed + 1]
  BY <1>1, HeadIsNext
<1>5. TypeOK'
  <2>1. got' \in [Nodes -> SUBSET (Nat \ {0})]
    BY <1>1, <1>3, <1>4 DEF TypeOK
  <2> QED BY <1>1, <2>1 DEF TypeOK, PcValues
<1>6. (Locking /\ Pointers /\ Backlog /\ OnePerID)'
  BY <1>1, <1>2 DEF Locking, Pointers, Backlog, OnePerID, Older, Size
<1>7. (Distribution /\ Phases)'
  BY <1>1, <1>4 DEF Distribution, Phases
<1>8. ExactlyOnce'
  <2> SUFFICES ASSUME NEW k \in DOMAIN registered
               PROVE  got'[registered[k].node]
                        = {i \in 1..Considered(k)' : Wants(registered[k], log[i])}
    BY <1>1 DEF ExactlyOnce
  <2>1. got[registered[k].node] = {i \in 1..Considered(k) : Wants(registered[k], log[i])}
    BY DEF ExactlyOnce
  <2>2. CASE k # cursor
    <3>1. registered[k].node # registered[cursor].node
      BY <1>1, <2>2 DEF OnePerID
    <3>2. got'[registered[k].node] = got[registered[k].node]
      BY <1>1, <1>3, <3>1 DEF TypeOK
    <3>3. k < cursor <=> k <= cursor
      BY <1>1, <1>3, <2>2
    <3>4. Considered(k)' = Considered(k)
      BY <1>1, <1>2, <3>3 DEF Considered
    <3> QED BY <2>1, <3>2, <3>4
  <2>3. CASE k = cursor
    <3>1. Considered(k) = completed /\ Considered(k)' = completed + 1
      BY <1>1, <1>2, <1>3, <2>3 DEF Considered
    <3>2. got'[registered[k].node] = got[registered[k].node] \cup {completed + 1}
      BY <1>1, <1>3, <2>3 DEF TypeOK
    <3>3. \A i : i \in 1..(completed + 1) <=> i \in 1..completed \/ i = completed + 1
      BY <1>4
    <3> QED BY <1>1, <1>4, <2>1, <2>3, <3>1, <3>2, <3>3
  <2> QED BY <2>2, <2>3
<1> QED BY <1>5, <1>6, <1>7, <1>8

\* The handler returns and the loop goes on with the next registration.
LEMMA HandlerReturnsKeeps == ASSUME IInv, HandlerReturns PROVE IInv'
<1> USE DEF IInv
<1>1. /\ UNCHANGED <<registered, enrolling, late, queue, front, back, tmp, mutex, push, log, got, running, stopAsked>>
      /\ pc = "handler" /\ pc' = "dispatch" /\ mutex # Bus /\ cursor' = cursor + 1
  BY DEF HandlerReturns, callVars
<1>2. completed' = completed
  BY <1>1 DEF completed, Size
<1>3. TypeOK' /\ Len(registered) \in Nat
  BY <1>1 DEF TypeOK, PcValues
<1>4. cursor \in 1..Len(registered) /\ queue[back] # <<>>
  BY <1>1 DEF Distribution
<1>5. (Locking /\ Pointers /\ Backlog /\ Phases /\ OnePerID)'
  BY <1>1, <1>2 DEF Locking, Pointers, Backlog, Phases, OnePerID, Older, Size
<1>6. Distribution'
  BY <1>1, <1>3, <1>4 DEF Distribution
<1>7. ExactlyOnce'
  <2>1. \A k \in DOMAIN registered : k \in Nat /\ (k <= cursor <=> k < cursor + 1)
    BY <1>4 DEF TypeOK
  <2>2. \A k \in DOMAIN registered : Considered(k)' = Considered(k)
    BY <1>1, <1>2, <1>4, <2>1 DEF Considered
  <2> QED BY <1>1, <2>2 DEF ExactlyOnce
<1> QED BY <1>3, <1>5, <1>6, <1>7

\* The message every registration has been considered for is removed.
LEMMA PopKeeps == ASSUME IInv, Pop PROVE IInv'
<1> USE DEF IInv
<1>1. /\ UNCHANGED <<registered, enrolling, late, front, back, tmp, mutex, push, log, got, running, stopAsked, pc>>
      /\ pc = "dispatch" /\ queue[back] # <<>> /\ cursor > Len(registered) /\ cursor' = 1
      /\ queue' = [queue EXCEPT ![back] = Tail(@)]
  BY DEF Pop, callVars
<1>2. /\ back = Older /\ back # front /\ completed \in Nat
      /\ completed + 1 <= Len(log) /\ Size(back) >= 1
  BY <1>1, HeadIsNext
<1>3. /\ queue \in [Slots -> Seq(Messages)] /\ back \in Slots /\ front \in Slots
      /\ queue[back] \in Seq(Messages) /\ Len(registered) \in Nat /\ cursor \in Nat
  BY DEF TypeOK
<1>4. /\ queue'[back] = Tail(queue[back]) /\ queue'[front] = queue[front]
      /\ queue' \in [Slots -> Seq(Messages)]
  BY <1>1, <1>2, <1>3
<1>5. TypeOK'
  BY <1>1, <1>4 DEF TypeOK
<1>6. /\ Older' = Older
      /\ Size(back)' = Size(back) - 1 /\ Size(front)' = Size(front)
      /\ Size(back) \in Nat
  BY <1>1, <1>3, <1>4 DEF Size, Older
<1>7. completed' = completed + 1
  <2>1. completed = Len(log) - (Size(back) + Size(front)) /\ Size(front) \in Nat /\ Len(log) \in Nat
    BY <1>2, CompletedCount
  <2>2. completed' = Len(log) - (Size(back)' + Size(front)')
    BY <1>1, <1>2, <1>5, <1>6, CompletedCountNext
  <2> QED BY <1>6, <2>1, <2>2
<1>8. (Locking /\ Pointers /\ Phases /\ OnePerID)'
  BY <1>1, <1>7 DEF Locking, Pointers, Phases, OnePerID
<1>9. Distribution'
  BY <1>1, <1>3 DEF Distribution
<1>10. Backlog'
  <2>1. \A i \in 1..Size(Older)' : queue'[Older'][i] = log'[completed' + i]
    <3> SUFFICES ASSUME NEW i \in 1..(Size(back) - 1)
                 PROVE  queue'[back][i] = log[completed + 1 + i]
      BY <1>1, <1>2, <1>6, <1>7
    <3>1. queue'[back][i] = queue[back][i + 1]
      BY <1>3, <1>4 DEF Size
    <3>2. i + 1 \in 1..Size(back) /\ completed + (i + 1) = completed + 1 + i
      BY <1>2, <1>6
    <3>3. queue[back][i + 1] = log[completed + (i + 1)]
      BY <1>2, <3>2 DEF Backlog
    <3> QED BY <3>1, <3>2, <3>3
  <2>2. \A i \in 1..Size(front)' : queue'[front'][i] = log'[completed' + Size(Older)' + i]
    <3> SUFFICES ASSUME NEW i \in 1..Size(front)
                 PROVE  queue[front][i] = log[completed + 1 + (Size(back) - 1) + i]
      BY <1>1, <1>2, <1>4, <1>6, <1>7
    <3>1. queue[front][i] = log[completed + Size(back) + i]
      BY <1>2 DEF Backlog
    <3>2. completed + 1 + (Size(back) - 1) + i = completed + Size(back) + i
      BY <1>2, <1>6, CompletedCount
    <3> QED BY <3>1, <3>2
  <2>3. completed' >= 0
    BY <1>2, <1>7
  <2> QED BY <2>1, <2>2, <2>3 DEF Backlog
<1>11. ExactlyOnce'
  <2>1. \A k \in DOMAIN registered : k < cursor /\ ~(k < 1)
    BY <1>1, <1>3 DEF TypeOK
  <2>2. \A k \in DOMAIN registered : Considered(k) = completed + 1
    BY <1>1, <2>1 DEF Considered
  <2>3. \A k \in DOMAIN registered : Considered(k)' = completed + 1
    BY <1>1, <1>7, <2>1 DEF Considered
  <2> QED BY <1>1, <2>2, <2>3 DEF ExactlyOnce
<1> QED BY <1>5, <1>8, <1>9, <1>10, <1>11

\* Every step of every thread preserves the invariant.
LEMMA NextKeeps ==
  ASSUME BusConstants, ThreadConstants, IInv, [Next]_vars
  PROVE  IInv'
<1>1. CASE \/ \E n \in Nodes, ts \in {{}} \cup {{t} : t \in Types} : RegisterBegin(n, ts)
           \/ RegisterEnd
  <2>1. \A ts \in {{}} \cup {{t} : t \in Types} : ts \in SUBSET Types
    OBVIOUS
  <2> QED BY <1>1, <2>1, RegisterBeginKeeps, RegisterEndKeeps
<1>2. CASE \E t \in Threads, m \in Messages : SendBegin(t, m)
  BY <1>2, SendBeginKeeps
<1>3. CASE ~late /\ \E t \in Threads : SendEnd(t)
  BY <1>3, SendEndKeeps
<1>4. CASE Stop
  BY <1>4, StopKeeps
<1>5. CASE RunBegin \/ LoopTop \/ SeesMessages \/ SeesNothing \/ SetBack \/ Drained
  BY <1>5, LoopKeeps
<1>6. CASE Flip
  BY <1>6, FlipKeeps
<1>7. CASE ~late /\ Skip
  BY <1>7, SkipKeeps
<1>8. CASE ~late /\ Deliver
  BY <1>8, DeliverKeeps
<1>9. CASE HandlerReturns
  BY <1>9, HandlerReturnsKeeps
<1>10. CASE Pop
  BY <1>10, PopKeeps
<1>11. CASE UNCHANGED vars
  <2>1. completed' = completed
    BY <1>11 DEF vars, completed, Size
  <2> QED
    BY <1>11, <2>1 DEF vars, IInv, TypeOK, Locking, Pointers, Backlog, Distribution, Phases,
                       OnePerID, ExactlyOnce, Considered, Older, Size
<1>12. CASE late
  BY <1>11, <1>12 DEF Next
<1> QED
  BY <1>1, <1>2, <1>3, <1>4, <1>5, <1>6, <1>7, <1>8, <1>9, <1>10, <1>11, <1>12
  DEF Next, BusStep

------------------------------------------------------------------------------
\* The inductive invariant holds in every reachable state.
THEOREM Invariance == Spec => []IInv
<1>1. Init => IInv
  BY InitIInv, BusConstants, ThreadConstants
<1>2. IInv /\ [Next]_vars => IInv'
  BY NextKeeps, BusConstants, ThreadConstants
<1> QED BY <1>1, <1>2, PTL DEF Spec

\* Every variable keeps its type: the queues hold messages, the pointers name
\* queues and the loop index stays a position.
THEOREM TypeCorrect == Spec => []TypeOK
<1>1. IInv => TypeOK
  BY DEF IInv
<1> QED BY <1>1, Invariance, PTL

\* Each registered node is handed exactly the messages it wants among those it
\* has been considered for: none lost, none twice, none out of order.
THEOREM HandedExactlyOnce == Spec => []ExactlyOnce
<1>1. IInv => ExactlyOnce
  BY DEF IInv
<1> QED BY <1>1, Invariance, PTL

\* The back queue is never pushed on while the bus thread walks it unlocked.
THEOREM NoPushOnBackQueue == Spec => []DispatchIsolated
<1>1. IInv => DispatchIsolated
  BY DEF IInv, DispatchIsolated, Locking, Pointers
<1> QED BY <1>1, Invariance, PTL

\* run() returns with everything it took over distributed.
THEOREM ReturnsAfterBatch == Spec => []NoHalfBatch
<1>1. IInv => NoHalfBatch
  BY DEF IInv, NoHalfBatch, Pointers
<1> QED BY <1>1, Invariance, PTL

\* What waits in the two queues is exactly the unfinished end of what was sent.
THEOREM NothingLostOrReordered == Spec => []BacklogInOrder
<1>1. IInv => BacklogInOrder
  <2> SUFFICES ASSUME IInv PROVE BacklogInOrder
    OBVIOUS
  <2> DEFINE o == queue[Older]
             f == queue[front]
             rest == SubSeq(log, completed + 1, Len(log))
  <2>1. /\ Size(Older) \in Nat /\ Size(front) \in Nat /\ Len(log) \in Nat
        /\ completed \in Nat /\ completed = Len(log) - (Size(Older) + Size(front))
    BY CompletedCount DEF IInv, Backlog
  <2>2. /\ o \in Seq(Messages) /\ f \in Seq(Messages) /\ log \in Seq(Messages)
        /\ Len(o) = Size(Older) /\ Len(f) = Size(front)
    BY CompletedCount DEF IInv, TypeOK, Size
  <2>3. /\ o \o f \in Seq(Messages)
        /\ Len(o \o f) = Size(Older) + Size(front)
        /\ \A i \in 1..(Size(Older) + Size(front)) :
             (o \o f)[i] = IF i <= Size(Older) THEN o[i] ELSE f[i - Size(Older)]
    <3> HIDE DEF o, f
    <3>1. /\ o \o f \in Seq(Messages)
          /\ Len(o \o f) = Len(o) + Len(f)
          /\ \A i \in 1..(Len(o) + Len(f)) :
               (o \o f)[i] = IF i <= Len(o) THEN o[i] ELSE f[i - Len(o)]
      BY <2>2, ConcatProperties
    <3>2. Len(o) + Len(f) = Size(Older) + Size(front)
      BY <2>2
    <3>3. \A i : (IF i <= Len(o) THEN o[i] ELSE f[i - Len(o)])
                  = (IF i <= Size(Older) THEN o[i] ELSE f[i - Size(Older)])
      BY <2>2
    <3> QED BY <3>1, <3>2, <3>3
  <2>4. /\ rest \in Seq(Messages)
        /\ Len(rest) = Size(Older) + Size(front)
        /\ \A i \in 1..(Size(Older) + Size(front)) : rest[i] = log[completed + i]
    <3>1. \A i \in (completed + 1)..Len(log) : log[i] \in Messages
      BY <2>1, <2>2
    <3>2. completed + 1 \in Int /\ Len(log) \in Int
      BY <2>1
    <3>3. /\ rest \in Seq(Messages)
          /\ Len(rest) = IF completed + 1 <= Len(log)
                         THEN Len(log) - (completed + 1) + 1 ELSE 0
          /\ \A i \in 1..(Len(log) - (completed + 1) + 1) : rest[i] = log[completed + 1 + i - 1]
      BY <3>1, <3>2, SubSeqProperties
    <3> HIDE DEF rest
    <3>4. Len(log) - (completed + 1) + 1 = Size(Older) + Size(front)
      BY <2>1
    <3>5. \A i \in 1..(Size(Older) + Size(front)) : completed + 1 + i - 1 = completed + i
      BY <2>1
    <3>6. Len(rest) = Size(Older) + Size(front)
      BY <2>1, <3>3, <3>4
    <3> QED BY <3>3, <3>4, <3>5, <3>6
  <2>5. \A i \in 1..(Size(Older) + Size(front)) : (o \o f)[i] = rest[i]
    <3> SUFFICES ASSUME NEW i \in 1..(Size(Older) + Size(front)) PROVE (o \o f)[i] = rest[i]
      OBVIOUS
    <3>1. rest[i] = log[completed + i]
      BY <2>4
    <3>2. CASE i <= Size(Older)
      <4>1. o[i] = log[completed + i]
        BY <2>1, <3>2 DEF IInv, Backlog
      <4> QED BY <2>3, <3>1, <3>2, <4>1
    <3>3. CASE ~(i <= Size(Older))
      <4>1. i - Size(Older) \in 1..Size(front)
        BY <2>1, <3>3
      <4>2. f[i - Size(Older)] = log[completed + Size(Older) + (i - Size(Older))]
        BY <4>1 DEF IInv, Backlog
      <4>3. completed + Size(Older) + (i - Size(Older)) = completed + i
        BY <2>1
      <4> QED BY <2>3, <3>1, <3>3, <4>2, <4>3
    <3> QED BY <3>2, <3>3
  <2>6. o \o f = rest
    <3> HIDE DEF o, f, rest
    <3> QED BY <2>3, <2>4, <2>5, SeqEqual
  <2> QED BY <2>6 DEF BacklogInOrder
<1> QED BY <1>1, Invariance, PTL

------------------------------------------------------------------------------
\* One step of the bus is one step of the broadcast, or none.
LEMMA StepSimulation ==
  ASSUME BusConstants, ThreadConstants, IInv, IInv', [Next]_vars
  PROVE  [Broadcast!Next]_(Broadcast!abstractVars)
<1> USE DEF IInv
<1> USE DEF Broadcast!Wants, Wants
<1> USE DEF callVars
<1> DEFINE Quiet == UNCHANGED <<pc = "idle", registered, log, got, completed, late>>
<1>0. Quiet => UNCHANGED Broadcast!abstractVars
  BY DEF Broadcast!abstractVars
<1>1. CASE \/ \E n \in Nodes, ts \in {{}} \cup {{t} : t \in Types} : RegisterBegin(n, ts)
           \/ RegisterEnd
  <2>1. CASE \E n \in Nodes, ts \in {{}} \cup {{t} : t \in Types} : RegisterBegin(n, ts)
    <3>1. Quiet
      BY <2>1 DEF RegisterBegin, busVars, completed, Size
    <3> QED BY <1>0, <3>1
  <2>2. CASE RegisterEnd /\ late'
    <3>1. Broadcast!Spoil
      BY <2>2 DEF Broadcast!Spoil
    <3> QED BY <3>1 DEF Broadcast!Next
  <2>3. CASE RegisterEnd /\ ~late'
    <3>1. PICK r \in enrolling : registered' = Enrol(registered, r.node, r.types)
      BY <2>3 DEF RegisterEnd
    <3>2. r.node \in Nodes /\ r.types \in SUBSET Types
      <4>1. r \in Registration
        BY DEF TypeOK
      <4> QED BY <4>1 DEF Registration
    <3>3. pc = "idle" /\ UNCHANGED <<pc, log, got, late>> /\ completed' = completed
      BY <2>3, Zenon DEF RegisterEnd, busVars, completed, Size, TypeOK
    <3>4. Broadcast!Subscribe(r.node, r.types)
      BY <3>1, <3>3 DEF Broadcast!Subscribe, Broadcast!Enrol, Enrol
    <3> QED BY <3>2, <3>4 DEF Broadcast!Next
  <2> QED BY <1>1, <2>1, <2>2, <2>3
<1>2. CASE \E t \in Threads, m \in Messages : SendBegin(t, m)
  <2>1. Quiet
    BY <1>2 DEF SendBegin, busVars, callVars, completed, Size
  <2> QED BY <1>0, <2>1
<1>3. CASE \E t \in Threads : SendEnd(t)
  <2>1. PICK t \in Threads : SendEnd(t)
    BY <1>3
  <2>2. push.msg \in Messages
    BY <2>1 DEF SendEnd, Locking, TypeOK, Threads, ThreadConstants
  <2>3. completed' = completed
    <3>1. PICK s \in Slots : s = push.slot /\ push.slot = front
      BY <2>1 DEF SendEnd, Locking, TypeOK, Threads, ThreadConstants
    <3>2. queue[front] \in Seq(Messages) /\ front \in Slots
      BY DEF TypeOK
    <3>3. /\ Size(front)' = Size(front) + 1 /\ Size(Older)' = Size(Older)
          /\ Len(log') = Len(log) + 1
      BY <2>1, <2>2, <3>1, <3>2, CompletedCount DEF SendEnd, busVars, callVars, Older, Size, TypeOK
    <3> QED BY <3>3, CompletedCount, CompletedCountNext
  <2>4. Broadcast!Accept(push.msg)
    BY <2>1, <2>3 DEF Broadcast!Accept, SendEnd, busVars, callVars
  <2> QED BY <2>2, <2>4 DEF Broadcast!Next
<1>4. CASE Stop
  <2>1. Quiet
    BY <1>4 DEF Stop, busVars, callVars, completed, Size
  <2> QED BY <1>0, <2>1
<1>5. CASE RunBegin
  <2>1. Broadcast!Close
    BY <1>5 DEF Broadcast!Close, RunBegin, completed, Size
  <2> QED BY <2>1 DEF Broadcast!Next
<1>6. CASE \/ LoopTop \/ SeesMessages \/ SeesNothing \/ Flip \/ SetBack \/ Drained
           \/ Skip \/ HandlerReturns
  <2>1. Quiet
    BY <1>6 DEF LoopTop, SeesMessages, SeesNothing, Flip, SetBack, Drained, Skip, HandlerReturns,
                Considering, completed, Size
  <2> QED BY <1>0, <2>1
<1>7. CASE ~late /\ Deliver
  <2>1. /\ UNCHANGED <<registered, late, log, cursor>> /\ completed' = completed
        /\ pc = "dispatch" /\ pc' = "handler" /\ queue[back] # <<>>
        /\ cursor \in 1..Len(registered)
        /\ Wants(registered[cursor], Head(queue[back]))
        /\ got' = [got EXCEPT ![registered[cursor].node] = @ \cup {completed + 1}]
    BY <1>7 DEF Deliver, Considering, TypeOK, completed, Size
  <2>2. /\ completed \in Nat /\ completed + 1 <= Len(log)
        /\ Wants(registered[cursor], log[completed + 1])
    BY <2>1, HeadIsNext
  <2>3. cursor \in DOMAIN registered /\ 1..cursor - 1 \subseteq DOMAIN registered
        /\ \A j \in 1..(cursor - 1) : j < cursor /\ j # cursor
    BY <2>1 DEF TypeOK
  <2>4. ~Broadcast!Served(cursor, completed + 1)
    <3>1. Considered(cursor) = completed
      BY <2>1 DEF Considered
    <3>2. completed + 1 \notin 1..completed
      BY <2>2
    <3>3. completed + 1 \notin got[registered[cursor].node]
      BY <1>7, <2>3, <3>1, <3>2 DEF ExactlyOnce
    <3> QED BY <2>2, <3>3 DEF Broadcast!Served
  <2>5. \A j \in 1..(cursor - 1) : Broadcast!Served(j, completed + 1)
    <3> SUFFICES ASSUME NEW j \in 1..(cursor - 1)
                 PROVE  Broadcast!Served(j, completed + 1)
      OBVIOUS
    <3>1. Considered(j) = completed + 1
      BY <2>1, <2>3 DEF Considered
    <3>2. completed + 1 \in 1..(completed + 1)
      BY <2>2
    <3> QED BY <1>7, <2>3, <3>1, <3>2 DEF Broadcast!Served, ExactlyOnce
  <2>6. Broadcast!Deliver(cursor)
    BY <2>1, <2>2, <2>4, <2>5 DEF Broadcast!Deliver
  <2> QED BY <2>3, <2>6 DEF Broadcast!Next
<1>8. CASE ~late /\ Pop
  <2>1. /\ UNCHANGED <<registered, late, log, got, pc>>
        /\ pc = "dispatch" /\ queue[back] # <<>> /\ cursor > Len(registered)
    BY <1>8 DEF Pop
  <2>2. completed \in Nat /\ completed + 1 <= Len(log) /\ completed < Len(log)
    BY <2>1, HeadIsNext DEF TypeOK
  <2>3. completed' = completed + 1
    <3>1. back = Older /\ queue \in [Slots -> Seq(Messages)] /\ back \in Slots
          /\ back # front /\ front \in Slots /\ queue[back] \in Seq(Messages)
      BY <2>1, HeadIsNext DEF TypeOK
    <3>2. queue'[back] = Tail(queue[back]) /\ queue'[front] = queue[front]
      BY <1>8, <3>1 DEF Pop
    <3>3. /\ Size(Older)' = Size(Older) - 1 /\ Size(front)' = Size(front)
          /\ Len(log') = Len(log)
      BY <1>8, <2>1, <3>1, <3>2 DEF Pop, Older, Size
    <3> QED BY <3>3, CompletedCount, CompletedCountNext
  <2>4. \A k \in DOMAIN registered : Broadcast!Served(k, completed + 1)
    <3> SUFFICES ASSUME NEW k \in DOMAIN registered
                 PROVE  Broadcast!Served(k, completed + 1)
      OBVIOUS
    <3>1. k < cursor
      BY <2>1 DEF TypeOK
    <3>2. Considered(k) = completed + 1
      BY <2>1, <3>1 DEF Considered
    <3>3. completed + 1 \in 1..(completed + 1)
      BY <2>2
    <3> QED BY <1>8, <3>2, <3>3 DEF Broadcast!Served, ExactlyOnce
  <2>5. Broadcast!Complete
    BY <2>1, <2>2, <2>3, <2>4 DEF Broadcast!Complete
  <2> QED BY <2>5 DEF Broadcast!Next
<1>9. CASE UNCHANGED vars
  <2>1. Quiet
    BY <1>9 DEF vars, completed, Size
  <2> QED BY <1>0, <2>1
<1>10. CASE late
  BY <1>9, <1>10 DEF Next
<1> QED
  BY <1>1, <1>2, <1>3, <1>4, <1>5, <1>6, <1>7, <1>8, <1>9, <1>10 DEF Next, BusStep

\* MessageBus implements OrderedBroadcast: whatever the interleaving of pushes,
\* swaps and handlers, the nodes see one ordered broadcast.
THEOREM Refinement == Spec => ImplementsBroadcast
<1>1. Init => Broadcast!Init
  <2> SUFFICES ASSUME Init PROVE Broadcast!Init
    OBVIOUS
  <2>1. completed = 0
    BY DEF Init, Slots, completed, Size
  <2> QED BY <2>1 DEF Init, Broadcast!Init
<1>2. IInv /\ IInv' /\ [Next]_vars => [Broadcast!Next]_(Broadcast!abstractVars)
  BY StepSimulation, BusConstants, ThreadConstants
<1> QED BY <1>1, <1>2, Invariance, PTL DEF Spec, Broadcast!Spec, ImplementsBroadcast

==============================================================================
