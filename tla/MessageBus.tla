----------------------------- MODULE MessageBus ------------------------------
(***************************************************************************)
(* NavigationSystem/MessageBus/MessageBus.{h,cpp}: the double-buffered     *)
(* queue every node talks through.  Threads call sendMessage(), which      *)
(* pushes on the front queue under m_FrontQueueMutex; the thread in run()  *)
(* polls the front queue without the lock, swaps the two queue pointers    *)
(* under the lock and then distributes the back queue node by node.        *)
(* processMessage() handlers run on the bus thread and may send.           *)
(***************************************************************************)
EXTENDS BusDefs

CONSTANTS
  Senders,       \* threads other than the bus thread that call sendMessage()
  Bus,           \* the thread that calls run()
  Free,          \* owner of an unlocked mutex
  NoPush,        \* no push is in progress
  MaxAccepted    \* bound: messages accepted in one behaviour

ASSUME ThreadConstants ==
  /\ Bus \notin Senders
  /\ Free \notin Senders \cup {Bus}
  /\ MaxAccepted \in Nat
  /\ NoPush \notin [slot : {"A", "B"}, msg : Messages]

VARIABLES
  running,      \* m_Running
  registered,   \* m_RegisteredNodes
  enrolling,    \* the call of registerNode() that has found m_Running unset
  queue,        \* the two std::queue objects allocated by the constructor
  front,        \* m_FrontMessages, which of the two it points to
  back,         \* m_BackMessages
  tmp,          \* tmpPtr in run()
  mutex,        \* owner of m_FrontQueueMutex
  push,         \* the push its owner is executing: target queue and message
  pc,           \* where the bus thread is
  cursor,       \* the for loop over m_RegisteredNodes in processMessages()
  stopAsked,    \* history: stop() has been called
  late,         \* history: m_RegisteredNodes has changed after run() was entered
  log,          \* history: all messages pushed, in the order of the pushes
  got           \* history: per node, positions in log it was handed

busVars   == <<front, back, tmp, pc, cursor, got>>
callVars  == <<enrolling, late>>
vars == <<running, registered, enrolling, queue, front, back, tmp, mutex, push,
          pc, cursor, stopAsked, late, log, got>>

Slots   == {"A", "B"}
Threads == Senders \cup {Bus}
PcValues == {"idle", "top", "check", "flip", "setback", "dispatch", "handler",
             "returned"}

TypeOK ==
  /\ running \in BOOLEAN
  /\ registered \in Seq(Registration)
  /\ enrolling \in SUBSET Registration
  /\ queue \in [Slots -> Seq(Messages)]
  /\ front \in Slots
  /\ back \in Slots
  /\ tmp \in Slots
  /\ mutex \in Threads \cup {Free}
  /\ push \in [slot : Slots, msg : Messages] \cup {NoPush}
  /\ pc \in PcValues
  /\ cursor \in Nat \ {0}
  /\ stopAsked \in BOOLEAN
  /\ late \in BOOLEAN
  /\ log \in Seq(Messages)
  /\ got \in [Nodes -> SUBSET (Nat \ {0})]

Init ==
  /\ running = FALSE
  /\ registered = <<>>
  /\ enrolling = {}
  /\ queue = [s \in Slots |-> <<>>]
  /\ front = "A"
  /\ back = "B"
  /\ tmp = "A"
  /\ mutex = Free
  /\ push = NoPush
  /\ pc = "idle"
  /\ cursor = 1
  /\ stopAsked = FALSE
  /\ late = FALSE
  /\ log = <<>>
  /\ got = [n \in Nodes |-> {}]

\* size() of one of the two queues.
Size(s) == Len(queue[s])

\* How many messages have been taken off the bus for good.
completed == Len(log) - (Size("A") + Size("B"))

------------------------------------------------------------------------------
\* registerNode(node) with ts = {} and registerNode(node, type) with
\* ts = {type}: m_Running is looked at.  While the bus runs both return false
\* and change nothing.  One thread constructs the nodes, so one call is under
\* way at a time.
RegisterBegin(n, ts) ==
  /\ ~running
  /\ enrolling = {}
  /\ enrolling' = {[node |-> n, types |-> ts]}
  /\ UNCHANGED <<running, registered, queue, mutex, push, stopAsked, late, log>>
  /\ UNCHANGED busVars

\* getRegisteredNode() and subscribe(), without a look at what the bus thread
\* does by then.  If it is inside its loop the two threads race on the vector,
\* which is undefined behaviour.
RegisterEnd ==
  /\ \E r \in enrolling : registered' = Enrol(registered, r.node, r.types)
  /\ enrolling' = {}
  /\ late' = (late \/ pc # "idle")
  /\ UNCHANGED <<running, queue, mutex, push, stopAsked, log>>
  /\ UNCHANGED busVars

\* sendMessage(): the lock is taken and m_FrontMessages is dereferenced ...
SendBegin(t, m) ==
  /\ t = Bus => pc = "handler"
  /\ mutex = Free
  /\ Len(log) < MaxAccepted
  /\ mutex' = t
  /\ push' = [slot |-> front, msg |-> m]
  /\ UNCHANGED <<callVars, running, registered, queue, stopAsked, log>>
  /\ UNCHANGED busVars

\* ... and the push is complete and the lock released.
SendEnd(t) ==
  /\ mutex = t
  /\ queue' = [queue EXCEPT ![push.slot] = Append(@, push.msg)]
  /\ log' = Append(log, push.msg)
  /\ mutex' = Free
  /\ push' = NoPush
  /\ UNCHANGED <<callVars, running, registered, stopAsked>>
  /\ UNCHANGED busVars

\* stop(), called once, by the thread that owns the bus.
Stop ==
  /\ ~stopAsked
  /\ running' = FALSE
  /\ stopAsked' = TRUE
  /\ UNCHANGED <<callVars, registered, queue, mutex, push, log>>
  /\ UNCHANGED busVars

------------------------------------------------------------------------------
\* The bus thread, run().
RunBegin ==
  /\ pc = "idle"
  /\ running' = TRUE
  /\ pc' = "top"
  /\ UNCHANGED <<callVars, registered, queue, front, back, tmp, mutex, push, cursor,
                 stopAsked, log, got>>

\* A loop that never looks at m_Running.
LoopForever ==
  /\ pc = "top"
  /\ pc' = "check"
  /\ UNCHANGED <<callVars, running, registered, queue, front, back, tmp, mutex, push,
                 cursor, stopAsked, log, got>>

\* The loop condition, then the sleep.
LoopTop ==
  /\ pc = "top"
  /\ pc' = IF running THEN "check" ELSE "returned"
  /\ UNCHANGED <<callVars, running, registered, queue, front, back, tmp, mutex, push,
                 cursor, stopAsked, log, got>>

\* m_FrontMessages->size() is read without the lock: while a push is under
\* way on the same queue the read may see either answer.
Pushing == mutex # Free

SeesMessages ==
  /\ pc = "check"
  /\ queue[front] # <<>> \/ Pushing
  /\ pc' = "flip"
  /\ UNCHANGED <<callVars, running, registered, queue, front, back, tmp, mutex, push,
                 cursor, stopAsked, log, got>>

SeesNothing ==
  /\ pc = "check"
  /\ queue[front] = <<>> \/ Pushing
  /\ pc' = "top"
  /\ UNCHANGED <<callVars, running, registered, queue, front, back, tmp, mutex, push,
                 cursor, stopAsked, log, got>>

\* The swap without the lock around it.
FlipUnlocked ==
  /\ pc = "flip"
  /\ tmp' = front
  /\ front' = back
  /\ pc' = "setback"
  /\ UNCHANGED <<callVars, running, registered, queue, back, mutex, push, cursor,
                 stopAsked, log, got>>

\* lock; tmpPtr = front; front = back; unlock.  Nothing the bus does inside
\* is visible to a thread that does not hold the lock.
Flip ==
  /\ pc = "flip"
  /\ mutex = Free
  /\ tmp' = front
  /\ front' = back
  /\ pc' = "setback"
  /\ UNCHANGED <<callVars, running, registered, queue, back, mutex, push, cursor,
                 stopAsked, log, got>>

\* Going back to sleep without looking at the queue the swap brought over.
SetBackAndSleep ==
  /\ pc = "setback"
  /\ back' = tmp
  /\ cursor' = 1
  /\ pc' = "top"
  /\ UNCHANGED <<callVars, running, registered, queue, front, tmp, mutex, push,
                 stopAsked, log, got>>

SetBack ==
  /\ pc = "setback"
  /\ back' = tmp
  /\ cursor' = 1
  /\ pc' = "dispatch"
  /\ UNCHANGED <<callVars, running, registered, queue, front, tmp, mutex, push,
                 stopAsked, log, got>>

------------------------------------------------------------------------------
\* processMessages().  The head of the back queue stays there until every
\* registration has been considered for it.
Considering ==
  /\ pc = "dispatch"
  /\ queue[back] # <<>>
  /\ cursor <= Len(registered)

\* A directed message ends the loop at the first registration it is not for.
SkipStops ==
  /\ Considering
  /\ ~Wants(registered[cursor], Head(queue[back]))
  /\ cursor' = Len(registered) + 1
  /\ UNCHANGED <<callVars, running, registered, queue, front, back, tmp, mutex, push,
                 pc, stopAsked, log, got>>

Skip ==
  /\ Considering
  /\ ~Wants(registered[cursor], Head(queue[back]))
  /\ cursor' = cursor + 1
  /\ UNCHANGED <<callVars, running, registered, queue, front, back, tmp, mutex, push,
                 pc, stopAsked, log, got>>

\* nodeRef.processMessage(msg) is entered; while it runs it may send.
Deliver ==
  /\ Considering
  /\ Wants(registered[cursor], Head(queue[back]))
  /\ got' = [got EXCEPT ![registered[cursor].node] = @ \cup {completed + 1}]
  /\ pc' = "handler"
  /\ UNCHANGED <<callVars, running, registered, queue, front, back, tmp, mutex, push,
                 cursor, stopAsked, log>>

\* stop() takes effect inside a batch, as soon as the handler returns.
HandlerReturnsStops ==
  /\ pc = "handler"
  /\ mutex # Bus
  /\ cursor' = cursor + 1
  /\ pc' = IF running THEN "dispatch" ELSE "returned"
  /\ UNCHANGED <<callVars, running, registered, queue, front, back, tmp, mutex, push,
                 stopAsked, log, got>>

HandlerReturns ==
  /\ pc = "handler"
  /\ mutex # Bus
  /\ cursor' = cursor + 1
  /\ pc' = "dispatch"
  /\ UNCHANGED <<callVars, running, registered, queue, front, back, tmp, mutex, push,
                 stopAsked, log, got>>

\* The message is popped as soon as it has been handed out once.
PopEarly ==
  /\ pc = "dispatch"
  /\ queue[back] # <<>>
  /\ cursor > 1
  /\ queue' = [queue EXCEPT ![back] = Tail(@)]
  /\ cursor' = 1
  /\ UNCHANGED <<callVars, running, registered, front, back, tmp, mutex, push, pc,
                 stopAsked, log, got>>

\* The loop over the registrations restarts one position too low.
PopOffByOne ==
  /\ pc = "dispatch"
  /\ queue[back] # <<>>
  /\ cursor > Len(registered)
  /\ queue' = [queue EXCEPT ![back] = Tail(@)]
  /\ cursor' = 0
  /\ UNCHANGED <<callVars, running, registered, front, back, tmp, mutex, push, pc,
                 stopAsked, log, got>>

Pop ==
  /\ pc = "dispatch"
  /\ queue[back] # <<>>
  /\ cursor > Len(registered)
  /\ queue' = [queue EXCEPT ![back] = Tail(@)]
  /\ cursor' = 1
  /\ UNCHANGED <<callVars, running, registered, front, back, tmp, mutex, push, pc,
                 stopAsked, log, got>>

\* run() ends with its first batch.
DrainedReturns ==
  /\ pc = "dispatch"
  /\ queue[back] = <<>>
  /\ pc' = "returned"
  /\ UNCHANGED <<callVars, running, registered, queue, front, back, tmp, mutex, push,
                 cursor, stopAsked, log, got>>

Drained ==
  /\ pc = "dispatch"
  /\ queue[back] = <<>>
  /\ pc' = "top"
  /\ UNCHANGED <<callVars, running, registered, queue, front, back, tmp, mutex, push,
                 cursor, stopAsked, log, got>>

------------------------------------------------------------------------------
BusStep ==
  \/ RunBegin \/ LoopTop \/ SeesMessages \/ SeesNothing \/ Flip \/ SetBack
  \/ Skip \/ Deliver \/ HandlerReturns \/ Pop \/ Drained

\* Bound: a behaviour ends with the first late registration, after which the
\* code promises nothing.
Next ==
  /\ ~late
  /\ \/ \E n \in Nodes, ts \in {{}} \cup {{t} : t \in Types} : RegisterBegin(n, ts)
     \/ RegisterEnd
     \/ \E t \in Threads, m \in Messages : SendBegin(t, m)
     \/ \E t \in Threads : SendEnd(t)
     \/ Stop
     \/ BusStep

Spec == Init /\ [][Next]_vars

\* Fairness: the bus thread keeps being scheduled, and a push ends.  Nobody
\* has to send, register or stop.
FairSpec == /\ Spec
            /\ WF_vars(~late /\ BusStep)
            /\ \A t \in Threads : WF_vars(~late /\ SendEnd(t))

------------------------------------------------------------------------------
(* Properties *)

\* The queue that is not the front one.  It holds the older messages, also in
\* the moment in which both pointers name the same queue (pc = "setback").
Older == IF front = "A" THEN "B" ELSE "A"

\* Nothing is lost, duplicated or reordered on its way through the two queues:
\* read oldest first they are exactly the end of what was pushed, whatever the
\* interleaving of pushes, swaps and handlers (sendMessage(), run()).
BacklogInOrder ==
  queue[Older] \o queue[front] = SubSeq(log, completed + 1, Len(log))

\* While the bus thread walks the back queue without the lock, no thread is
\* pushing on it: every push goes to the other queue (run(), processMessages()).
DispatchIsolated ==
  pc \in {"dispatch", "handler"} /\ push # NoPush => push.slot # back

\* The number of messages registration k has been considered for.
Considered(k) ==
  IF \/ pc = "dispatch" /\ queue[back] # <<>> /\ k < cursor
     \/ pc = "handler" /\ k <= cursor
  THEN completed + 1
  ELSE completed

\* Each registered node has been handed every message it wants among those it
\* has been considered for, and no other; since positions only grow, it gets
\* them once and in the order of the pushes (processMessages()).  Nothing is
\* promised once the registrations have changed after run() was entered.
ExactlyOnce ==
  ~late => \A k \in DOMAIN registered :
    got[registered[k].node] = {i \in 1..Considered(k) : Wants(registered[k], log[i])}

\* run() returns only between two batches: what it took over from the senders
\* has been distributed to the end, also when stop() came in between.
NoHalfBatch == pc = "returned" => queue[back] = <<>> /\ front # back

\* Every accepted message is eventually distributed, or the bus is stopped, or
\* a node has been added under the loop: neither the unlocked size() nor senders
\* inside handlers can strand it.
EventuallyDistributed ==
  \A i \in 1..MaxAccepted : Len(log) >= i ~> (completed >= i \/ stopAsked \/ late)

\* stop() on a bus that is in run() makes run() return (MessageBus.cpp:109),
\* unless a node has been added under the loop.
StopReturns == stopAsked /\ ~running /\ pc # "idle" ~> pc = "returned" \/ late

\* What MessageBusTestHelper.h says of its destructor, which calls stop() and
\* then waits for run(): after stop() the bus terminates, in a program that adds
\* no node under the loop.
StopEndsRun == stopAsked ~> pc = "returned" \/ late

\* The bus implements the ordered broadcast the nodes are written against.
Broadcast ==
  INSTANCE OrderedBroadcast WITH
    open <- pc = "idle", spoilt <- late, members <- registered, accepted <- log, received <- got

ImplementsBroadcast == Broadcast!Spec
==============================================================================
