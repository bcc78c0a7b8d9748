-------------------------- MODULE OrderedBroadcast ---------------------------
(***************************************************************************)
(* What the nodes rely on: every message the bus accepts is handed, once   *)
(* and in the order of acceptance, to every registered node that wants it, *)
(* and one message is finished before the next one is started.  There are  *)
(* no queues, locks or threads here; MessageBus implements this.  The      *)
(* nodes are to be registered before the bus runs: nothing is promised to  *)
(* a program that breaks this rule, from then on.                          *)
(***************************************************************************)
EXTENDS BusDefs

VARIABLES
  open,       \* registration is still possible
  members,    \* the registrations, in the order in which they are served
  accepted,   \* every message ever accepted, in order
  received,   \* per node, the positions of accepted handed to it so far
  completed,  \* how many messages every member has been considered for
  spoilt      \* a member has been added when it was no longer possible

abstractVars == <<open, members, accepted, received, completed, spoilt>>

Init ==
  /\ open = TRUE
  /\ members = <<>>
  /\ accepted = <<>>
  /\ received = [n \in Nodes |-> {}]
  /\ completed = 0
  /\ spoilt = FALSE

Subscribe(n, ts) ==
  /\ open
  /\ members' = Enrol(members, n, ts)
  /\ UNCHANGED <<open, accepted, received, completed, spoilt>>

Close ==
  /\ open
  /\ open' = FALSE
  /\ UNCHANGED <<members, accepted, received, completed, spoilt>>

Accept(m) ==
  /\ accepted' = Append(accepted, m)
  /\ UNCHANGED <<open, members, received, completed, spoilt>>

\* Member k has been handed message i, or has no use for it.
Served(k, i) == Wants(members[k], accepted[i]) => i \in received[members[k].node]

Deliver(k) ==
  LET i == completed + 1 IN
    /\ ~open
    /\ i <= Len(accepted)
    /\ ~Served(k, i)
    /\ \A j \in 1..(k - 1) : Served(j, i)
    /\ received' = [received EXCEPT ![members[k].node] = @ \cup {i}]
    /\ UNCHANGED <<open, members, accepted, completed, spoilt>>

Complete ==
  /\ ~open
  /\ completed < Len(accepted)
  /\ \A k \in DOMAIN members : Served(k, completed + 1)
  /\ completed' = completed + 1
  /\ UNCHANGED <<open, members, accepted, received, spoilt>>

\* The rule is broken, or has been before.
Spoil == spoilt' = TRUE

Next ==
  \/ \E n \in Nodes, ts \in SUBSET Types : Subscribe(n, ts)
  \/ Close
  \/ \E m \in Messages : Accept(m)
  \/ \E k \in DOMAIN members : Deliver(k)
  \/ Complete
  \/ Spoil

Spec == Init /\ [][Next]_abstractVars
==============================================================================
