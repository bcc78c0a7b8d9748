------------------------------- MODULE BusDefs -------------------------------
(***************************************************************************)
(* The vocabulary shared by the message bus and by the abstract broadcast  *)
(* it implements: messages, registrations and the routing rule of          *)
(* NavigationSystem/MessageBus.                                            *)
(***************************************************************************)
EXTENDS Integers, Sequences

CONSTANTS
  Nodes,     \* the Node objects constructed around the bus
  IDs,       \* values of the enumeration NodeID
  ID,        \* nodeID() of every node; two nodes may share one
  NoDest,    \* NodeID::None, the destination of a broadcast message
  Types,     \* values of MessageType
  Messages   \* the messages senders put on the bus: [type, dest] records

ASSUME BusConstants ==
  /\ ID \in [Nodes -> IDs]
  /\ NoDest \notin IDs
  /\ Messages \subseteq [type : Types, dest : IDs \cup {NoDest}]

\* A RegisteredNode: the node it refers to and its interestedList, which
\* subscribe() keeps free of duplicates and isInterested() only searches.
Registration == [node : Nodes, types : SUBSET Types]

\* processMessages(): a broadcast goes to the interested registrations, a
\* directed message to the registration that has the destination's NodeID.
Wants(r, m) ==
  IF m.dest = NoDest THEN m.type \in r.types ELSE ID[r.node] = m.dest

\* getRegisteredNode() followed by subscribe(): the registration is looked up
\* by NodeID, so a second node with the ID of a registered one only adds to
\* the types of the first.
Enrol(regs, n, ts) ==
  IF \E k \in DOMAIN regs : ID[regs[k].node] = ID[n]
  THEN [k \in DOMAIN regs |->
          IF ID[regs[k].node] = ID[n]
          THEN [regs[k] EXCEPT !.types = @ \cup ts]
          ELSE regs[k]]
  ELSE Append(regs, [node |-> n, types |-> ts])

==============================================================================
