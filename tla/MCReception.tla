---------------------------- MODULE MCReception -----------------------------
(***************************************************************************)
(* Two components side by side through which the reports of other vessels  *)
(* go: the frames of their packets and the list of contacts.  They share   *)
(* no state; part says which of them runs, the other stays as it is.       *)
(***************************************************************************)
EXTENDS CANReceive, AISContacts, TLC

CONSTANTS ais, wind, v1, v2

VARIABLE part

\* AIS reports are fast packets of one, two or three frames, wind readings have
\* a single frame.
MCMaxPackets == (ais :> 3) @@ (wind :> 1)

\* While the contacts run, the lengths of the frames' packets do not matter.
ReceptionInit ==
  /\ part \in {"frames", "contacts"} /\ Init /\ AISInit
  /\ part = "contacts" => \A id \in Ids : device[id].len <= 8

InFrames(Step) == part = "frames" /\ Step /\ UNCHANGED <<part, aisVars>>
InContacts(Step) == part = "contacts" /\ Step /\ UNCHANGED <<part, vars>>

ReceptionNext == InFrames(Next) \/ InContacts(AISNext)

ReceptionSpec == ReceptionInit /\ [][ReceptionNext]_<<part, vars, aisVars>>
=============================================================================
