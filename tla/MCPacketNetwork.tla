-------------------------- MODULE MCPacketNetwork ---------------------------
(***************************************************************************)
(* An instance of PacketNetwork whose one message is shorter than a        *)
(* message may be, but whose packets hold more bytes than a size can say.  *)
(***************************************************************************)
EXTENDS PacketNetwork

MCLong == << <<1, 1, 1, 1, 1, 1, 1>> >>
=============================================================================
