------------------------------ MODULE MCMission ------------------------------
(***************************************************************************)
(* Two places; missions of one and two waypoints, with and without a stay  *)
(* at the last of them.  A replacement that fails to insert a row leaves   *)
(* less of them, or none.                                                  *)
(***************************************************************************)
EXTENDS Mission

CONSTANTS east, west

Through(p) == [place |-> p, stay |-> 0]
StayAt(p)  == [place |-> p, stay |-> 1]

MCStays  == {<<StayAt(east)>>, <<Through(west), StayAt(east)>>}
MCPasses == {<<Through(east)>>, <<Through(west), Through(east)>>}
==============================================================================
