---------------------------- MODULE MCAISContacts ----------------------------
(***************************************************************************)
(* The instance of AISContacts in which contacts exist: a thread that adds *)
(* them and the garbage collector, next to a voter.                        *)
(***************************************************************************)
EXTENDS AISContacts

CONSTANTS v1, v2
==============================================================================
