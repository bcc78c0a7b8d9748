--------------------------- MODULE MCLogPipeline -----------------------------
(***************************************************************************)
(* Batches of two items and chunks of two rows.                            *)
(***************************************************************************)
EXTENDS LogPipeline
==============================================================================
