----------------------------- MODULE MCHTTPSync ------------------------------
(***************************************************************************)
(* HTTPSync without failures: every call succeeds, so that what does not   *)
(* reach the server has been overlooked by the boat itself.                *)
(***************************************************************************)
EXTENDS HTTPSync

\* The thread keeps running, and the bus delivers what is queued.
HTTPFairSpec ==
  /\ HTTPSpec
  /\ WF_httpVars(SyncThread)
  /\ \A k \in DataKinds : WF_httpVars(NoticeHandled(k))

\* The comment above processMessage() in HTTPSyncNode.h: "Pushes waypoints or
\* configurations on new local changes".  In the end the server holds what the
\* boat holds.
LocalChangesArePushed ==
  \A k \in DataKinds : <>[](onServer[k] = onBoat[k])
==============================================================================
