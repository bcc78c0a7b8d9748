CONSTANTS
  n1 = n1  n2 = n2  n3 = n3
  idA = idA  idB = idB
  wind = wind
  s1 = s1
  Nodes = {n1, n2, n3}
  IDs = {idA, idB}
  ID <- MCID
  NoDest = none
  Types = {wind}
  Messages <- MCMessages
  Senders = {s1}
  Bus = bus
  Free = free
  NoPush = nopush
  MaxAccepted = 3
SPECIFICATION FairSpec
INVARIANTS TypeOK BacklogInOrder DispatchIsolated ExactlyOnce NoHalfBatch
PROPERTIES ImplementsBroadcast EventuallyDistributed StopReturns
CHECK_DEADLOCK FALSE
