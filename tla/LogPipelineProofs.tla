-------------------------- MODULE LogPipelineProofs --------------------------
(***************************************************************************)
(* Proofs about LogPipeline, for any sizes of batches and chunks and any   *)
(* number of readings and items: readings are stored at most once and in   *)
(* order, none is lost but those that come late, and items are pushed      *)
(* without a gap.                                                          *)
(***************************************************************************)
EXTENDS LogPipeline, NaturalOrder, SequenceTheorems

\* The items that are not stored yet, in the order they will be: those of the
\* batch, without the one whose rows are in but whose index row is not, and
\* those of the queue.
Pending == (IF worker = "index" THEN Tail(batch) ELSE batch) \o fifo

\* Every item logged is in the queue, in the batch or in the index.
ItemsCounted ==
  /\ logged = Len(fifo) + Len(batch) + Len(system)
  /\ number <= Len(system)
  /\ worker = "index" => batch # <<>>

Ascending(s) == \A i, k \in DOMAIN s : i < k => s[i] < s[k]

\* The readings of table, batch, queue and LogItem follow one another; the
\* LogItem repeats logged ones from the copy until it is cleared.
ReadingsOrdered ==
  /\ StoredOnceInOrder
  /\ \A c \in DOMAIN compass : compass[c].reading <= read
  /\ \A i \in DOMAIN Pending :
       /\ Ascending(Pending[i])
       /\ \A r \in DOMAIN Pending[i] : Pending[i][r] <= read
       /\ \A c \in DOMAIN compass, r \in DOMAIN Pending[i] :
            compass[c].reading < Pending[i][r]
  /\ \A i, k \in DOMAIN Pending : i < k =>
       \A r \in DOMAIN Pending[i], q \in DOMAIN Pending[k] :
         Pending[i][r] < Pending[k][q]

ItemOrdered ==
  /\ Ascending(item)
  /\ \A q \in DOMAIN item :
       /\ item[q] <= read
       /\ cleared =>
            /\ \A c \in DOMAIN compass : compass[c].reading < item[q]
            /\ \A i \in DOMAIN Pending : \A r \in DOMAIN Pending[i] :
                 Pending[i][r] < item[q]

\* A reading that has been logged and not lost.
Kept(r) ==
  \/ \E i \in DOMAIN Pending : r \in Range(Pending[i])
  \/ \E c \in DOMAIN compass : compass[c].reading = r

\* Nothing is lost but what is late: not even by clearing the LogItem.
ReadingsKept ==
  /\ \A r \in 1..read : r \in late \/ r \in Range(item) \/ Kept(r)
  /\ ~cleared => \A r \in Range(item) : r \in late \/ Kept(r)

\* While a push is under way it is of items that are in the index.
PushInIndex ==
  sync \in {"select", "call"} => last < upTo /\ upTo <= Len(system)

IInv ==
  /\ TypeOK /\ ItemsCounted
  /\ ReadingsOrdered /\ ItemOrdered /\ ReadingsKept
  /\ PushInIndex /\ NoItemSkipped


------------------------------------------------------------------------------
(* Sequences and sets.                                                       *)

\* Moving an element from the head of one sequence to the end of another, and
\* what append and tail do to a concatenation.
LEMMA ConcatMoves ==
  ASSUME NEW S, NEW s \in Seq(S), NEW t \in Seq(S)
  PROVE  /\ \A e \in S : s \o Append(t, e) = Append(s \o t, e)
         /\ s # <<>> => /\ Tail(s \o t) = Tail(s) \o t
                        /\ Head(s \o t) = Head(s)
                        /\ s \o t # <<>>
         /\ t # <<>> => Append(s, Head(t)) \o Tail(t) = s \o t
<1>1. \A e \in S : s \o Append(t, e) = Append(s \o t, e)
  OBVIOUS
<1>2. s # <<>> => /\ Tail(s \o t) = Tail(s) \o t
                  /\ Head(s \o t) = Head(s)
                  /\ s \o t # <<>>
  OBVIOUS
<1>3. t # <<>> => Append(s, Head(t)) \o Tail(t) = s \o t
  OBVIOUS
<1> QED
  BY <1>1, <1>2, <1>3

\* The indices of a sequence and its elements.
LEMMA Elements ==
  ASSUME NEW S, NEW s \in Seq(S)
  PROVE  /\ DOMAIN s = 1..Len(s) /\ Len(s) \in Nat
         /\ \A i \in DOMAIN s : s[i] \in S
OBVIOUS

\* The smaller and the greater of two numbers.
LEMMA MinMaxOfTwo ==
  ASSUME NEW a \in Int, NEW b \in Int
  PROVE  /\ Min({a, b}) = IF a <= b THEN a ELSE b
         /\ Max({a, b}) = IF a >= b THEN a ELSE b
BY DEF Min, Max

\* A strictly increasing sequence of numbers from 1..m has at most m elements:
\* its i-th one is at least i.
LEMMA AscendingIsShort ==
  ASSUME NEW n \in Nat, NEW m \in Nat, NEW f,
         \A i \in 1..n : f[i] \in 1..m,
         \A i, k \in 1..n : i < k => f[i] < f[k]
  PROVE  n <= m
<1> DEFINE T == {i \in Nat : i \in 1..n => f[i] >= i}
<1>1. 0 \in T
  OBVIOUS
<1>2. ASSUME NEW i \in T PROVE i + 1 \in T
  <2> SUFFICES ASSUME i + 1 \in 1..n PROVE f[i + 1] >= i + 1
    OBVIOUS
  <2>1. CASE i = 0
    BY <2>1
  <2>2. CASE i # 0
    <3>1. i \in 1..n /\ f[i] >= i /\ f[i] < f[i + 1]
      BY <2>2
    <3>2. f[i] \in Int /\ f[i + 1] \in Int
      BY <3>1
    <3> QED
      BY <3>1, <3>2
  <2> QED
    BY <2>1, <2>2
<1>3. T = Nat
  <2> HIDE DEF T
  <2>1. T \in SUBSET Nat
    BY DEF T
  <2> QED
    BY <1>1, <1>2, <2>1, InductionOverNat
<1>4. CASE n > 0
  <2>1. n \in T /\ n \in 1..n
    BY <1>3, <1>4
  <2>2. f[n] >= n /\ f[n] <= m /\ f[n] \in Int
    BY <2>1
  <2> QED
    BY <2>2
<1> QED
  BY <1>4

------------------------------------------------------------------------------
(* What the steps do to the items that are pending.                          *)

\* The pending items are sequences of readings.
LEMMA PendingType ==
  ASSUME TypeOK, ItemsCounted
  PROVE  Pending \in Seq(Seq(1..MaxReadings))
<1> DEFINE S == Seq(1..MaxReadings)
<1>1. fifo \in Seq(S) /\ batch \in Seq(S)
  BY DEF TypeOK
<1> HIDE DEF S
<1>2. (IF worker = "index" THEN Tail(batch) ELSE batch) \in Seq(S)
  <2>1. CASE worker = "index"
    BY <1>1, <2>1 DEF ItemsCounted
  <2> QED
    BY <1>1, <2>1
<1>3. Pending \in Seq(S)
  BY <1>1, <1>2 DEF Pending
<1> QED
  BY <1>3 DEF S

\* Only logging an item and storing its readings change what is pending.
LEMMA PendingStays ==
  ASSUME TypeOK,
         \/ Reading \/ ClearQueue \/ SyncStep \/ UNCHANGED vars
         \/ WorkerCheck \/ WorkerDrain \/ WorkerDrained \/ InsertIndex \/ Inserted
  PROVE  Pending' = Pending /\ compass' = compass
<1> DEFINE S == Seq(1..MaxReadings)
<1>1. fifo \in Seq(S) /\ batch \in Seq(S)
  BY DEF TypeOK
<1> HIDE DEF S
<1>2. CASE Reading \/ ClearQueue \/ SyncStep \/ UNCHANGED vars
  BY <1>2 DEF Reading, ClearQueue, SyncStep, PushBegin, Select, PushSucceeds,
       PushFails, vars, nodeVars, workerVars, syncVars, Pending
<1>3. CASE WorkerCheck \/ WorkerDrained \/ Inserted
  BY <1>3 DEF WorkerCheck, WorkerDrained, Inserted, workerVars, Pending
<1>4. CASE WorkerDrain
  <2>1. Append(batch, Head(fifo)) \o Tail(fifo) = batch \o fifo
    BY <1>1, <1>4, ConcatMoves DEF WorkerDrain
  <2> QED
    BY <1>4, <2>1 DEF WorkerDrain, Pending
<1>5. CASE InsertIndex
  BY <1>5 DEF InsertIndex, Pending
<1> QED
  BY <1>2, <1>3, <1>4, <1>5

\* log() adds the item at the end.
LEMMA PendingGrows ==
  ASSUME TypeOK, ItemsCounted, Log
  PROVE  Pending' = Append(Pending, item) /\ compass' = compass
<1> DEFINE S == Seq(1..MaxReadings)
           b == IF worker = "index" THEN Tail(batch) ELSE batch
<1>1. fifo \in Seq(S) /\ batch \in Seq(S) /\ item \in S
  BY DEF TypeOK
<1> HIDE DEF S
<1>2. b \in Seq(S)
  <2>1. CASE worker = "index"
    BY <1>1, <2>1 DEF ItemsCounted
  <2> QED
    BY <1>1, <2>1
<1> HIDE DEF b
<1>3. b \o Append(fifo, item) = Append(b \o fifo, item)
  BY <1>1, <1>2, ConcatMoves
<1>4. fifo' = Append(fifo, item) /\ compass' = compass
  BY DEF Log, workerVars
<1>5. b' = b
  BY DEF b, Log, workerVars
<1>6. Pending' = b' \o fifo' /\ Pending = b \o fifo
  BY DEF Pending, b
<1> QED
  BY <1>3, <1>4, <1>5, <1>6

\* insertDataLogs() stores the readings of the first one.
LEMMA PendingShrinks ==
  ASSUME TypeOK, InsertRows
  PROVE  /\ Pending # <<>>
         /\ Pending' = Tail(Pending)
         /\ compass' = compass \o Rows(Head(Pending))
<1> DEFINE S == Seq(1..MaxReadings)
<1>1. fifo \in Seq(S) /\ batch \in Seq(S)
  BY DEF TypeOK
<1> HIDE DEF S
<1>2. worker = "insert" /\ worker' = "index" /\ batch # <<>> /\ batch' = batch
      /\ fifo' = fifo /\ compass' = compass \o Rows(Head(batch))
  BY DEF InsertRows
<1>3. Pending = batch \o fifo /\ Pending' = Tail(batch) \o fifo
  BY <1>2 DEF Pending
<1> QED
  BY <1>1, <1>2, <1>3, ConcatMoves

------------------------------------------------------------------------------
(* The numbers of items and the types.                                       *)

\* Every step moves an item along or leaves the items where they are.
LEMMA ItemsStayCounted ==
  ASSUME TypeOK, ItemsCounted, [Next]_vars
  PROVE  ItemsCounted'
<1> DEFINE S == Seq(1..MaxReadings)
<1>1. /\ fifo \in Seq(S) /\ batch \in Seq(S) /\ system \in Seq(Nat)
      /\ number \in Nat /\ logged \in Nat
  BY LogConstants DEF TypeOK
<1> HIDE DEF S
<1> USE DEF ItemsCounted
<1>2. CASE Reading \/ ClearQueue \/ SyncStep \/ UNCHANGED vars
  BY <1>2 DEF Reading, ClearQueue, SyncStep, PushBegin, Select, PushSucceeds,
       PushFails, vars, nodeVars, workerVars, syncVars
<1>3. CASE Log
  <2>1. Len(fifo') = Len(fifo) + 1 /\ logged' = logged + 1
    BY <1>1, <1>3 DEF Log
  <2> QED
    BY <1>1, <1>3, <2>1 DEF Log, workerVars
<1>4. CASE WorkerCheck \/ Inserted
  BY <1>4 DEF WorkerCheck, Inserted, nodeVars, workerVars
<1>5. CASE WorkerDrain
  <2>1. Len(fifo') = Len(fifo) - 1 /\ Len(batch') = Len(batch) + 1
    BY <1>1, <1>5 DEF WorkerDrain
  <2> QED
    BY <1>1, <1>5, <2>1 DEF WorkerDrain, nodeVars
<1>6. CASE WorkerDrained
  BY <1>1, <1>6 DEF WorkerDrained, nodeVars
<1>7. CASE InsertRows
  BY <1>7 DEF InsertRows, nodeVars
<1>8. CASE InsertIndex
  <2>1. Len(batch') = Len(batch) - 1 /\ Len(system') = Len(system) + 1
    BY <1>1, <1>8 DEF InsertIndex
  <2> QED
    BY <1>1, <1>8, <2>1 DEF InsertIndex, nodeVars
<1> QED
  BY <1>2, <1>3, <1>4, <1>5, <1>6, <1>7, <1>8 DEF Next, NodeStep, WorkerStep

\* Readings that are stored once and in order fit into as many rows as there
\* are readings, and there are not more items than have been logged.
LEMMA TablesAreShort ==
  ASSUME TypeOK, ItemsCounted, StoredOnceInOrder
  PROVE  /\ Len(compass) \in 0..MaxReadings /\ DOMAIN compass = 1..Len(compass)
         /\ Len(system) \in 0..MaxItems /\ (worker = "index" \/ batch # <<>> => Len(system) < MaxItems)
<1> DEFINE Table == [reading : 1..MaxReadings, of : 1..MaxItems]
           f == [i \in 1..Len(compass) |-> compass[i].reading]
<1>1. compass \in Seq(Table)
  BY DEF TypeOK
<1>2. DOMAIN compass = 1..Len(compass) /\ Len(compass) \in Nat
  BY <1>1
<1>3. \A i \in 1..Len(compass) : f[i] \in 1..MaxReadings
  <2> SUFFICES ASSUME NEW i \in 1..Len(compass) PROVE f[i] \in 1..MaxReadings
    OBVIOUS
  <2>1. compass[i] \in Table
    <3> HIDE DEF Table
    <3> QED
      BY <1>1, <1>2
  <2> QED
    BY <2>1
<1>4. \A i, k \in 1..Len(compass) : i < k => f[i] < f[k]
  BY <1>2 DEF StoredOnceInOrder
<1>5. Len(compass) <= MaxReadings
  <2> HIDE DEF f
  <2> QED
    BY <1>2, <1>3, <1>4, AscendingIsShort, LogConstants
<1>6. Len(fifo) \in Nat /\ Len(batch) \in Nat /\ Len(system) \in Nat /\ (batch # <<>> => Len(batch) > 0)
  BY DEF TypeOK
<1>7. logged \in 0..MaxItems
  BY DEF TypeOK
<1> QED
  BY <1>2, <1>5, <1>6, <1>7, LogConstants DEF ItemsCounted

\* The node's steps keep the types.
LEMMA NodeTypes ==
  ASSUME TypeOK, NodeStep
  PROVE  TypeOK'
<1>0. MaxReadings \in Nat /\ MaxItems \in Nat
  BY LogConstants
<1>1. CASE Reading
  <2>1. read + 1 \in 1..MaxReadings
    BY <1>0, <1>1 DEF Reading, TypeOK
  <2>2. item' \in Seq(1..MaxReadings)
    BY <1>1, <2>1 DEF Reading, TypeOK
  <2>3. late' \subseteq 1..MaxReadings
    BY <1>1, <2>1 DEF Reading, TypeOK
  <2>4. read' \in 0..MaxReadings
    BY <1>0, <1>1, <2>1 DEF Reading
  <2> QED
    BY <1>1, <2>2, <2>3, <2>4 DEF Reading, TypeOK, workerVars, syncVars
<1>2. CASE Log
  <2>1. fifo' \in Seq(Seq(1..MaxReadings)) /\ logged' \in 0..MaxItems
    <3> DEFINE S == Seq(1..MaxReadings)
    <3>1. fifo \in Seq(S) /\ item \in S /\ fifo' = Append(fifo, item)
      BY <1>2 DEF Log, TypeOK
    <3> HIDE DEF S
    <3>2. fifo' \in Seq(S)
      BY <3>1
    <3>3. logged' \in 0..MaxItems
      BY <1>0, <1>2 DEF Log, TypeOK
    <3> QED
      BY <3>2, <3>3 DEF S
  <2> QED
    BY <1>2, <2>1 DEF Log, TypeOK, workerVars, syncVars
<1>3. CASE ClearQueue
  BY <1>3 DEF ClearQueue, TypeOK, workerVars, syncVars
<1> QED
  BY <1>1, <1>2, <1>3 DEF NodeStep

\* So do the worker's.
LEMMA WorkerTypes ==
  ASSUME TypeOK, ItemsCounted, StoredOnceInOrder, WorkerStep
  PROVE  TypeOK'
<1> DEFINE S == Seq(1..MaxReadings)
<1>0. MaxReadings \in Nat /\ MaxItems \in Nat
  BY LogConstants
<1>1. fifo \in Seq(S) /\ batch \in Seq(S) /\ base \in Nat \ {0} /\ number \in 0..MaxItems
  BY DEF TypeOK
<1>2. CASE WorkerCheck
  BY <1>2 DEF WorkerCheck, TypeOK, nodeVars, workerVars, syncVars
<1>3. CASE WorkerDrain
  <2>1. batch' \in Seq(S) /\ fifo' \in Seq(S)
    <3> HIDE DEF S
    <3> QED
      BY <1>1, <1>3 DEF WorkerDrain
  <2> QED
    BY <1>3, <2>1 DEF WorkerDrain, TypeOK, nodeVars, syncVars
<1>4. CASE WorkerDrained
  <2>1. base' \in Nat \ {0} /\ number' \in 0..MaxItems
    BY <1>0, <1>1, <1>4, TablesAreShort DEF WorkerDrained
  <2> QED
    BY <1>4, <2>1 DEF WorkerDrained, TypeOK, nodeVars, syncVars
<1>5. CASE InsertRows
  <2> DEFINE Table == [reading : 1..MaxReadings, of : 1..MaxItems]
  <2>1. Head(batch) \in S
    <3> HIDE DEF S
    <3> QED
      BY <1>1, <1>5 DEF InsertRows
  <2>2. Len(system) + 1 \in 1..MaxItems
    BY <1>0, <1>5, TablesAreShort DEF InsertRows
  <2>3. \A h \in S : Rows(h) \in Seq(Table)
    <3> SUFFICES ASSUME NEW h \in S PROVE Rows(h) \in Seq(Table)
      OBVIOUS
    <3>1. DOMAIN h = 1..Len(h) /\ Len(h) \in Nat
      OBVIOUS
    <3>2. \A i \in 1..Len(h) : h[i] \in 1..MaxReadings
      BY ElementOfSeq
    <3>3. \A i \in 1..Len(h) : [reading |-> h[i], of |-> Len(system) + 1] \in Table
      BY <2>2, <3>2
    <3> HIDE DEF Table
    <3>4. Rows(h) \in [1..Len(h) -> Table]
      BY <3>1, <3>3 DEF Rows
    <3> QED
      BY <3>1, <3>4
  <2>4. compass' \in Seq(Table)
    <3>1. compass \in Seq(Table) /\ compass' = compass \o Rows(Head(batch))
      BY <1>5 DEF InsertRows, TypeOK
    <3>2. Rows(Head(batch)) \in Seq(Table)
      BY <2>1, <2>3
    <3> HIDE DEF Table
    <3> QED
      BY <3>1, <3>2
  <2> QED
    BY <1>5, <2>4 DEF InsertRows, TypeOK, nodeVars, syncVars
<1>6. CASE InsertIndex
  <2>1. batch # <<>>
    BY <1>6 DEF InsertIndex, ItemsCounted
  <2>2. batch' \in Seq(S) /\ Head(batch) \in S
    <3> HIDE DEF S
    <3> QED
      BY <1>1, <1>6, <2>1 DEF InsertIndex
  <2>3. CompassId(Head(batch)) \in Nat
    <3>1. \A h \in S : Len(h) \in Nat /\ (h # <<>> => Len(h) > 0)
      OBVIOUS
    <3>2. base - 1 \in Nat
      BY <1>1
    <3>3. \A n \in Nat : n > 0 => base + number + n - 1 \in Nat
      BY <1>0, <1>1
    <3> HIDE DEF S
    <3> QED
      BY <2>2, <3>1, <3>2, <3>3 DEF CompassId
  <2>4. system' \in Seq(Nat)
    BY <1>6, <2>3 DEF InsertIndex, TypeOK
  <2>5. number' \in 0..MaxItems
    <3>1. Len(system) < MaxItems /\ number <= Len(system) /\ Len(system) \in Nat
      BY <1>0, <1>6, TablesAreShort DEF InsertIndex, ItemsCounted
    <3> QED
      BY <1>0, <1>1, <1>6, <3>1 DEF InsertIndex
  <2> QED
    BY <1>6, <2>2, <2>4, <2>5 DEF InsertIndex, TypeOK, nodeVars, syncVars
<1>7. CASE Inserted
  BY <1>7 DEF Inserted, TypeOK, nodeVars, workerVars, syncVars
<1> QED
  BY <1>2, <1>3, <1>4, <1>5, <1>6, <1>7 DEF WorkerStep

\* What pushDatalogs() takes for the last item pushed is a number of its type;
\* the items it asks for are in the index and do not start before the first.
LEMMA Chunks ==
  ASSUME TypeOK, ItemsCounted, StoredOnceInOrder
  PROVE  LET latest == Len(system)
             after  == Adopted(latest)
         IN  /\ after \in 0..UIntMax
             /\ ~OnlyLatest /\ last # 0 => after = last
             /\ Behind(after, latest) =>
                  \A n \in {1, Chunk} :
                    /\ Min({after + n, latest}) \in 0..MaxItems
                    /\ after < Min({after + n, latest})
                    /\ Min({after + n, latest}) <= latest
<1> DEFINE latest == Len(system)
           after  == Adopted(latest)
<1>1. latest \in Nat /\ latest <= MaxItems /\ MaxItems \in Nat /\ UIntMax \in Nat
      /\ MaxItems < UIntMax
  BY TablesAreShort, LogConstants
<1>2. last \in 0..UIntMax /\ OnlyLatest \in BOOLEAN
  BY LogConstants DEF TypeOK
<1> HIDE DEF latest
<1>3. Predecessor(latest) \in 0..UIntMax
  BY <1>1 DEF Predecessor
<1>4. Max({last, Predecessor(latest)}) \in 0..UIntMax
  <2>1. \A p \in 0..UIntMax : Max({last, p}) = IF last >= p THEN last ELSE p
    BY <1>1, <1>2, MinMaxOfTwo
  <2>2. \A p \in 0..UIntMax : Max({last, p}) \in 0..UIntMax
    BY <1>2, <2>1
  <2> QED
    BY <1>3, <2>2
<1>5. after \in 0..UIntMax /\ (~OnlyLatest /\ last # 0 => after = last)
  BY <1>1, <1>2, <1>4 DEF Adopted
<1> HIDE DEF after
<1>6. ASSUME after < latest, NEW n \in {1, Chunk}
      PROVE  /\ Min({after + n, latest}) \in 0..MaxItems
             /\ after < Min({after + n, latest})
             /\ Min({after + n, latest}) <= latest
  <2>1. n \in Nat \ {0}
    BY LogConstants
  <2>2. Min({after + n, latest}) = IF after + n <= latest THEN after + n ELSE latest
    BY <1>1, <1>5, <2>1, MinMaxOfTwo
  <2> QED
    BY <1>1, <1>5, <1>6, <2>1, <2>2
<1> QED
  BY <1>5, <1>6 DEF Behind, latest, after

\* The HTTPSync thread's steps keep the types.
LEMMA SyncTypes ==
  ASSUME TypeOK, ItemsCounted, StoredOnceInOrder, PushInIndex, SyncStep
  PROVE  TypeOK'
<1>0. MaxReadings \in Nat /\ MaxItems \in Nat /\ UIntMax \in Nat
  BY LogConstants
<1>1. CASE PushBegin
  <2>1. last' \in 0..UIntMax /\ first' \in 0..UIntMax
    BY <1>1, Chunks DEF PushBegin, TypeOK
  <2>2. upTo' \in 0..MaxItems /\ sync' \in {"idle", "select", "call"}
    <3>1. CASE Behind(Adopted(Len(system)), Len(system))
      BY <1>1, <3>1, Chunks DEF PushBegin
    <3>2. CASE ~Behind(Adopted(Len(system)), Len(system))
      BY <1>1, <3>2 DEF PushBegin, TypeOK
    <3> QED
      BY <3>1, <3>2
  <2> QED
    BY <1>1, <2>1, <2>2 DEF PushBegin, TypeOK, nodeVars, workerVars
<1>2. CASE Select
  <2>1. rows' \subseteq 1..MaxReadings
    BY <1>0, <1>2, TablesAreShort DEF Select, RowsOf
  <2> QED
    BY <1>2, <2>1 DEF Select, TypeOK, nodeVars, workerVars
<1>3. CASE PushSucceeds \/ PushFails
  <2>1. last \in Nat /\ upTo \in 0..MaxItems /\ last < upTo
    BY <1>0, <1>3 DEF PushSucceeds, PushFails, PushInIndex, TypeOK
  <2>2. (last + 1)..upTo \subseteq 1..MaxItems
    BY <1>0, <2>1
  <2>3. Received.items \subseteq 1..MaxItems /\ Received.rows \subseteq 1..MaxReadings
    BY <2>2 DEF Received, TypeOK
  <2>4. sent'.items \subseteq 1..MaxItems /\ sent'.rows \subseteq 1..MaxReadings
    BY <1>3, <2>3 DEF PushSucceeds, PushFails, TypeOK
  <2>5. last' \in 0..UIntMax /\ rows' \subseteq 1..MaxReadings /\ sync' = "idle"
    BY <1>0, <1>3, <2>1, LogConstants DEF PushSucceeds, PushFails, TypeOK
  <2> QED
    BY <1>3, <2>4, <2>5 DEF PushSucceeds, PushFails, TypeOK, nodeVars, workerVars
<1> QED
  BY <1>1, <1>2, <1>3 DEF SyncStep

------------------------------------------------------------------------------
(* The pushes.                                                               *)

\* The items between the first one and m_dataLogsSystemLastId have been
\* received: a push starts where the last one ended, and moves on only with an
\* answer.
LEMMA PushesKeepGapless ==
  ASSUME TypeOK, ItemsCounted, StoredOnceInOrder, PushInIndex, NoItemSkipped, [Next]_vars
  PROVE  PushInIndex' /\ NoItemSkipped'
<1>0. /\ MaxReadings \in Nat /\ MaxItems \in Nat /\ UIntMax \in Nat
      /\ last \in Nat /\ first \in Nat /\ upTo \in Nat
  BY LogConstants DEF TypeOK
<1>1. CASE PushBegin
  <2>1. PushInIndex'
    <3>1. CASE Behind(Adopted(Len(system)), Len(system))
      BY <1>1, <3>1, Chunks DEF PushBegin, PushInIndex, workerVars
    <3>2. CASE ~Behind(Adopted(Len(system)), Len(system))
      BY <1>1, <3>2 DEF PushBegin, PushInIndex
    <3> QED
      BY <3>1, <3>2
  <2>2. first' = last' \/ (first' = first /\ last' = last)
    BY <1>1, Chunks, LogConstants DEF PushBegin
  <2>3. last' \in Nat /\ sent' = sent
    BY <1>0, <1>1, Chunks DEF PushBegin
  <2>4. NoItemSkipped'
    BY <1>0, <2>2, <2>3 DEF NoItemSkipped
  <2> QED
    BY <2>1, <2>4
<1>2. CASE Select
  BY <1>2 DEF Select, PushInIndex, NoItemSkipped, workerVars
<1>3. CASE PushSucceeds
  <2>1. PushInIndex'
    BY <1>3 DEF PushSucceeds, PushInIndex
  <2>2. last < upTo /\ upTo <= MaxItems
    BY <1>0, <1>3 DEF PushSucceeds, PushInIndex, TypeOK
  <2>3. last' = upTo /\ first' = first
        /\ sent'.items = sent.items \cup ((last + 1)..upTo)
    BY <1>3 DEF PushSucceeds, Received
  <2>4. NoItemSkipped'
    BY <1>0, <2>2, <2>3 DEF NoItemSkipped
  <2> QED
    BY <2>1, <2>4
<1>4. CASE PushFails
  <2>1. PushInIndex'
    BY <1>4 DEF PushFails, PushInIndex
  <2>2. last' = last /\ first' = first /\ sent.items \subseteq sent'.items
    BY <1>4 DEF PushFails, Received
  <2>3. NoItemSkipped'
    BY <2>2 DEF NoItemSkipped
  <2> QED
    BY <2>1, <2>3
<1>5. CASE InsertIndex
  <2>1. Len(system') = Len(system) + 1 /\ Len(system) \in Nat
    BY <1>5 DEF InsertIndex, TypeOK
  <2>2. last' = last /\ first' = first /\ upTo' = upTo /\ sync' = sync /\ sent' = sent
    BY <1>5 DEF InsertIndex, syncVars
  <2> QED
    BY <1>0, <2>1, <2>2 DEF PushInIndex, NoItemSkipped
<1>6. CASE NodeStep \/ WorkerCheck \/ WorkerDrain \/ WorkerDrained \/ InsertRows
           \/ Inserted \/ UNCHANGED vars
  BY <1>6 DEF NodeStep, Reading, Log, ClearQueue, WorkerCheck, WorkerDrain,
       WorkerDrained, InsertRows, Inserted, vars, workerVars, syncVars,
       PushInIndex, NoItemSkipped
<1> QED
  BY <1>1, <1>2, <1>3, <1>4, <1>5, <1>6 DEF Next, WorkerStep, SyncStep

------------------------------------------------------------------------------
(* The order of the readings.                                                *)

\* What the order says only depends on the pending items, the table and the
\* LogItem.
LEMMA OrderStays ==
  ASSUME ReadingsOrdered, ItemOrdered,
         Pending' = Pending, compass' = compass, read' = read,
         \/ item' = item /\ (cleared' => cleared)
         \/ item' = <<>>
  PROVE  ReadingsOrdered' /\ ItemOrdered'
<1>1. ReadingsOrdered'
  BY DEF ReadingsOrdered, StoredOnceInOrder
<1>2. CASE item' = item /\ (cleared' => cleared)
  <2>1. Ascending(item') /\ \A q \in DOMAIN item' : item'[q] <= read'
    BY <1>2 DEF ItemOrdered
  <2>2. ASSUME cleared', NEW q \in DOMAIN item'
        PROVE  /\ \A c \in DOMAIN compass' : compass'[c].reading < item'[q]
               /\ \A i \in DOMAIN Pending' : \A r \in DOMAIN Pending'[i] :
                    Pending'[i][r] < item'[q]
    <3>1. cleared
      BY <1>2, <2>2
    <3> QED
      BY <1>2, <3>1 DEF ItemOrdered
  <2> QED
    BY <1>1, <2>1, <2>2 DEF ItemOrdered
<1>3. CASE item' = <<>>
  <2>1. \A q : q \notin DOMAIN item'
    BY <1>3
  <2>2. Ascending(item')
    BY <2>1 DEF Ascending
  <2> QED
    BY <1>1, <2>1, <2>2 DEF ItemOrdered
<1> QED
  BY <1>1, <1>2, <1>3

\* The rows of an item are appended to the table.
LEMMA RowsAreAppended ==
  ASSUME TypeOK, NEW h \in Seq(1..MaxReadings)
  PROVE  LET n == Len(compass)
             D == compass \o Rows(h)
         IN  /\ DOMAIN D = 1..(n + Len(h))
             /\ \A c \in DOMAIN compass : c \in DOMAIN D /\ D[c] = compass[c]
             /\ \A k \in DOMAIN h : n + k \in DOMAIN D /\ D[n + k].reading = h[k]
             /\ \A c \in DOMAIN D : c > n =>
                  c - n \in DOMAIN h /\ D[c].reading = h[c - n]
<1> DEFINE n == Len(compass)
           D == compass \o Rows(h)
<1>0. /\ n \in Nat /\ DOMAIN compass = 1..n
      /\ Len(h) \in Nat /\ DOMAIN h = 1..Len(h)
  BY DEF TypeOK
<1>1. /\ DOMAIN Rows(h) = 1..Len(h)
      /\ \A k \in DOMAIN h : Rows(h)[k].reading = h[k]
  BY <1>0 DEF Rows
<1> DEFINE Table == [reading : 1..MaxReadings, of : Nat]
<1>2. Rows(h) \in Seq(Table) /\ Len(Rows(h)) = Len(h)
  <2>1. \A k \in 1..Len(h) : h[k] \in 1..MaxReadings
    BY <1>0, ElementOfSeq
  <2>2. Len(system) + 1 \in Nat
    BY DEF TypeOK
  <2>3. \A k \in 1..Len(h) : [reading |-> h[k], of |-> Len(system) + 1] \in Table
    BY <2>1, <2>2
  <2> HIDE DEF Table
  <2>4. Rows(h) \in [1..Len(h) -> Table]
    BY <1>0, <2>3 DEF Rows
  <2> QED
    BY <1>0, <2>4
<1>3. compass \in Seq(Table)
  <2>1. \A c \in 1..n : compass[c] \in [reading : 1..MaxReadings, of : 1..MaxItems]
    <3> DEFINE T == [reading : 1..MaxReadings, of : 1..MaxItems]
    <3>1. compass \in Seq(T)
      BY DEF TypeOK
    <3> HIDE DEF T
    <3>2. \A c \in 1..n : compass[c] \in T
      BY <1>0, <3>1, Elements
    <3> QED
      BY <3>2 DEF T
  <2>2. \A c \in 1..n : compass[c] \in Table
    BY <2>1
  <2>3. compass = [c \in 1..n |-> compass[c]]
    BY <1>0 DEF TypeOK
  <2> HIDE DEF Table
  <2>4. compass \in [1..n -> Table]
    BY <2>2, <2>3
  <2> QED
    BY <1>0, <2>4
<1> HIDE DEF Table
<1>4. /\ DOMAIN D = 1..(n + Len(h))
      /\ \A c \in 1..n : D[c] = compass[c]
      /\ \A c \in DOMAIN D : c > n => D[c] = Rows(h)[c - n]
  BY <1>0, <1>1, <1>2, <1>3 DEF n
<1>5. \A c \in DOMAIN D : c > n => c - n \in DOMAIN h
  BY <1>0, <1>4
<1>6. \A k \in DOMAIN h : n + k \in DOMAIN D /\ n + k > n /\ (n + k) - n = k
  BY <1>0, <1>4
<1>7. \A c \in DOMAIN compass : c \in DOMAIN D
  BY <1>0, <1>4
<1> HIDE DEF n, D
<1>8. /\ DOMAIN D = 1..(n + Len(h))
      /\ \A c \in DOMAIN compass : c \in DOMAIN D /\ D[c] = compass[c]
      /\ \A k \in DOMAIN h : n + k \in DOMAIN D /\ D[n + k].reading = h[k]
      /\ \A c \in DOMAIN D : c > n => c - n \in DOMAIN h /\ D[c].reading = h[c - n]
  BY <1>0, <1>1, <1>4, <1>5, <1>6, <1>7
<1> QED
  BY <1>8 DEF n, D

\* A new reading is greater than all there are.
LEMMA OrderReading ==
  ASSUME TypeOK, ItemsCounted, ReadingsOrdered, ItemOrdered, Reading
  PROVE  ReadingsOrdered' /\ ItemOrdered'
<1> DEFINE P == Pending
           n == read + 1
<1>1. /\ Pending' = P /\ compass' = compass /\ read' = n /\ cleared' = cleared
      /\ item' = Append(item, n)
  BY PendingStays DEF Reading
<1>2. read \in Nat /\ item \in Seq(1..MaxReadings)
  BY LogConstants DEF TypeOK
<1>3. \A c \in DOMAIN compass : compass[c].reading \in Int /\ compass[c].reading <= read
  <2> DEFINE Table == [reading : 1..MaxReadings, of : 1..MaxItems]
  <2>1. compass \in Seq(Table)
    BY DEF TypeOK
  <2>2. \A c \in DOMAIN compass : compass[c] \in Table
    BY <2>1, Elements
  <2> QED
    BY <2>2 DEF ReadingsOrdered
<1>4. \A i \in DOMAIN P : \A r \in DOMAIN P[i] : P[i][r] \in Int /\ P[i][r] <= read
  <2> DEFINE R == 1..MaxReadings
  <2>1. P \in Seq(Seq(R))
    BY PendingType
  <2>2. \A r \in R : r \in Int
    OBVIOUS
  <2> HIDE DEF R
  <2>3. \A i \in DOMAIN P : P[i] \in Seq(R)
    BY <2>1, Elements
  <2>4. \A i \in DOMAIN P : \A r \in DOMAIN P[i] : P[i][r] \in R
    BY <2>3, Elements
  <2> QED
    BY <2>2, <2>4 DEF ReadingsOrdered
<1>5. /\ DOMAIN item = 1..Len(item) /\ Len(item) \in Nat
      /\ \A q \in DOMAIN item : item[q] \in Int /\ item[q] <= read
  <2> DEFINE R == 1..MaxReadings
  <2>1. item \in Seq(R) /\ \A r \in R : r \in Int
    BY <1>2
  <2> HIDE DEF R
  <2>2. \A q \in DOMAIN item : item[q] \in R
    BY <2>1, Elements
  <2> QED
    BY <2>1, <2>2, Elements DEF ItemOrdered
<1>6. /\ DOMAIN item' = 1..(Len(item) + 1)
      /\ item'[Len(item) + 1] = n
      /\ \A q \in DOMAIN item : item'[q] = item[q]
  BY <1>1, <1>2, <1>5
<1>7. ReadingsOrdered'
  BY <1>1, <1>2, <1>3, <1>4 DEF ReadingsOrdered, StoredOnceInOrder
<1>8. Ascending(item')
  <2> SUFFICES ASSUME NEW i \in DOMAIN item', NEW k \in DOMAIN item', i < k
               PROVE  item'[i] < item'[k]
    BY DEF Ascending
  <2>1. i \in DOMAIN item
    BY <1>5, <1>6
  <2>2. CASE k \in DOMAIN item
    BY <1>6, <2>1, <2>2 DEF ItemOrdered, Ascending
  <2>3. CASE k = Len(item) + 1
    BY <1>2, <1>5, <1>6, <2>1, <2>3
  <2> QED
    BY <1>5, <1>6, <2>2, <2>3
<1>9. \A q \in DOMAIN item' : item'[q] \in Int /\ item'[q] <= n
  BY <1>2, <1>5, <1>6
<1>10. ASSUME cleared', NEW q \in DOMAIN item'
       PROVE  /\ \A c \in DOMAIN compass : compass[c].reading < item'[q]
              /\ \A i \in DOMAIN P : \A r \in DOMAIN P[i] : P[i][r] < item'[q]
  <2>1. CASE q \in DOMAIN item
    BY <1>1, <1>6, <1>10, <2>1 DEF ItemOrdered
  <2>2. CASE q = Len(item) + 1
    BY <1>2, <1>3, <1>4, <1>6, <2>2
  <2> QED
    BY <1>5, <1>6, <2>1, <2>2
<1>11. ItemOrdered'
  <2> HIDE DEF n
  <2> QED
    BY <1>1, <1>8, <1>9, <1>10 DEF ItemOrdered
<1> QED
  BY <1>7, <1>11

\* The logged item comes after the others: it has been cleared since the last
\* copy.
LEMMA OrderLog ==
  ASSUME TypeOK, ItemsCounted, ReadingsOrdered, ItemOrdered, Log
  PROVE  ReadingsOrdered' /\ ItemOrdered'
<1> DEFINE P == Pending
           Q == Append(P, item)
<1>1. /\ Pending' = Q /\ compass' = compass /\ read' = read /\ item' = item
      /\ cleared /\ cleared' = FALSE
  BY PendingGrows DEF Log
<1>2. P \in Seq(Seq(1..MaxReadings)) /\ item \in Seq(1..MaxReadings)
  BY PendingType DEF TypeOK
<1>3. /\ DOMAIN P = 1..Len(P) /\ Len(P) \in Nat
      /\ DOMAIN Q = 1..(Len(P) + 1)
      /\ Q[Len(P) + 1] = item
      /\ \A i \in DOMAIN P : Q[i] = P[i]
  <2> DEFINE S == Seq(1..MaxReadings)
  <2>1. P \in Seq(S) /\ item \in S
    BY <1>2
  <2> HIDE DEF S, P
  <2> QED
    BY <2>1
<1> HIDE DEF P, Q
<1>4. \A i \in DOMAIN Q : i \in DOMAIN P \/ i = Len(P) + 1
  BY <1>3
<1>5. ASSUME NEW i \in DOMAIN Q
      PROVE  /\ Ascending(Q[i])
             /\ \A r \in DOMAIN Q[i] : Q[i][r] <= read
             /\ \A c \in DOMAIN compass, r \in DOMAIN Q[i] :
                  compass[c].reading < Q[i][r]
  <2>1. CASE i \in DOMAIN P
    BY <1>3, <2>1 DEF ReadingsOrdered, P
  <2>2. CASE i = Len(P) + 1
    BY <1>1, <1>3, <2>2 DEF ItemOrdered
  <2> QED
    BY <1>4, <2>1, <2>2
<1>6. ASSUME NEW i \in DOMAIN Q, NEW k \in DOMAIN Q, i < k
      PROVE  \A r \in DOMAIN Q[i], q \in DOMAIN Q[k] : Q[i][r] < Q[k][q]
  <2>1. i \in DOMAIN P
    BY <1>3, <1>6
  <2>2. CASE k \in DOMAIN P
    BY <1>3, <1>6, <2>1, <2>2 DEF ReadingsOrdered, P
  <2>3. CASE k = Len(P) + 1
    BY <1>1, <1>3, <2>1, <2>3 DEF ItemOrdered, P
  <2> QED
    BY <1>4, <2>2, <2>3
<1>7. StoredOnceInOrder' /\ \A c \in DOMAIN compass' : compass'[c].reading <= read'
  BY <1>1 DEF ReadingsOrdered, StoredOnceInOrder
<1>8. ReadingsOrdered'
  BY <1>1, <1>5, <1>6, <1>7 DEF ReadingsOrdered
<1>9. ItemOrdered'
  BY <1>1 DEF ItemOrdered
<1> QED
  BY <1>8, <1>9

\* The readings that are stored are those of the first pending item.
LEMMA OrderInsert ==
  ASSUME TypeOK, ItemsCounted, ReadingsOrdered, ItemOrdered, InsertRows
  PROVE  ReadingsOrdered' /\ ItemOrdered'
<1> DEFINE R == 1..MaxReadings
           P == Pending
           Q == Tail(P)
           h == Head(P)
           n == Len(compass)
           D == compass \o Rows(h)
<1>1. P # <<>> /\ Pending' = Q /\ compass' = D
  BY PendingShrinks
<1>2. read' = read /\ item' = item /\ cleared' = cleared
  BY DEF InsertRows, nodeVars
<1>3. P \in Seq(Seq(R))
  BY PendingType
<1>4. /\ h = P[1] /\ h \in Seq(R) /\ 1 \in DOMAIN P
      /\ \A i \in DOMAIN Q : i \in Nat /\ i > 0 /\ i + 1 \in DOMAIN P /\ Q[i] = P[i + 1]
  <2> DEFINE S == Seq(R)
  <2>1. P \in Seq(S)
    BY <1>3
  <2> HIDE DEF S, P
  <2>2. h = P[1] /\ h \in S /\ 1 \in DOMAIN P
    BY <1>1, <2>1
  <2>3. \A i \in DOMAIN Q : i \in Nat /\ i > 0 /\ i + 1 \in DOMAIN P /\ Q[i] = P[i + 1]
    BY <1>1, <2>1
  <2> QED
    BY <2>2, <2>3 DEF S
<1>5. n \in Nat /\ DOMAIN compass = 1..n
  BY DEF TypeOK
<1> HIDE DEF P, Q, h, n
<1>6. Len(h) \in Nat /\ DOMAIN h = 1..Len(h)
  BY <1>4, Elements
<1>7. /\ DOMAIN D = 1..(n + Len(h))
      /\ \A c \in 1..n : D[c] = compass[c]
      /\ \A c \in DOMAIN D : c > n => c - n \in DOMAIN h /\ D[c].reading = h[c - n]
  BY <1>4, <1>5, RowsAreAppended DEF n
<1> HIDE DEF D
<1>8. \A c \in DOMAIN D : c \in Int /\ (c <= n => c \in 1..n)
  BY <1>5, <1>6, <1>7
<1>9. \A c \in 1..n, r \in DOMAIN h : compass[c].reading < h[r]
  BY <1>4, <1>5 DEF ReadingsOrdered, P
<1>10. StoredOnceInOrder'
  <2> SUFFICES ASSUME NEW i \in DOMAIN D, NEW k \in DOMAIN D, i < k
               PROVE  D[i].reading < D[k].reading
    BY <1>1 DEF StoredOnceInOrder
  <2>1. CASE k <= n
    <3>1. i \in 1..n /\ k \in 1..n
      BY <1>5, <1>8, <2>1
    <3> QED
      BY <1>5, <1>7, <3>1 DEF ReadingsOrdered, StoredOnceInOrder
  <2>2. CASE i <= n /\ k > n
    BY <1>7, <1>8, <1>9, <2>2
  <2>3. CASE i > n
    <3>1. k > n /\ i - n < k - n
      BY <1>5, <1>8, <2>3
    <3>2. Ascending(h)
      BY <1>4 DEF ReadingsOrdered, P
    <3> QED
      BY <1>7, <2>3, <3>1, <3>2 DEF Ascending
  <2> QED
    BY <1>5, <1>8, <2>1, <2>2, <2>3
<1>11. \A c \in DOMAIN D : \/ c \in DOMAIN compass /\ D[c] = compass[c]
                           \/ c - n \in DOMAIN h /\ D[c].reading = h[c - n]
  BY <1>5, <1>7, <1>8
<1>12. \A c \in DOMAIN D : D[c].reading <= read
  BY <1>4, <1>11 DEF ReadingsOrdered, P
<1>13. ASSUME NEW i \in DOMAIN Q
       PROVE  /\ Ascending(Q[i])
              /\ \A r \in DOMAIN Q[i] : Q[i][r] <= read
              /\ \A c \in DOMAIN D, r \in DOMAIN Q[i] : D[c].reading < Q[i][r]
  <2>1. i + 1 \in DOMAIN P /\ Q[i] = P[i + 1] /\ 1 < i + 1 /\ 1 \in DOMAIN P
    BY <1>4
  <2>2. Ascending(Q[i]) /\ \A r \in DOMAIN Q[i] : Q[i][r] <= read
    BY <2>1 DEF ReadingsOrdered, P
  <2>3. \A c \in DOMAIN compass, r \in DOMAIN Q[i] : compass[c].reading < Q[i][r]
    BY <2>1 DEF ReadingsOrdered, P
  <2>4. \A q \in DOMAIN h, r \in DOMAIN Q[i] : h[q] < Q[i][r]
    BY <1>4, <2>1 DEF ReadingsOrdered, P
  <2> QED
    BY <1>11, <2>2, <2>3, <2>4
<1>14. ASSUME NEW i \in DOMAIN Q, NEW k \in DOMAIN Q, i < k
       PROVE  \A r \in DOMAIN Q[i], q \in DOMAIN Q[k] : Q[i][r] < Q[k][q]
  <2>1. i + 1 \in DOMAIN P /\ k + 1 \in DOMAIN P /\ i + 1 < k + 1
        /\ Q[i] = P[i + 1] /\ Q[k] = P[k + 1]
    BY <1>4, <1>14
  <2> QED
    BY <2>1 DEF ReadingsOrdered, P
<1>15. ReadingsOrdered'
  BY <1>1, <1>2, <1>10, <1>12, <1>13, <1>14 DEF ReadingsOrdered
<1>16. ASSUME cleared, NEW q \in DOMAIN item
       PROVE  /\ \A c \in DOMAIN D : D[c].reading < item[q]
              /\ \A i \in DOMAIN Q : \A r \in DOMAIN Q[i] : Q[i][r] < item[q]
  <2>1. \A i \in DOMAIN P : \A r \in DOMAIN P[i] : P[i][r] < item[q]
    BY <1>16 DEF ItemOrdered, P
  <2>2. \A c \in DOMAIN compass : compass[c].reading < item[q]
    BY <1>16 DEF ItemOrdered
  <2> QED
    BY <1>4, <1>11, <2>1, <2>2
<1>17. Ascending(item) /\ \A q \in DOMAIN item : item[q] <= read
  BY DEF ItemOrdered
<1>18. ItemOrdered'
  BY <1>1, <1>2, <1>16, <1>17 DEF ItemOrdered
<1> QED
  BY <1>15, <1>18

------------------------------------------------------------------------------
(* Readings are not lost.                                                    *)

\* What is kept depends on the pending items and the table only.
LEMMA KeptStays ==
  ASSUME Pending' = Pending, compass' = compass
  PROVE  \A r : Kept(r) <=> Kept(r)'
BY DEF Kept

\* Logging keeps what was kept, and the readings of the item.
LEMMA KeptByLog ==
  ASSUME TypeOK, ItemsCounted, Log
  PROVE  \A r : Kept(r) \/ r \in Range(item) => Kept(r)'
<1> DEFINE S == Seq(1..MaxReadings)
           P == Pending
           Q == Append(P, item)
<1>1. Pending' = Q /\ compass' = compass
  BY PendingGrows
<1>2. P \in Seq(S) /\ item \in S
  BY PendingType DEF TypeOK
<1> HIDE DEF S, P
<1>3. /\ \A i \in DOMAIN P : i \in DOMAIN Q /\ Q[i] = P[i]
      /\ Len(P) + 1 \in DOMAIN Q /\ Q[Len(P) + 1] = item
  BY <1>2
<1> HIDE DEF Q
<1>4. ASSUME NEW r, Kept(r) PROVE Kept(r)'
  <2>1. CASE \E i \in DOMAIN P : r \in Range(P[i])
    BY <1>1, <1>3, <2>1 DEF Kept
  <2>2. CASE \E c \in DOMAIN compass : compass[c].reading = r
    BY <1>1, <2>2 DEF Kept
  <2> QED
    BY <1>4, <2>1, <2>2 DEF Kept, P
<1>5. ASSUME NEW r, r \in Range(item) PROVE Kept(r)'
  BY <1>1, <1>3, <1>5 DEF Kept
<1> QED
  BY <1>4, <1>5

\* Storing the readings of an item keeps them.
LEMMA KeptByInsert ==
  ASSUME TypeOK, ItemsCounted, InsertRows
  PROVE  \A r : Kept(r) => Kept(r)'
<1> DEFINE R == 1..MaxReadings
           P == Pending
           Q == Tail(P)
           h == Head(P)
           n == Len(compass)
           D == compass \o Rows(h)
<1>1. P # <<>> /\ Pending' = Q /\ compass' = D
  BY PendingShrinks
<1>2. P \in Seq(Seq(R))
  BY PendingType
<1>3. /\ h = P[1] /\ h \in Seq(R)
      /\ \A i \in DOMAIN P : i = 1 \/ (i - 1 \in DOMAIN Q /\ Q[i - 1] = P[i])
  <2> DEFINE S == Seq(R)
  <2>1. P \in Seq(S)
    BY <1>2
  <2> HIDE DEF S, P
  <2>2. h = P[1] /\ h \in S
    BY <1>1, <2>1
  <2>3. \A i \in DOMAIN P : i = 1 \/ (i - 1 \in DOMAIN Q /\ Q[i - 1] = P[i])
    BY <1>1, <2>1
  <2> QED
    BY <2>2, <2>3 DEF S
<1> HIDE DEF P, Q, h
<1>4. /\ \A c \in DOMAIN compass : c \in DOMAIN D /\ D[c] = compass[c]
      /\ \A k \in DOMAIN h : n + k \in DOMAIN D /\ D[n + k].reading = h[k]
  BY <1>3, RowsAreAppended
<1> HIDE DEF n, D
<1>5. ASSUME NEW r, Kept(r) PROVE Kept(r)'
  <2>1. CASE r \in Range(h)
    <3>1. PICK k \in DOMAIN h : h[k] = r
      BY <2>1 DEF Range
    <3> QED
      BY <1>1, <1>4, <3>1 DEF Kept
  <2>2. CASE \E c \in DOMAIN compass : compass[c].reading = r
    BY <1>1, <1>4, <2>2 DEF Kept
  <2>3. CASE \E i \in DOMAIN Q : r \in Range(Q[i])
    BY <1>1, <2>3 DEF Kept
  <2>4. ASSUME NEW i \in DOMAIN P, r \in Range(P[i])
        PROVE  r \in Range(h) \/ \E k \in DOMAIN Q : r \in Range(Q[k])
    BY <1>3, <2>4
  <2> QED
    BY <1>5, <2>1, <2>2, <2>3, <2>4 DEF Kept, P
<1> QED
  BY <1>5

\* A step loses no reading but those that are late.
LEMMA ReadingsStayKept ==
  ASSUME TypeOK, ItemsCounted, ReadingsKept, [Next]_vars
  PROVE  ReadingsKept'
<1>0. read \in Nat
  BY LogConstants DEF TypeOK
<1>1. CASE Reading
  <2>1. \A r : Kept(r) <=> Kept(r)'
    BY <1>1, PendingStays, KeptStays
  <2>2. /\ read' = read + 1 /\ cleared' = cleared
        /\ late \subseteq late' /\ (~cleared => read + 1 \in late')
    BY <1>1 DEF Reading
  <2>3. \A r : r \in Range(item') <=> r \in Range(item) \/ r = read + 1
    <3> DEFINE m == Len(item) + 1
    <3>1. item' = Append(item, read + 1) /\ item \in Seq(1..MaxReadings)
      BY <1>1 DEF Reading, TypeOK
    <3>2. /\ DOMAIN item = 1..(m - 1) /\ DOMAIN item' = 1..m /\ m \in Nat \ {0}
          /\ item'[m] = read + 1 /\ \A q \in 1..(m - 1) : item'[q] = item[q]
      BY <3>1
    <3>3. \A q : q \in 1..m <=> q \in 1..(m - 1) \/ q = m
      BY <3>2
    <3> HIDE DEF m
    <3> QED
      BY <3>2, <3>3 DEF Range
  <2>4. \A r \in 1..read' : r \in 1..read \/ r = read + 1
    BY <1>0, <2>2
  <2> QED
    BY <2>1, <2>2, <2>3, <2>4 DEF ReadingsKept
<1>2. CASE Log
  <2>1. \A r : Kept(r) \/ r \in Range(item) => Kept(r)'
    BY <1>2, KeptByLog
  <2>2. read' = read /\ late' = late /\ item' = item
    BY <1>2 DEF Log
  <2> QED
    BY <2>1, <2>2 DEF ReadingsKept
<1>3. CASE ClearQueue
  <2>1. \A r : Kept(r) <=> Kept(r)'
    BY <1>3, PendingStays, KeptStays
  <2>2. read' = read /\ late' = late /\ ~cleared /\ cleared'
    BY <1>3 DEF ClearQueue
  <2> QED
    BY <2>1, <2>2 DEF ReadingsKept
<1>4. CASE InsertRows
  <2>1. \A r : Kept(r) => Kept(r)'
    BY <1>4, KeptByInsert
  <2>2. read' = read /\ late' = late /\ item' = item /\ cleared' = cleared
    BY <1>4 DEF InsertRows, nodeVars
  <2> QED
    BY <2>1, <2>2 DEF ReadingsKept
<1>5. CASE SyncStep \/ UNCHANGED vars \/ WorkerCheck \/ WorkerDrain
           \/ WorkerDrained \/ InsertIndex \/ Inserted
  <2>1. \A r : Kept(r) <=> Kept(r)'
    BY <1>5, PendingStays, KeptStays
  <2>2. read' = read /\ late' = late /\ item' = item /\ cleared' = cleared
    BY <1>5 DEF SyncStep, PushBegin, Select, PushSucceeds, PushFails, vars,
       WorkerCheck, WorkerDrain, WorkerDrained, InsertIndex, Inserted, nodeVars
  <2> QED
    BY <2>1, <2>2 DEF ReadingsKept
<1> QED
  BY <1>1, <1>2, <1>3, <1>4, <1>5 DEF Next, NodeStep, WorkerStep

------------------------------------------------------------------------------
(* The theorems.                                                             *)

\* Nothing has been read, logged or pushed at first.
LEMMA IInvInit == Init => IInv
<1> SUFFICES ASSUME Init PROVE IInv
  OBVIOUS
<1>0. MaxReadings \in Nat /\ MaxItems \in Nat /\ UIntMax \in Nat
  BY LogConstants
<1>1. TypeOK
  <2>1. fifo \in Seq(Seq(1..MaxReadings)) /\ batch \in Seq(Seq(1..MaxReadings))
    BY DEF Init
  <2>2. compass \in Seq([reading : 1..MaxReadings, of : 1..MaxItems])
    BY DEF Init
  <2> QED
    BY <1>0, <2>1, <2>2 DEF Init, TypeOK
<1>2. ItemsCounted
  BY DEF Init, ItemsCounted
<1>3. Pending = <<>>
  BY DEF Init, Pending
<1>4. ReadingsOrdered /\ ItemOrdered
  BY <1>3 DEF Init, ReadingsOrdered, ItemOrdered, StoredOnceInOrder, Ascending
<1>5. ReadingsKept /\ PushInIndex /\ NoItemSkipped
  BY <1>0 DEF Init, ReadingsKept, PushInIndex, NoItemSkipped
<1> QED
  BY <1>1, <1>2, <1>4, <1>5 DEF IInv

\* The order of the readings is kept by every step.
LEMMA OrderStep ==
  ASSUME TypeOK, ItemsCounted, ReadingsOrdered, ItemOrdered, [Next]_vars
  PROVE  ReadingsOrdered' /\ ItemOrdered'
<1>1. CASE Reading
  BY <1>1, OrderReading
<1>2. CASE Log
  BY <1>2, OrderLog
<1>3. CASE InsertRows
  BY <1>3, OrderInsert
<1>4. CASE ClearQueue
  BY <1>4, OrderStays, PendingStays DEF ClearQueue
<1>5. CASE SyncStep \/ UNCHANGED vars \/ WorkerCheck \/ WorkerDrain
           \/ WorkerDrained \/ InsertIndex \/ Inserted
  <2>1. Pending' = Pending /\ compass' = compass
    BY <1>5, PendingStays
  <2>2. read' = read /\ item' = item /\ cleared' = cleared
    BY <1>5 DEF SyncStep, PushBegin, Select, PushSucceeds, PushFails, vars,
       WorkerCheck, WorkerDrain, WorkerDrained, InsertIndex, Inserted, nodeVars
  <2> QED
    BY <2>1, <2>2, OrderStays
<1> QED
  BY <1>1, <1>2, <1>3, <1>4, <1>5 DEF Next, NodeStep, WorkerStep

\* The inductive invariant, for any sizes of batches and chunks, with or without
\* push_only_latest_logs.
THEOREM Invariance == Spec => []IInv
<1>1. IInv /\ [Next]_vars => IInv'
  <2> SUFFICES ASSUME IInv, [Next]_vars PROVE IInv'
    OBVIOUS
  <2>0. TypeOK /\ ItemsCounted /\ ReadingsOrdered /\ ItemOrdered /\ ReadingsKept
        /\ PushInIndex /\ NoItemSkipped /\ StoredOnceInOrder
    BY DEF IInv, ReadingsOrdered
  <2>1. TypeOK'
    <3>1. CASE UNCHANGED vars
      BY <2>0, <3>1 DEF vars, nodeVars, workerVars, syncVars, TypeOK
    <3> QED
      BY <2>0, <3>1, NodeTypes, WorkerTypes, SyncTypes DEF Next
  <2>2. ItemsCounted'
    BY <2>0, ItemsStayCounted
  <2>3. ReadingsOrdered' /\ ItemOrdered'
    BY <2>0, OrderStep
  <2>4. ReadingsKept'
    BY <2>0, ReadingsStayKept
  <2>5. PushInIndex' /\ NoItemSkipped'
    BY <2>0, PushesKeepGapless
  <2> QED
    BY <2>1, <2>2, <2>3, <2>4, <2>5 DEF IInv
<1> QED
  BY IInvInit, <1>1, PTL DEF Spec

\* Type correctness: rows and items stay within the numbers of readings and
\* items there have been, ids within an unsigned int.
THEOREM TypeCorrect == Spec => []TypeOK
<1>1. IInv => TypeOK
  BY DEF IInv
<1> QED
  BY Invariance, <1>1, PTL

\* A reading is stored at most once and the readings keep their order
\* (DBLoggerNode.cpp, DBLogger.cpp workerThread(), DBHandler.cpp
\* insertDataLogs()).
THEOREM StoredInOrder == Spec => []StoredOnceInOrder
<1>1. IInv => StoredOnceInOrder
  BY DEF IInv, ReadingsOrdered
<1> QED
  BY Invariance, <1>1, PTL

\* No reading is lost but those that come in between the copy of the LogItem
\* and the clearing of its queues (DBLoggerNodeThreadFunc()).
THEOREM OnlyLateLost == Spec => []OnlyLateReadingsLost
<1>1. IInv => OnlyLateReadingsLost
  <2> SUFFICES ASSUME IInv, NEW r \in 1..read,
                      r \notin late, r \notin Range(item),
                      ~ \E c \in DOMAIN compass : compass[c].reading = r
               PROVE  \/ \E i \in DOMAIN fifo : r \in Range(fifo[i])
                      \/ \E i \in DOMAIN batch : r \in Range(batch[i])
    BY DEF OnlyLateReadingsLost
  <2> DEFINE S == Seq(1..MaxReadings)
             b == IF worker = "index" THEN Tail(batch) ELSE batch
  <2>1. PICK i \in DOMAIN Pending : r \in Range(Pending[i])
    BY DEF IInv, ReadingsKept, Kept
  <2>2. fifo \in Seq(S) /\ batch \in Seq(S) /\ (worker = "index" => batch # <<>>)
    BY DEF IInv, TypeOK, ItemsCounted
  <2> HIDE DEF S
  <2>3. b \in Seq(S) /\ \A k \in DOMAIN b : \E j \in DOMAIN batch : b[k] = batch[j]
    <3>1. CASE worker = "index"
      <4>1. b = Tail(batch) /\ batch # <<>>
        BY <2>2, <3>1
      <4>2. \A k \in DOMAIN Tail(batch) : k + 1 \in DOMAIN batch /\ Tail(batch)[k] = batch[k + 1]
        BY <2>2, <4>1
      <4> QED
        BY <2>2, <4>1, <4>2
    <3>2. CASE worker # "index"
      BY <2>2, <3>2
    <3> QED
      BY <3>1, <3>2
  <2> HIDE DEF b
  <2>4. Pending = b \o fifo
    BY DEF Pending, b
  <2>5. \/ i \in DOMAIN b /\ Pending[i] = b[i]
        \/ i - Len(b) \in DOMAIN fifo /\ Pending[i] = fifo[i - Len(b)]
    BY <2>2, <2>3, <2>4
  <2> QED
    BY <2>1, <2>3, <2>5
<1> QED
  BY Invariance, <1>1, PTL

\* Items are pushed without a gap, through failed calls and lost answers
\* (HTTPSyncNode.cpp pushDatalogs()).
THEOREM ItemsGapless == Spec => []NoItemSkipped
<1>1. IInv => NoItemSkipped
  BY DEF IInv
<1> QED
  BY Invariance, <1>1, PTL
==============================================================================
