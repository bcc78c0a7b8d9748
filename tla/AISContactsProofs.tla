-------------------------- MODULE AISContactsProofs --------------------------
(***************************************************************************)
(* Any number of writing threads and voters.  As long as no writer has     *)
(* found the flag of another one set, everybody in the list has locked the *)
(* mutex: the vessels are in the list once and stand still while a voter   *)
(* walks.  And whatever has been skipped, lock and flag are given back.    *)
(***************************************************************************)
EXTENDS AISContacts, NaturalOrder, SequenceTheorems

Places == {"idle", "lock", "mark", "search", "write", "unlock", "clear",
           "reading", "thrown"}

PcType == doing \in [Threads -> Places]

\* The two kinds of thread do different things.
Parts ==
  /\ \A w \in Writers : doing[w] # "reading"
  /\ \A r \in Readers : doing[r] \notin {"mark", "search", "write", "unlock"}

\* As long as nobody has skipped the lock, a thread owns it while it is inside.
Owns ==
  /\ \A w \in Writers : doing[w] \in {"mark", "search", "write", "unlock"} => mutex = w
  /\ \A r \in Readers : doing[r] = "reading" => mutex = r

LockInv == PcType /\ Parts /\ skipped \in BOOLEAN /\ (~skipped => Owns)

\* Nobody owns anything before the first step.
LEMMA LockInvInit == AISInit => LockInv
<1> SUFFICES ASSUME AISInit PROVE LockInv
  OBVIOUS
<1>1. PcType /\ Parts /\ Owns
  BY SMT DEF AISInit, PcType, Parts, Owns, Places, Threads
<1>2. skipped \in BOOLEAN
  BY DEF AISInit
<1> QED
  BY <1>1, <1>2 DEF LockInv

\* A writer that calls while the flag is clear waits for the mutex like the
\* voters; one that finds it set is the end of the premise.
LEMMA WriterKeepsLock ==
  ASSUME AISConstants, LockInv, NEW w \in Writers, WriterStep(w)
  PROVE  LockInv'
<1> USE AISConstants DEF LockInv, PcType, Parts, Owns, Places, Threads, Goes
<1>1. CASE \E j \in Calls(w) : Call(w, j)
  <2>1. mutex' = mutex /\ skipped' = (skipped \/ flag)
        /\ Goes(w, IF flag THEN "search" ELSE "lock")
    BY <1>1 DEF Call
  <2>2. skipped' \in BOOLEAN
    BY <2>1, Zenon
  <2>3. PcType' /\ Parts'
    BY <2>1, SMT
  <2>4. CASE flag
    BY <2>1, <2>2, <2>3, <2>4, Zenon
  <2>5. CASE ~flag
    <3>1. doing' = [doing EXCEPT ![w] = "lock"]
      BY <2>1, <2>5, SMT
    <3>2. skipped' = skipped
      BY <2>1, <2>5, Zenon
    <3>3. ~skipped => Owns'
      BY <2>1, <3>1, SMT
    <3> QED
      BY <2>2, <2>3, <3>2, <3>3, Zenon
  <2> QED
    BY <2>4, <2>5
<1>2. CASE Lock(w)
  BY <1>2, SMT DEF Lock
<1>3. CASE Mark(w)
  BY <1>3, SMT DEF Mark
<1>4. CASE Search(w)
  BY <1>4, SMT DEF Search
<1>5. CASE Write(w)
  BY <1>5, SMT DEF Write
<1>6. CASE Clean(w)
  BY <1>6, SMT DEF Clean
<1>7. CASE Unlock(w)
  BY <1>7, SMT DEF Unlock
<1>8. CASE Clear(w)
  BY <1>8, SMT DEF Clear
<1> QED
  BY <1>1, <1>2, <1>3, <1>4, <1>5, <1>6, <1>7, <1>8 DEF WriterStep

\* A voter takes the mutex only when it is free and gives back its own.
LEMMA ReaderKeepsLock ==
  ASSUME AISConstants, LockInv, NEW r \in Readers, ReaderStep(r)
  PROVE  LockInv'
<1> USE AISConstants DEF LockInv, PcType, Parts, Owns, Places, Threads, Goes
<1>1. CASE Look(r)
  BY <1>1, SMT DEF Look
<1>2. CASE FirstNext(r)
  BY <1>2, SMT DEF FirstNext
<1>3. CASE FurtherNext(r)
  BY <1>3, SMT DEF FurtherNext
<1>4. CASE Again(r)
  BY <1>4, SMT DEF Again
<1>5. CASE Release(r)
  BY <1>5, SMT DEF Release
<1> QED
  BY <1>1, <1>2, <1>3, <1>4, <1>5 DEF ReaderStep

\* Every step keeps the lock with the thread that is inside.
LEMMA LockStep ==
  ASSUME LockInv, [AISNext]_aisVars
  PROVE  LockInv'
<1>1. CASE \E w \in Writers : WriterStep(w)
  BY <1>1, WriterKeepsLock, AISConstants
<1>2. CASE \E r \in Readers : ReaderStep(r)
  BY <1>2, ReaderKeepsLock, AISConstants
<1>3. CASE Tick
  BY <1>3, SMT DEF Tick, LockInv, PcType, Parts, Owns
<1>4. CASE UNCHANGED aisVars
  BY <1>4, SMT DEF aisVars, LockInv, PcType, Parts, Owns
<1> QED
  BY <1>1, <1>2, <1>3, <1>4 DEF AISNext

\* Until a writer takes another's flag for its own, no thread touches the vector
\* without the lock, whatever the number of writers, voters, vessels and
\* contacts (CollidableMgr.cpp:50-128, 192-218, CollidableList.h:52-68).
THEOREM LockedUntilSkipped == AISSpec => []ExclusiveUntilSkipped
<1>1. LockInv /\ [AISNext]_aisVars => LockInv'
  BY LockStep
<1>2. LockInv => ExclusiveUntilSkipped
  BY SMT DEF LockInv, Parts, Owns, ExclusiveUntilSkipped, Exclusive, Inside, Threads
<1> QED
  BY LockInvInit, <1>1, <1>2, PTL DEF AISSpec

\* Where a writer goes next, and what it leaves behind at each step.
LEMMA WriterLeavesNothing ==
  ASSUME AISConstants, PcType, NothingLeftBehind, NEW w \in Writers, WriterStep(w)
  PROVE  NothingLeftBehind'
<1> USE AISConstants DEF PcType, NothingLeftBehind, Places, Threads, Goes
<1>1. CASE \E j \in Calls(w) : Call(w, j)
  BY <1>1, SMT DEF Call
<1>2. CASE Lock(w)
  BY <1>2, SMT DEF Lock
<1>3. CASE Mark(w)
  BY <1>3, SMT DEF Mark
<1>4. CASE Search(w)
  BY <1>4, SMT DEF Search
<1>5. CASE Write(w)
  BY <1>5, SMT DEF Write
<1>6. CASE Clean(w)
  BY <1>6, SMT DEF Clean
<1>7. CASE Unlock(w)
  BY <1>7, SMT DEF Unlock
<1>8. CASE Clear(w)
  BY <1>8, SMT DEF Clear
<1> QED
  BY <1>1, <1>2, <1>3, <1>4, <1>5, <1>6, <1>7, <1>8 DEF WriterStep

\* A voter never touches the flag and unlocks what it has locked.
LEMMA ReaderLeavesNothing ==
  ASSUME AISConstants, PcType, NothingLeftBehind, NEW r \in Readers, ReaderStep(r)
  PROVE  NothingLeftBehind'
<1> USE AISConstants DEF PcType, NothingLeftBehind, Places, Threads, Goes
<1>1. CASE Look(r)
  BY <1>1, SMT DEF Look
<1>2. CASE FirstNext(r)
  BY <1>2, SMT DEF FirstNext
<1>3. CASE FurtherNext(r)
  BY <1>3, SMT DEF FurtherNext
<1>4. CASE Again(r)
  BY <1>4, SMT DEF Again
<1>5. CASE Release(r)
  BY <1>5, SMT DEF Release
<1> QED
  BY <1>1, <1>2, <1>3, <1>4, <1>5 DEF ReaderStep

\* However the writers unlock each other's mutex and clear each other's flag, a
\* thread that is outside owns no lock and no flag stays set for it: for any
\* number of writers and voters, without any premise on what has been skipped
\* (CollidableMgr.cpp:87-88, 126-127, 216-217, CollidableList.h:40-45).
THEOREM LockAndFlagComeBack == AISSpec => []NothingLeftBehind
<1> DEFINE I == LockInv /\ NothingLeftBehind
<1>1. AISInit => I
  <2>1. AISInit => NothingLeftBehind
    BY AISConstants, SMT DEF AISInit, NothingLeftBehind, Threads
  <2> QED
    BY <2>1, LockInvInit
<1>2. I /\ [AISNext]_aisVars => I'
  <2> SUFFICES ASSUME I, [AISNext]_aisVars PROVE NothingLeftBehind'
    BY LockStep
  <2>1. CASE \E w \in Writers : WriterStep(w)
    BY <2>1, WriterLeavesNothing, AISConstants DEF LockInv
  <2>2. CASE \E r \in Readers : ReaderStep(r)
    BY <2>2, ReaderLeavesNothing, AISConstants DEF LockInv
  <2>3. CASE Tick
    BY <2>3, SMT DEF Tick, NothingLeftBehind
  <2>4. CASE UNCHANGED aisVars
    BY <2>4, SMT DEF aisVars, NothingLeftBehind
  <2> QED
    BY <2>1, <2>2, <2>3, <2>4 DEF AISNext
<1>3. I => NothingLeftBehind
  OBVIOUS
<1> QED
  BY <1>1, <1>2, <1>3, PTL DEF AISSpec

------------------------------------------------------------------------------
(* What removeOldAISContacts() leaves.                                       *)

\* One turn of its loop: what is left of the first n contacts, when g says
\* what is left of fewer.
Turn(cs, g, n) ==
  IF n = 0 THEN <<>>
  ELSE IF cs[n].age > TimeOut THEN g[n - 1] ELSE Append(g[n - 1], cs[n])

\* The loop computes something for every list.
LEMMA LoopEnds ==
  ASSUME NEW cs \in Seq(Contact)
  PROVE  \E g : g = [n \in 0..Len(cs) |-> Turn(cs, g, n)]
<1> DEFINE Till(m) == \E g : g = [n \in 0..m |-> Turn(cs, g, n)]
           T == {m \in Nat : Till(m)}
<1>1. Till(0)
  <2> DEFINE g == [n \in 0..0 |-> <<>>]
  <2>1. g = [n \in 0..0 |-> Turn(cs, g, n)]
    BY DEF Turn
  <2> QED
    BY <2>1
<1>2. ASSUME NEW m \in Nat, Till(m) PROVE Till(m + 1)
  <2>1. PICK g : g = [n \in 0..m |-> Turn(cs, g, n)]
    BY <1>2
  <2> DEFINE h == [n \in 0..(m + 1) |-> Turn(cs, g, n)]
  <2>2. \A n \in 0..m : h[n] = g[n]
    <3>1. \A n \in 0..m : n \in 0..(m + 1)
      OBVIOUS
    <3> QED
      BY <2>1, <3>1, Zenon
  <2>3. \A n \in 0..(m + 1) : Turn(cs, h, n) = Turn(cs, g, n)
    <3> SUFFICES ASSUME NEW n \in 0..(m + 1) PROVE Turn(cs, h, n) = Turn(cs, g, n)
      OBVIOUS
    <3>1. CASE n = 0
      BY <3>1 DEF Turn
    <3>2. CASE n # 0
      <4>1. n - 1 \in 0..m
        BY <3>2
      <4>2. h[n - 1] = g[n - 1]
        BY <2>2, <4>1
      <4> HIDE DEF h
      <4> QED
        BY <4>2 DEF Turn
    <3> QED
      BY <3>1, <3>2
  <2>4. h = [n \in 0..(m + 1) |-> Turn(cs, h, n)]
    BY <2>3, Zenon
  <2> QED
    BY <2>4
<1>3. T = Nat
  <2>1. 0 \in T /\ T \in SUBSET Nat /\ \A m \in T : m + 1 \in T
    BY <1>1, <1>2
  <2> HIDE DEF T
  <2> QED
    BY <2>1, InductionOverNat
<1>4. Len(cs) \in T
  BY <1>3
<1> QED
  BY <1>4

Distinct(cs) == \A i, k \in DOMAIN cs : cs[i].mmsi = cs[k].mmsi => i = k

\* What is left are the contacts of the list that are not too old, each vessel
\* once if it was there once.
LEMMA YoungAreLeft ==
  ASSUME NEW cs \in Seq(Contact)
  PROVE  /\ Young(cs) \in Seq(Contact)
         /\ \A k \in DOMAIN Young(cs) : Young(cs)[k].age <= TimeOut
         /\ \A i \in DOMAIN cs : cs[i].age <= TimeOut =>
              \E k \in DOMAIN Young(cs) : Young(cs)[k] = cs[i]
         /\ Distinct(cs) => Distinct(Young(cs))
<1> DEFINE L == CHOOSE g : g = [n \in 0..Len(cs) |-> Turn(cs, g, n)]
<1>1. L = [n \in 0..Len(cs) |-> Turn(cs, L, n)]
  BY LoopEnds, Zenon
<1>2. Young(cs) = L[Len(cs)]
  BY DEF Young, Turn
<1> HIDE DEF L
<1> DEFINE Good(n, s) ==
             /\ s \in Seq(Contact)
             /\ \A k \in DOMAIN s : s[k].age <= TimeOut /\ \E i \in 1..n : s[k] = cs[i]
             /\ \A i \in 1..n : cs[i].age <= TimeOut => \E k \in DOMAIN s : s[k] = cs[i]
             /\ Distinct(cs) => Distinct(s)
           T == {n \in Nat : n \in 0..Len(cs) => Good(n, L[n])}
<1>3. Good(0, <<>>)
  BY DEF Distinct
<1>4. ASSUME NEW n \in Nat, n + 1 \in 1..Len(cs), NEW s, Good(n, s), cs[n + 1].age > TimeOut
      PROVE  Good(n + 1, s)
  <2>1. \A i \in 1..(n + 1) : i \in 1..n \/ i = n + 1
    OBVIOUS
  <2>2. \A i \in 1..n : i \in 1..(n + 1)
    OBVIOUS
  <2>3. ~ (cs[n + 1].age <= TimeOut)
    <3>1. cs[n + 1] \in Contact
      BY <1>4, ElementOfSeq
    <3>2. cs[n + 1].age \in Int /\ TimeOut \in Int
      BY <3>1, AISConstants DEF Contact
    <3> QED
      BY <1>4, <3>2
  <2> QED
    BY <1>4, <2>1, <2>2, <2>3
<1>5. ASSUME NEW n \in Nat, n + 1 \in 1..Len(cs), NEW s, Good(n, s), ~ (cs[n + 1].age > TimeOut)
      PROVE  Good(n + 1, Append(s, cs[n + 1]))
  <2> DEFINE c == cs[n + 1]
             u == Append(s, c)
  <2>1. c \in Contact /\ s \in Seq(Contact)
    BY <1>5, ElementOfSeq
  <2>2. c.age <= TimeOut
    <3>1. c.age \in Int /\ TimeOut \in Int
      BY <2>1, AISConstants DEF Contact
    <3> QED
      BY <1>5, <3>1
  <2>3. /\ u \in Seq(Contact)
        /\ DOMAIN s = 1..Len(s) /\ Len(s) \in Nat /\ DOMAIN u = 1..(Len(s) + 1)
        /\ u[Len(s) + 1] = c /\ \A k \in DOMAIN s : u[k] = s[k]
    BY <2>1
  <2> DEFINE l == Len(s) + 1
  <2>4. \A k : k \in DOMAIN u <=> k \in DOMAIN s \/ k = l
    BY <2>3
  <2>5. \A i : i \in 1..(n + 1) <=> i \in 1..n \/ i = n + 1
    OBVIOUS
  <2> HIDE DEF u, l
  <2>6. \A k \in DOMAIN u : u[k].age <= TimeOut /\ \E i \in 1..(n + 1) : u[k] = cs[i]
    BY <1>5, <2>2, <2>3, <2>4, <2>5 DEF l
  <2>7. \A i \in 1..(n + 1) : cs[i].age <= TimeOut => \E k \in DOMAIN u : u[k] = cs[i]
    BY <1>5, <2>3, <2>4, <2>5 DEF l
  <2>8. ASSUME Distinct(cs) PROVE Distinct(u)
    <3>1. \A k \in DOMAIN s : s[k].mmsi # c.mmsi
      <4> SUFFICES ASSUME NEW k \in DOMAIN s, s[k].mmsi = c.mmsi PROVE FALSE
        OBVIOUS
      <4>1. PICK i \in 1..n : s[k] = cs[i]
        BY <1>5
      <4>2. i \in DOMAIN cs /\ n + 1 \in DOMAIN cs /\ i # n + 1
        BY <1>5
      <4> QED
        BY <2>8, <4>1, <4>2 DEF Distinct
    <3>2. Distinct(s)
      BY <1>5, <2>8
    <3> QED
      BY <2>3, <2>4, <3>1, <3>2 DEF Distinct, l
  <2> QED
    BY <2>3, <2>6, <2>7, <2>8 DEF u
<1>6. \A n \in 0..Len(cs) : Good(n, L[n])
  <2>1. Len(cs) \in Nat
    OBVIOUS
  <2>2. 0 \in T
    BY <1>1, <1>3, <2>1 DEF Turn
  <2>3. ASSUME NEW n \in T PROVE n + 1 \in T
    <3> SUFFICES ASSUME n + 1 \in 0..Len(cs) PROVE Good(n + 1, L[n + 1])
      OBVIOUS
    <3>1. n \in Nat /\ n \in 0..Len(cs) /\ n + 1 \in 1..Len(cs) /\ n + 1 # 0
          /\ (n + 1) - 1 = n
      BY <2>1
    <3>2. Good(n, L[n])
      BY <3>1
    <3>3. L[n + 1] = IF cs[n + 1].age > TimeOut THEN L[n] ELSE Append(L[n], cs[n + 1])
      <4>1. \A k \in 0..Len(cs) : L[k] = Turn(cs, L, k)
        BY <1>1, Zenon
      <4>2. L[n + 1] = Turn(cs, L, n + 1)
        BY <4>1
      <4> QED
        BY <3>1, <4>2 DEF Turn
    <3> HIDE DEF Good
    <3> QED
      BY <1>4, <1>5, <3>1, <3>2, <3>3
  <2>4. T \in SUBSET Nat
    OBVIOUS
  <2> HIDE DEF T
  <2>5. T = Nat
    BY <2>2, <2>3, <2>4, InductionOverNat
  <2> QED
    BY <2>5 DEF T
<1>7. Len(cs) \in 0..Len(cs) /\ DOMAIN cs = 1..Len(cs)
  OBVIOUS
<1>8. Good(Len(cs), Young(cs))
  <2> HIDE DEF Good
  <2> QED
    BY <1>2, <1>6, <1>7
<1> QED
  BY <1>7, <1>8

------------------------------------------------------------------------------
(* Types.                                                                    *)

\* What is about to be written is a report, not a removal.
WritesReport == \A w \in Writers : doing[w] = "write" => job[w].op # "clean"

TypeInv == AISTypeOK /\ WritesReport

\* A report that is to be written has an operation, a vessel and a place.
LEMMA Report ==
  ASSUME NEW j \in Job, j.op # "clean"
  PROVE  j.op \in {"place", "size"} /\ j.mmsi \in MMSIs /\ j.at \in Nat
BY DEF Job

\* A contact that is added is one, of the vessel that was heard.
LEMMA HeardContact ==
  ASSUME NEW op \in {"place", "size"}, NEW m \in MMSIs
  PROVE  Heard(m, op) \in Contact /\ Heard(m, op).mmsi = m
<1>1. TimeOut \in Nat /\ 0 \in 0..(TimeOut + 1)
  BY AISConstants
<1>2. (op = "place") \in BOOLEAN /\ (op = "size") \in BOOLEAN
  OBVIOUS
<1> QED
  BY <1>1, <1>2 DEF Heard, Contact

\* What a report makes of a contact is one, of the same vessel.
LEMMA UpdatedContact ==
  ASSUME NEW c \in Contact, NEW op \in {"place", "size"}
  PROVE  Updated(c, op) \in Contact /\ Updated(c, op).mmsi = c.mmsi
<1>1. TimeOut \in Nat /\ 0 \in 0..(TimeOut + 1)
  BY AISConstants
<1>2. c.mmsi \in MMSIs /\ c.age \in 0..(TimeOut + 1) /\ c.placed \in BOOLEAN
      /\ c.sized \in BOOLEAN
  BY DEF Contact
<1> QED
  BY <1>1, <1>2 DEF Updated, Contact

\* A second older, up to the first age at which a contact is too old.
LEMMA OlderContact ==
  ASSUME NEW c \in Contact
  PROVE  LET d == [c EXCEPT !.age = Min({@ + 1, TimeOut + 1})]
         IN  d \in Contact /\ d.mmsi = c.mmsi
<1>1. c.age \in 0..(TimeOut + 1) /\ TimeOut \in Nat
  BY AISConstants DEF Contact
<1>2. Min({c.age + 1, TimeOut + 1}) \in 0..(TimeOut + 1)
  BY <1>1 DEF Min
<1> QED
  BY <1>2 DEF Contact

\* Where the search finds a vessel.
PlaceOf(cs, m) == SelectInSeq(cs, LAMBDA c : c.mmsi = m)

\* It is 0 if the vessel is not in the list.
LEMMA SearchFinds ==
  ASSUME NEW cs \in Seq(Contact), NEW m
  PROVE  /\ PlaceOf(cs, m) \in Nat
         /\ PlaceOf(cs, m) = 0 => \A i \in DOMAIN cs : cs[i].mmsi # m
<1> DEFINE I == {i \in 1..Len(cs) : cs[i].mmsi = m}
<1>1. PlaceOf(cs, m) = IF I # {} THEN Min(I) ELSE 0
  BY DEF SelectInSeq, PlaceOf
<1>2. I \in SUBSET Nat /\ \A i \in I : i > 0
  OBVIOUS
<1>3. CASE I = {}
  BY <1>1, <1>3
<1>4. CASE I # {}
  <2>1. \E x \in I : \A y \in I : x <= y
    BY <1>2, <1>4, LeastElement
  <2> HIDE DEF I
  <2>2. Min(I) \in I
    BY <2>1 DEF Min
  <2>3. Min(I) \in Nat /\ Min(I) > 0
    BY <1>2, <2>2
  <2> QED
    BY <1>1, <1>4, <2>3
<1> QED
  BY <1>3, <1>4

\* A report goes where the vessel was found or to the end.
LEMMA WriteEffect ==
  ASSUME TypeInv, NEW w \in Writers, Write(w)
  PROVE  LET j == job[w] IN
         /\ contacts' \in Seq(Contact)
         /\ j.at # 0 => /\ DOMAIN contacts' = DOMAIN contacts
                        /\ \A i \in DOMAIN contacts : contacts'[i].mmsi = contacts[i].mmsi
         /\ j.at = 0 => /\ contacts' = Append(contacts, Heard(j.mmsi, j.op))
                        /\ Heard(j.mmsi, j.op).mmsi = j.mmsi
<1> DEFINE j == job[w]
<1>1. j \in Job /\ j.op # "clean"
  BY DEF TypeInv, AISTypeOK, WritesReport, Write
<1>2. j.op \in {"place", "size"} /\ j.mmsi \in MMSIs /\ j.at \in Nat
  BY <1>1, Report
<1>3. contacts \in Seq(Contact) /\ DOMAIN contacts = 1..Len(contacts) /\ Len(contacts) \in Nat
  BY DEF TypeInv, AISTypeOK
<1>4. \A i \in DOMAIN contacts : contacts[i] \in Contact
  BY <1>3
<1>5. CASE j.at = 0
  <2>1. contacts' = Append(contacts, Heard(j.mmsi, j.op))
    BY <1>5 DEF Write
  <2>2. Heard(j.mmsi, j.op) \in Contact /\ Heard(j.mmsi, j.op).mmsi = j.mmsi
    BY <1>2, HeardContact
  <2> QED
    BY <1>3, <1>5, <2>1, <2>2
<1>6. CASE j.at # 0
  <2>1. contacts' = [i \in DOMAIN contacts |->
                       IF i = j.at THEN Updated(contacts[i], j.op) ELSE contacts[i]]
    BY <1>6 DEF Write
  <2>2. \A i \in DOMAIN contacts : contacts'[i] \in Contact /\ contacts'[i].mmsi = contacts[i].mmsi
    BY <1>2, <1>4, <2>1, UpdatedContact
  <2>3. DOMAIN contacts' = DOMAIN contacts
    BY <2>1
  <2>4. contacts' \in [1..Len(contacts) -> Contact]
    BY <1>3, <2>1, <2>2
  <2>5. contacts' \in Seq(Contact)
    BY <1>3, <2>4
  <2> QED
    BY <1>6, <2>2, <2>3, <2>5
<1> QED
  BY <1>5, <1>6

\* A second makes the contacts older, nothing else.
LEMMA TickEffect ==
  ASSUME AISTypeOK, Tick
  PROVE  /\ contacts' \in Seq(Contact)
         /\ DOMAIN contacts' = DOMAIN contacts
         /\ \A i \in DOMAIN contacts : contacts'[i].mmsi = contacts[i].mmsi
<1>1. contacts \in Seq(Contact) /\ DOMAIN contacts = 1..Len(contacts) /\ Len(contacts) \in Nat
  BY DEF AISTypeOK
<1>2. \A i \in DOMAIN contacts : contacts[i] \in Contact
  BY <1>1
<1>3. contacts' = [i \in DOMAIN contacts |->
                     [contacts[i] EXCEPT !.age = Min({@ + 1, TimeOut + 1})]]
  BY DEF Tick
<1>4. \A i \in DOMAIN contacts : contacts'[i] \in Contact /\ contacts'[i].mmsi = contacts[i].mmsi
  BY <1>2, <1>3, OlderContact
<1>5. contacts' \in [1..Len(contacts) -> Contact]
  BY <1>1, <1>3, <1>4
<1>6. contacts' \in Seq(Contact)
  BY <1>1, <1>5
<1> QED
  BY <1>3, <1>4, <1>6

\* Each thread stays where threads can be, and the mutex with a thread or free.
LEMMA PlacesStay ==
  ASSUME TypeInv, [AISNext]_aisVars
  PROVE  /\ mutex' \in Threads \cup {Free}
         /\ doing' \in [Threads -> Places]
         /\ index' \in [Readers -> Nat \ {0}]
<1>1. /\ mutex \in Threads \cup {Free} /\ doing \in [Threads -> Places]
      /\ index \in [Readers -> Nat \ {0}]
  BY DEF TypeInv, AISTypeOK, Places
<1>2. ASSUME NEW w \in Writers, WriterStep(w)
      PROVE  mutex' \in Threads \cup {Free} /\ doing' \in [Threads -> Places] /\ index' = index
  <2>1. \E p \in Places : doing' = [doing EXCEPT ![w] = p]
    BY <1>2 DEF WriterStep, Call, Lock, Mark, Search, Write, Clean, Unlock, Clear, Goes, Places
  <2>2. mutex' \in {mutex, w, Free}
    BY <1>2 DEF WriterStep, Call, Lock, Mark, Search, Write, Clean, Unlock, Clear
  <2>3. index' = index
    BY <1>2 DEF WriterStep, Call, Lock, Mark, Search, Write, Clean, Unlock, Clear
  <2> QED
    BY <1>1, <2>1, <2>2, <2>3 DEF Threads
<1>3. ASSUME NEW r \in Readers, ReaderStep(r)
      PROVE  /\ mutex' \in Threads \cup {Free} /\ doing' \in [Threads -> Places]
             /\ index' \in [Readers -> Nat \ {0}]
  <2>1. \E p \in Places : doing' = [doing EXCEPT ![r] = p] \/ doing' = doing
    BY <1>3 DEF ReaderStep, Look, FirstNext, FurtherNext, Again, Release, Goes, Places
  <2>2. mutex' \in {mutex, r, Free}
    BY <1>3 DEF ReaderStep, Look, FirstNext, FurtherNext, Again, Release
  <2>3. \/ index' = index \/ index' = [index EXCEPT ![r] = 1]
        \/ index' = [index EXCEPT ![r] = @ + 1]
    BY <1>3 DEF ReaderStep, Look, FirstNext, FurtherNext, Again, Release
  <2>4. index' \in [Readers -> Nat \ {0}]
    BY <1>1, <2>3
  <2> QED
    BY <1>1, <2>1, <2>2, <2>4 DEF Threads
<1>4. CASE Tick \/ UNCHANGED aisVars
  BY <1>1, <1>4 DEF Tick, aisVars
<1>5. CASE \E w \in Writers : WriterStep(w)
  BY <1>1, <1>2, <1>5
<1>6. CASE \E r \in Readers : ReaderStep(r)
  BY <1>3, <1>6
<1> QED
  BY <1>4, <1>5, <1>6 DEF AISNext

\* Every step of any number of writers and voters keeps the types.
LEMMA TypeStep ==
  ASSUME TypeInv, [AISNext]_aisVars
  PROVE  TypeInv'
<1>1. /\ contacts \in Seq(Contact) /\ flag \in BOOLEAN
      /\ job \in [Writers -> Job] /\ doing \in [Threads -> Places]
  BY DEF TypeInv, AISTypeOK, Places
<1>2. \A w \in Writers : Calls(w) \subseteq Job
  BY DEF Calls, Reports, Job
<1>3. ASSUME NEW w \in Writers, WriterStep(w)
      PROVE  contacts' \in Seq(Contact) /\ job' \in [Writers -> Job] /\ WritesReport'
  <2>1. \A u \in Writers : u \in Threads
    BY DEF Threads
  <2>2. CASE \E j \in Calls(w) : Call(w, j)
    <3>1. PICK j \in Calls(w) : Call(w, j)
      BY <2>2
    <3>2. job' = [job EXCEPT ![w] = j] /\ j \in Job
      BY <1>2, <3>1 DEF Call
    <3>3. doing'[w] # "write" /\ \A u \in Writers : u # w => doing'[u] = doing[u]
      BY <1>1, <2>1, <3>1 DEF Call, Goes
    <3>4. job' \in [Writers -> Job] /\ WritesReport'
      BY <1>1, <3>2, <3>3 DEF TypeInv, WritesReport
    <3> QED
      BY <1>1, <3>1, <3>4 DEF Call
  <2>3. CASE Search(w)
    <3> DEFINE at == PlaceOf(contacts, job[w].mmsi)
    <3>1. at \in Nat
      BY <1>1, SearchFinds
    <3>2. job' = [job EXCEPT ![w].at = at] /\ job[w].op # "clean"
      BY <2>3 DEF Search, PlaceOf
    <3> HIDE DEF at
    <3>3. job[w] \in [op : {"place", "size"}, mmsi : MMSIs, at : Nat]
      BY <1>1, <3>2 DEF Job
    <3>4. [job[w] EXCEPT !.at = at] \in Job /\ [job[w] EXCEPT !.at = at].op = job[w].op
      BY <3>1, <3>3 DEF Job
    <3>5. job' \in [Writers -> Job] /\ job'[w].op # "clean" /\ \A u \in Writers : u # w => job'[u] = job[u]
      BY <1>1, <3>2, <3>4
    <3>6. \A u \in Writers : u # w => doing'[u] = doing[u]
      BY <1>1, <2>1, <2>3 DEF Search, Goes
    <3>7. WritesReport'
      BY <3>5, <3>6 DEF TypeInv, WritesReport
    <3> QED
      BY <1>1, <2>3, <3>5, <3>7 DEF Search
  <2>4. CASE Write(w)
    <3>1. contacts' \in Seq(Contact)
      BY <2>4, WriteEffect
    <3>2. WritesReport'
      BY <1>1, <2>1, <2>4 DEF Write, Goes, TypeInv, WritesReport
    <3> QED
      BY <1>1, <2>4, <3>1, <3>2 DEF Write
  <2>5. CASE Clean(w)
    <3>1. contacts' \in Seq(Contact)
      BY <1>1, <2>5, YoungAreLeft DEF Clean
    <3>2. WritesReport'
      BY <1>1, <2>1, <2>5 DEF Clean, Goes, TypeInv, WritesReport
    <3> QED
      BY <1>1, <2>5, <3>1, <3>2 DEF Clean
  <2>6. CASE Lock(w) \/ Mark(w) \/ Unlock(w) \/ Clear(w)
    <3>1. contacts' = contacts /\ job' = job
      BY <2>6 DEF Lock, Mark, Unlock, Clear
    <3>2. WritesReport'
      BY <1>1, <2>1, <2>6, <3>1 DEF Lock, Mark, Unlock, Clear, Goes, TypeInv, WritesReport
    <3> QED
      BY <1>1, <3>1, <3>2
  <2> QED
    BY <1>3, <2>2, <2>3, <2>4, <2>5, <2>6 DEF WriterStep
<1>4. ASSUME NEW r \in Readers, ReaderStep(r)
      PROVE  contacts' \in Seq(Contact) /\ job' \in [Writers -> Job] /\ WritesReport'
  <2>1. contacts' = contacts /\ job' = job
    BY <1>4 DEF ReaderStep, Look, FirstNext, FurtherNext, Again, Release
  <2>2. \A w \in Writers : w # r /\ w \in Threads
    BY AISConstants DEF Threads
  <2>3. \A w \in Writers : doing'[w] = doing[w]
    BY <1>1, <1>4, <2>2 DEF ReaderStep, Look, FirstNext, FurtherNext, Again, Release, Goes
  <2>4. WritesReport'
    BY <2>1, <2>3 DEF TypeInv, WritesReport
  <2> QED
    BY <1>1, <2>1, <2>4
<1>5. ASSUME Tick \/ UNCHANGED aisVars
      PROVE  contacts' \in Seq(Contact) /\ job' \in [Writers -> Job] /\ WritesReport'
  <2>1. job' = job /\ doing' = doing
    BY <1>5 DEF Tick, aisVars
  <2>2. WritesReport'
    BY <2>1 DEF TypeInv, WritesReport
  <2>3. contacts' \in Seq(Contact)
    <3>1. ASSUME Tick PROVE contacts' \in Seq(Contact)
      BY <3>1, TickEffect DEF TypeInv
    <3>2. ASSUME UNCHANGED aisVars PROVE contacts' = contacts
      BY <3>2 DEF aisVars
    <3> QED
      BY <1>1, <1>5, <3>1, <3>2
  <2> QED
    BY <1>1, <2>1, <2>2, <2>3
<1>6. contacts' \in Seq(Contact) /\ job' \in [Writers -> Job] /\ WritesReport'
  BY <1>3, <1>4, <1>5 DEF AISNext
<1>7. flag' \in BOOLEAN
  <2>1. flag' = flag \/ flag' = TRUE \/ flag' = FALSE
    BY DEF AISNext, WriterStep, Call, Lock, Mark, Search, Write, Clean, Unlock, Clear,
       ReaderStep, Look, FirstNext, FurtherNext, Again, Release, Tick, aisVars
  <2> QED
    BY <1>1, <2>1
<1>8. skipped' \in BOOLEAN
  <2>1. skipped \in BOOLEAN
    BY DEF TypeInv, AISTypeOK
  <2>2. skipped' = skipped \/ \E w \in Writers, j \in Job : Call(w, j)
    BY <1>2, Zenon DEF AISNext, WriterStep, Lock, Mark, Search, Write, Clean, Unlock,
       Clear, ReaderStep, Look, FirstNext, FurtherNext, Again, Release, Tick, aisVars
  <2>3. ASSUME NEW w \in Writers, NEW j \in Job, Call(w, j) PROVE skipped' \in BOOLEAN
    BY <2>3, Zenon DEF Call
  <2> QED
    BY <2>1, <2>2, <2>3
<1> QED
  BY <1>6, <1>7, <1>8, PlacesStay DEF TypeInv, AISTypeOK, Places

\* Before the first step the list is empty and nobody writes.
LEMMA TypeInvInit == AISInit => TypeInv
<1> SUFFICES ASSUME AISInit PROVE TypeInv
  OBVIOUS
<1>1. contacts \in Seq(Contact)
  BY DEF AISInit
<1>2. flag \in BOOLEAN
  BY DEF AISInit
<1>3. job \in [Writers -> Job]
  BY DEF AISInit, Job
<1>4. doing \in [Threads -> Places] /\ index \in [Readers -> Nat \ {0}]
      /\ mutex \in Threads \cup {Free}
  BY DEF AISInit, Places
<1>5. WritesReport
  BY DEF AISInit, WritesReport, Threads
<1> QED
  BY <1>1, <1>2, <1>3, <1>4, <1>5 DEF AISInit, TypeInv, AISTypeOK, Places

\* Type correctness, for any number of writers and voters.
THEOREM TypeCorrect == AISSpec => []AISTypeOK
<1>1. TypeInv /\ [AISNext]_aisVars => TypeInv'
  BY TypeStep
<1>2. TypeInv => AISTypeOK
  BY DEF TypeInv
<1> QED
  BY TypeInvInit, <1>1, <1>2, PTL DEF AISSpec

------------------------------------------------------------------------------
(* Vessels.                                                                  *)

\* What the search has found holds until the report is written.
NotFoundIsNew ==
  \A w \in Writers : doing[w] = "write" /\ job[w].at = 0 =>
    \A i \in DOMAIN contacts : contacts[i].mmsi # job[w].mmsi

Vessels == Distinct(contacts) /\ NotFoundIsNew

\* The voters and the clock leave the vessels and the writers alone.
LEMMA VesselsUntouched ==
  ASSUME Vessels, DOMAIN contacts' = DOMAIN contacts,
         \A i \in DOMAIN contacts : contacts'[i].mmsi = contacts[i].mmsi,
         job' = job, \A w \in Writers : doing'[w] = "write" => doing[w] = "write"
  PROVE  Vessels'
<1>1. Distinct(contacts)'
  BY DEF Vessels, Distinct
<1>2. NotFoundIsNew'
  BY DEF Vessels, NotFoundIsNew
<1> QED
  BY <1>1, <1>2 DEF Vessels

\* Until a lock is skipped, a writer adds a contact only if its vessel is not in
\* the list: no other writer is between its search and its write meanwhile.
LEMMA VesselStep ==
  ASSUME TypeInv, LockInv, ~skipped, Vessels, [AISNext]_aisVars
  PROVE  Vessels'
<1>1. /\ contacts \in Seq(Contact) /\ doing \in [Threads -> Places]
      /\ job \in [Writers -> Job]
  BY DEF TypeInv, AISTypeOK, Places
<1>2. ASSUME NEW w \in Writers, WriterStep(w) PROVE Vessels'
  <2>1. \A u \in Writers : u \in Threads
    BY DEF Threads
  <2>2. \A u \in Writers : u # w => doing'[u] = doing[u]
    BY <1>1, <1>2, <2>1 DEF WriterStep, Call, Lock, Mark, Search, Write, Clean, Unlock, Clear, Goes
  <2>3. ASSUME doing[w] \in {"search", "write"} PROVE \A u \in Writers : u # w => doing[u] # "write"
    BY <2>3 DEF LockInv, Owns
  <2>4. CASE Search(w)
    <3>1. job' = [job EXCEPT ![w].at = PlaceOf(contacts, job[w].mmsi)]
      BY <2>4 DEF Search, PlaceOf
    <3>2. job'[w].at = PlaceOf(contacts, job[w].mmsi) /\ job'[w].mmsi = job[w].mmsi
      <4>1. job[w] \in [op : {"place", "size"}, mmsi : MMSIs, at : Nat]
        BY <1>1, <2>4 DEF Search, Job
      <4> QED
        BY <1>1, <3>1, <4>1
    <3>3. contacts' = contacts
      BY <2>4 DEF Search
    <3>4. \A u \in Writers : u # w => doing'[u] # "write"
      BY <2>2, <2>3, <2>4 DEF Search
    <3>5. NotFoundIsNew'
      BY <1>1, <3>2, <3>3, <3>4, SearchFinds DEF NotFoundIsNew
    <3> QED
      BY <3>3, <3>5 DEF Vessels
  <2>5. CASE Write(w)
    <3>1. doing'[w] = "unlock" /\ job' = job
      BY <1>1, <2>1, <2>5 DEF Write, Goes
    <3>2. \A u \in Writers : doing'[u] # "write"
      BY <2>2, <2>3, <2>5, <3>1 DEF Write
    <3>3. NotFoundIsNew'
      BY <3>2 DEF NotFoundIsNew
    <3>4. CASE job[w].at # 0
      BY <2>5, <3>1, <3>2, <3>4, WriteEffect, VesselsUntouched
    <3>5. CASE job[w].at = 0
      <4> DEFINE h == Heard(job[w].mmsi, job[w].op)
                 l == Len(contacts) + 1
      <4>1. contacts' = Append(contacts, h) /\ h.mmsi = job[w].mmsi
        BY <2>5, <3>5, WriteEffect
      <4>2. \A i \in DOMAIN contacts : contacts[i].mmsi # h.mmsi
        BY <2>5, <3>5, <4>1 DEF Write, Vessels, NotFoundIsNew
      <4> HIDE DEF h
      <4>3. /\ DOMAIN contacts' = 1..l /\ DOMAIN contacts = 1..(l - 1) /\ l \in Nat \ {0}
            /\ contacts'[l] = h /\ \A i \in 1..(l - 1) : contacts'[i] = contacts[i]
        BY <1>1, <4>1
      <4>4. \A i : i \in 1..l <=> i \in 1..(l - 1) \/ i = l
        BY <4>3
      <4> HIDE DEF l
      <4>5. Distinct(contacts)'
        BY <4>2, <4>3, <4>4 DEF Vessels, Distinct
      <4> QED
        BY <3>3, <4>5 DEF Vessels
    <3> QED
      BY <3>4, <3>5
  <2>6. CASE Clean(w)
    <3>1. doing'[w] = "unlock" /\ contacts' = Young(contacts)
      BY <1>1, <2>1, <2>6 DEF Clean, Goes
    <3>2. Distinct(contacts)'
      BY <1>1, <3>1, YoungAreLeft DEF Vessels, Distinct
    <3>3. \A u \in Writers : doing'[u] # "write"
      BY <2>2, <2>3, <2>6, <3>1 DEF Clean
    <3>4. NotFoundIsNew'
      BY <3>3 DEF NotFoundIsNew
    <3> QED
      BY <3>2, <3>4 DEF Vessels
  <2>7. CASE Lock(w) \/ Mark(w) \/ Unlock(w) \/ Clear(w)
    <3>1. contacts' = contacts /\ job' = job
      BY <2>7 DEF Lock, Mark, Unlock, Clear
    <3>2. doing'[w] # "write"
      BY <1>1, <2>1, <2>7 DEF Lock, Mark, Unlock, Clear, Goes
    <3> QED
      BY <2>2, <3>1, <3>2, VesselsUntouched
  <2>8. CASE \E j \in Calls(w) : Call(w, j)
    <3>1. contacts' = contacts /\ \A u \in Writers : u # w => job'[u] = job[u]
      BY <1>1, <2>8 DEF Call
    <3>2. doing'[w] # "write"
      BY <1>1, <2>1, <2>8 DEF Call, Goes
    <3>3. NotFoundIsNew'
      BY <2>2, <3>1, <3>2 DEF Vessels, NotFoundIsNew
    <3> QED
      BY <3>1, <3>3 DEF Vessels
  <2> QED
    BY <1>2, <2>4, <2>5, <2>6, <2>7, <2>8 DEF WriterStep
<1>3. ASSUME NEW r \in Readers, ReaderStep(r) PROVE Vessels'
  <2>1. contacts' = contacts /\ job' = job
    BY <1>3 DEF ReaderStep, Look, FirstNext, FurtherNext, Again, Release
  <2>2. \A w \in Writers : w # r /\ w \in Threads
    BY AISConstants DEF Threads
  <2>3. \A w \in Writers : doing'[w] = doing[w]
    BY <1>1, <1>3, <2>2 DEF ReaderStep, Look, FirstNext, FurtherNext, Again, Release, Goes
  <2> QED
    BY <2>1, <2>3, VesselsUntouched
<1>4. CASE Tick
  BY <1>4, TickEffect, VesselsUntouched DEF Tick, TypeInv
<1>5. CASE UNCHANGED aisVars
  BY <1>5, VesselsUntouched DEF aisVars
<1> QED
  BY <1>2, <1>3, <1>4, <1>5 DEF AISNext

\* Once a lock has been skipped, it has been.
LEMMA SkippedStays ==
  ASSUME [AISNext]_aisVars, ~skipped'
  PROVE  ~skipped
<1>1. skipped' = skipped \/ \E w \in Writers, j \in Reports \cup [op : {"clean"}] : Call(w, j)
  BY Zenon DEF AISNext, WriterStep, Calls, Lock, Mark, Search, Write, Clean, Unlock,
     Clear, ReaderStep, Look, FirstNext, FurtherNext, Again, Release, Tick, aisVars
<1>2. ASSUME NEW w, NEW j, Call(w, j) PROVE ~skipped
  BY <1>2, Zenon DEF Call
<1> QED
  BY <1>1, <1>2, Zenon

\* Until a writer takes another's flag for its own, a vessel is in the list once,
\* for any number of threads that report and remove, whatever the voters do
\* meanwhile (addAISContact(), removeOldAISContacts()).
THEOREM EachVesselOnce == AISSpec => []OneContactPerVessel
<1> DEFINE I == TypeInv /\ LockInv /\ (~skipped => Vessels)
<1>1. AISInit => I
  <2>1. AISInit => Vessels
    BY AISConstants DEF AISInit, Vessels, Distinct, NotFoundIsNew, Threads
  <2> QED
    BY <2>1, TypeInvInit, LockInvInit
<1>2. I /\ [AISNext]_aisVars => I'
  <2> SUFFICES ASSUME I, [AISNext]_aisVars PROVE I'
    OBVIOUS
  <2>1. ~skipped' => Vessels'
    BY SkippedStays, VesselStep
  <2> QED
    BY <2>1, TypeStep, LockStep
<1>3. I => OneContactPerVessel
  BY DEF Vessels, Distinct, OneContactPerVessel
<1> QED
  BY <1>1, <1>2, <1>3, PTL DEF AISSpec

\* Until a writer takes another's flag for its own, the vessels a voter walks
\* through stay where they are until it has let go of the list, for any number
\* of threads that add and remove (CollidableList::next(), CollidableMgr.cpp:87,
\* 126, 216).
THEOREM ListStableWhileRead == AISSpec => StableWhileRead
<1> DEFINE Stays == /\ DOMAIN contacts' = DOMAIN contacts
                    /\ \A i \in DOMAIN contacts : contacts'[i].mmsi = contacts[i].mmsi
           A == ~skipped /\ (\E r \in Readers : doing[r] = "reading") => Stays
<1> SUFFICES AISSpec => [][A]_aisVars
  BY DEF StableWhileRead
<1>1. TypeInv /\ LockInv /\ [AISNext]_aisVars => [A]_aisVars
  <2> SUFFICES ASSUME TypeInv, LockInv, [AISNext]_aisVars, ~skipped,
                      NEW r \in Readers, doing[r] = "reading"
               PROVE  Stays \/ UNCHANGED aisVars
    BY Zenon
  <2>1. CASE Tick
    BY <2>1, TickEffect DEF TypeInv
  <2>2. ASSUME NEW w \in Writers, WriterStep(w) PROVE contacts' = contacts
    <3>1. mutex = r /\ w # r
      BY AISConstants DEF LockInv, Owns
    <3>2. doing[w] # "write" /\ doing[w] # "search"
      BY <3>1 DEF LockInv, Owns
    <3> QED
      BY <2>2, <3>2 DEF WriterStep, Call, Lock, Mark, Search, Write, Clean, Unlock, Clear
  <2>3. ASSUME NEW q \in Readers, ReaderStep(q) PROVE contacts' = contacts
    BY <2>3 DEF ReaderStep, Look, FirstNext, FurtherNext, Again, Release
  <2> QED
    BY <2>1, <2>2, <2>3 DEF AISNext
<1>2. AISInit => TypeInv /\ LockInv
  BY TypeInvInit, LockInvInit
<1>3. TypeInv /\ LockInv /\ [AISNext]_aisVars => (TypeInv /\ LockInv)'
  BY TypeStep, LockStep
<1> QED
  BY <1>1, <1>2, <1>3, PTL DEF AISSpec
==============================================================================
