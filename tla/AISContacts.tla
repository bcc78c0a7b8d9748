----------------------------- MODULE AISContacts -----------------------------
(***************************************************************************)
(* The AIS contacts of NavigationSystem/WorldState/CollidableMgr: a vector *)
(* that several threads share.  Those that add contacts or remove old ones *)
(* go through aisListMutex and the plain flag ownAISLock next to it; the   *)
(* voters read through a CollidableList, which locks the same mutex at its *)
(* first next() and keeps it until it is destroyed.                        *)
(***************************************************************************)
EXTENDS Integers, SequencesExt, FiniteSetsExt

CONSTANTS
  Adders,     \* threads that call addAISContact()
  Collectors, \* the one that calls removeOldAISContacts(), ContactGC()
  Readers,    \* threads that vote
  Free,       \* owner of an unlocked mutex
  MMSIs,      \* identities of vessels
  TimeOut     \* AIS_CONTACT_TIME_OUT, in ticks

Writers == Adders \cup Collectors

ASSUME AISConstants ==
  /\ Writers \cap Readers = {} /\ Free \notin Writers \cup Readers
  /\ TimeOut \in Nat

VARIABLES
  contacts,   \* aisContacts
  mutex,      \* owner of aisListMutex
  flag,       \* ownAISLock
  doing,         \* where each thread is
  job,        \* the call each writer is in, with what its search has found
  index,      \* index of each reader's CollidableList, from 1
  skipped     \* a writer has found the flag of another one and taken it for
              \* its own (history)

aisVars == <<contacts, mutex, flag, doing, job, index, skipped>>

Threads == Writers \cup Readers
Contact == [mmsi : MMSIs, age : 0..(TimeOut + 1), placed : BOOLEAN,
            sized : BOOLEAN]
Job == [op : {"place", "size"}, mmsi : MMSIs, at : Nat] \cup [op : {"clean"}]

AISTypeOK ==
  /\ contacts \in Seq(Contact)
  /\ mutex \in Threads \cup {Free}
  /\ flag \in BOOLEAN
  /\ doing \in [Threads -> {"idle", "lock", "mark", "search", "write", "unlock",
                         "clear", "reading", "thrown"}]
  /\ job \in [Writers -> Job]
  /\ index \in [Readers -> Nat \ {0}]
  /\ skipped \in BOOLEAN

AISInit ==
  /\ contacts = <<>>
  /\ mutex = Free
  /\ flag = FALSE
  /\ doing = [t \in Threads |-> "idle"]
  /\ job = [w \in Writers |-> [op |-> "clean"]]
  /\ index = [r \in Readers |-> 1]
  /\ skipped = FALSE

Goes(t, there) == doing' = [doing EXCEPT ![t] = there]

------------------------------------------------------------------------------
(* The writers: addAISContact(mmsi, position), addAISContact(mmsi, size) and *)
(* removeOldAISContacts() share the way in and the way out.                  *)

\* The flag tells a writer that it holds the lock, or that another one does.
Call(w, j) ==
  /\ doing[w] = "idle"
  /\ job' = [job EXCEPT ![w] = j]
  /\ Goes(w, IF flag THEN "search" ELSE "lock")
  /\ skipped' = (skipped \/ flag)
  /\ UNCHANGED <<contacts, mutex, flag, index>>

LockSkipped(w) ==
  /\ doing[w] = "lock"
  /\ Goes(w, "mark")
  /\ UNCHANGED <<contacts, mutex, flag, job, index, skipped>>

Lock(w) ==
  /\ doing[w] = "lock"
  /\ mutex = Free
  /\ mutex' = w
  /\ Goes(w, "mark")
  /\ UNCHANGED <<contacts, flag, job, index, skipped>>

Mark(w) ==
  /\ doing[w] = "mark"
  /\ flag' = TRUE
  /\ Goes(w, "search")
  /\ UNCHANGED <<contacts, mutex, job, index, skipped>>

\* Positions that count from 0, with -1 for a vessel that is not there.
SearchFromZero(w) ==
  /\ doing[w] = "search"
  /\ job[w].op # "clean"
  /\ job' = [job EXCEPT ![w].at =
               SelectInSeq(contacts, LAMBDA c : c.mmsi = job[w].mmsi) - 1]
  /\ Goes(w, "write")
  /\ UNCHANGED <<contacts, mutex, flag, index, skipped>>

\* The loop over the contacts; at = 0 when the vessel is a new one.
Search(w) ==
  /\ doing[w] = "search"
  /\ job[w].op # "clean"
  /\ job' = [job EXCEPT ![w].at =
               SelectInSeq(contacts, LAMBDA c : c.mmsi = job[w].mmsi)]
  /\ Goes(w, "write")
  /\ UNCHANGED <<contacts, mutex, flag, index, skipped>>

\* A position refreshes the contact, its length and beam do not.
Updated(c, op) ==
  IF op = "place" THEN [c EXCEPT !.placed = TRUE, !.age = 0]
  ELSE [c EXCEPT !.sized = TRUE]

Heard(m, op) ==
  [mmsi |-> m, age |-> 0, placed |-> op = "place", sized |-> op = "size"]

\* A contact that is added whatever the search has found.
AppendAlways(w) ==
  /\ doing[w] = "write"
  /\ contacts' = Append(contacts, Heard(job[w].mmsi, job[w].op))
  /\ Goes(w, "unlock")
  /\ UNCHANGED <<mutex, flag, job, index, skipped>>

\* The contact is updated where it was found or added at the end.  If the
\* vector has shrunk meanwhile the write goes past its end and is lost.
Write(w) ==
  LET j == job[w] IN
  /\ doing[w] = "write"
  /\ contacts' =
       IF j.at = 0 THEN Append(contacts, Heard(j.mmsi, j.op))
       ELSE [i \in DOMAIN contacts |->
               IF i = j.at THEN Updated(contacts[i], j.op) ELSE contacts[i]]
  /\ Goes(w, "unlock")
  /\ UNCHANGED <<mutex, flag, job, index, skipped>>

\* The loop of removeOldAISContacts(), which erases while it iterates: what is
\* left of the contacts cs.
Young(cs) ==
  LET left[n \in 0..Len(cs)] ==
        IF n = 0 THEN <<>>
        ELSE IF cs[n].age > TimeOut THEN left[n - 1]
        ELSE Append(left[n - 1], cs[n])
  IN  left[Len(cs)]

\* removeOldAISContacts().
Clean(w) ==
  /\ doing[w] = "search"
  /\ job[w].op = "clean"
  /\ contacts' = Young(contacts)
  /\ Goes(w, "unlock")
  /\ UNCHANGED <<mutex, flag, job, index, skipped>>

\* The mutex is unlocked whoever holds it ...
Unlock(w) ==
  /\ doing[w] = "unlock"
  /\ mutex' = Free
  /\ Goes(w, "clear")
  /\ UNCHANGED <<contacts, flag, job, index, skipped>>

\* A way out that forgets the flag.
LeaveFlag(w) ==
  /\ doing[w] = "clear"
  /\ Goes(w, "idle")
  /\ UNCHANGED <<contacts, mutex, flag, job, index, skipped>>

\* ... and only then the flag is taken back.
Clear(w) ==
  /\ doing[w] = "clear"
  /\ flag' = FALSE
  /\ Goes(w, "idle")
  /\ UNCHANGED <<contacts, mutex, job, index, skipped>>

------------------------------------------------------------------------------
(* The voters: for (i = 0; i < contacts.length(); i++) contacts.next();      *)

\* length() looks at the vector without the lock.
Look(r) ==
  /\ doing[r] = "idle"
  /\ contacts # <<>>
  /\ index' = [index EXCEPT ![r] = 1]
  /\ Goes(r, "lock")
  /\ UNCHANGED <<contacts, mutex, flag, job, skipped>>

\* next() for the first time; vector::at() throws if the list has been emptied
\* since length() looked.  Nobody catches that: the program is being terminated
\* and the others get only as far as they still can.
FirstNext(r) ==
  /\ doing[r] = "lock"
  /\ mutex = Free
  /\ mutex' = r
  /\ Goes(r, IF contacts = <<>> THEN "thrown" ELSE "reading")
  /\ UNCHANGED <<contacts, flag, job, index, skipped>>

\* A voter that keeps its place but not the lock between two items.
ReleaseEarly(r) ==
  /\ doing[r] = "reading"
  /\ mutex' = Free
  /\ UNCHANGED <<contacts, flag, doing, job, index, skipped>>

\* Each further next().
FurtherNext(r) ==
  /\ doing[r] = "reading"
  /\ index[r] < Len(contacts)
  /\ index' = [index EXCEPT ![r] = @ + 1]
  /\ UNCHANGED <<contacts, mutex, flag, doing, job, skipped>>

\* A voter that walks through the list once for each course calls reset().
Again(r) ==
  /\ doing[r] = "reading"
  /\ index[r] >= Len(contacts)
  /\ index' = [index EXCEPT ![r] = 1]
  /\ UNCHANGED <<contacts, mutex, flag, doing, job, skipped>>

\* The end of the loop: the list is destroyed.
Release(r) ==
  /\ doing[r] = "reading"
  /\ index[r] >= Len(contacts)
  /\ mutex' = Free
  /\ Goes(r, "idle")
  /\ UNCHANGED <<contacts, flag, job, index, skipped>>

\* A second passes.
Tick ==
  /\ contacts' = [i \in DOMAIN contacts |->
                    [contacts[i] EXCEPT !.age = Min({@ + 1, TimeOut + 1})]]
  /\ UNCHANGED <<mutex, flag, doing, job, index, skipped>>

Reports == [op : {"place", "size"}, mmsi : MMSIs, at : {0}]

\* What each writer has to do: its calls never overlap each other.
Calls(w) ==
  {j \in Reports : w \in Adders} \cup {j \in [op : {"clean"}] : w \in Collectors}

WriterStep(w) ==
  \/ \E j \in Calls(w) : Call(w, j)
  \/ Lock(w) \/ Mark(w) \/ Search(w) \/ Write(w) \/ Clean(w) \/ Unlock(w) \/ Clear(w)

ReaderStep(r) ==
  Look(r) \/ FirstNext(r) \/ FurtherNext(r) \/ Again(r) \/ Release(r)

AISNext ==
  \/ \E w \in Writers : WriterStep(w)
  \/ \E r \in Readers : ReaderStep(r)
  \/ Tick

AISSpec == AISInit /\ [][AISNext]_aisVars

------------------------------------------------------------------------------
(* Properties *)

Inside(t) == doing[t] \in {"search", "write", "reading"}

\* "Prevents multiple sources from accessing the underlying vector unless it
\* has locked the mutex" (CollidableList.h:7-8): a thread that walks or changes
\* the vector holds the lock, so that no other does.  The flag defeats this.
Exclusive == \A t \in Threads : Inside(t) => mutex = t

\* Up to the first time a writer takes another's flag for its own, the lock does
\* exclude: also when a writer gets the mutex between another's unlock and the
\* clearing of the flag, which then is its own (CollidableMgr.cpp:87-88).
ExclusiveUntilSkipped == ~skipped => Exclusive

\* Nobody goes away with the lock or leaves the flag set behind it, whatever has
\* been skipped: the mutex belongs to a thread that is still going to unlock it
\* (or has ended the program), the flag is set only while some writer is still
\* going to clear it.  A flag left behind would do away with the lock for good.
NothingLeftBehind ==
  /\ \A w \in Writers : mutex = w => doing[w] \in {"mark", "search", "write", "unlock"}
  /\ \A r \in Readers : mutex = r => doing[r] \in {"reading", "thrown"}
  /\ flag => \E w \in Writers : doing[w] \in {"search", "write", "unlock", "clear"}

\* Until then a vessel is in the list once, however its reports, those of other
\* threads, the removal of old contacts and the voters interleave
\* (addAISContact()).
OneContactPerVessel ==
  ~skipped =>
    \A i, k \in DOMAIN contacts : contacts[i].mmsi = contacts[k].mmsi => i = k

\* Until then the vessels a voter walks through stay the same and in the same
\* order until it has let go of the list, although others add and remove
\* (CollidableList::next()).
StableWhileRead ==
  [][ ~skipped /\ (\E r \in Readers : doing[r] = "reading") =>
        /\ DOMAIN contacts' = DOMAIN contacts
        /\ \A i \in DOMAIN contacts : contacts'[i].mmsi = contacts[i].mmsi ]_aisVars
==============================================================================
