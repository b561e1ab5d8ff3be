----------------------------- MODULE LogPageProofs -----------------------------
(***************************************************************************)
(* Proofs about LogPage for any entries, filters, limits and runs.         *)
(***************************************************************************)
EXTENDS LogPage, FiniteSetTheorems, WellFoundedInduction, TLAPS

\* Only the current run has a WebSocket that may bring entries, and later runs
\* have asked for nothing.
OneSocket ==
  /\ \A k \in Run : sock[k] \in {"opening", "joined"} => k = run
  /\ \A k \in Run : k > run => get[k] = "none"

\* A list that was read passes the filter of the run that asked for it.
ListsMatch == \A k \in Run : get[k] = "read" => \A e \in list[k] : Matches(filter[k], e)

\* The inductive invariant.
PageInv == TypeOK /\ OneSocket /\ ListsMatch /\ ShownMatchesFilter

\* No two entries on the page look the same; the list may hold such, the first
\* entry merged in tidies it up.
OneEach == \A e, f \in shown : LogKey(e) = LogKey(f) => e = f

\* An entry is on the page, itself or a twin, or newer ones fill it.
Held(e) ==
  \/ \E f \in shown : LooksLike(e, f)
  \/ BeyondCap(e) /\ OneEach

\* Where the entries are that the page has to show: those stored when the list was
\* read, and those stored since.
Complete ==
  /\ get[run] = "read" =>
       \A e \in 1..readAt[run] : Matches(filter[run], e) =>
         (\E f \in list[run] : LooksLike(e, f)) \/ BeyondLimit(e)
  /\ get[run] = "done" =>
       \A e \in 1..readAt[run] : Matches(filter[run], e) => Held(e) \/ BeyondLimit(e)
  /\ get[run] \in {"read", "done"} =>
       \A e \in 1..stored : e > readAt[run] /\ Matches(filter[run], e) =>
         \/ e \in waiting \cup queue[run] \cup missed
         \/ get[run] = "done" /\ Held(e)
-----------------------------------------------------------------------------
LEMMA EntriesFinite ==
  ASSUME NEW set \in SUBSET Entry
  PROVE  IsFiniteSet(set) /\ Cardinality(set) \in Nat
<1>1. IsFiniteSet(Stored)
  BY FS_Interval, SizeAssumption DEF Stored
<1>2. IsFiniteSet(Entry)
  BY <1>1, FS_AddElement DEF Entry
<1> QED
  BY <1>2, FS_Subset, FS_CardinalityType

\* The newest n of some entries are some of them, and at most n.
LEMMA NewestBounded ==
  ASSUME NEW set \in SUBSET Entry, NEW n \in Nat, NEW some \in Newest(set, n)
  PROVE  some \subseteq set /\ Cardinality(some) <= n
<1>1. Cardinality(set) \in Nat
  BY EntriesFinite
<1> QED
  BY <1>1 DEF Newest

\* An answer of Get is short enough and passes the filter.
LEMMA AnswersMatch ==
  ASSUME TypeOK, NEW f \in Filter, NEW answer \in Lists(f)
  PROVE  /\ answer \subseteq Entry /\ Cardinality(answer) <= Limit
         /\ \A e \in answer : Matches(f, e)
<1> DEFINE found == {e \in 1..stored : Matches(f, e)}
<1>1. found \in SUBSET Entry
  BY SizeAssumption DEF TypeOK, Entry, Stored
<1>2. CASE found = {} /\ f = Everything
  <2>1. answer = {} \/ answer = {Pod}
    BY <1>2 DEF Lists
  <2>2. Cardinality({}) = 0 /\ Cardinality({Pod}) = 1
    BY FS_EmptySet, FS_Singleton
  <2>3. answer \subseteq Entry /\ Cardinality(answer) <= Limit
    BY <2>1, <2>2, SizeAssumption DEF Entry
  <2>4. \A e \in answer : Matches(f, e)
    BY <1>2 DEF Matches
  <2> QED
    BY <2>3, <2>4
<1>3. CASE ~ (found = {} /\ f = Everything)
  <2>1. answer \in Newest(found, Limit)
    BY <1>3 DEF Lists
  <2> QED
    BY <1>1, <2>1, NewestBounded, SizeAssumption
<1> QED
  BY <1>2, <1>3

\* Merging in an entry adds nothing else and keeps the cap.
LEMMA MergeBounded ==
  ASSUME NEW set \in SUBSET Entry, NEW e \in Entry, NEW some \in Merge(set, e)
  PROVE  some \subseteq set \cup {e} /\ Cardinality(some) <= Cap
<1>1. OnePerKey(set \cup {e}) \in SUBSET Entry
  BY DEF OnePerKey
<1> QED
  BY <1>1, NewestBounded, SizeAssumption DEF Merge, OnePerKey
-----------------------------------------------------------------------------
\* The page as it is opened.
LEMMA InitPage == Init => PageInv
<1> SUFFICES ASSUME Init PROVE PageInv
  OBVIOUS
<1>1. Cardinality({}) = 0
  BY FS_EmptySet
<1>2. 1 \in Run
  BY SizeAssumption DEF Run
<1>3. TypeOK
  BY <1>1, <1>2, SizeAssumption, FilterAssumption DEF Init, TypeOK
<1>4. OneSocket /\ ListsMatch /\ ShownMatchesFilter
  BY <1>2, SizeAssumption DEF Init, OneSocket, ListsMatch, ShownMatchesFilter, Loaded, Run
<1> QED
  BY <1>3, <1>4 DEF PageInv

\* What neither lists nor shows an entry.
LEMMA QuietKeeps ==
  ASSUME PageInv, UNCHANGED <<run, filter, list, shown>>,
         \A k \in Run : sock'[k] \in {"opening", "joined"} => sock[k] \in {"opening", "joined"},
         \A k \in Run : get'[k] = get[k] \/ (get[k] = "sent" /\ get'[k] = "failed")
  PROVE  OneSocket' /\ ListsMatch' /\ ShownMatchesFilter'
<1>1. run \in Run
  BY DEF PageInv, TypeOK
<1> QED
  BY <1>1 DEF PageInv, OneSocket, ListsMatch, ShownMatchesFilter, Loaded, Matches

LEMMA AppendKeeps == PageInv /\ Append => PageInv'
<1> SUFFICES ASSUME PageInv, Append PROVE PageInv'
  OBVIOUS
<1>1. TypeOK'
  BY SizeAssumption DEF PageInv, TypeOK, Append, pageVars
<1>2. OneSocket' /\ ListsMatch' /\ ShownMatchesFilter'
  BY QuietKeeps DEF Append, pageVars
<1> QED
  BY <1>1, <1>2 DEF PageInv

LEMMA BroadcastKeeps ==
  ASSUME PageInv, NEW e \in Stored, Broadcast(e)
  PROVE  PageInv'
<1>1. TypeOK'
  BY DEF PageInv, TypeOK, Broadcast
<1>2. OneSocket' /\ ListsMatch' /\ ShownMatchesFilter'
  BY QuietKeeps DEF Broadcast
<1> QED
  BY <1>1, <1>2 DEF PageInv

LEMMA JoinKeeps ==
  ASSUME PageInv, NEW k \in Run, Join(k)
  PROVE  PageInv'
<1>1. TypeOK'
  BY DEF PageInv, TypeOK, Join
<1>2. OneSocket' /\ ListsMatch' /\ ShownMatchesFilter'
  BY QuietKeeps DEF Join, PageInv, TypeOK
<1> QED
  BY <1>1, <1>2 DEF PageInv

LEMMA ListFailsKeeps ==
  ASSUME PageInv, NEW k \in Run, ListFails(k)
  PROVE  PageInv'
<1>1. TypeOK'
  BY DEF PageInv, TypeOK, ListFails
<1>2. OneSocket' /\ ListsMatch' /\ ShownMatchesFilter'
  BY QuietKeeps DEF ListFails, PageInv, TypeOK
<1> QED
  BY <1>1, <1>2 DEF PageInv

LEMMA SocketBreaksKeeps == PageInv /\ SocketBreaks => PageInv'
<1> SUFFICES ASSUME PageInv, SocketBreaks PROVE PageInv'
  OBVIOUS
<1>1. TypeOK'
  BY DEF PageInv, TypeOK, SocketBreaks
<1>2. OneSocket' /\ ListsMatch' /\ ShownMatchesFilter'
  BY QuietKeeps DEF SocketBreaks, PageInv, TypeOK
<1> QED
  BY <1>1, <1>2 DEF PageInv

\* The list is read under the filter that run k has closed over.
LEMMA ReadLogsKeeps ==
  ASSUME PageInv, NEW k \in Run, ReadLogs(k)
  PROVE  PageInv'
<1> USE DEF PageInv
<1>1. PICK answer \in Lists(filter[k]) : list' = [list EXCEPT ![k] = answer]
  BY DEF ReadLogs
<1>2. filter[k] \in Filter
  BY DEF TypeOK
<1>3. /\ answer \subseteq Entry /\ Cardinality(answer) <= Limit
      /\ \A e \in answer : Matches(filter[k], e)
  BY <1>1, <1>2, AnswersMatch
<1>4. TypeOK'
  BY <1>1, <1>3, SizeAssumption DEF TypeOK, ReadLogs
<1>5. ListsMatch'
  BY <1>1, <1>3 DEF ListsMatch, ReadLogs, TypeOK, Matches
<1>6. OneSocket' /\ ShownMatchesFilter'
  BY DEF OneSocket, ShownMatchesFilter, Loaded, Matches, ReadLogs, TypeOK
<1> QED
  BY <1>4, <1>5, <1>6

\* The list of the current run passes its filter; another is thrown away.
LEMMA ShowListKeeps ==
  ASSUME PageInv, NEW k \in Run, ShowList(k)
  PROVE  PageInv'
<1> USE DEF PageInv
<1>1. TypeOK'
  BY SizeAssumption, EntriesFinite DEF TypeOK, ShowList
<1>2. OneSocket' /\ ListsMatch'
  BY DEF OneSocket, ListsMatch, Matches, ShowList, TypeOK
<1>3. ShownMatchesFilter'
  BY DEF ShownMatchesFilter, ListsMatch, Loaded, Matches, ShowList, Current, TypeOK
<1> QED
  BY <1>1, <1>2, <1>3

\* An entry arrives only at the current run, which knows the current filter.
LEMMA DeliverKeeps ==
  ASSUME PageInv, NEW k \in Run, NEW e \in Stored, Deliver(k, e)
  PROVE  PageInv'
<1> USE DEF PageInv
<1>1. k = run
  BY DEF Deliver, OneSocket
<1>2. /\ shown' \subseteq Entry /\ Cardinality(shown') <= Cap
      /\ shown' = shown \/ (Matches(filter[k], e) /\ shown' \subseteq shown \cup {e})
  BY MergeBounded DEF Deliver, TypeOK, Entry
<1>3. TypeOK'
  BY <1>2 DEF TypeOK, Deliver
<1>4. OneSocket' /\ ListsMatch'
  BY DEF OneSocket, ListsMatch, Matches, Deliver
<1>5. ShownMatchesFilter'
  BY <1>1, <1>2 DEF ShownMatchesFilter, Loaded, Matches, Deliver
<1> QED
  BY <1>3, <1>4, <1>5

\* The next run starts without a list, and the cleanup closes the last socket.
LEMMA RunEffectsKeeps ==
  ASSUME PageInv, NEW f \in Filter, RunEffects(f)
  PROVE  PageInv'
<1> USE DEF PageInv
<1>1. run \in Run /\ run + 1 \in Run /\ run' = run + 1
  BY SizeAssumption DEF RunEffects, TypeOK, Run
<1>2. /\ get' = [get EXCEPT ![run + 1] = "sent"]
      /\ sock' = [sock EXCEPT ![run] = CloseSocket(@), ![run + 1] = "opening"]
      /\ filter' = [filter EXCEPT ![run + 1] = f]
      /\ UNCHANGED <<stored, waiting, list, shown, readAt>>
  BY DEF RunEffects
<1>3. queue' \in [Run -> SUBSET Stored]
  BY DEF RunEffects, TypeOK
<1>4. TypeOK'
  BY <1>1, <1>2, <1>3 DEF TypeOK, RunEffects, CloseSocket
<1>5. OneSocket'
  BY <1>1, <1>2 DEF OneSocket, CloseSocket, TypeOK, Run
<1>6. ListsMatch'
  BY <1>1, <1>2 DEF ListsMatch, Matches, TypeOK
<1>7. ShownMatchesFilter'
  BY <1>1, <1>2 DEF ShownMatchesFilter, Loaded, TypeOK
<1> QED
  BY <1>4, <1>5, <1>6, <1>7

LEMMA NextKeepsPage == PageInv /\ [Next]_vars => PageInv'
<1> SUFFICES ASSUME PageInv, [Next]_vars PROVE PageInv'
  OBVIOUS
<1>1. CASE UNCHANGED vars
  BY <1>1 DEF PageInv, TypeOK, OneSocket, ListsMatch, ShownMatchesFilter, Loaded, Matches,
              vars, pageVars
<1>2. CASE Next
  BY <1>2, AppendKeeps, BroadcastKeeps, JoinKeeps, ListFailsKeeps, SocketBreaksKeeps,
     ReadLogsKeeps, ShowListKeeps, DeliverKeeps, RunEffectsKeeps DEF Next
<1> QED
  BY <1>1, <1>2

LEMMA PageInvariant == Spec => []PageInv
  BY InitPage, NextKeepsPage, PTL DEF Spec

\* No list is longer than Limit, the page never shows more than Cap entries,
\* and every variable keeps its type (ServicePage.jsx 152-159; mongo/logs.go).
THEOREM PageTypeCorrect == Spec => []TypeOK
<1>1. PageInv => TypeOK
  BY DEF PageInv
<1> QED
  BY <1>1, PageInvariant, PTL

\* Once the list of the current filter is there, nothing the filter leaves out
\* is shown, for any number of filter changes and answers in any order
\* (ServicePage.jsx 370-377, 401-411).
THEOREM FilterHolds == Spec => []ShownMatchesFilter
<1>1. PageInv => ShownMatchesFilter
  BY DEF PageInv
<1> QED
  BY <1>1, PageInvariant, PTL
-----------------------------------------------------------------------------
(* What the newest of some entries leave out.                               *)

LEMMA EntryTimes == Entry \subseteq Nat /\ \A e \in Entry : Second[e] \in Nat
  BY EntryAssumption, SizeAssumption DEF Entry, Stored, Pod

\* An entry is left out only for as many that are no older.
LEMMA LeftOutIsOld ==
  ASSUME NEW set \in SUBSET Entry, NEW n \in Nat, NEW some \in Newest(set, n),
         NEW e \in set \ some
  PROVE  Cardinality(some) = n /\ \A f \in some : Second[f] >= Second[e]
<1>1. /\ some \subseteq set /\ \A f \in some : Second[f] >= Second[e]
      /\ Cardinality(some) = IF Cardinality(set) < n THEN Cardinality(set) ELSE n
  BY DEF Newest
<1>2. IsFiniteSet(set) /\ some # set
  BY EntriesFinite
<1>3. Cardinality(some) # Cardinality(set)
  BY <1>1, <1>2, FS_Subset
<1> QED
  BY <1>1, <1>3

\* If there are n entries at or after a time, the newest n are all such.
LEMMA NewestFull ==
  \A set \in SUBSET Entry, n, t \in Nat : \A some \in Newest(set, n), A \in SUBSET set :
    Cardinality(A) >= n /\ (\A a \in A : Second[a] >= t)
      => Cardinality(some) = n /\ \A f \in some : Second[f] >= t
<1> SUFFICES ASSUME NEW set \in SUBSET Entry, NEW n \in Nat, NEW t \in Nat,
                    NEW some \in Newest(set, n), NEW A \in SUBSET set,
                    Cardinality(A) >= n, \A a \in A : Second[a] >= t
             PROVE  Cardinality(some) = n /\ \A f \in some : Second[f] >= t
  OBVIOUS
<1>1. /\ some \subseteq set
      /\ Cardinality(some) = IF Cardinality(set) < n THEN Cardinality(set) ELSE n
      /\ \A e \in some, f \in set \ some : Second[e] >= Second[f]
  BY DEF Newest
<1>2. /\ IsFiniteSet(set) /\ IsFiniteSet(A) /\ IsFiniteSet(some)
      /\ Cardinality(set) \in Nat /\ Cardinality(A) \in Nat /\ Cardinality(some) \in Nat
      /\ Cardinality(A) <= Cardinality(set)
  BY <1>1, EntriesFinite, FS_Subset
<1>3. Cardinality(some) = n
  BY <1>1, <1>2
<1>4. ASSUME NEW f \in some, ~(Second[f] >= t)
      PROVE  FALSE
  <2>1. f \notin A
    BY <1>4
  <2>2. IsFiniteSet(A \cup {f}) /\ Cardinality(A \cup {f}) = Cardinality(A) + 1
    BY <1>2, <2>1, FS_AddElement
  <2>3. ~(A \subseteq some)
    <3> SUFFICES ASSUME A \subseteq some PROVE FALSE
      OBVIOUS
    <3>1. A \cup {f} \in SUBSET some
      OBVIOUS
    <3>2. Cardinality(A \cup {f}) <= Cardinality(some)
      BY <1>2, <3>1, FS_Subset
    <3> QED
      BY <1>2, <1>3, <2>2, <3>2
  <2>4. PICK a \in A : a \notin some
    BY <2>3
  <2>5. Second[f] >= Second[a] /\ Second[a] >= t
    BY <1>1, <2>4
  <2>6. Second[f] \in Nat /\ Second[a] \in Nat
    BY <1>1, <2>4, EntryTimes
  <2> QED
    BY <1>4, <2>5, <2>6
<1> QED
  BY <1>3, <1>4

\* What is read for the list leaves out only what is beyond its limit.
LEMMA ListsAll ==
  ASSUME TypeOK, NEW f \in Filter, NEW answer \in Lists(f),
         NEW e \in 1..stored, Matches(f, e)
  PROVE  \/ e \in answer
         \/ Cardinality({g \in answer : Second[g] >= Second[e]}) = Limit
<1> DEFINE found == {g \in 1..stored : Matches(f, g)}
<1>1. found \in SUBSET Entry /\ e \in found
  BY SizeAssumption DEF TypeOK, Entry, Stored
<1>2. answer \in Newest(found, Limit)
  BY <1>1 DEF Lists
<1>3. CASE e \notin answer
  <2>1. Cardinality(answer) = Limit /\ \A g \in answer : Second[g] >= Second[e]
    BY <1>1, <1>2, <1>3, LeftOutIsOld, SizeAssumption
  <2>2. {g \in answer : Second[g] >= Second[e]} = answer
    BY <2>1
  <2> QED
    BY <2>1, <2>2
<1> QED
  BY <1>3

\* Every entry of a set keeps a twin when one is kept of each key.
LEMMA TwinKept ==
  ASSUME NEW set \in SUBSET Entry, NEW e \in set
  PROVE  \E o \in OnePerKey(set) : LogKey(o) = LogKey(e)
<1> DEFINE twins == {f \in set : LogKey(f) = LogKey(e)}
<1>1. twins \in SUBSET Nat /\ twins # {}
  BY EntryTimes
<1>2. PICK o \in twins : \A f \in twins : <<f, o>> \notin OpToRel(<, Nat)
  BY <1>1, WFMin, NatLessThanWellFounded
<1>3. \A f \in twins : o <= f
  <2>1. \A f \in twins : ~(f < o) /\ f \in Nat /\ o \in Nat
    BY <1>1, <1>2 DEF OpToRel
  <2> QED
    BY <2>1
<1>4. o \in OnePerKey(set) /\ LogKey(o) = LogKey(e)
  BY <1>3 DEF OnePerKey
<1> QED
  BY <1>4

LEMMA OneEachKept ==
  ASSUME NEW set \in SUBSET Entry, NEW e \in OnePerKey(set), NEW f \in OnePerKey(set),
         LogKey(e) = LogKey(f)
  PROVE  e = f
<1>1. e <= f /\ f <= e /\ e \in Nat /\ f \in Nat
  BY EntryTimes DEF OnePerKey
<1> QED
  BY <1>1

\* If no entry of a set looks like another and all are at or after a time, there are as
\* many such with one key each after another entry has come.
LEMMA OneKeyMore ==
  ASSUME TypeOK, OneEach, NEW x \in Entry, NEW t \in Nat, \A f \in shown : Second[f] >= t
  PROVE  \E A \in SUBSET OnePerKey(shown \cup {x}) :
           Cardinality(A) = Cardinality(shown) /\ \A a \in A : Second[a] >= t
<1> DEFINE O == OnePerKey(shown \cup {x})
<1>1. shown \subseteq Entry /\ IsFiniteSet(shown) /\ Cardinality(shown) \in Nat
  BY EntriesFinite DEF TypeOK
<1>2. CASE \A f \in shown : LogKey(f) = LogKey(x) => f <= x
  <2>1. \A f \in shown, g \in shown \cup {x} : LogKey(g) = LogKey(f) => f <= g
    BY <1>1, <1>2, EntryTimes DEF OneEach
  <2>2. shown \in SUBSET O
    BY <2>1 DEF OnePerKey
  <2> QED
    BY <2>2
<1>3. CASE \E f \in shown : LogKey(f) = LogKey(x) /\ ~(f <= x)
  <2>1. PICK f \in shown : LogKey(f) = LogKey(x) /\ ~(f <= x)
    BY <1>3
  <2>2. x \in Nat /\ f \in Nat /\ x < f /\ x # f
    BY <1>1, <2>1, EntryTimes
  <2>3. x \notin shown
    BY <2>1, <2>2 DEF OneEach
  <2>4. \A g \in shown \ {f} : LogKey(g) # LogKey(x)
    BY <2>1 DEF OneEach
  <2> DEFINE A == (shown \ {f}) \cup {x}
  <2>5. A \in SUBSET O
    <3>1. ASSUME NEW a \in A, NEW g \in shown \cup {x}, LogKey(g) = LogKey(a)
          PROVE  a <= g
      <4>1. CASE a = x
        <5>1. g = x \/ g = f
          BY <2>4, <3>1, <4>1
        <5> QED
          BY <2>2, <4>1, <5>1
      <4>2. CASE a # x
        <5>1. a \in shown \ {f} /\ a \in Nat
          BY <1>1, <4>2, EntryTimes
        <5>2. g # x
          BY <2>4, <3>1, <5>1
        <5>3. g = a
          BY <3>1, <5>1, <5>2 DEF OneEach
        <5> QED
          BY <5>1, <5>3
      <4> QED
        BY <4>1, <4>2
    <3> QED
      BY <3>1 DEF OnePerKey
  <2>6. Cardinality(A) = Cardinality(shown)
    <3>1. IsFiniteSet(shown \ {f}) /\ Cardinality(shown \ {f}) = Cardinality(shown) - 1
      BY <1>1, FS_RemoveElement
    <3>2. Cardinality(A) = Cardinality(shown \ {f}) + 1
      BY <2>3, <3>1, FS_AddElement
    <3> QED
      BY <1>1, <3>1, <3>2
  <2>7. \A a \in A : Second[a] >= t
    BY <2>1 DEF LogKey
  <2> QED
    BY <2>5, <2>6, <2>7
<1> QED
  BY <1>2, <1>3

\* After an entry was merged in, it and all that were held are held.
LEMMA MergeHolds ==
  ASSUME TypeOK, NEW x \in Stored, shown' \in Merge(shown, x)
  PROVE  OneEach' /\ \A e \in Stored : e = x \/ Held(e) => Held(e)'
<1> DEFINE O == OnePerKey(shown \cup {x})
<1>1. /\ O \in SUBSET Entry /\ shown' \in Newest(O, Cap) /\ shown' \subseteq O
      /\ shown \cup {x} \in SUBSET Entry /\ shown \subseteq Entry
  BY DEF Merge, OnePerKey, TypeOK, Entry, Newest
<1>2. OneEach'
  BY <1>1, OneEachKept DEF OneEach, LogKey
<1>3. \A e \in Entry : Cardinality(shown') = Cap /\ (\A f \in shown' : Second[f] >= Second[e])
        => BeyondCap(e)'
  <2> SUFFICES ASSUME NEW e \in Entry, Cardinality(shown') = Cap,
                      \A f \in shown' : Second[f] >= Second[e]
               PROVE  BeyondCap(e)'
    OBVIOUS
  <2>1. {f \in shown' : Second[f] >= Second[e]} = shown'
    OBVIOUS
  <2> QED
    BY <2>1, SizeAssumption DEF BeyondCap
<1>4. ASSUME NEW e \in Entry, NEW s \in shown \cup {x}, LooksLike(e, s)
      PROVE  Held(e)'
  <2>1. PICK o \in O : LogKey(o) = LogKey(s)
    BY <1>1, TwinKept
  <2>2. LooksLike(e, o) /\ Second[o] = Second[e]
    BY <1>4, <2>1 DEF LooksLike, LogKey
  <2>3. CASE o \in shown'
    BY <2>2, <2>3 DEF Held, LooksLike
  <2>4. CASE o \notin shown'
    <3>1. Cardinality(shown') = Cap /\ \A f \in shown' : Second[f] >= Second[o]
      BY <1>1, <2>1, <2>4, LeftOutIsOld, SizeAssumption
    <3>2. BeyondCap(e)'
      BY <1>3, <2>2, <3>1
    <3> QED
      BY <1>2, <3>2 DEF Held
  <2> QED
    BY <2>3, <2>4
<1>5. ASSUME NEW e \in Entry, BeyondCap(e), OneEach
      PROVE  Held(e)'
  <2> DEFINE late == {f \in shown : Second[f] >= Second[e]}
  <2>1. /\ IsFiniteSet(shown) /\ Cardinality(shown) <= Cap /\ Cardinality(late) >= Cap
        /\ Cardinality(shown) \in Nat /\ Cardinality(late) \in Nat
        /\ Cardinality(late) <= Cardinality(shown)
    <3>1. late \in SUBSET Entry
      BY <1>1
    <3>2. IsFiniteSet(shown) /\ Cardinality(shown) \in Nat /\ Cardinality(late) \in Nat
      BY <1>1, <3>1, EntriesFinite
    <3>3. Cardinality(late) <= Cardinality(shown)
      BY <3>2, FS_Subset
    <3> QED
      BY <1>5, <3>2, <3>3 DEF BeyondCap, TypeOK
  <2>2. late = shown /\ Cardinality(shown) = Cap
    <3>1. Cardinality(late) = Cardinality(shown) /\ Cardinality(shown) = Cap
      BY <2>1, SizeAssumption
    <3> QED
      BY <2>1, <3>1, FS_Subset
  <2>3. \A f \in shown : Second[f] >= Second[e]
    BY <2>2
  <2>4. Second[e] \in Nat /\ x \in Entry
    BY EntryTimes DEF Entry
  <2>5. PICK A \in SUBSET O :
          Cardinality(A) = Cardinality(shown) /\ \A a \in A : Second[a] >= Second[e]
    BY <1>5, <2>3, <2>4, OneKeyMore
  <2>6. Cardinality(shown') = Cap /\ \A f \in shown' : Second[f] >= Second[e]
    <3> HIDE DEF O
    <3>1. Cap \in Nat /\ Cardinality(A) >= Cap
      BY <2>2, <2>5, SizeAssumption
    <3>2. O \in SUBSET Entry /\ shown' \in Newest(O, Cap) /\ Second[e] \in Nat
      BY <1>1, <2>4
    <3>3. A \in SUBSET O /\ \A a \in A : Second[a] >= Second[e]
      BY <2>5
    <3> QED
      BY <3>1, <3>2, <3>3, NewestFull
  <2> QED
    BY <1>2, <1>3, <2>6 DEF Held
<1>6. ASSUME NEW e \in Stored, e = x \/ Held(e)
      PROVE  Held(e)'
  <2>1. e \in Entry
    BY DEF Entry
  <2>2. CASE e = x
    BY <1>4, <2>1, <2>2 DEF LooksLike
  <2>3. CASE \E f \in shown : LooksLike(e, f)
    BY <1>4, <2>1, <2>3
  <2>4. CASE BeyondCap(e) /\ OneEach
    BY <1>5, <2>1, <2>4
  <2> QED
    BY <1>6, <2>2, <2>3, <2>4 DEF Held
<1> QED
  BY <1>2, <1>6
-----------------------------------------------------------------------------
(* Every step leaves the page complete.                                     *)

LEMMA InitComplete == Init => Complete
<1> SUFFICES ASSUME Init PROVE Complete
  OBVIOUS
<1>1. get[run] = "sent"
  BY SizeAssumption DEF Init, Run
<1> QED
  BY <1>1 DEF Complete

\* What is on its way stays so, and nothing that is shown or listed goes.
LEMMA WayKept ==
  ASSUME PageInv, Complete, UNCHANGED <<run, filter>>,
         list'[run] = list[run], readAt'[run] = readAt[run],
         get'[run] = get[run] \/ get'[run] \notin {"read", "done"},
         get[run] = "done" => UNCHANGED shown,
         \A e \in 1..stored' : e \notin 1..stored => e \in waiting',
         \A e \in waiting \cup queue[run] \cup missed :
           Matches(filter[run], e) => e \in waiting' \cup queue'[run] \cup missed'
  PROVE  Complete'
<1>1. CASE get'[run] \notin {"read", "done"}
  BY <1>1 DEF Complete
<1>2. CASE get'[run] = get[run] /\ get[run] \in {"read", "done"}
  <2>1. \A e : BeyondLimit(e)' <=> BeyondLimit(e)
    BY DEF BeyondLimit
  <2>2. get[run] = "done" => \A e : Held(e)' <=> Held(e)
    BY DEF Held, OneEach, BeyondCap
  <2>3. \A e : Matches(filter[run], e)' <=> Matches(filter[run], e)
    BY DEF Matches
  <2>4. get'[run] = "read" =>
          \A e \in 1..readAt'[run] : Matches(filter'[run], e) =>
            (\E f \in list'[run] : LooksLike(e, f)) \/ BeyondLimit(e)'
    BY <1>2, <2>1 DEF Complete
  <2>5. get'[run] = "done" =>
          \A e \in 1..readAt'[run] : Matches(filter'[run], e) => Held(e)' \/ BeyondLimit(e)'
    BY <1>2, <2>1, <2>2 DEF Complete
  <2>6. \A e \in 1..stored' : e > readAt[run] /\ Matches(filter[run], e) =>
          \/ e \in waiting' \cup queue'[run] \cup missed'
          \/ get[run] = "done" /\ Held(e)'
    BY <1>2, <2>2 DEF Complete
  <2> QED
    BY <1>2, <2>4, <2>5, <2>6 DEF Complete
<1> QED
  BY <1>1, <1>2

LEMMA AppendCompletes == PageInv /\ Complete /\ Append => Complete'
<1> SUFFICES ASSUME PageInv, Complete, Append PROVE Complete'
  OBVIOUS
<1>1. \A e \in 1..stored' : e \notin 1..stored => e \in waiting'
  BY DEF Append, PageInv, TypeOK
<1> QED
  BY <1>1, WayKept DEF Append, pageVars

LEMMA BroadcastCompletes ==
  ASSUME PageInv, Complete, NEW e \in Stored, Broadcast(e)
  PROVE  Complete'
<1>1. run \in Run
  BY DEF PageInv, TypeOK
<1>2. waiting \cup queue[run] \cup missed \subseteq waiting' \cup queue'[run] \cup missed'
  BY <1>1 DEF Broadcast
<1> QED
  BY <1>2, WayKept DEF Broadcast

LEMMA JoinCompletes ==
  ASSUME PageInv, Complete, NEW k \in Run, Join(k)
  PROVE  Complete'
  BY WayKept DEF Join

LEMMA ListFailsCompletes ==
  ASSUME PageInv, Complete, NEW k \in Run, ListFails(k)
  PROVE  Complete'
<1>1. get'[run] = get[run] \/ get'[run] \notin {"read", "done"}
  BY DEF ListFails, PageInv, TypeOK
<1> QED
  BY <1>1, WayKept DEF ListFails

LEMMA SocketBreaksCompletes == PageInv /\ Complete /\ SocketBreaks => Complete'
<1> SUFFICES ASSUME PageInv, Complete, SocketBreaks PROVE Complete'
  OBVIOUS
<1>1. waiting \cup queue[run] \cup missed \subseteq waiting' \cup queue'[run] \cup missed'
  BY DEF SocketBreaks
<1> QED
  BY <1>1, WayKept DEF SocketBreaks

\* What is read for the list has every entry that passes, up to the limit.
LEMMA ReadLogsCompletes ==
  ASSUME PageInv, Complete, NEW k \in Run, ReadLogs(k)
  PROVE  Complete'
<1>1. TypeOK /\ run \in Run /\ filter[run] \in Filter /\ stored \in Nat
  BY DEF PageInv, TypeOK
<1>2. CASE k # run
  BY <1>1, <1>2, WayKept DEF ReadLogs, TypeOK
<1>3. CASE k = run
  <2>1. PICK answer \in Lists(filter[run]) : list' = [list EXCEPT ![run] = answer]
    BY <1>3 DEF ReadLogs
  <2>2. /\ get'[run'] = "read" /\ list'[run'] = answer /\ readAt'[run'] = stored
        /\ run' = run /\ filter' = filter /\ stored' = stored
    BY <1>1, <1>3, <2>1 DEF ReadLogs, TypeOK
  <2>3. ASSUME NEW e \in 1..stored, Matches(filter[run], e)
        PROVE  (\E f \in answer : LooksLike(e, f)) \/ BeyondLimit(e)'
    <3>1. e \in answer \/ Cardinality({g \in answer : Second[g] >= Second[e]}) = Limit
      BY <1>1, <2>1, <2>3, ListsAll
    <3>2. e \in answer => LooksLike(e, e)
      BY DEF LooksLike
    <3>3. Cardinality({g \in answer : Second[g] >= Second[e]}) = Limit => BeyondLimit(e)'
      BY <1>1, <2>2, SizeAssumption DEF BeyondLimit
    <3> QED
      BY <3>1, <3>2, <3>3
  <2>4. \A e \in 1..stored : ~(e > stored)
    BY <1>1
  <2> QED
    BY <2>2, <2>3, <2>4 DEF Complete, Matches
<1> QED
  BY <1>2, <1>3

\* The list that is shown is the one that was read; what was shown goes, but only
\* entries that are marked as missed.
LEMMA ShowListCompletes ==
  ASSUME PageInv, Complete, NEW k \in Run, ShowList(k)
  PROVE  Complete'
<1>1. run \in Run /\ get \in [Run -> {"none", "sent", "read", "done", "failed"}]
  BY DEF PageInv, TypeOK
<1>2. CASE k # run
  BY <1>1, <1>2, WayKept DEF ShowList, Current
<1>3. CASE k = run
  <2>1. /\ get[run] = "read" /\ get'[run'] = "done" /\ shown' = list[run]
        /\ UNCHANGED <<stored, waiting, run, filter, list, queue, readAt, missed>>
    BY <1>1, <1>3 DEF ShowList, Current
  <2>2. \A e : (\E f \in list[run] : LooksLike(e, f)) => Held(e)'
    BY <2>1 DEF Held
  <2>3. \A e : BeyondLimit(e) => BeyondLimit(e)'
    BY <2>1 DEF BeyondLimit
  <2>4. \A e \in 1..readAt[run] : Matches(filter[run], e) => Held(e)' \/ BeyondLimit(e)'
    BY <2>1, <2>2, <2>3 DEF Complete
  <2>5. \A e \in 1..stored : e > readAt[run] /\ Matches(filter[run], e) =>
          e \in waiting \cup queue[run] \cup missed
    BY <2>1 DEF Complete
  <2> QED
    BY <2>1, <2>4, <2>5 DEF Complete, Matches
<1> QED
  BY <1>2, <1>3

\* An entry that is delivered to a page with its list is held from then on; before
\* the list is there it is marked as missed.
LEMMA DeliverCompletes ==
  ASSUME PageInv, Complete, NEW k \in Run, NEW x \in Stored, Deliver(k, x)
  PROVE  Complete'
<1>1. TypeOK /\ k = run /\ run \in Run /\ stored \in 0..MaxEntries
  BY DEF Deliver, PageInv, OneSocket, TypeOK
<1>2. CASE get[run] # "done"
  <2>1. waiting \cup queue[run] \cup missed \subseteq waiting' \cup queue'[run] \cup missed'
    BY <1>1, <1>2 DEF Deliver, TypeOK
  <2> QED
    BY <1>2, <2>1, WayKept DEF Deliver
<1>3. CASE get[run] = "done" /\ ~Matches(filter[run], x)
  <2>1. UNCHANGED <<shown, missed, waiting>> /\ queue[run] \subseteq queue'[run] \cup {x}
    BY <1>1, <1>3 DEF Deliver, TypeOK
  <2> QED
    BY <1>3, <2>1, WayKept DEF Deliver
<1>4. CASE get[run] = "done" /\ Matches(filter[run], x)
  <2>1. /\ shown' \in Merge(shown, x)
        /\ UNCHANGED <<missed, waiting, stored, run, filter, get, list, readAt>>
        /\ queue[run] \subseteq queue'[run] \cup {x}
    BY <1>1, <1>4 DEF Deliver, TypeOK
  <2>2. \A e \in Stored : e = x \/ Held(e) => Held(e)'
    BY <1>1, <2>1, MergeHolds
  <2>3. 1..stored \subseteq Stored /\ 1..readAt[run] \subseteq Stored
    BY <1>1, SizeAssumption DEF TypeOK, Stored
  <2>4. \A e : BeyondLimit(e) => BeyondLimit(e)'
    BY <2>1 DEF BeyondLimit
  <2>5. \A e \in 1..readAt[run] : Matches(filter[run], e) => Held(e)' \/ BeyondLimit(e)'
    BY <1>4, <2>2, <2>3, <2>4 DEF Complete
  <2>6. \A e \in 1..stored : e > readAt[run] /\ Matches(filter[run], e) =>
          e \in waiting' \cup queue'[run] \cup missed' \/ Held(e)'
    BY <1>4, <2>1, <2>2, <2>3 DEF Complete
  <2> QED
    BY <1>4, <2>1, <2>5, <2>6 DEF Complete, Matches
<1> QED
  BY <1>2, <1>3, <1>4

\* The next run has no list yet.
LEMMA RunEffectsCompletes ==
  ASSUME PageInv, Complete, NEW f \in Filter, RunEffects(f)
  PROVE  Complete'
<1>1. get'[run'] = "sent"
  BY SizeAssumption DEF RunEffects, PageInv, TypeOK, Run
<1> QED
  BY <1>1 DEF Complete

LEMMA NextKeepsComplete == PageInv /\ Complete /\ [Next]_vars => Complete'
<1> SUFFICES ASSUME PageInv, Complete, [Next]_vars PROVE Complete'
  OBVIOUS
<1>1. CASE UNCHANGED vars
  BY <1>1, WayKept DEF vars, pageVars
<1>2. CASE Next
  BY <1>2, AppendCompletes, BroadcastCompletes, JoinCompletes, ListFailsCompletes,
     SocketBreaksCompletes, ReadLogsCompletes, ShowListCompletes, DeliverCompletes,
     RunEffectsCompletes DEF Next
<1> QED
  BY <1>1, <1>2

\* Once the list is there, a stored entry that passes the filter is on the page, on its
\* way or too old, or the page had no open socket with room for it after the list was
\* read, for any limits and any entries of one look (ServicePage.jsx 152-178, 373;
\* hub.go 58-66).
THEOREM NothingElseMissing == Spec => []MissingExplained
<1>1. PageInv /\ Complete => MissingExplained
  <2> SUFFICES ASSUME PageInv, Complete, Loaded,
                      NEW e \in 1..stored, Matches(filter[run], e)
               PROVE  \/ \E f \in shown : LooksLike(e, f)
                      \/ e \in waiting \cup queue[run]
                      \/ BeyondLimit(e) \/ BeyondCap(e)
                      \/ e > readAt[run] /\ e \in missed
    BY DEF MissingExplained
  <2>1. readAt[run] \in Nat /\ e \in Nat /\ e >= 1
    BY SizeAssumption DEF PageInv, TypeOK
  <2>2. CASE e > readAt[run]
    BY <2>2 DEF Complete, Loaded, Held
  <2>3. CASE e \in 1..readAt[run]
    BY <2>3 DEF Complete, Loaded, Held
  <2> QED
    BY <2>1, <2>2, <2>3
<1>2. Spec => []Complete
  BY PageInvariant, InitComplete, NextKeepsComplete, PTL DEF Spec
<1> QED
  BY <1>1, <1>2, PageInvariant, PTL
=============================================================================
