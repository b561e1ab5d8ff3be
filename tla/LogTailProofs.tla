---------------------------- MODULE LogTailProofs ----------------------------
(***************************************************************************)
(* Proofs about LogTail for any pods, outputs, texts and lengths of tails. *)
(***************************************************************************)
EXTENDS LogTail, FiniteSetTheorems, WellFoundedInduction, TLAPS

\* The lines of the tail of a pod when it had printed n that are not blank.
TailAt(p, n) == {i \in 1..n : i + TailLines > n /\ output[p][i] # Blank}

\* The snapshot is empty or what some poll saw of one pod.
Taken ==
  snapshot # <<>> =>
    \E p \in Pod : \E n \in 1..Len(output[p]) :
      TailAt(p, n) # {} /\ snapshot = InOrder(p, TailAt(p, n))

\* What the store has got and what it is still to get.
lines == stored \o pending

\* No pod is listed first twice, and lines come from pods that were.
Turns ==
  /\ first \notin former
  /\ \A i \in DOMAIN lines : lines[i][1] \in former \cup {first}

\* Only printed lines that are not blank are taken.
Printed ==
  \A i \in DOMAIN lines :
    lines[i][2] <= Len(output[lines[i][1]]) /\ Text(lines[i]) # Blank

\* Of the pod that is listed first nothing after the snapshot was taken.
Reached ==
  snapshot # <<>> =>
    \A i \in DOMAIN lines : lines[i][1] = first =>
      /\ snapshot[1][1] = first
      /\ lines[i][2] <= snapshot[Len(snapshot)][2]

\* After a line of the pod that is listed first come only lines of it.
InTurn ==
  \A i, j \in DOMAIN lines : i < j /\ lines[i][1] = first => lines[j][1] = first

\* StoredInOrder, of any lines.
Ordered(s) ==
  \A i, j \in DOMAIN s : i < j =>
    \/ s[i][1] = s[j][1] /\ s[i][2] < s[j][2]
    \/ /\ s[i][1] # s[j][1]
       /\ \A k \in j..Len(s) : s[k][1] # s[i][1]

\* The inductive invariants.
SnapshotInv == TypeOK /\ Taken
OrderInv == Turns /\ Printed /\ Reached /\ InTurn /\ Ordered(lines)
-----------------------------------------------------------------------------
(* Sets of numbers in their order.                                          *)

Rank(set, i) == Cardinality({j \in set : j <= i})

LEMMA RankType ==
  ASSUME NEW set \in SUBSET Nat, IsFiniteSet(set), NEW i
  PROVE  /\ IsFiniteSet({j \in set : j <= i})
         /\ Cardinality(set) \in Nat /\ Rank(set, i) \in Nat
         /\ Rank(set, i) <= Cardinality(set)
<1>1. {j \in set : j <= i} \in SUBSET set
  OBVIOUS
<1>2. /\ IsFiniteSet({j \in set : j <= i})
      /\ Cardinality({j \in set : j <= i}) <= Cardinality(set)
  BY <1>1, FS_Subset
<1> QED
  BY <1>2, FS_CardinalityType DEF Rank

\* A larger number has a larger rank.
LEMMA RankGrows ==
  ASSUME NEW set \in SUBSET Nat, IsFiniteSet(set), NEW i \in Nat, NEW j \in set, i < j
  PROVE  Rank(set, i) < Rank(set, j)
<1> DEFINE A == {k \in set : k <= i}
           B == {k \in set : k <= j}
<1>1. IsFiniteSet(A) /\ Cardinality(A) \in Nat /\ IsFiniteSet(B) /\ Cardinality(B) \in Nat
  BY RankType, FS_CardinalityType
<1>2. A \in SUBSET B
  <2>1. \A k \in set : k <= i => k <= j
    <3>1. set \subseteq Nat /\ j \in Nat
      OBVIOUS
    <3> QED
      BY <3>1
  <2> QED
    BY <2>1
<1>3. j \in B /\ j \notin A
  <2>1. j \in Nat
    OBVIOUS
  <2> QED
    BY <2>1
<1>4. Cardinality(A) <= Cardinality(B) /\ Cardinality(A) # Cardinality(B)
  BY <1>1, <1>2, <1>3, FS_Subset
<1> QED
  BY <1>1, <1>4 DEF Rank

LEMMA RankPositive ==
  ASSUME NEW set \in SUBSET Nat, IsFiniteSet(set), NEW i \in set
  PROVE  Rank(set, i) \in 1..Cardinality(set)
<1> DEFINE A == {j \in set : j <= i}
<1>1. IsFiniteSet(A) /\ A # {}
  BY RankType
<1>2. Cardinality(A) # 0
  BY <1>1, FS_EmptySet
<1> QED
  BY <1>2, RankType DEF Rank

\* Every number up to the size of a set is the rank of one of its members.
LEMMA RankTaken ==
  ASSUME NEW set \in SUBSET Nat, IsFiniteSet(set), NEW n \in 1..Cardinality(set)
  PROVE  \E i \in set : Rank(set, i) = n
<1> DEFINE size == Cardinality(set)
           f == [i \in set |-> Rank(set, i)]
<1>1. size \in Nat
  BY FS_CardinalityType
<1>2. f \in [set -> 1..size]
  BY RankPositive
<1>3. \A i, j \in set : f[i] = f[j] => i = j
  <2> SUFFICES ASSUME NEW i \in set, NEW j \in set, Rank(set, i) = Rank(set, j), i # j
               PROVE  FALSE
    OBVIOUS
  <2>1. \A k : Rank(set, k) \in Nat
    BY RankType
  <2>2. i \in Nat /\ j \in Nat /\ (i < j \/ j < i)
    OBVIOUS
  <2> QED
    BY <2>1, <2>2, RankGrows
<1>4. f \in Injection(set, 1..size)
  BY <1>2, <1>3 DEF Injection, IsInjective
<1>5. IsFiniteSet(1..size) /\ Cardinality(1..size) = size
  BY <1>1, FS_Interval
<1>6. f \in Surjection(set, 1..size)
  BY <1>4, <1>5, FS_Injection
<1> QED
  BY <1>6 DEF Surjection

\* Nth is the inverse of Rank.
LEMMA NthIs ==
  ASSUME NEW set \in SUBSET Nat, IsFiniteSet(set)
  PROVE  /\ \A n \in 1..Cardinality(set) : Nth(set, n) \in set /\ Rank(set, Nth(set, n)) = n
         /\ \A i \in set : Nth(set, Rank(set, i)) = i
<1>1. \A n \in 1..Cardinality(set) : Nth(set, n) \in set /\ Rank(set, Nth(set, n)) = n
  BY RankTaken DEF Nth, Rank
<1>2. ASSUME NEW i \in set
      PROVE  Nth(set, Rank(set, i)) = i
  <2>1. Rank(set, i) \in 1..Cardinality(set)
    BY RankPositive
  <2>2. PICK j \in set : j = Nth(set, Rank(set, i)) /\ Rank(set, j) = Rank(set, i)
    BY <1>1, <2>1
  <2>3. i \in Nat /\ j \in Nat /\ \A k : Rank(set, k) \in Nat
    BY RankType
  <2>4. ~(i < j)
    BY <2>2, <2>3, RankGrows
  <2>5. ~(j < i)
    BY <2>2, <2>3, RankGrows
  <2> QED
    BY <2>2, <2>3, <2>4, <2>5
<1> QED
  BY <1>1, <1>2

\* What InOrder gives: the members, each once, in their order.
LEMMA InOrderIs ==
  ASSUME NEW p, NEW set \in SUBSET Nat, IsFiniteSet(set)
  PROVE  /\ InOrder(p, set) \in Seq({p} \X set)
         /\ Len(InOrder(p, set)) = Cardinality(set) /\ Cardinality(set) \in Nat
         /\ \A n \in 1..Cardinality(set) :
              InOrder(p, set)[n] = <<p, Nth(set, n)>>
         /\ \A m, n \in 1..Cardinality(set) : m < n => Nth(set, m) < Nth(set, n)
<1>1. Cardinality(set) \in Nat
  BY FS_CardinalityType
<1>2. \A n \in 1..Cardinality(set) : Nth(set, n) \in set /\ Rank(set, Nth(set, n)) = n
  BY NthIs
<1>3. ASSUME NEW m \in 1..Cardinality(set), NEW n \in 1..Cardinality(set), m < n
      PROVE  Nth(set, m) < Nth(set, n)
  <2>1. Nth(set, m) \in Nat /\ Nth(set, n) \in Nat /\ m \in Nat /\ n \in Nat
    <3>1. Nth(set, m) \in Nat /\ Nth(set, n) \in Nat
      BY <1>2, Zenon
    <3>2. m \in Nat /\ n \in Nat
      BY <1>1
    <3> QED
      BY <3>1, <3>2
  <2>2. CASE Nth(set, n) < Nth(set, m)
    <3>1. Rank(set, Nth(set, n)) < Rank(set, Nth(set, m))
      BY <1>2, <2>1, <2>2, RankGrows
    <3> QED
      BY <1>2, <1>3, <2>1, <3>1
  <2>3. CASE Nth(set, n) = Nth(set, m)
    BY <1>2, <1>3, <2>1, <2>3
  <2> QED
    BY <2>1, <2>2, <2>3
<1> QED
  BY <1>1, <1>2, <1>3 DEF InOrder
-----------------------------------------------------------------------------
(* Two windows of one output, the second no earlier than the first.         *)

Windows(S, T, lo, hi) ==
  /\ S \in SUBSET Nat /\ IsFiniteSet(S) /\ \A i \in S : i <= hi
  /\ T \in SUBSET Nat /\ IsFiniteSet(T) /\ \A i \in T : i >= lo
  /\ lo \in Nat /\ hi \in Nat
  /\ \A i \in Nat : lo <= i /\ i <= hi => (i \in S <=> i \in T)

\* What two windows share is the end of the first and the start of the second.
LEMMA WindowShift ==
  ASSUME NEW S, NEW T, NEW lo, NEW hi, Windows(S, T, lo, hi),
         NEW u, u = Cardinality(S \cap T)
  PROVE  /\ u \in Nat /\ u <= Cardinality(S) /\ u <= Cardinality(T)
         /\ \A m \in 1..u : Nth(S, Cardinality(S) - u + m) = Nth(T, m)
         /\ \A n \in 1..Cardinality(T) : n > u => Nth(T, n) > hi
<1> USE DEF Windows
<1> DEFINE U == S \cap T
<1>1. /\ IsFiniteSet(U) /\ u = Cardinality(U) /\ u \in Nat
      /\ u <= Cardinality(S) /\ u <= Cardinality(T)
      /\ Cardinality(S) \in Nat /\ Cardinality(T) \in Nat
  <2>1. U \in SUBSET S /\ U \in SUBSET T
    OBVIOUS
  <2> QED
    BY <2>1, FS_Subset, FS_CardinalityType
<1>2. ASSUME NEW t \in T, t <= hi
      PROVE  t \in U /\ Rank(T, t) = Rank(U, t) /\ Rank(T, t) <= u
  <2>1. \A j \in T : j <= t => j \in S
    <3> SUFFICES ASSUME NEW j \in T, j <= t PROVE j \in S
      OBVIOUS
    <3>1. j \in Nat /\ t \in Nat /\ lo <= j /\ j <= hi
      BY <1>2
    <3> QED
      BY <3>1
  <2>2. t \in Nat /\ t <= t
    BY <1>2
  <2>3. t \in U
    BY <2>1, <2>2
  <2>4. {j \in T : j <= t} = {j \in U : j <= t}
    BY <2>1
  <2>5. Rank(T, t) = Rank(U, t)
    BY <2>4 DEF Rank
  <2>6. U \in SUBSET Nat
    OBVIOUS
  <2>7. Rank(U, t) <= u
    BY <1>1, <2>6, RankType
  <2> QED
    BY <2>3, <2>5, <2>7
<1>3. ASSUME NEW n \in 1..Cardinality(T), n > u
      PROVE  Nth(T, n) > hi
  <2>1. PICK t \in T : t = Nth(T, n) /\ Rank(T, t) = n
    BY NthIs
  <2>2. ~(t <= hi)
    BY <1>1, <1>2, <1>3, <2>1
  <2> QED
    BY <2>1, <2>2
<1>4. ASSUME NEW m \in 1..u
      PROVE  Nth(S, Cardinality(S) - u + m) = Nth(T, m)
  <2>1. m \in 1..Cardinality(T) /\ m \in Nat
    BY <1>1
  <2>2. PICK t \in T : t = Nth(T, m) /\ Rank(T, t) = m
    BY <2>1, NthIs
  <2>3. t <= hi
    <3> SUFFICES ASSUME ~(t <= hi) PROVE FALSE
      OBVIOUS
    <3>1. t \notin U
      OBVIOUS
    <3>2. IsFiniteSet(U \cup {t}) /\ Cardinality(U \cup {t}) = u + 1
      BY <1>1, <3>1, FS_AddElement
    <3>3. \A j \in U : j <= t
      <4> SUFFICES ASSUME NEW j \in U PROVE j <= t
        OBVIOUS
      <4>1. j \in Nat /\ t \in Nat /\ j <= hi
        OBVIOUS
      <4> QED
        BY <4>1
    <3>4. t \in Nat
      OBVIOUS
    <3>5. U \cup {t} \in SUBSET {j \in T : j <= t}
      BY <3>3, <3>4
    <3>6. IsFiniteSet({j \in T : j <= t})
      BY RankType
    <3>7. Cardinality(U \cup {t}) <= Cardinality({j \in T : j <= t})
      BY <3>5, <3>6, FS_Subset
    <3>8. u + 1 <= Rank(T, t)
      BY <3>2, <3>7 DEF Rank
    <3> QED
      BY <1>1, <2>1, <2>2, <3>8
  <2>4. t \in U /\ Rank(U, t) = m
    BY <1>2, <2>2, <2>3
  <2> DEFINE old == S \ U
             low == {j \in U : j <= t}
  <2>5. {j \in S : j <= t} = old \cup low /\ old \cap low = {}
    <3>1. \A j \in old : j <= t
      <4> SUFFICES ASSUME NEW j \in old PROVE j <= t
        OBVIOUS
      <4>1. j \in Nat /\ t \in Nat /\ j <= hi /\ lo <= t /\ j \notin T
        OBVIOUS
      <4> QED
        BY <4>1
    <3> QED
      BY <3>1
  <2>6. IsFiniteSet(old) /\ Cardinality(old) = Cardinality(S) - u
    <3>1. S \cap U = U
      OBVIOUS
    <3>2. IsFiniteSet(S \ U) /\ Cardinality(S \ U) = Cardinality(S) - Cardinality(S \cap U)
      BY FS_Difference
    <3> QED
      BY <1>1, <3>1, <3>2
  <2>7. IsFiniteSet(low) /\ Cardinality(low) = m
    <3>1. U \in SUBSET Nat
      OBVIOUS
    <3> QED
      BY <1>1, <2>4, <3>1, RankType DEF Rank
  <2>8. Rank(S, t) = Cardinality(S) - u + m
    <3>1. Cardinality(old \cup low) = Cardinality(old) + Cardinality(low) - Cardinality({})
      BY <2>5, <2>6, <2>7, FS_Union
    <3>2. Cardinality({}) = 0 /\ Rank(S, t) = Cardinality(old \cup low)
      BY <2>5, FS_EmptySet DEF Rank
    <3> HIDE DEF old, low
    <3> QED
      BY <1>1, <2>1, <2>6, <2>7, <3>1, <3>2
  <2>9. Nth(S, Cardinality(S) - u + m) = t
    BY <2>4, <2>8, NthIs
  <2> QED
    BY <2>2, <2>9
<1> QED
  BY <1>1, <1>3, <1>4
-----------------------------------------------------------------------------
(* The overlap of two tails.                                                *)

\* A bounded set of numbers has a largest.
LEMMA MaxIs ==
  ASSUME NEW set \in SUBSET Nat, set # {}, NEW b \in Nat, \A x \in set : x <= b
  PROVE  Max(set) \in set /\ \A x \in set : x <= Max(set)
<1> DEFINE bounds == {c \in Nat : \A x \in set : x <= c}
<1>1. bounds \in SUBSET Nat /\ bounds # {}
  OBVIOUS
<1>2. PICK c \in bounds : \A d \in bounds : <<d, c>> \notin OpToRel(<, Nat)
  BY <1>1, WFMin, NatLessThanWellFounded
<1>3. \A d \in bounds : ~(d < c)
  BY <1>1, <1>2 DEF OpToRel
<1>4. c \in set
  <2> SUFFICES ASSUME c \notin set PROVE FALSE
    OBVIOUS
  <2>1. PICK y \in set : TRUE
    OBVIOUS
  <2>2. c \in Nat /\ \A x \in set : x \in Nat /\ x <= c /\ x # c
    OBVIOUS
  <2>3. y < c
    BY <2>2
  <2>4. c - 1 \in Nat
    BY <2>2, <2>3
  <2>5. c - 1 \in bounds
    BY <2>2, <2>4
  <2> QED
    BY <1>3, <2>2, <2>5
<1>5. \E y \in set : \A x \in set : y >= x
  <2>1. \A x \in set : x <= c /\ x \in Nat /\ c \in Nat
    OBVIOUS
  <2> QED
    BY <1>4, <2>1
<1>6. Max(set) \in set /\ \A x \in set : Max(set) >= x
  BY <1>5 DEF Max
<1>7. \A x \in set : x \in Nat /\ Max(set) \in Nat
  BY <1>6
<1> QED
  BY <1>6, <1>7

LEMMA MinOfTwo ==
  ASSUME NEW a \in Nat, NEW b \in Nat
  PROVE  Min({a, b}) = IF a <= b THEN a ELSE b
<1>1. \E x \in {a, b} : \A y \in {a, b} : x <= y
  OBVIOUS
<1>2. Min({a, b}) \in {a, b} /\ \A y \in {a, b} : Min({a, b}) <= y
  BY <1>1 DEF Min
<1> QED
  BY <1>2

LEMMA OverlapIs ==
  ASSUME NEW prev \in Seq(Place), NEW curr \in Seq(Place)
  PROVE  /\ Overlap(prev, curr) \in Nat
         /\ Overlap(prev, curr) <= Len(prev) /\ Overlap(prev, curr) <= Len(curr)
         /\ Overlap(prev, curr) # 0 => ReadsLike(prev, curr, Overlap(prev, curr))
         /\ \A k \in Nat \ {0} :
              k <= Len(prev) /\ k <= Len(curr) /\ ReadsLike(prev, curr, k)
                => k <= Overlap(prev, curr)
<1> DEFINE set == Overlaps(prev, curr) \cup {0}
<1>1. Len(prev) \in Nat /\ Len(curr) \in Nat
  OBVIOUS
<1>2. Overlaps(prev, curr) =
        {k \in Nat \ {0} : k <= Len(prev) /\ k <= Len(curr) /\ ReadsLike(prev, curr, k)}
  BY <1>1, MinOfTwo DEF Overlaps
<1>3. set \in SUBSET Nat /\ set # {} /\ \A x \in set : x <= Len(prev)
  BY <1>1, <1>2
<1>4. Max(set) \in set /\ \A x \in set : x <= Max(set)
  BY <1>1, <1>3, MaxIs
<1> QED
  BY <1>1, <1>2, <1>4 DEF Overlap

\* Lines in one order read alike.
LEMMA SameReadsAlike ==
  ASSUME NEW prev \in Seq(Place), NEW curr \in Seq(Place), NEW k \in Nat,
         k <= Len(prev), k <= Len(curr),
         \A m \in 1..k : prev[Len(prev) - k + m] = curr[m]
  PROVE  ReadsLike(prev, curr, k)
<1> DEFINE a == Texts(prev)
           b == Texts(curr)
<1>1. /\ Len(prev) \in Nat /\ DOMAIN prev = 1..Len(prev)
      /\ Len(curr) \in Nat /\ DOMAIN curr = 1..Len(curr)
  OBVIOUS
<1>2. \A i \in 1..Len(prev) : a[i] = Text(prev[i])
  BY <1>1 DEF Texts
<1>3. \A i \in 1..Len(curr) : b[i] = Text(curr[i])
  BY <1>1 DEF Texts
<1>4. \A m \in 1..k : a[Len(prev) - k + m] = b[m]
  <2> SUFFICES ASSUME NEW m \in 1..k PROVE a[Len(prev) - k + m] = b[m]
    OBVIOUS
  <2>1. Len(prev) - k + m \in 1..Len(prev) /\ m \in 1..Len(curr)
    BY <1>1
  <2> QED
    BY <1>2, <1>3, <2>1
<1> HIDE DEF a, b
<1>5. SubSeq(a, Len(prev) - k + 1, Len(prev)) = [m \in 1..k |-> a[Len(prev) - k + m]]
  BY <1>1
<1>6. SubSeq(b, 1, k) = [m \in 1..k |-> b[m]]
  BY <1>1
<1> QED
  BY <1>4, <1>5, <1>6 DEF ReadsLike, a, b
-----------------------------------------------------------------------------
(* What a poll sees and takes for new.                                      *)

LEMMA TailIs ==
  ASSUME TypeOK, NEW p \in Pod, NEW n \in 0..Len(output[p])
  PROVE  /\ TailAt(p, n) \in SUBSET Nat /\ IsFiniteSet(TailAt(p, n))
         /\ Cardinality(TailAt(p, n)) \in Nat /\ Cardinality(TailAt(p, n)) <= TailLines
         /\ \A i \in TailAt(p, n) : i \in Nat \ {0} /\ i <= n /\ output[p][i] # Blank
<1>1. n \in Nat /\ TailLines \in Nat \ {0}
  BY TailAssumption DEF TypeOK
<1> DEFINE last == (n - TailLines + 1)..n
<1>2. n - TailLines + 1 \in Int /\ n \in Int /\ n - (n - TailLines + 1) + 1 = TailLines
  BY <1>1
<1>3. IsFiniteSet(last) /\ Cardinality(last) = TailLines
  BY <1>1, <1>2, FS_Interval
<1>4. TailAt(p, n) \in SUBSET last
  BY <1>1 DEF TailAt
<1>5. IsFiniteSet(TailAt(p, n)) /\ Cardinality(TailAt(p, n)) <= TailLines
  BY <1>3, <1>4, FS_Subset
<1> QED
  BY <1>1, <1>5, FS_CardinalityType DEF TailAt

\* What was seen of a pod is its lines in their order.
LEMMA SeenIs ==
  ASSUME TypeOK, NEW p \in Pod, NEW n \in 0..Len(output[p]),
         NEW seen, seen = InOrder(p, TailAt(p, n))
  PROVE  /\ seen \in Seq(Place) /\ Len(seen) = Cardinality(TailAt(p, n))
         /\ Len(seen) \in Nat /\ Len(seen) <= TailLines
         /\ \A i \in 1..Len(seen) :
              /\ seen[i] = <<p, Nth(TailAt(p, n), i)>> /\ seen[i] \in Place
              /\ seen[i][1] = p /\ seen[i][2] \in TailAt(p, n)
         /\ \A i, j \in 1..Len(seen) : i < j => seen[i][2] < seen[j][2]
<1> DEFINE set == TailAt(p, n)
<1>1. /\ set \in SUBSET Nat /\ IsFiniteSet(set) /\ Cardinality(set) \in Nat
      /\ Cardinality(set) <= TailLines
      /\ \A i \in set : i \in Nat \ {0}
  BY TailIs
<1>2. /\ seen \in Seq({p} \X set) /\ Len(seen) = Cardinality(set)
      /\ \A i \in 1..Cardinality(set) : seen[i] = <<p, Nth(set, i)>>
      /\ \A i, j \in 1..Cardinality(set) : i < j => Nth(set, i) < Nth(set, j)
  BY <1>1, InOrderIs
<1> HIDE DEF set
<1>3. \A i \in 1..Cardinality(set) : Nth(set, i) \in set
  BY <1>1, NthIs
<1>4. \A i \in 1..Len(seen) : seen[i] = <<p, Nth(set, i)>> /\ seen[i] \in Place
  <2> SUFFICES ASSUME NEW i \in 1..Len(seen)
               PROVE  seen[i] = <<p, Nth(set, i)>> /\ seen[i] \in Place
    OBVIOUS
  <2>1. i \in 1..Cardinality(set) /\ seen[i] = <<p, Nth(set, i)>>
    BY <1>2
  <2>2. Nth(set, i) \in Nat \ {0}
    BY <1>1, <1>3, <2>1
  <2> QED
    BY <2>1, <2>2 DEF Place
<1>5. seen \in Seq(Place)
  BY <1>2, <1>4
<1> QED
  BY <1>1, <1>2, <1>3, <1>4, <1>5 DEF set

LEMMA VisibleIs ==
  ASSUME TypeOK, NEW p \in Pod
  PROVE  /\ Len(output[p]) \in Nat
         /\ Visible(p) = InOrder(p, TailAt(p, Len(output[p])))
<1>1. Len(output[p]) \in Nat /\ DOMAIN output[p] = 1..Len(output[p])
  BY DEF TypeOK
<1>2. {i \in PodLogs(p) : Text(<<p, i>>) # Blank} = TailAt(p, Len(output[p]))
  BY <1>1 DEF PodLogs, TailAt, Text
<1> QED
  BY <1>1, <1>2 DEF Visible

LEMMA DiffIs ==
  ASSUME NEW prev \in Seq(Place), NEW curr \in Seq(Place), NEW new,
         new = DiffNewTail(prev, curr)
  PROVE  /\ new \in Seq(Place)
         /\ Len(new) = IF Overlap(prev, curr) = 0 THEN 0 ELSE Len(curr) - Overlap(prev, curr)
         /\ \A j \in 1..Len(new) : new[j] = curr[Overlap(prev, curr) + j]
         /\ new # <<>> => prev # <<>>
<1> DEFINE k == Overlap(prev, curr)
<1>1. /\ k \in Nat /\ k <= Len(prev) /\ k <= Len(curr)
      /\ Len(prev) \in Nat /\ Len(curr) \in Nat
  BY OverlapIs
<1> HIDE DEF k
<1>2. CASE k = 0
  BY <1>2 DEF DiffNewTail, k
<1>3. CASE k # 0
  <2>1. new = SubSeq(curr, k + 1, Len(curr)) /\ prev # <<>>
    BY <1>1, <1>3 DEF DiffNewTail, k
  <2> QED
    BY <1>1, <1>3, <2>1 DEF k
<1> QED
  BY <1>2, <1>3

\* Of two tails of one pod the lines they share are the end of the first and the start
\* of the second, and the others of the second are new.
LEMMA TailsOverlap ==
  ASSUME TypeOK, NEW p \in Pod, NEW n1 \in 0..Len(output[p]), NEW n2 \in 0..Len(output[p]),
         n1 <= n2, NEW prev, prev = InOrder(p, TailAt(p, n1)),
         NEW curr, curr = InOrder(p, TailAt(p, n2)),
         NEW u, u = Cardinality(TailAt(p, n1) \cap TailAt(p, n2))
  PROVE  /\ u \in Nat /\ u <= Len(prev) /\ u <= Len(curr)
         /\ \A m \in 1..u : prev[Len(prev) - u + m] = curr[m]
         /\ u <= Overlap(prev, curr)
         /\ \A n \in 1..Len(curr) : n > u => curr[n][2] > n1
<1> DEFINE S == TailAt(p, n1)
           T == TailAt(p, n2)
           lo == IF n2 >= TailLines THEN n2 - TailLines + 1 ELSE 0
<1>1. /\ S \in SUBSET Nat /\ IsFiniteSet(S) /\ \A i \in S : i <= n1
      /\ T \in SUBSET Nat /\ IsFiniteSet(T)
  BY TailIs
<1>2. /\ n1 \in Nat /\ n2 \in Nat /\ TailLines \in Nat \ {0} /\ lo \in Nat
  BY TailAssumption DEF TypeOK
<1>3. \A i \in T : i >= lo
  BY <1>2 DEF TailAt
<1>4. \A i \in Nat : lo <= i /\ i <= n1 => (i \in S <=> i \in T)
  BY <1>2 DEF TailAt
<1> HIDE DEF S, T, lo
<1>5. /\ u \in Nat /\ u <= Cardinality(S) /\ u <= Cardinality(T)
      /\ \A m \in 1..u : Nth(S, Cardinality(S) - u + m) = Nth(T, m)
      /\ \A n \in 1..Cardinality(T) : n > u => Nth(T, n) > n1
  <2>1. u = Cardinality(S \cap T)
    BY DEF S, T
  <2>2. Windows(S, T, lo, n1)
    BY <1>1, <1>2, <1>3, <1>4 DEF Windows
  <2> QED
    BY <2>1, <2>2, WindowShift
<1>6. /\ prev \in Seq(Place) /\ Len(prev) = Cardinality(S) /\ Len(prev) \in Nat
      /\ \A n \in 1..Len(prev) : prev[n] = <<p, Nth(S, n)>>
  BY SeenIs DEF S
<1>7. /\ curr \in Seq(Place) /\ Len(curr) = Cardinality(T) /\ Len(curr) \in Nat
      /\ \A n \in 1..Len(curr) : curr[n] = <<p, Nth(T, n)>>
  BY SeenIs DEF T
<1>8. \A m \in 1..u : prev[Len(prev) - u + m] = curr[m]
  <2> SUFFICES ASSUME NEW m \in 1..u PROVE prev[Len(prev) - u + m] = curr[m]
    OBVIOUS
  <2>1. Len(prev) - u + m \in 1..Len(prev) /\ m \in 1..Len(curr)
    BY <1>5, <1>6, <1>7
  <2> QED
    BY <1>5, <1>6, <1>7, <2>1
<1>9. u <= Overlap(prev, curr)
  <2>1. ReadsLike(prev, curr, u)
    BY <1>5, <1>6, <1>7, <1>8, SameReadsAlike
  <2>2. Overlap(prev, curr) \in Nat
    BY <1>6, <1>7, OverlapIs
  <2> QED
    BY <1>5, <1>6, <1>7, <2>1, <2>2, OverlapIs
<1>10. \A n \in 1..Len(curr) : n > u => curr[n][2] > n1
  <2>1. \A n \in 1..Len(curr) : curr[n][2] = Nth(T, n)
    BY <1>7
  <2> QED
    BY <1>5, <1>7, <2>1
<1> QED
  BY <1>5, <1>6, <1>7, <1>8, <1>9, <1>10
-----------------------------------------------------------------------------
(* The snapshot.                                                            *)

LEMMA InitSnapshot == Init => SnapshotInv
  BY TailAssumption, BoundAssumption DEF Init, SnapshotInv, TypeOK, Taken

\* What a pod has printed stays.
LEMMA EmitKeepsTails ==
  ASSUME TypeOK, NEW p \in Pod, Emit(p)
  PROVE  /\ output' \in [Pod -> Seq(Line \cup {Blank})]
         /\ \A q \in Pod : /\ Len(output[q]) \in Nat /\ Len(output'[q]) \in Nat
                           /\ Len(output[q]) <= Len(output'[q])
                           /\ \A i \in 1..Len(output[q]) : output'[q][i] = output[q][i]
<1>1. PICK line \in Line \cup {Blank} : output' = [output EXCEPT ![p] = Append(@, line)]
  BY DEF Emit
<1>2. output \in [Pod -> Seq(Line \cup {Blank})]
  BY DEF TypeOK
<1>3. output' \in [Pod -> Seq(Line \cup {Blank})]
  BY <1>1, <1>2
<1>4. ASSUME NEW q \in Pod
      PROVE  /\ Len(output[q]) \in Nat /\ Len(output'[q]) \in Nat
             /\ Len(output[q]) <= Len(output'[q])
             /\ \A i \in 1..Len(output[q]) : output'[q][i] = output[q][i]
  <2>1. output[q] \in Seq(Line \cup {Blank})
    BY <1>2
  <2>2. CASE q = p
    <3>1. output'[q] = Append(output[q], line)
      BY <1>1, <1>2, <2>2
    <3> QED
      BY <2>1, <3>1
  <2>3. CASE q # p
    <3>1. output'[q] = output[q]
      BY <1>1, <1>2, <2>3
    <3> QED
      BY <2>1, <3>1
  <2> QED
    BY <2>2, <2>3
<1> QED
  BY <1>3, <1>4

LEMMA EmitKeepsSnapshot ==
  ASSUME SnapshotInv, NEW p \in Pod, Emit(p)
  PROVE  SnapshotInv'
<1>1. TypeOK /\ Taken
  BY DEF SnapshotInv
<1>2. /\ output' \in [Pod -> Seq(Line \cup {Blank})]
      /\ \A q \in Pod : /\ Len(output[q]) \in Nat /\ Len(output'[q]) \in Nat
                        /\ Len(output[q]) <= Len(output'[q])
                        /\ \A i \in 1..Len(output[q]) : output'[q][i] = output[q][i]
  BY <1>1, EmitKeepsTails
<1>3. UNCHANGED <<first, former, snapshot, pending, stored, restarts>>
  BY DEF Emit
<1>4. TypeOK'
  BY <1>1, <1>2, <1>3 DEF TypeOK, Place
<1>5. ASSUME snapshot # <<>>
      PROVE  \E q \in Pod : \E n \in 1..Len(output'[q]) :
               TailAt(q, n)' # {} /\ snapshot = InOrder(q, TailAt(q, n)')
  <2>1. PICK q \in Pod : \E n \in 1..Len(output[q]) :
          TailAt(q, n) # {} /\ snapshot = InOrder(q, TailAt(q, n))
    BY <1>1, <1>5 DEF Taken
  <2>2. PICK n \in 1..Len(output[q]) :
          TailAt(q, n) # {} /\ snapshot = InOrder(q, TailAt(q, n))
    BY <2>1
  <2>3. n \in 1..Len(output'[q]) /\ \A i \in 1..n : output'[q][i] = output[q][i]
    BY <1>2
  <2>4. TailAt(q, n)' = TailAt(q, n)
    BY <2>3 DEF TailAt
  <2> QED
    BY <2>2, <2>3, <2>4
<1>6. Taken'
  BY <1>3, <1>5 DEF Taken, InOrder, Nth
<1> QED
  BY <1>4, <1>6 DEF SnapshotInv

LEMMA TakenStays ==
  ASSUME Taken, UNCHANGED <<output, snapshot>>
  PROVE  Taken'
<1>1. \A p, n : TailAt(p, n)' = TailAt(p, n)
  BY DEF TailAt
<1>2. ASSUME snapshot # <<>>
      PROVE  \E p \in Pod : \E n \in 1..Len(output'[p]) :
               TailAt(p, n)' # {} /\ snapshot = InOrder(p, TailAt(p, n)')
  BY <1>1, <1>2 DEF Taken
<1> QED
  BY <1>2 DEF Taken, InOrder, Nth

LEMMA PodsChangeKeepsSnapshot ==
  ASSUME SnapshotInv, NEW p \in Pod \cup {NoPod}, PodsChange(p)
  PROVE  SnapshotInv'
<1>1. TypeOK'
  BY DEF SnapshotInv, TypeOK, PodsChange, Place
<1>2. Taken'
  BY TakenStays DEF SnapshotInv, PodsChange
<1> QED
  BY <1>1, <1>2 DEF SnapshotInv

\* What a poll does, in terms of the tail it sees.
LEMMA PollSees ==
  ASSUME SnapshotInv, PollServiceLogs
  PROVE  /\ first \in Pod /\ pending = <<>>
         /\ Len(output[first]) \in Nat \ {0}
         /\ snapshot' = InOrder(first, TailAt(first, Len(output[first])))
         /\ snapshot' # <<>> /\ TailAt(first, Len(output[first])) # {}
         /\ snapshot \in Seq(Place) /\ snapshot' \in Seq(Place)
         /\ pending' = DiffNewTail(snapshot, snapshot')
         /\ UNCHANGED <<output, first, former, stored, restarts>>
<1>1. TypeOK /\ first \in Pod
  BY DEF SnapshotInv, TypeOK, PollServiceLogs
<1>2. /\ Len(output[first]) \in Nat /\ Len(output[first]) \in 0..Len(output[first])
      /\ Visible(first) = InOrder(first, TailAt(first, Len(output[first])))
  BY <1>1, VisibleIs
<1>3. /\ Visible(first) \in Seq(Place)
      /\ Len(Visible(first)) = Cardinality(TailAt(first, Len(output[first])))
  BY <1>1, <1>2, SeenIs
<1>4. Visible(first) # <<>> /\ snapshot' = Visible(first)
  BY DEF PollServiceLogs
<1>5. TailAt(first, Len(output[first])) # {}
  <2>1. Len(Visible(first)) # 0
    BY <1>3, <1>4
  <2> QED
    BY <1>3, <2>1, FS_EmptySet
<1>6. Len(output[first]) # 0
  BY <1>5 DEF TailAt
<1>7. snapshot \in Seq(Place)
  BY <1>1 DEF TypeOK
<1> QED
  BY <1>1, <1>2, <1>3, <1>4, <1>5, <1>6, <1>7 DEF PollServiceLogs

LEMMA PollKeepsSnapshot == SnapshotInv /\ PollServiceLogs => SnapshotInv'
<1> SUFFICES ASSUME SnapshotInv, PollServiceLogs PROVE SnapshotInv'
  OBVIOUS
<1> DEFINE k == Overlap(snapshot, snapshot')
           n == Len(output[first])
<1>1. /\ first \in Pod /\ n \in Nat \ {0}
      /\ snapshot' = InOrder(first, TailAt(first, n)) /\ TailAt(first, n) # {}
      /\ snapshot \in Seq(Place) /\ snapshot' \in Seq(Place)
      /\ pending' = DiffNewTail(snapshot, snapshot')
      /\ UNCHANGED <<output, first, former, stored, restarts>>
  BY PollSees
<1>2. TypeOK /\ n \in 0..n
  BY <1>1 DEF SnapshotInv
<1>3. Len(snapshot') \in Nat /\ Len(snapshot') <= TailLines
  BY <1>1, <1>2, SeenIs
<1>4. /\ pending' \in Seq(Place)
      /\ Len(pending') = IF k = 0 THEN 0 ELSE Len(snapshot') - k
  BY <1>1, DiffIs
<1>5. k \in Nat /\ TailLines \in Nat \ {0}
  BY <1>1, OverlapIs, TailAssumption
<1> HIDE DEF k
<1>6. Len(pending') < TailLines
  BY <1>3, <1>4, <1>5
<1>7. TypeOK'
  BY <1>1, <1>2, <1>3, <1>4, <1>6 DEF TypeOK, Place
<1>8. n \in 1..Len(output'[first]) /\ TailAt(first, n)' = TailAt(first, n)
  BY <1>1 DEF TailAt
<1>9. \E p \in Pod : \E m \in 1..Len(output'[p]) :
        TailAt(p, m)' # {} /\ snapshot' = InOrder(p, TailAt(p, m)')
  BY <1>1, <1>8
<1>10. Taken'
  BY <1>9 DEF Taken, InOrder, Nth
<1> QED
  BY <1>7, <1>10 DEF SnapshotInv

LEMMA AppendLineKeepsSnapshot == SnapshotInv /\ AppendLine => SnapshotInv'
<1> SUFFICES ASSUME SnapshotInv, AppendLine PROVE SnapshotInv'
  OBVIOUS
<1>1. /\ pending \in Seq(Place) /\ pending # <<>> /\ Len(pending) < TailLines
      /\ pending' = Tail(pending) /\ stored \in Seq(Place)
      /\ stored' = stored \/ stored' = Append(stored, Head(pending))
      /\ UNCHANGED <<output, first, former, snapshot, restarts>>
  BY DEF SnapshotInv, TypeOK, AppendLine
<1>2. /\ pending' \in Seq(Place) /\ Len(pending') = Len(pending) - 1
      /\ Head(pending) \in Place /\ Len(pending) \in Nat
  BY <1>1
<1>3. stored' \in Seq(Place)
  BY <1>1, <1>2
<1>4. Len(pending') < TailLines
  BY <1>1, <1>2, TailAssumption
<1>5. TypeOK'
  BY <1>1, <1>2, <1>3, <1>4 DEF SnapshotInv, TypeOK, Place
<1>6. Taken'
  BY <1>1, TakenStays DEF SnapshotInv
<1> QED
  BY <1>5, <1>6 DEF SnapshotInv

LEMMA RestartKeepsSnapshot == SnapshotInv /\ Restart => SnapshotInv'
<1> SUFFICES ASSUME SnapshotInv, Restart PROVE SnapshotInv'
  OBVIOUS
<1>1. TypeOK'
  BY TailAssumption, BoundAssumption DEF SnapshotInv, TypeOK, Restart, Place
<1>2. Taken'
  BY DEF Taken, Restart
<1> QED
  BY <1>1, <1>2 DEF SnapshotInv

LEMMA NextKeepsSnapshot == SnapshotInv /\ [Next]_vars => SnapshotInv'
<1> SUFFICES ASSUME SnapshotInv, [Next]_vars PROVE SnapshotInv'
  OBVIOUS
<1>1. CASE UNCHANGED vars
  BY <1>1, TakenStays DEF SnapshotInv, TypeOK, Place, vars
<1>2. CASE Next
  BY <1>2, EmitKeepsSnapshot, PodsChangeKeepsSnapshot, PollKeepsSnapshot,
     AppendLineKeepsSnapshot, RestartKeepsSnapshot DEF Next
<1> QED
  BY <1>1, <1>2

LEMMA SnapshotInvariant == Spec => []SnapshotInv
  BY InitSnapshot, NextKeepsSnapshot, PTL DEF Spec

\* No snapshot is longer than the tail that is asked for, no poll takes a whole tail for
\* new, and every variable keeps its type (handler.go 119-156, 405-437).
THEOREM TailTypeCorrect == Spec => []TypeOK
<1>1. SnapshotInv => TypeOK
  BY DEF SnapshotInv
<1> QED
  BY <1>1, SnapshotInvariant, PTL
-----------------------------------------------------------------------------
(* The order of what is stored.                                             *)

LEMMA LinesAre ==
  ASSUME TypeOK
  PROVE  /\ lines \in Seq(Place) /\ Len(stored) \in Nat /\ Len(pending) \in Nat
         /\ Len(lines) = Len(stored) + Len(pending) /\ DOMAIN lines = 1..Len(lines)
         /\ \A i \in 1..Len(lines) :
              /\ lines[i] = IF i <= Len(stored) THEN stored[i] ELSE pending[i - Len(stored)]
              /\ lines[i] \in Place /\ lines[i][1] \in Pod /\ lines[i][2] \in Nat
<1>1. /\ stored \in Seq(Place) /\ pending \in Seq(Place)
      /\ Len(stored) \in Nat /\ Len(pending) \in Nat
  BY DEF TypeOK
<1>2. /\ lines \in Seq(Place) /\ Len(lines) = Len(stored) + Len(pending)
      /\ DOMAIN lines = 1..Len(lines)
      /\ \A i \in 1..Len(lines) :
           lines[i] = IF i <= Len(stored) THEN stored[i] ELSE pending[i - Len(stored)]
  BY <1>1 DEF lines
<1>3. \A i \in 1..Len(lines) : lines[i] \in Place /\ lines[i][1] \in Pod /\ lines[i][2] \in Nat
  BY <1>2 DEF Place
<1> QED
  BY <1>1, <1>2, <1>3

\* Lines that are left out disturb no order.
LEMMA FewerLines ==
  ASSUME TypeOK, TypeOK', OrderInv, UNCHANGED <<output, first, former>>,
         snapshot' = snapshot \/ snapshot' = <<>>,
         NEW g \in [1..Len(lines') -> 1..Len(lines)],
         \A i \in 1..Len(lines') : lines'[i] = lines[g[i]],
         \A i, j \in 1..Len(lines') : i < j => g[i] < g[j]
  PROVE  OrderInv'
<1>1. DOMAIN lines = 1..Len(lines) /\ Len(lines) \in Nat
  BY LinesAre
<1>2. DOMAIN lines' = 1..Len(lines') /\ Len(lines') \in Nat
  <2>1. lines' \in Seq(Place)
    BY DEF TypeOK, lines, Place
  <2> QED
    BY <2>1
<1>3. Turns'
  BY <1>1, <1>2 DEF OrderInv, Turns
<1>4. Printed'
  BY <1>1, <1>2 DEF OrderInv, Printed, Text
<1>5. Reached'
  BY <1>1, <1>2 DEF OrderInv, Reached
<1>6. InTurn'
  BY <1>1, <1>2 DEF OrderInv, InTurn
<1>7. Ordered(lines)'
  <2> SUFFICES ASSUME NEW i \in 1..Len(lines'), NEW j \in 1..Len(lines'), i < j
               PROVE  \/ /\ lines'[i][1] = lines'[j][1]
                         /\ lines'[i][2] < lines'[j][2]
                      \/ /\ lines'[i][1] # lines'[j][1]
                         /\ \A k \in j..Len(lines') : lines'[k][1] # lines'[i][1]
    BY <1>2 DEF Ordered
  <2>1. /\ g[i] \in DOMAIN lines /\ g[j] \in DOMAIN lines /\ g[i] < g[j]
        /\ lines'[i] = lines[g[i]] /\ lines'[j] = lines[g[j]]
    BY <1>1
  <2>2. \A k \in j..Len(lines') :
          g[k] \in g[j]..Len(lines) /\ lines'[k] = lines[g[k]]
    <3> SUFFICES ASSUME NEW k \in j..Len(lines')
                 PROVE  g[k] \in g[j]..Len(lines) /\ lines'[k] = lines[g[k]]
      OBVIOUS
    <3>1. k \in 1..Len(lines') /\ (k = j \/ j < k)
      BY <1>2
    <3>2. g[k] \in 1..Len(lines) /\ g[j] \in 1..Len(lines) /\ (g[k] = g[j] \/ g[j] < g[k])
      BY <3>1
    <3> QED
      BY <1>1, <3>1, <3>2
  <2>3. CASE lines[g[i]][1] = lines[g[j]][1] /\ lines[g[i]][2] < lines[g[j]][2]
    BY <2>1, <2>3
  <2>4. CASE /\ lines[g[i]][1] # lines[g[j]][1]
             /\ \A k \in g[j]..Len(lines) : lines[k][1] # lines[g[i]][1]
    <3>1. \A k \in j..Len(lines') : lines'[k][1] # lines[g[i]][1]
      BY <2>2, <2>4
    <3> QED
      BY <2>1, <2>4, <3>1
  <2> QED
    BY <2>1, <2>3, <2>4 DEF OrderInv, Ordered
<1> QED
  BY <1>3, <1>4, <1>5, <1>6, <1>7 DEF OrderInv

LEMMA InitOrder == Init => OrderInv
<1> SUFFICES ASSUME Init PROVE OrderInv
  OBVIOUS
<1>1. lines = <<>>
  BY DEF Init, lines
<1> QED
  BY <1>1 DEF Init, OrderInv, Turns, Printed, Reached, InTurn, Ordered

LEMMA EmitKeepsOrder ==
  ASSUME TypeOK, OrderInv, NEW p \in Pod, Emit(p)
  PROVE  OrderInv'
<1>1. lines' = lines /\ UNCHANGED <<first, former, snapshot>>
  BY DEF Emit, lines
<1>2. \A q \in Pod : /\ Len(output[q]) \in Nat /\ Len(output'[q]) \in Nat
                     /\ Len(output[q]) <= Len(output'[q])
                     /\ \A i \in 1..Len(output[q]) : output'[q][i] = output[q][i]
  BY EmitKeepsTails
<1>3. ASSUME NEW i \in DOMAIN lines
      PROVE  /\ lines[i][2] <= Len(output'[lines[i][1]])
             /\ output'[lines[i][1]][lines[i][2]] # Blank
  <2>1. /\ lines[i] \in Place
        /\ lines[i][2] <= Len(output[lines[i][1]])
        /\ output[lines[i][1]][lines[i][2]] # Blank
    BY LinesAre DEF OrderInv, Printed, Text
  <2>2. PICK q \in Pod, n \in Nat \ {0} : q = lines[i][1] /\ n = lines[i][2]
    BY <2>1 DEF Place
  <2>3. n <= Len(output[q]) /\ output[q][n] # Blank
    BY <2>1, <2>2
  <2>4. n \in 1..Len(output[q])
    BY <1>2, <2>3
  <2>5. n <= Len(output'[q]) /\ output'[q][n] # Blank
    BY <1>2, <2>3, <2>4
  <2> QED
    BY <2>2, <2>5
<1>4. Printed'
  BY <1>1, <1>3 DEF Printed, Text
<1> QED
  BY <1>1, <1>4 DEF OrderInv, Turns, Reached, InTurn, Ordered

\* A pod that was never listed first has no lines yet.
LEMMA PodsChangeKeepsOrder ==
  ASSUME ~ComesBack, TypeOK, OrderInv, NEW p \in Pod \cup {NoPod}, PodsChange(p)
  PROVE  OrderInv'
<1>1. /\ lines' = lines /\ UNCHANGED <<output, snapshot>>
      /\ first' = p /\ p # first /\ p \notin former
      /\ former' = IF first = NoPod THEN former ELSE former \cup {first}
  BY DEF PodsChange, lines
<1>2. \A i \in DOMAIN lines :
        lines[i][1] \in Pod /\ lines[i][1] \in former \cup {first} /\ lines[i][1] # p
  BY <1>1, LinesAre DEF OrderInv, Turns
<1>3. Turns'
  BY <1>1, <1>2, NameAssumption DEF Turns
<1>4. Printed'
  BY <1>1 DEF OrderInv, Printed, Text
<1>5. Reached' /\ InTurn' /\ Ordered(lines)'
  BY <1>1, <1>2 DEF OrderInv, Reached, InTurn, Ordered
<1> QED
  BY <1>3, <1>4, <1>5 DEF OrderInv

LEMMA AppendLineKeepsOrder ==
  ASSUME TypeOK, TypeOK', OrderInv, AppendLine
  PROVE  OrderInv'
<1>1. /\ UNCHANGED <<output, first, former, snapshot>>
      /\ pending # <<>> /\ pending' = Tail(pending)
      /\ stored' = stored \/ stored' = Append(stored, Head(pending))
  BY DEF AppendLine
<1>2. stored \in Seq(Place) /\ pending \in Seq(Place)
  BY DEF TypeOK
<1> DEFINE c == Len(stored)
<1>3. /\ c \in Nat /\ Len(lines) = c + Len(pending) /\ Len(pending) \in Nat \ {0}
      /\ \A i \in 1..Len(lines) : lines[i] = IF i <= c THEN stored[i] ELSE pending[i - c]
  BY <1>1, <1>2 DEF lines
<1>4. CASE stored' = stored
  <2> DEFINE g == [i \in 1..Len(lines') |-> IF i <= c THEN i ELSE i + 1]
  <2>1. /\ Len(lines') = Len(lines) - 1
        /\ \A i \in 1..Len(lines') : lines'[i] = IF i <= c THEN stored[i] ELSE pending[i - c + 1]
    BY <1>1, <1>2, <1>3, <1>4 DEF lines
  <2>2. g \in [1..Len(lines') -> 1..Len(lines)]
    BY <1>3, <2>1
  <2>3. \A i \in 1..Len(lines') : lines'[i] = lines[g[i]]
    <3> SUFFICES ASSUME NEW i \in 1..Len(lines') PROVE lines'[i] = lines[g[i]]
      OBVIOUS
    <3>1. g[i] = IF i <= c THEN i ELSE i + 1
      OBVIOUS
    <3>2. i \in Nat /\ g[i] \in 1..Len(lines)
      BY <1>3, <2>1, <2>2
    <3> QED
      BY <1>3, <2>1, <3>1, <3>2
  <2>4. \A i, j \in 1..Len(lines') : i < j => g[i] < g[j]
    BY <1>3, <2>1
  <2> QED
    BY <1>1, <2>2, <2>3, <2>4, FewerLines
<1>5. CASE stored' = Append(stored, Head(pending))
  <2> DEFINE g == [i \in 1..Len(lines') |-> i]
  <2>1. /\ Len(stored') = c + 1 /\ stored'[c + 1] = pending[1]
        /\ \A i \in 1..c : stored'[i] = stored[i]
        /\ Len(pending') = Len(pending) - 1
        /\ \A i \in 1..Len(pending') : pending'[i] = pending[i + 1]
    BY <1>1, <1>2, <1>3, <1>5
  <2>2. /\ Len(lines') = Len(lines)
        /\ \A i \in 1..Len(lines') :
             lines'[i] = IF i <= c + 1 THEN stored'[i] ELSE pending'[i - (c + 1)]
    <3>1. stored' \in Seq(Place) /\ pending' \in Seq(Place)
      BY DEF TypeOK, Place
    <3>2. /\ Len(lines') = Len(stored') + Len(pending')
          /\ \A i \in 1..Len(lines') :
               lines'[i] = IF i <= Len(stored') THEN stored'[i] ELSE pending'[i - Len(stored')]
      BY <3>1 DEF lines
    <3> QED
      BY <1>3, <2>1, <3>2
  <2>3. \A i \in 1..Len(lines') : lines'[i] = lines[i]
    <3> SUFFICES ASSUME NEW i \in 1..Len(lines') PROVE lines'[i] = lines[i]
      OBVIOUS
    <3>1. i \in Nat /\ i \in 1..Len(lines)
      BY <1>3, <2>2
    <3>2. CASE i <= c
      BY <1>3, <2>1, <2>2, <3>1, <3>2
    <3>3. CASE i = c + 1
      BY <1>3, <2>1, <2>2, <3>1, <3>3
    <3>4. CASE i > c + 1
      <4>1. lines'[i] = pending'[i - (c + 1)] /\ lines[i] = pending[i - c]
        BY <1>3, <2>2, <3>1, <3>4
      <4>2. i - (c + 1) \in 1..Len(pending')
        BY <1>3, <2>1, <3>1, <3>4
      <4>3. pending'[i - (c + 1)] = pending[i - (c + 1) + 1] /\ i - (c + 1) + 1 = i - c
        BY <1>3, <2>1, <3>1, <4>2
      <4> QED
        BY <4>1, <4>3
    <3> QED
      BY <1>3, <3>1, <3>2, <3>3, <3>4
  <2>4. /\ g \in [1..Len(lines') -> 1..Len(lines)]
        /\ \A i \in 1..Len(lines') : lines'[i] = lines[g[i]]
        /\ \A i, j \in 1..Len(lines') : i < j => g[i] < g[j]
    BY <2>2, <2>3
  <2> QED
    BY <1>1, <2>4, FewerLines
<1> QED
  BY <1>1, <1>4, <1>5

LEMMA RestartKeepsOrder ==
  ASSUME TypeOK, TypeOK', OrderInv, Restart
  PROVE  OrderInv'
<1>1. /\ UNCHANGED <<output, first, former, stored>> /\ snapshot' = <<>> /\ pending' = <<>>
  BY DEF Restart
<1>2. stored \in Seq(Place) /\ pending \in Seq(Place)
  BY DEF TypeOK
<1>3. lines' = stored
  BY <1>1, <1>2 DEF lines
<1>4. /\ Len(stored) \in Nat /\ Len(lines) \in Nat /\ Len(stored) <= Len(lines)
      /\ \A i \in 1..Len(stored) : lines[i] = stored[i]
  BY <1>2 DEF lines
<1> DEFINE g == [i \in 1..Len(lines') |-> i]
<1>5. /\ g \in [1..Len(lines') -> 1..Len(lines)]
      /\ \A i \in 1..Len(lines') : lines'[i] = lines[g[i]]
      /\ \A i, j \in 1..Len(lines') : i < j => g[i] < g[j]
  BY <1>3, <1>4
<1> QED
  BY <1>1, <1>5, FewerLines

\* Every line of a tail is seen.
LEMMA AllSeen ==
  ASSUME TypeOK, NEW p \in Pod, NEW n \in 0..Len(output[p]), NEW i \in TailAt(p, n),
         NEW seen, seen = InOrder(p, TailAt(p, n))
  PROVE  \E m \in 1..Len(seen) : seen[m][2] = i
<1> DEFINE set == TailAt(p, n)
<1>1. set \in SUBSET Nat /\ IsFiniteSet(set)
  BY TailIs
<1>2. Rank(set, i) \in 1..Cardinality(set) /\ Nth(set, Rank(set, i)) = i
  BY <1>1, RankPositive, NthIs
<1>3. Len(seen) = Cardinality(set) /\ \A m \in 1..Len(seen) : seen[m] = <<p, Nth(set, m)>>
  BY SeenIs
<1> HIDE DEF set
<1>4. seen[Rank(set, i)] = <<p, Nth(set, Rank(set, i))>>
  BY <1>2, <1>3
<1> QED
  BY <1>2, <1>3, <1>4

\* What a poll takes for new was printed after the snapshot before it, if that was of
\* the same pod.
LEMMA NewIsLater ==
  ASSUME SnapshotInv, PollServiceLogs, NEW j \in 1..Len(pending'),
         snapshot # <<>> => snapshot[1][1] = first
  PROVE  /\ snapshot # <<>>
         /\ pending'[j][2] > snapshot[Len(snapshot)][2]
<1> DEFINE n2 == Len(output[first])
           k == Overlap(snapshot, snapshot')
<1>1. /\ first \in Pod /\ n2 \in Nat \ {0} /\ snapshot' = InOrder(first, TailAt(first, n2))
      /\ snapshot \in Seq(Place) /\ snapshot' \in Seq(Place)
      /\ pending' = DiffNewTail(snapshot, snapshot')
  BY PollSees
<1>2. TypeOK /\ Taken
  BY DEF SnapshotInv
<1>3. /\ Len(pending') = IF k = 0 THEN 0 ELSE Len(snapshot') - k
      /\ \A i \in 1..Len(pending') : pending'[i] = snapshot'[k + i]
      /\ pending' # <<>> => snapshot # <<>>
  BY <1>1, DiffIs
<1>4. k \in Nat /\ k <= Len(snapshot') /\ Len(snapshot') \in Nat
  BY <1>1, OverlapIs
<1>5. snapshot # <<>>
  BY <1>3
<1>6. PICK q \in Pod : \E n \in 1..Len(output[q]) :
        TailAt(q, n) # {} /\ snapshot = InOrder(q, TailAt(q, n))
  BY <1>2, <1>5 DEF Taken
<1>7. PICK n1 \in 1..Len(output[q]) : TailAt(q, n1) # {} /\ snapshot = InOrder(q, TailAt(q, n1))
  BY <1>6
<1>8. /\ n1 \in 0..Len(output[q]) /\ n1 \in Nat
  BY <1>2, <1>6 DEF TypeOK
<1>9. /\ Len(snapshot) \in Nat \ {0}
      /\ \A i \in 1..Len(snapshot) : snapshot[i][1] = q /\ snapshot[i][2] \in TailAt(q, n1)
  BY <1>1, <1>2, <1>5, <1>7, <1>8, SeenIs
<1>10. q = first /\ n1 <= n2 /\ n1 \in 0..n2 /\ n2 \in 0..n2
  BY <1>1, <1>5, <1>7, <1>8, <1>9
<1>11. snapshot[Len(snapshot)][2] \in Nat /\ snapshot[Len(snapshot)][2] <= n1
  BY <1>2, <1>8, <1>9, TailIs
<1> DEFINE u == Cardinality(TailAt(first, n1) \cap TailAt(first, n2))
<1>12. /\ u \in Nat /\ u <= k
       /\ \A n \in 1..Len(snapshot') : n > u => snapshot'[n][2] > n1
  <2>1. snapshot = InOrder(first, TailAt(first, n1))
    BY <1>7, <1>10
  <2>2. first \in Pod /\ snapshot' = InOrder(first, TailAt(first, n2))
    BY <1>1
  <2> QED
    BY <1>2, <1>10, <2>1, <2>2, TailsOverlap
<1> HIDE DEF k, u
<1>13. k + j \in 1..Len(snapshot') /\ k + j > u /\ pending'[j] = snapshot'[k + j]
  BY <1>3, <1>4, <1>12
<1>14. pending'[j][2] > n1
  BY <1>12, <1>13
<1>15. pending'[j][2] \in Nat
  BY <1>1, <1>13 DEF Place
<1> QED
  BY <1>5, <1>8, <1>11, <1>14, <1>15

LEMMA PollKeepsOrder ==
  ASSUME SnapshotInv, SnapshotInv', OrderInv, PollServiceLogs
  PROVE  OrderInv'
<1> DEFINE n == Len(output[first])
           k == Overlap(snapshot, snapshot')
           c == Len(stored)
<1>1. /\ first \in Pod /\ pending = <<>> /\ n \in Nat \ {0}
      /\ snapshot' = InOrder(first, TailAt(first, n)) /\ snapshot' # <<>>
      /\ snapshot \in Seq(Place) /\ snapshot' \in Seq(Place)
      /\ pending' = DiffNewTail(snapshot, snapshot')
      /\ UNCHANGED <<output, first, former, stored, restarts>>
  BY PollSees
<1>2. TypeOK /\ n \in 0..n
  BY <1>1 DEF SnapshotInv
<1>3. /\ Len(snapshot') \in Nat \ {0}
      /\ \A i \in 1..Len(snapshot') :
           /\ snapshot'[i][1] = first /\ snapshot'[i][2] \in TailAt(first, n)
           /\ snapshot'[i][2] \in Nat
      /\ \A i, j \in 1..Len(snapshot') : i < j => snapshot'[i][2] < snapshot'[j][2]
  <2>1. /\ Len(snapshot') \in Nat
        /\ \A i \in 1..Len(snapshot') :
             snapshot'[i][1] = first /\ snapshot'[i][2] \in TailAt(first, n)
        /\ \A i, j \in 1..Len(snapshot') : i < j => snapshot'[i][2] < snapshot'[j][2]
    BY <1>1, <1>2, SeenIs
  <2>2. TailAt(first, n) \in SUBSET Nat
    BY <1>1, <1>2, TailIs
  <2>3. Len(snapshot') # 0
    BY <1>1
  <2> QED
    BY <2>1, <2>2, <2>3
<1>4. k \in Nat /\ k <= Len(snapshot')
  BY <1>1, OverlapIs
<1>5. /\ pending' \in Seq(Place)
      /\ Len(pending') = IF k = 0 THEN 0 ELSE Len(snapshot') - k
      /\ \A j \in 1..Len(pending') : pending'[j] = snapshot'[k + j]
  BY <1>1, DiffIs
<1> HIDE DEF k
<1>6. /\ stored \in Seq(Place) /\ c \in Nat /\ Len(pending') \in Nat
      /\ Len(lines) = c /\ DOMAIN lines = 1..c
      /\ \A i \in 1..c : lines[i] = stored[i] /\ lines[i][1] \in Pod /\ lines[i][2] \in Nat
  BY <1>1, <1>2, <1>5, LinesAre DEF TypeOK
<1>7. /\ Len(lines') = c + Len(pending') /\ DOMAIN lines' = 1..Len(lines')
      /\ \A i \in 1..Len(lines') : lines'[i] = IF i <= c THEN lines[i] ELSE pending'[i - c]
  <2>1. stored' = stored /\ stored \in Seq(Place) /\ pending' \in Seq(Place)
    BY <1>1, <1>5, <1>6
  <2>2. /\ Len(lines') = Len(stored) + Len(pending') /\ DOMAIN lines' = 1..Len(lines')
        /\ \A i \in 1..Len(lines') :
             lines'[i] = IF i <= Len(stored) THEN stored[i] ELSE pending'[i - Len(stored)]
    BY <2>1 DEF lines
  <2> QED
    BY <1>6, <2>2
<1>8. \A i \in 1..Len(lines') :
        \/ i \in 1..c /\ lines'[i] = lines[i]
        \/ i - c \in 1..Len(pending') /\ lines'[i] = pending'[i - c]
  BY <1>6, <1>7
\* The new lines.
<1>9. \A j \in 1..Len(pending') :
        /\ k + j \in 1..Len(snapshot') /\ pending'[j] = snapshot'[k + j]
        /\ pending'[j][1] = first /\ pending'[j][2] \in TailAt(first, n)
        /\ pending'[j][2] \in Nat
  <2> SUFFICES ASSUME NEW j \in 1..Len(pending')
               PROVE  /\ k + j \in 1..Len(snapshot') /\ pending'[j] = snapshot'[k + j]
                      /\ pending'[j][1] = first /\ pending'[j][2] \in TailAt(first, n)
                      /\ pending'[j][2] \in Nat
    OBVIOUS
  <2>1. k + j \in 1..Len(snapshot') /\ pending'[j] = snapshot'[k + j]
    BY <1>3, <1>4, <1>5
  <2> QED
    BY <1>3, <2>1
<1>10. \A j, m \in 1..Len(pending') : j < m => pending'[j][2] < pending'[m][2]
  <2> SUFFICES ASSUME NEW j \in 1..Len(pending'), NEW m \in 1..Len(pending'), j < m
               PROVE  pending'[j][2] < pending'[m][2]
    OBVIOUS
  <2>1. k + j < k + m
    BY <1>4, <1>6
  <2> QED
    BY <1>3, <1>9, <2>1
<1>11. \A j \in 1..Len(pending') : pending'[j][2] <= n /\ output[first][pending'[j][2]] # Blank
  <2>1. \A i \in TailAt(first, n) : i <= n /\ output[first][i] # Blank
    BY <1>1, <1>2, TailIs
  <2> QED
    BY <1>9, <2>1
\* They come after what is there of their pod.
<1>12. ASSUME NEW i \in 1..c, lines[i][1] = first, NEW j \in 1..Len(pending')
       PROVE  lines[i][2] < pending'[j][2]
  <2>1. snapshot # <<>> => /\ snapshot[1][1] = first
                           /\ lines[i][2] <= snapshot[Len(snapshot)][2]
    BY <1>6, <1>12 DEF OrderInv, Reached
  <2>2. snapshot # <<>> /\ pending'[j][2] > snapshot[Len(snapshot)][2]
    BY <2>1, NewIsLater
  <2>3. snapshot[Len(snapshot)][2] \in Nat
    BY <1>1, <2>2 DEF Place
  <2> QED
    BY <1>6, <1>9, <2>1, <2>2, <2>3
<1>13. Turns'
  <2>1. \A i \in 1..c : lines[i][1] \in former \cup {first}
    BY <1>6 DEF OrderInv, Turns
  <2>2. \A i \in 1..Len(lines') : lines'[i][1] \in former \cup {first}
    BY <1>8, <1>9, <2>1
  <2> QED
    BY <1>1, <1>7, <2>2 DEF OrderInv, Turns
<1>14. Printed'
  <2>1. \A i \in 1..c :
          lines[i][2] <= Len(output[lines[i][1]]) /\ output[lines[i][1]][lines[i][2]] # Blank
    BY <1>6 DEF OrderInv, Printed, Text
  <2>2. \A j \in 1..Len(pending') :
          /\ pending'[j][2] <= Len(output[pending'[j][1]])
          /\ output[pending'[j][1]][pending'[j][2]] # Blank
    BY <1>9, <1>11
  <2>3. \A i \in 1..Len(lines') :
          /\ lines'[i][2] <= Len(output[lines'[i][1]])
          /\ output[lines'[i][1]][lines'[i][2]] # Blank
    BY <1>8, <2>1, <2>2
  <2> QED
    BY <1>1, <1>7, <2>3 DEF Printed, Text
<1>15. InTurn'
  <2> SUFFICES ASSUME NEW i \in 1..Len(lines'), NEW j \in 1..Len(lines'), i < j,
                      lines'[i][1] = first
               PROVE  lines'[j][1] = first
    BY <1>1, <1>7 DEF InTurn
  <2>1. CASE j \in 1..c
    <3>1. i \in 1..c
      BY <1>6, <2>1
    <3> QED
      BY <1>6, <1>7, <2>1, <3>1 DEF OrderInv, InTurn
  <2>2. CASE j \notin 1..c
    BY <1>8, <1>9, <2>2
  <2> QED
    BY <2>1, <2>2
<1>16. Reached'
  <2> DEFINE last == snapshot'[Len(snapshot')]
  <2>1. snapshot'[1][1] = first /\ last[2] \in TailAt(first, n) /\ last[2] \in Nat
    BY <1>3
  <2>2. \A m \in 1..Len(snapshot') : snapshot'[m][2] <= last[2]
    <3> SUFFICES ASSUME NEW m \in 1..Len(snapshot') PROVE snapshot'[m][2] <= last[2]
      OBVIOUS
    <3>1. m = Len(snapshot') \/ m < Len(snapshot')
      BY <1>3
    <3>2. Len(snapshot') \in 1..Len(snapshot')
      BY <1>3
    <3> QED
      BY <1>3, <2>1, <3>1, <3>2
  <2>3. ASSUME NEW i \in 1..c, lines[i][1] = first
        PROVE  lines[i][2] <= last[2]
    <3>1. /\ lines[i] = stored[i] /\ lines[i] \in Place /\ lines[i][2] <= n
          /\ Text(lines[i]) # Blank
      BY <1>2, <1>6, <2>3, LinesAre DEF OrderInv, Printed
    <3>2. lines[i][2] \in 1..n /\ output[first][lines[i][2]] # Blank
      BY <1>1, <2>3, <3>1 DEF Place, Text
    <3>3. CASE lines[i][2] \in TailAt(first, n)
      <4>1. PICK m \in 1..Len(snapshot') : snapshot'[m][2] = lines[i][2]
        BY <1>1, <1>2, <3>3, AllSeen
      <4> QED
        BY <2>2, <4>1
    <3>4. CASE lines[i][2] \notin TailAt(first, n)
      <4>1. ~(lines[i][2] + TailLines > n) /\ last[2] + TailLines > n
        BY <2>1, <3>2, <3>4 DEF TailAt
      <4>2. TailLines \in Nat /\ lines[i][2] \in Nat /\ n \in Nat /\ last[2] \in Nat
        BY <1>1, <1>6, <2>1, TailAssumption
      <4> HIDE DEF last, n
      <4> QED
        BY <4>1, <4>2
    <3> QED
      BY <3>3, <3>4
  <2>4. \A j \in 1..Len(pending') : pending'[j][2] <= last[2]
    BY <1>9, <2>2
  <2>5. ASSUME NEW i \in 1..Len(lines'), lines'[i][1] = first
        PROVE  lines'[i][2] <= last[2]
    <3>1. CASE i \in 1..c /\ lines'[i] = lines[i]
      BY <2>3, <2>5, <3>1
    <3>2. CASE i - c \in 1..Len(pending') /\ lines'[i] = pending'[i - c]
      BY <2>4, <3>2
    <3> QED
      BY <1>8, <3>1, <3>2
  <2> QED
    BY <1>1, <1>7, <2>1, <2>5 DEF Reached
<1>17. Ordered(lines)'
  <2> SUFFICES ASSUME NEW i \in 1..Len(lines'), NEW j \in 1..Len(lines'), i < j
               PROVE  \/ lines'[i][1] = lines'[j][1] /\ lines'[i][2] < lines'[j][2]
                      \/ /\ lines'[i][1] # lines'[j][1]
                         /\ \A m \in j..Len(lines') : lines'[m][1] # lines'[i][1]
    BY <1>7 DEF Ordered
  <2>1. CASE i \in 1..c /\ j \in 1..c
    <3>1. lines'[i] = lines[i] /\ lines'[j] = lines[j]
      BY <1>6, <1>7, <2>1
    <3>2. CASE lines[i][1] = lines[j][1] /\ lines[i][2] < lines[j][2]
      BY <3>1, <3>2
    <3>3. CASE /\ lines[i][1] # lines[j][1]
               /\ \A m \in j..Len(lines) : lines[m][1] # lines[i][1]
      <4>1. lines[i][1] # first
        BY <1>6, <2>1, <3>3 DEF OrderInv, InTurn
      <4>2. ASSUME NEW m \in j..Len(lines')
            PROVE  lines'[m][1] # lines[i][1]
        <5>1. m \in 1..Len(lines')
          BY <1>6, <1>7
        <5>2. CASE m \in 1..c /\ lines'[m] = lines[m]
          BY <1>6, <3>3, <5>2
        <5>3. CASE m - c \in 1..Len(pending') /\ lines'[m] = pending'[m - c]
          BY <1>9, <4>1, <5>3
        <5> QED
          BY <1>8, <5>1, <5>2, <5>3
      <4> QED
        BY <3>1, <3>3, <4>2
    <3> QED
      BY <1>6, <2>1, <3>2, <3>3 DEF OrderInv, Ordered
  <2>2. CASE i \in 1..c /\ j \notin 1..c
    <3>1. /\ lines'[i] = lines[i] /\ j - c \in 1..Len(pending')
          /\ lines'[j] = pending'[j - c] /\ lines'[j][1] = first
      BY <1>6, <1>7, <1>8, <1>9, <2>2
    <3>2. CASE lines[i][1] = first
      BY <1>12, <2>2, <3>1, <3>2
    <3>3. CASE lines[i][1] # first
      <4>1. ASSUME NEW m \in j..Len(lines')
            PROVE  lines'[m][1] = first
        <5>1. m \in 1..Len(lines') /\ m \notin 1..c
          BY <1>6, <1>7, <2>2
        <5> QED
          BY <1>8, <1>9, <5>1
      <4> QED
        BY <3>1, <3>3, <4>1
    <3> QED
      BY <3>2, <3>3
  <2>3. CASE i \notin 1..c
    <3>1. j \notin 1..c
      BY <1>6, <2>3
    <3>2. /\ i - c \in 1..Len(pending') /\ lines'[i] = pending'[i - c]
          /\ j - c \in 1..Len(pending') /\ lines'[j] = pending'[j - c]
      BY <1>8, <2>3, <3>1
    <3>3. i - c < j - c
      BY <1>6, <1>7
    <3> QED
      BY <1>9, <1>10, <3>2, <3>3
  <2> QED
    BY <2>1, <2>2, <2>3
<1> QED
  BY <1>13, <1>14, <1>15, <1>16, <1>17 DEF OrderInv

LEMMA NextKeepsOrder ==
  ASSUME ~ComesBack
  PROVE  SnapshotInv /\ SnapshotInv' /\ OrderInv /\ [Next]_vars => OrderInv'
<1> SUFFICES ASSUME SnapshotInv, SnapshotInv', OrderInv, [Next]_vars PROVE OrderInv'
  OBVIOUS
<1>1. TypeOK /\ TypeOK'
  BY DEF SnapshotInv
<1>2. CASE UNCHANGED vars
  BY <1>2 DEF vars, OrderInv, Turns, Printed, Reached, InTurn, Ordered, lines, Text
<1>3. CASE Next
  BY <1>1, <1>3, EmitKeepsOrder, PodsChangeKeepsOrder, PollKeepsOrder, AppendLineKeepsOrder,
     RestartKeepsOrder DEF Next
<1> QED
  BY <1>2, <1>3

\* If no pod is listed first again after another one was, the lines of a pod are stored
\* in the order it printed them, none of them twice, however often texts repeat and
\* whatever lines get lost or restarts happen (handler.go 119-174, 405-437).
THEOREM TailInOrder ==
  ASSUME ~ComesBack
  PROVE  Spec => []StoredInOrder
<1>1. SnapshotInv /\ OrderInv => StoredInOrder
  <2> SUFFICES ASSUME SnapshotInv, OrderInv PROVE StoredInOrder
    OBVIOUS
  <2>1. /\ Len(stored) \in Nat /\ Len(lines) \in Nat /\ Len(stored) <= Len(lines)
        /\ DOMAIN lines = 1..Len(lines) /\ DOMAIN stored = 1..Len(stored)
        /\ \A i \in 1..Len(stored) : lines[i] = stored[i]
    BY LinesAre DEF SnapshotInv, TypeOK
  <2>2. \A i \in DOMAIN stored : i \in DOMAIN lines
    BY <2>1
  <2>3. \A j \in DOMAIN stored : \A k \in j..Len(stored) :
          k \in j..Len(lines) /\ k \in 1..Len(stored)
    BY <2>1
  <2> QED
    BY <2>1, <2>2, <2>3 DEF StoredInOrder, OrderInv, Ordered
<1>2. Spec => []OrderInv
  <2>1. SnapshotInv /\ SnapshotInv' /\ OrderInv /\ [Next]_vars => OrderInv'
    BY NextKeepsOrder
  <2> QED
    BY <2>1, SnapshotInvariant, InitOrder, PTL DEF Spec
<1> QED
  BY <1>1, <1>2, SnapshotInvariant, PTL

\* A pod that is listed first again is the only way to what handler.go 425-427 is
\* to prevent: without it no line is stored twice, chance overlaps included.
THEOREM NothingTwice ==
  ASSUME ~ComesBack
  PROVE  Spec => []NoTailTwice
<1>1. SnapshotInv /\ StoredInOrder => NoTailTwice
  <2> SUFFICES ASSUME SnapshotInv, StoredInOrder,
                      NEW i \in DOMAIN stored, NEW j \in DOMAIN stored,
                      stored[i] = stored[j], i # j
               PROVE  FALSE
    BY DEF NoTailTwice
  <2>1. /\ i \in Nat /\ j \in Nat
        /\ stored[i] \in Place /\ stored[j] \in Place
    BY DEF SnapshotInv, TypeOK
  <2>2. stored[i][2] \in Nat
    BY <2>1 DEF Place
  <2>3. CASE i < j
    BY <2>2, <2>3 DEF StoredInOrder
  <2>4. CASE j < i
    BY <2>2, <2>4 DEF StoredInOrder
  <2> QED
    BY <2>1, <2>3, <2>4
<1> QED
  BY <1>1, TailInOrder, SnapshotInvariant, PTL
-----------------------------------------------------------------------------
(* Exactly what is new.                                                     *)

LEMMA EndIsSuffix ==
  ASSUME NEW curr \in Seq(Place), NEW new \in Seq(Place), NEW u \in Nat, u <= Len(curr),
         Len(new) = Len(curr) - u, \A j \in 1..Len(new) : new[j] = curr[u + j]
  PROVE  IsSuffix(new, curr)
<1> DEFINE a == Reverse(new)
           b == Reverse(curr)
<1>1. Len(curr) \in Nat /\ Len(new) \in Nat /\ Len(new) <= Len(curr)
  OBVIOUS
<1>2. /\ a \in Seq(Place) /\ Len(a) = Len(new)
      /\ \A i \in 1..Len(new) : a[i] = new[(Len(new) - i) + 1]
  BY <1>1 DEF Reverse
<1>3. /\ b \in Seq(Place) /\ Len(b) = Len(curr)
      /\ \A i \in 1..Len(curr) : b[i] = curr[(Len(curr) - i) + 1]
  BY <1>1 DEF Reverse
<1> HIDE DEF a, b
<1>4. ASSUME NEW i \in 1..Len(new)
      PROVE  a[i] = b[i]
  <2>1. (Len(new) - i) + 1 \in 1..Len(new) /\ u + ((Len(new) - i) + 1) = (Len(curr) - i) + 1
    BY <1>1
  <2>2. i \in 1..Len(curr)
    BY <1>1
  <2> QED
    BY <1>2, <1>3, <2>1, <2>2
<1>5. SubSeq(a, 1, Len(a)) = SubSeq(b, 1, Len(a))
  BY <1>1, <1>2, <1>3, <1>4
<1>6. IsPrefix(a, b)
  BY <1>1, <1>2, <1>3, <1>5 DEF IsPrefix
<1> QED
  BY <1>6 DEF IsSuffix, a, b

\* Tails that read alike do so from the first line on.
LEMMA FirstReadsAlike ==
  ASSUME NEW prev \in Seq(Place), NEW curr \in Seq(Place), NEW k \in Nat \ {0},
         k <= Len(prev), k <= Len(curr), ReadsLike(prev, curr, k)
  PROVE  Text(prev[Len(prev) - k + 1]) = Text(curr[1])
<1> DEFINE a == Texts(prev)
           b == Texts(curr)
<1>1. /\ Len(prev) \in Nat /\ DOMAIN prev = 1..Len(prev)
      /\ Len(curr) \in Nat /\ DOMAIN curr = 1..Len(curr)
  OBVIOUS
<1>2. Len(prev) - k + 1 \in DOMAIN prev /\ 1 \in DOMAIN curr
  BY <1>1
<1>3. a[Len(prev) - k + 1] = Text(prev[Len(prev) - k + 1]) /\ b[1] = Text(curr[1])
  BY <1>2 DEF Texts
<1> HIDE DEF a, b
<1>4. SubSeq(a, Len(prev) - k + 1, Len(prev))[1] = a[Len(prev) - k + 1]
  BY <1>1
<1>5. SubSeq(b, 1, k)[1] = b[1]
  BY <1>1
<1> QED
  BY <1>3, <1>4, <1>5 DEF ReadsLike, a, b

LEMMA PollIsExact ==
  ASSUME SnapshotInv, PollServiceLogs, ToSet(snapshot) \cap ToSet(snapshot') # {},
         \A x, y \in ToSet(snapshot) \cup ToSet(snapshot') : Text(x) = Text(y) => x = y
  PROVE  /\ IsSuffix(pending', snapshot')
         /\ ToSet(pending') = ToSet(snapshot') \ ToSet(snapshot)
<1> DEFINE n2 == Len(output[first])
           k == Overlap(snapshot, snapshot')
<1>1. /\ first \in Pod /\ n2 \in Nat \ {0} /\ snapshot' = InOrder(first, TailAt(first, n2))
      /\ snapshot \in Seq(Place) /\ snapshot' \in Seq(Place)
      /\ pending' = DiffNewTail(snapshot, snapshot')
  BY PollSees
<1>2. TypeOK /\ Taken
  BY DEF SnapshotInv
<1>3. /\ ToSet(snapshot) = {snapshot[i] : i \in 1..Len(snapshot)}
      /\ ToSet(snapshot') = {snapshot'[i] : i \in 1..Len(snapshot')}
      /\ Len(snapshot) \in Nat /\ Len(snapshot') \in Nat
  BY <1>1 DEF ToSet
<1>4. PICK x \in 1..Len(snapshot), y \in 1..Len(snapshot') : snapshot[x] = snapshot'[y]
  BY <1>3
<1>5. snapshot # <<>>
  BY <1>4
<1>6. PICK q \in Pod : \E n \in 1..Len(output[q]) :
        TailAt(q, n) # {} /\ snapshot = InOrder(q, TailAt(q, n))
  BY <1>2, <1>5 DEF Taken
<1>7. PICK n1 \in 1..Len(output[q]) : TailAt(q, n1) # {} /\ snapshot = InOrder(q, TailAt(q, n1))
  BY <1>6
<1>8. n1 \in 0..Len(output[q]) /\ n1 \in Nat /\ n2 \in 0..n2
  BY <1>1, <1>2, <1>6 DEF TypeOK
<1>9. /\ \A i \in 1..Len(snapshot) : snapshot[i][1] = q /\ snapshot[i][2] \in TailAt(q, n1)
      /\ \A i, j \in 1..Len(snapshot) : i < j => snapshot[i][2] < snapshot[j][2]
  BY <1>2, <1>7, <1>8, SeenIs
<1>10. \A i \in 1..Len(snapshot') :
          /\ snapshot'[i][1] = first
          /\ snapshot'[i][2] \in TailAt(first, n2)
  BY <1>1, <1>2, <1>8, SeenIs
<1>11. q = first
  BY <1>4, <1>9, <1>10
<1>12. n1 <= n2 /\ n1 \in 0..n2 /\ snapshot = InOrder(first, TailAt(first, n1))
  BY <1>7, <1>8, <1>11
<1> DEFINE S == TailAt(first, n1)
           T == TailAt(first, n2)
           u == Cardinality(S \cap T)
<1>13. /\ u \in Nat /\ u <= Len(snapshot) /\ u <= Len(snapshot') /\ u <= k
       /\ \A m \in 1..u : snapshot[Len(snapshot) - u + m] = snapshot'[m]
       /\ \A n \in 1..Len(snapshot') : n > u => snapshot'[n][2] > n1
  <2>1. /\ TypeOK /\ first \in Pod /\ n1 \in 0..n2 /\ n2 \in 0..n2 /\ n1 <= n2
        /\ snapshot = InOrder(first, TailAt(first, n1))
        /\ snapshot' = InOrder(first, TailAt(first, n2))
    BY <1>1, <1>2, <1>8, <1>12
  <2>2. PICK v : v = Cardinality(TailAt(first, n1) \cap TailAt(first, n2))
    OBVIOUS
  <2>3. v \in Nat /\ v <= Len(snapshot) /\ v <= Len(snapshot') /\ v <= k
    BY <2>1, <2>2, TailsOverlap
  <2>4. \A n \in 1..Len(snapshot') : n > v => snapshot'[n][2] > n1
    BY <2>1, <2>2, TailsOverlap
  <2>5. \A m \in 1..v : snapshot[Len(snapshot) - v + m] = snapshot'[m]
    BY <2>1, <2>2, TailsOverlap
  <2>6. v = u
    BY <2>2
  <2> QED
    BY <2>3, <2>4, <2>5, <2>6
<1>14. u # 0
  <2>1. snapshot[x][2] \in S \cap T
    BY <1>4, <1>9, <1>10, <1>11
  <2>2. IsFiniteSet(S \cap T)
    BY <1>1, <1>2, <1>12, TailIs, FS_Intersection
  <2> QED
    BY <2>1, <2>2, FS_EmptySet
<1> HIDE DEF u
<1>15. /\ k \in Nat /\ k <= Len(snapshot) /\ k <= Len(snapshot')
       /\ (k # 0 => ReadsLike(snapshot, snapshot', k))
  BY <1>1, OverlapIs
<1> HIDE DEF k
<1>16. k = u
  <2>1. k \in Nat \ {0} /\ ReadsLike(snapshot, snapshot', k)
    BY <1>13, <1>14, <1>15
  <2>2. Text(snapshot[Len(snapshot) - k + 1]) = Text(snapshot'[1])
    BY <1>1, <1>15, <2>1, FirstReadsAlike
  <2>3. Len(snapshot) - k + 1 \in 1..Len(snapshot) /\ 1 \in 1..Len(snapshot')
    BY <1>3, <1>15, <2>1
  <2>4. snapshot[Len(snapshot) - k + 1] = snapshot'[1]
    BY <1>3, <2>2, <2>3
  <2>5. /\ Len(snapshot) - u + 1 \in 1..Len(snapshot)
        /\ snapshot[Len(snapshot) - u + 1] = snapshot'[1]
    BY <1>3, <1>13, <1>14
  <2>6. \A i, j \in 1..Len(snapshot) : snapshot[i] = snapshot[j] => ~(i < j)
    <3>1. \A i \in 1..Len(snapshot) : snapshot[i][2] \in Nat
      BY <1>1 DEF Place
    <3> SUFFICES ASSUME NEW i \in 1..Len(snapshot), NEW j \in 1..Len(snapshot),
                        snapshot[i] = snapshot[j], i < j
                 PROVE  FALSE
      OBVIOUS
    <3>2. snapshot[i][2] < snapshot[j][2] /\ snapshot[i][2] = snapshot[j][2]
      BY <1>9
    <3> QED
      BY <3>1, <3>2
  <2>7. ~(Len(snapshot) - k + 1 < Len(snapshot) - u + 1)
        /\ ~(Len(snapshot) - u + 1 < Len(snapshot) - k + 1)
    BY <2>3, <2>4, <2>5, <2>6
  <2> QED
    BY <1>3, <1>13, <1>15, <2>7
<1>17. /\ pending' \in Seq(Place) /\ Len(pending') = Len(snapshot') - u
       /\ \A j \in 1..Len(pending') : pending'[j] = snapshot'[u + j]
  BY <1>1, <1>14, <1>16, DiffIs DEF k
<1>18. IsSuffix(pending', snapshot')
  BY <1>1, <1>13, <1>17, EndIsSuffix
<1>19. ToSet(pending') = ToSet(snapshot') \ ToSet(snapshot)
  <2>1. ToSet(pending') = {pending'[j] : j \in 1..Len(pending')}
    BY <1>17 DEF ToSet
  <2>2. ASSUME NEW m \in 1..Len(snapshot'), m > u
        PROVE  snapshot'[m] \in ToSet(pending') /\ snapshot'[m] \notin ToSet(snapshot)
    <3>1. m - u \in 1..Len(pending') /\ u + (m - u) = m
      BY <1>3, <1>13, <1>17, <2>2
    <3>2. snapshot'[m] \in ToSet(pending')
      BY <1>17, <2>1, <3>1
    <3>3. snapshot'[m][2] > n1 /\ snapshot'[m][2] \in Nat
      BY <1>1, <1>13, <2>2 DEF Place
    <3>4. \A i \in 1..Len(snapshot) : snapshot[i][2] <= n1 /\ snapshot[i][2] \in Nat
      BY <1>1, <1>2, <1>6, <1>8, <1>9, TailIs
    <3>5. \A i \in 1..Len(snapshot) : snapshot[i] # snapshot'[m]
      BY <1>8, <3>3, <3>4
    <3> QED
      BY <1>3, <3>2, <3>5
  <2>3. ASSUME NEW m \in 1..Len(snapshot'), ~(m > u)
        PROVE  snapshot'[m] \in ToSet(snapshot)
    <3>1. m \in 1..u
      BY <1>3, <1>13, <2>3
    <3>2. /\ Len(snapshot) - u + m \in 1..Len(snapshot)
          /\ snapshot[Len(snapshot) - u + m] = snapshot'[m]
      BY <1>3, <1>13, <3>1
    <3> QED
      BY <1>3, <3>2
  <2>4. \A j \in 1..Len(pending') :
          /\ u + j \in 1..Len(snapshot') /\ u + j > u
          /\ pending'[j] = snapshot'[u + j]
    BY <1>3, <1>13, <1>17
  <2>5. ASSUME NEW z \in ToSet(pending')
        PROVE  z \in ToSet(snapshot') /\ z \notin ToSet(snapshot)
    <3>1. PICK j \in 1..Len(pending') : z = pending'[j]
      BY <2>1
    <3>2. PICK m \in 1..Len(snapshot') : m > u /\ z = snapshot'[m]
      BY <2>4, <3>1
    <3> QED
      BY <1>3, <2>2, <3>2
  <2>6. ASSUME NEW z \in ToSet(snapshot'), z \notin ToSet(snapshot)
        PROVE  z \in ToSet(pending')
    <3>1. PICK m \in 1..Len(snapshot') : z = snapshot'[m]
      BY <1>3
    <3> QED
      BY <2>2, <2>3, <2>6, <3>1
  <2> QED
    BY <2>5, <2>6
<1> QED
  BY <1>18, <1>19

\* Between two polls of one pod whose tails share a line, and in whose tails no text
\* repeats, exactly the lines printed in between are taken for new, for any length of
\* the tails and any number of blank lines (handler.go 405-437).
THEOREM ExactlyTheNew == Spec => ExactTail
<1>1. SnapshotInv /\ [Next]_vars =>
        [LET shared == ToSet(snapshot) \cap ToSet(snapshot')
             tails == ToSet(snapshot) \cup ToSet(snapshot')
             distinct == \A x, y \in tails : Text(x)' = Text(y)' => x = y
         IN  snapshot' # snapshot /\ shared # {} /\ distinct =>
               /\ IsSuffix(pending', snapshot')
               /\ ToSet(pending') = ToSet(snapshot') \ ToSet(snapshot)]_vars
  <2> SUFFICES ASSUME SnapshotInv, Next, snapshot' # snapshot,
                      ToSet(snapshot) \cap ToSet(snapshot') # {},
                      \A x, y \in ToSet(snapshot) \cup ToSet(snapshot') :
                        Text(x)' = Text(y)' => x = y
               PROVE  /\ IsSuffix(pending', snapshot')
                      /\ ToSet(pending') = ToSet(snapshot') \ ToSet(snapshot)
    OBVIOUS
  <2>1. CASE PollServiceLogs
    <3>1. \A x : Text(x)' = Text(x)
      BY <2>1 DEF PollServiceLogs, Text
    <3> QED
      BY <2>1, <3>1, PollIsExact
  <2>2. CASE Restart
    <3>1. ToSet(snapshot') = {}
      BY <2>2 DEF Restart, ToSet
    <3> QED
      BY <3>1
  <2> QED
    BY <2>1, <2>2 DEF Next, Emit, PodsChange, AppendLine
<1> QED
  BY <1>1, SnapshotInvariant, PTL DEF Spec, ExactTail
=============================================================================
