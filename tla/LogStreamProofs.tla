--------------------------- MODULE LogStreamProofs ---------------------------
(***************************************************************************)
(* Proofs about LogStream for any number of handlers, connections and      *)
(* lines, any sizes and any number of restarts.                            *)
(***************************************************************************)
EXTENDS LogStream, SequenceTheorems, TLAPS

Distinct(s) == \A i, j \in DOMAIN s : s[i] = s[j] => i = j

\* The entries handler h has yet to append.
Ahead(h) ==
  IF at[h] \in {"lock", "send"} THEN ToSet(Tail(todo[h])) ELSE ToSet(todo[h])

\* Handler h has stored an entry and not offered it to c yet.
Owes(h, c) == at[h] = "lock" \/ (at[h] = "send" /\ c \in targets[h])

\* A line is in the batch, with one handler, or through with it.
Lineage ==
  /\ ToSet(batch) \cup ToSet(store) \subseteq 1..lines
  /\ Ascending(batch) /\ Distinct(store)
  /\ ToSet(batch) \cap ToSet(store) = {}
  /\ \A h \in Handler :
       /\ at[h] = "idle" <=> todo[h] = <<>>
       /\ ToSet(todo[h]) \subseteq 1..lines
       /\ Ascending(todo[h])
       /\ ToSet(batch) \cap ToSet(todo[h]) = {}
       /\ Ahead(h) \cap ToSet(store) = {}
       /\ at[h] \in {"lock", "send"} => Head(todo[h]) \in ToSet(store)
       /\ \A g \in Handler \ {h} : ToSet(todo[g]) \cap ToSet(todo[h]) = {}

\* A stored entry is owed to a connection, in its buffer, or through with it.
Delivery ==
  \A c \in Conn :
    /\ Distinct(seen[c]) /\ Distinct(buffer[c])
    /\ ToSet(seen[c]) \cap ToSet(buffer[c]) = {}
    /\ ToSet(seen[c]) \cup ToSet(buffer[c]) \subseteq ToSet(store)
    /\ \A h \in Handler :
         Owes(h, c) => Head(todo[h]) \notin ToSet(seen[c]) \cup ToSet(buffer[c])

\* As long as the collector waits for its answers, what is further along is older.
Before(A, B) == \A x \in A, y \in B : x < y

Orderly ==
  ~late =>
    /\ Ascending(store) /\ Before(ToSet(store), ToSet(batch))
    /\ \A h \in Handler :
         /\ at[h] # "idle" => sending = h /\ batch = <<>>
         /\ Before(ToSet(store), Ahead(h))
    /\ \A c \in Conn :
         /\ Ascending(seen[c]) /\ Ascending(buffer[c])
         /\ Before(ToSet(seen[c]), ToSet(buffer[c]))
         /\ \A h \in Handler :
              Owes(h, c) =>
                Before(ToSet(seen[c]) \cup ToSet(buffer[c]), {Head(todo[h])})

StreamInv == TypeOK /\ Lineage /\ Delivery /\ Orderly
-----------------------------------------------------------------------------
(* Facts about sequences of entries.                                        *)

\* What the empty sequence, Append, Head and Tail do to the entries in a sequence.
LEMMA NothingIn == ToSet(<<>>) = {} /\ Distinct(<<>>) /\ Ascending(<<>>)
  BY DEF ToSet, Distinct, Ascending

LEMMA InAppended ==
  ASSUME NEW s \in Seq(Entry), NEW e \in Entry
  PROVE  /\ Append(s, e) \in Seq(Entry)
         /\ ToSet(Append(s, e)) = ToSet(s) \cup {e}
         /\ Len(Append(s, e)) = Len(s) + 1
<1> DEFINE t == Append(s, e)
<1>1. /\ t \in Seq(Entry) /\ Len(t) = Len(s) + 1 /\ Len(s) \in Nat
      /\ t[Len(s) + 1] = e /\ \A i \in 1..Len(s) : t[i] = s[i]
  BY AppendProperties
<1>2. DOMAIN s = 1..Len(s) /\ DOMAIN t = 1..(Len(s) + 1)
  BY <1>1
<1>3. ASSUME NEW x \in ToSet(t) PROVE x \in ToSet(s) \cup {e}
  BY <1>1, <1>2 DEF ToSet
<1>4. ASSUME NEW x \in ToSet(s) \cup {e} PROVE x \in ToSet(t)
  <2>1. CASE x = e
    <3>1. Len(s) + 1 \in DOMAIN t
      BY <1>1, <1>2
    <3> QED
      BY <1>1, <2>1, <3>1 DEF ToSet
  <2>2. CASE x # e
    <3>1. PICK i \in DOMAIN s : x = s[i]
      BY <2>2, <1>4 DEF ToSet
    <3>2. i \in DOMAIN t /\ t[i] = x
      BY <1>1, <1>2, <3>1
    <3> QED
      BY <3>2 DEF ToSet
  <2> QED
    BY <2>1, <2>2
<1> QED
  BY <1>1, <1>3, <1>4

LEMMA InParts ==
  ASSUME NEW s \in Seq(Entry), s # <<>>
  PROVE  /\ Head(s) \in Entry /\ Tail(s) \in Seq(Entry)
         /\ ToSet(s) = {Head(s)} \cup ToSet(Tail(s))
         /\ Len(Tail(s)) = Len(s) - 1
<1>1. /\ Head(s) = s[1] /\ Tail(s) \in Seq(Entry) /\ Len(s) \in Nat \ {0}
      /\ Len(Tail(s)) = Len(s) - 1 /\ \A i \in 1..(Len(s) - 1) : Tail(s)[i] = s[i + 1]
  BY HeadTailProperties, EmptySeq
<1>2. DOMAIN s = 1..Len(s) /\ DOMAIN Tail(s) = 1..(Len(s) - 1)
  BY <1>1
<1>3. Head(s) \in Entry
  BY <1>1
<1>4. ASSUME NEW x \in ToSet(s) PROVE x \in {Head(s)} \cup ToSet(Tail(s))
  <2>1. PICK i \in DOMAIN s : x = s[i]
    BY DEF ToSet
  <2>2. i = 1 \/ (i - 1 \in DOMAIN Tail(s) /\ Tail(s)[i - 1] = x)
    BY <1>1, <1>2, <2>1
  <2> QED
    BY <1>1, <2>1, <2>2 DEF ToSet
<1>5. ASSUME NEW x \in {Head(s)} \cup ToSet(Tail(s)) PROVE x \in ToSet(s)
  <2>1. \E i \in DOMAIN s : x = s[i]
    BY <1>1, <1>2 DEF ToSet
  <2> QED
    BY <2>1 DEF ToSet
<1> QED
  BY <1>1, <1>3, <1>4, <1>5

LEMMA ElementsType == \A s \in Seq(Entry) : ToSet(s) \subseteq Entry
  BY DEF ToSet

\* A new entry keeps a sequence without repetitions so, a newer one keeps it ascending.
LEMMA StaysSo ==
  ASSUME NEW s \in Seq(Entry), NEW e \in Entry
  PROVE  /\ Distinct(s) /\ e \notin ToSet(s) => Distinct(Append(s, e))
         /\ Ascending(s) /\ Before(ToSet(s), {e}) => Ascending(Append(s, e))
<1> DEFINE t == Append(s, e)
<1>1. /\ Len(t) = Len(s) + 1 /\ Len(s) \in Nat
      /\ t[Len(s) + 1] = e /\ \A i \in 1..Len(s) : t[i] = s[i]
      /\ t \in Seq(Entry)
  BY AppendProperties
<1>2. DOMAIN s = 1..Len(s) /\ DOMAIN t = 1..(Len(s) + 1)
  BY <1>1
<1>3. \A i \in 1..Len(s) : s[i] \in ToSet(s)
  BY <1>2 DEF ToSet
<1>4. \A i \in DOMAIN t : i \in 1..Len(s) \/ i = Len(s) + 1
  BY <1>1, <1>2
<1>5. ASSUME Distinct(s), e \notin ToSet(s) PROVE Distinct(t)
  BY <1>1, <1>2, <1>3, <1>4, <1>5 DEF Distinct
<1>6. ASSUME Ascending(s), Before(ToSet(s), {e}) PROVE Ascending(t)
  BY <1>1, <1>2, <1>3, <1>4, <1>6 DEF Ascending, Before
<1> QED
  BY <1>5, <1>6

\* The head of such a sequence is not in its tail, or older than all of it.
LEMMA TailStaysSo ==
  ASSUME NEW s \in Seq(Entry), s # <<>>
  PROVE  /\ Distinct(s) => Distinct(Tail(s)) /\ Head(s) \notin ToSet(Tail(s))
         /\ Ascending(s) => Ascending(Tail(s)) /\ Before({Head(s)}, ToSet(Tail(s)))
<1>1. /\ Head(s) = s[1] /\ Tail(s) \in Seq(Entry) /\ Len(s) \in Nat \ {0}
      /\ Len(Tail(s)) = Len(s) - 1 /\ \A i \in 1..(Len(s) - 1) : Tail(s)[i] = s[i + 1]
  BY HeadTailProperties, EmptySeq
<1>2. DOMAIN s = 1..Len(s) /\ DOMAIN Tail(s) = 1..(Len(s) - 1)
  BY <1>1
<1>3. \A i \in DOMAIN Tail(s) : i + 1 \in DOMAIN s /\ 1 < i + 1 /\ Tail(s)[i] = s[i + 1]
  BY <1>1, <1>2
<1>4. 1 \in DOMAIN s
  BY <1>1, <1>2
<1>5. DOMAIN Tail(s) \subseteq Nat
  BY <1>2
<1>6. ASSUME Distinct(s) PROVE Distinct(Tail(s)) /\ Head(s) \notin ToSet(Tail(s))
  BY <1>1, <1>3, <1>4, <1>5, <1>6 DEF Distinct, ToSet
<1>7. ASSUME Ascending(s) PROVE Ascending(Tail(s)) /\ Before({Head(s)}, ToSet(Tail(s)))
  <2>1. Ascending(Tail(s))
    BY <1>3, <1>5, <1>7 DEF Ascending
  <2>2. Before({Head(s)}, ToSet(Tail(s)))
    BY <1>1, <1>3, <1>4, <1>7 DEF Ascending, Before, ToSet
  <2> QED
    BY <2>1, <2>2
<1> QED
  BY <1>6, <1>7

LEMMA TwoEnds ==
  ASSUME NEW s \in Seq(Entry), s # <<>>, Ascending(s)
  PROVE  Head(s) \notin ToSet(Tail(s))
<1>1. Before({Head(s)}, ToSet(Tail(s))) /\ Head(s) \in Entry
  BY TailStaysSo, InParts
<1> QED
  BY <1>1 DEF Before, Entry
-----------------------------------------------------------------------------
(* The collector.                                                           *)

LEMMA InitStream == Init => StreamInv
<1> SUFFICES ASSUME Init PROVE StreamInv
  OBVIOUS
<1>1. TypeOK
  <2>1. lines \in 0..MaxLines /\ crashes \in 0..MaxCrashes
    BY BoundAssumption DEF Init
  <2>2. \A c \in Conn : Len(buffer[c]) <= BufferSize
    BY SizeAssumption DEF Init
  <2>3. batch \in Seq(Entry) /\ Len(batch) <= BatchSize
    BY SizeAssumption DEF Init
  <2>4. /\ buffer \in [Conn -> Seq(Entry)] /\ seen \in [Conn -> Seq(Entry)]
        /\ todo \in [Handler -> Seq(Entry)] /\ store \in Seq(Entry)
    BY DEF Init
  <2> QED
    BY <2>1, <2>2, <2>3, <2>4 DEF Init, TypeOK
<1>2. Lineage
  BY NothingIn DEF Init, Lineage, Ahead
<1>3. Delivery
  BY NothingIn DEF Init, Delivery, Owes
<1>4. Orderly
  BY NothingIn DEF Init, Orderly, Before, Ahead, Owes
<1> QED
  BY <1>1, <1>2, <1>3, <1>4 DEF StreamInv

LEMMA ReadLineKeeps == StreamInv /\ ReadLine => StreamInv'
<1> SUFFICES ASSUME StreamInv, ReadLine PROVE StreamInv'
  OBVIOUS
<1>0. /\ sending = Nobody /\ lines < MaxLines /\ Len(batch) < BatchSize
      /\ lines' = lines + 1 /\ batch' = Append(batch, lines + 1)
      /\ UNCHANGED <<sending, late, at, todo, targets, orphan, store, conn, gone, hub, buffer,
                     seen, dropped, crashes>>
  BY DEF ReadLine, Free, ingestVars, connVars
<1>1. /\ lines \in 0..MaxLines /\ lines + 1 \in Entry /\ batch \in Seq(Entry)
      /\ lines' \in 0..MaxLines /\ 1..lines \subseteq 1..lines' /\ lines + 1 \in 1..lines'
      /\ lines + 1 \notin 1..lines /\ \A x \in 1..lines : x < lines + 1
  BY <1>0, BoundAssumption DEF StreamInv, TypeOK, Entry
<1>2. /\ batch' \in Seq(Entry) /\ ToSet(batch') = ToSet(batch) \cup {lines + 1}
      /\ Len(batch') = Len(batch) + 1
  BY <1>0, <1>1, InAppended
<1>3. Ascending(batch')
  BY <1>0, <1>1, StaysSo DEF StreamInv, Lineage, Before
<1>4. Len(batch') <= BatchSize
  BY <1>0, <1>1, <1>2, SizeAssumption
<1>5. TypeOK'
  BY <1>0, <1>1, <1>2, <1>4 DEF StreamInv, TypeOK
<1>6. Lineage'
  BY <1>0, <1>1, <1>2, <1>3 DEF StreamInv, Lineage, Ahead
<1>7. Delivery'
  BY <1>0 DEF StreamInv, Delivery, Owes
<1>8. Orderly'
  <2> SUFFICES ASSUME ~late PROVE Orderly'
    BY <1>0 DEF Orderly
  <2>1. \A h \in Handler : at[h] = "idle"
    BY <1>0, NobodyAssumption DEF StreamInv, Orderly
  <2>2. Before(ToSet(store), ToSet(batch'))
    BY <1>1, <1>2 DEF StreamInv, Orderly, Lineage, Before
  <2> QED
    BY <1>0, <2>1, <2>2 DEF StreamInv, Orderly, Ahead, Owes
<1> QED
  BY <1>5, <1>6, <1>7, <1>8 DEF StreamInv

LEMMA SendFailsKeeps == StreamInv /\ SendFails => StreamInv'
<1> SUFFICES ASSUME StreamInv, SendFails PROVE StreamInv'
  OBVIOUS
<1>0. /\ batch' = <<>>
      /\ UNCHANGED <<lines, sending, late, at, todo, targets, orphan, store, conn, gone, hub,
                     buffer, seen, dropped, crashes>>
  BY DEF SendFails, ingestVars, connVars
<1>1. batch' \in Seq(Entry) /\ Len(batch') <= BatchSize
  BY <1>0, SizeAssumption
<1>2. TypeOK'
  BY <1>0, <1>1 DEF StreamInv, TypeOK
<1>3. Lineage'
  BY <1>0, NothingIn DEF StreamInv, Lineage, Ahead
<1>4. Delivery'
  BY <1>0 DEF StreamInv, Delivery, Owes
<1>5. Orderly'
  BY <1>0, NothingIn DEF StreamInv, Orderly, Ahead, Owes, Before
<1> QED
  BY <1>2, <1>3, <1>4, <1>5 DEF StreamInv

LEMMA GiveUpKeeps == StreamInv /\ GiveUp => StreamInv'
<1> SUFFICES ASSUME StreamInv, GiveUp PROVE StreamInv'
  OBVIOUS
<1>0. /\ late' = TRUE /\ sending' = Nobody /\ sending # Nobody
      /\ orphan' = orphan \cup {sending}
      /\ UNCHANGED <<lines, batch, at, todo, targets, store, conn, gone, hub, buffer, seen,
                     dropped, crashes>>
  BY DEF GiveUp, connVars
<1>1. TypeOK'
  BY <1>0 DEF StreamInv, TypeOK
<1>2. Lineage'
  BY <1>0 DEF StreamInv, Lineage, Ahead
<1>3. Delivery'
  BY <1>0 DEF StreamInv, Delivery, Owes
<1>4. Orderly'
  BY <1>0 DEF Orderly
<1> QED
  BY <1>1, <1>2, <1>3, <1>4 DEF StreamInv

LEMMA SendBatchKeeps ==
  ASSUME StreamInv, NEW h \in Handler, SendBatch(h)
  PROVE  StreamInv'
<1>0. /\ sending = Nobody /\ at[h] = "idle" /\ at' = [at EXCEPT ![h] = "append"]
      /\ todo' = [todo EXCEPT ![h] = batch] /\ sending' = h /\ batch' = <<>>
      /\ UNCHANGED <<lines, late, targets, orphan, store, conn, gone, hub, buffer, seen,
                     dropped, crashes>>
  BY DEF SendBatch, BatchReady, Free, connVars
<1>1. batch # <<>> /\ batch \in Seq(Entry)
  BY SizeAssumption DEF SendBatch, BatchReady, StreamInv, TypeOK
<1>2. /\ at'[h] = "append" /\ todo'[h] = batch
      /\ \A g \in Handler \ {h} : at'[g] = at[g] /\ todo'[g] = todo[g]
  BY <1>0 DEF StreamInv, TypeOK
<1>3. batch' \in Seq(Entry) /\ Len(batch') <= BatchSize
  BY <1>0, SizeAssumption
<1>4. TypeOK'
  BY <1>0, <1>1, <1>3 DEF StreamInv, TypeOK
<1>5. \A g \in Handler : Ahead(g)' = IF g = h THEN ToSet(batch) ELSE Ahead(g)
  BY <1>2 DEF Ahead
<1>6. Lineage'
  BY <1>0, <1>1, <1>2, <1>5, NothingIn DEF StreamInv, Lineage
<1>7. Delivery'
  BY <1>0, <1>2 DEF StreamInv, Delivery, Owes
<1>8. Orderly'
  <2> SUFFICES ASSUME ~late PROVE Orderly'
    BY <1>0 DEF Orderly
  <2>1. \A g \in Handler : at[g] = "idle"
    BY <1>0, NobodyAssumption DEF StreamInv, Orderly
  <2> QED
    BY <1>0, <1>2, <1>5, <2>1, NothingIn DEF StreamInv, Orderly, Owes, Before
<1> QED
  BY <1>4, <1>6, <1>7, <1>8 DEF StreamInv
-----------------------------------------------------------------------------
(* The handlers.                                                            *)

\* The entry a handler has in work, and those after it.
LEMMA InWork ==
  ASSUME StreamInv, NEW h \in Handler, at[h] # "idle"
  PROVE  /\ todo[h] \in Seq(Entry) /\ Head(todo[h]) \in Entry /\ Tail(todo[h]) \in Seq(Entry)
         /\ ToSet(todo[h]) = {Head(todo[h])} \cup ToSet(Tail(todo[h]))
         /\ Head(todo[h]) \notin ToSet(Tail(todo[h]))
         /\ Ascending(Tail(todo[h]))
         /\ Before({Head(todo[h])}, ToSet(Tail(todo[h])))
         /\ ToSet(Tail(todo[h])) \subseteq Ahead(h)
         /\ at[h] = "append" => Ahead(h) = ToSet(todo[h])
<1>1. todo[h] \in Seq(Entry) /\ todo[h] # <<>> /\ Ascending(todo[h])
  BY DEF StreamInv, TypeOK, Lineage
<1>2. ToSet(todo[h]) = {Head(todo[h])} \cup ToSet(Tail(todo[h]))
  BY <1>1, InParts
<1> QED
  BY <1>1, <1>2, InParts, TailStaysSo, TwoEnds DEF Ahead

\* A handler at its Append goes on with the next entry, or is through, and may have
\* stored the one in work before.
LEMMA GoOnKeeps ==
  ASSUME StreamInv, NEW h \in Handler, at[h] # "idle",
         NEW rest \in {<<>>, Tail(todo[h])}, GoOn(h, rest),
         store' = store \/ (at[h] = "append" /\ store' = Append(store, Head(todo[h]))),
         UNCHANGED <<lines, batch, late, targets, conn, gone, hub, buffer, seen, dropped,
                     crashes>>
  PROVE  StreamInv'
<1>0. /\ todo' = [todo EXCEPT ![h] = rest]
      /\ at' = [at EXCEPT ![h] = IF rest = <<>> THEN "idle" ELSE "append"]
      /\ sending' = IF rest = <<>> /\ sending = h THEN Nobody ELSE sending
      /\ orphan' = IF rest = <<>> THEN orphan \ {h} ELSE orphan
  BY DEF GoOn
<1> DEFINE e == Head(todo[h])
           next == ToSet(Tail(todo[h]))
<1>1. /\ todo[h] \in Seq(Entry) /\ e \in Entry /\ Tail(todo[h]) \in Seq(Entry)
      /\ ToSet(todo[h]) = {e} \cup next /\ e \notin next
      /\ Ascending(Tail(todo[h])) /\ Before({e}, next) /\ next \subseteq Ahead(h)
      /\ at[h] = "append" => Ahead(h) = {e} \cup next
  BY InWork
<1>2. rest \in Seq(Entry) /\ ToSet(rest) \subseteq next /\ Ascending(rest)
  <2>1. CASE rest = <<>>
    BY <2>1, NothingIn
  <2>2. CASE rest = Tail(todo[h])
    BY <1>1, <2>2
  <2> QED
    BY <2>1, <2>2
<1>3. /\ todo'[h] = rest /\ at'[h] \in {"idle", "append"} /\ (at'[h] = "idle" <=> rest = <<>>)
      /\ \A g \in Handler \ {h} : at'[g] = at[g] /\ todo'[g] = todo[g]
  BY <1>0 DEF StreamInv, TypeOK
<1>4. \A g \in Handler : Ahead(g)' = IF g = h THEN ToSet(rest) ELSE Ahead(g)
  BY <1>3 DEF Ahead
<1>5. store \in Seq(Entry)
  BY DEF StreamInv, TypeOK
<1>6. /\ store' \in Seq(Entry) /\ ToSet(store) \subseteq ToSet(store')
      /\ store' # store => at[h] = "append" /\ store' = Append(store, e)
                             /\ ToSet(store') = ToSet(store) \cup {e}
  <2>1. CASE store' = store
    BY <1>5, <2>1
  <2>2. CASE at[h] = "append" /\ store' = Append(store, e)
    <3>1. store' \in Seq(Entry) /\ ToSet(store') = ToSet(store) \cup {e}
      BY <1>1, <1>5, <2>2, InAppended
    <3> QED
      BY <2>2, <3>1
  <2> QED
    BY <2>1, <2>2
<1>7. TypeOK'
  BY <1>0, <1>2, <1>6 DEF StreamInv, TypeOK
<1>8. Lineage'
  <2>1. ToSet(store') \subseteq 1..lines /\ ToSet(batch) \cap ToSet(store') = {}
    BY <1>1, <1>6 DEF StreamInv, Lineage
  <2>2. Distinct(store')
    <3>1. at[h] = "append" => e \notin ToSet(store)
      BY <1>1 DEF StreamInv, Lineage
    <3>2. Distinct(store)
      BY DEF StreamInv, Lineage
    <3>3. CASE store' = store
      BY <3>2, <3>3 DEF Distinct
    <3>4. CASE store' # store
      <4>1. Distinct(Append(store, e))
        BY <1>1, <1>6, <1>5, <3>1, <3>2, <3>4, StaysSo
      <4> QED
        BY <1>6, <3>4, <4>1
    <3> QED
      BY <3>3, <3>4
  <2>3. \A g \in Handler : Ahead(g)' \cap ToSet(store') = {}
    <3> TAKE g \in Handler
    <3>1. Ahead(g) \subseteq ToSet(todo[g])
      <4>1. CASE at[g] = "idle"
        BY <4>1 DEF Ahead
      <4>2. CASE at[g] # "idle"
        BY <4>2, InWork DEF Ahead
      <4> QED
        BY <4>1, <4>2
    <3>2. CASE g = h
      <4>1. Ahead(g)' \subseteq next /\ next \cap ToSet(store) = {} /\ e \notin next
        BY <1>1, <1>2, <1>4, <3>2 DEF StreamInv, Lineage
      <4> QED
        BY <1>6, <4>1
    <3>3. CASE g # h
      BY <1>1, <1>4, <1>6, <3>1, <3>3 DEF StreamInv, Lineage
    <3> QED
      BY <3>2, <3>3
  <2>4. ASSUME NEW g \in Handler
        PROVE  /\ at'[g] = "idle" <=> todo'[g] = <<>>
               /\ ToSet(todo'[g]) \subseteq ToSet(todo[g])
               /\ Ascending(todo'[g])
               /\ at'[g] \in {"lock", "send"} => g # h
    BY <1>1, <1>2, <1>3 DEF StreamInv, Lineage
  <2> QED
    BY <1>3, <1>6, <2>1, <2>2, <2>3, <2>4 DEF StreamInv, Lineage
<1>9. Delivery'
  <2>1. \A g \in Handler, c \in Conn : Owes(g, c)' => Owes(g, c) /\ todo'[g] = todo[g]
    BY <1>3 DEF Owes
  <2> QED
    BY <1>6, <2>1 DEF StreamInv, Delivery
<1>10. Orderly'
  <2> SUFFICES ASSUME ~late PROVE Orderly'
    BY DEF Orderly
  <2>1. /\ sending = h /\ batch = <<>> /\ \A g \in Handler \ {h} : at[g] = "idle"
        /\ Ascending(store) /\ Before(ToSet(store), Ahead(h))
    BY DEF StreamInv, Orderly
  <2>2. Ascending(store')
    BY <1>1, <1>6, <1>5, <2>1, StaysSo DEF Before
  <2>3. Before(ToSet(store'), ToSet(rest))
    BY <1>1, <1>2, <1>6, <2>1 DEF Before
  <2>4. ASSUME NEW g \in Handler
        PROVE  /\ at'[g] # "idle" => sending' = g
               /\ Before(ToSet(store'), Ahead(g)')
    <3>1. CASE g = h
      BY <1>0, <1>3, <1>4, <2>1, <2>3, <3>1
    <3>2. CASE g # h
      BY <1>3, <1>4, <2>1, <3>2, NothingIn DEF StreamInv, Lineage, Ahead, Before
    <3> QED
      BY <3>1, <3>2
  <2>5. \A g \in Handler, c \in Conn : ~Owes(g, c)'
    BY <1>3, <2>1 DEF Owes
  <2>6. Before(ToSet(store'), ToSet(batch))
    BY <2>1, NothingIn DEF Before
  <2> QED
    BY <2>1, <2>2, <2>4, <2>5, <2>6 DEF StreamInv, Orderly
<1> QED
  BY <1>7, <1>8, <1>9, <1>10 DEF StreamInv

LEMMA ContextEndsKeeps ==
  ASSUME StreamInv, NEW h \in Handler, ContextEnds(h)
  PROVE  StreamInv'
  BY GoOnKeeps DEF ContextEnds, connVars

LEMMA EndBroadcastKeeps ==
  ASSUME StreamInv, NEW h \in Handler, EndBroadcast(h)
  PROVE  StreamInv'
  BY GoOnKeeps DEF EndBroadcast, connVars

\* An entry that Mongo acknowledged is on its way to every connection.
LEMMA StoredKeeps ==
  ASSUME StreamInv, NEW h \in Handler, at[h] = "append",
         store' = Append(store, Head(todo[h])), at' = [at EXCEPT ![h] = "lock"],
         UNCHANGED <<lines, batch, sending, late, todo, targets, orphan, conn, gone, hub,
                     buffer, seen, dropped, crashes>>
  PROVE  StreamInv'
<1> DEFINE e == Head(todo[h])
           next == ToSet(Tail(todo[h]))
<1>1. /\ e \in Entry /\ ToSet(todo[h]) = {e} \cup next /\ e \notin next
      /\ Before({e}, next) /\ Ahead(h) = {e} \cup next
  BY InWork
<1>2. store \in Seq(Entry)
  BY DEF StreamInv, TypeOK
<1>3. store' \in Seq(Entry) /\ ToSet(store') = ToSet(store) \cup {e}
  BY <1>1, <1>2, InAppended
<1>4. at'[h] = "lock" /\ \A g \in Handler \ {h} : at'[g] = at[g]
  BY DEF StreamInv, TypeOK
<1>5. \A g \in Handler : Ahead(g)' = IF g = h THEN next ELSE Ahead(g)
  BY <1>4 DEF Ahead
<1>6. e \notin ToSet(store)
  BY <1>1 DEF StreamInv, Lineage
<1>7. TypeOK'
  BY <1>3 DEF StreamInv, TypeOK
<1>8. Lineage'
  <2>1. /\ ToSet(store') \subseteq 1..lines /\ ToSet(batch) \cap ToSet(store') = {}
        /\ Distinct(store')
    BY <1>1, <1>2, <1>3, <1>6, StaysSo DEF StreamInv, Lineage
  <2>2. ASSUME NEW g \in Handler
        PROVE  /\ Ahead(g)' \cap ToSet(store') = {}
               /\ at'[g] \in {"lock", "send"} => Head(todo[g]) \in ToSet(store')
    <3>1. CASE g = h
      <4>1. next \cap ToSet(store) = {}
        BY <1>1 DEF StreamInv, Lineage
      <4> QED
        BY <1>1, <1>3, <1>5, <3>1, <4>1
    <3>2. CASE g # h
      <4>1. Ahead(g) \subseteq ToSet(todo[g])
        <5>1. CASE at[g] = "idle"
          BY <5>1 DEF Ahead
        <5>2. CASE at[g] # "idle"
          BY <5>2, InWork DEF Ahead
        <5> QED
          BY <5>1, <5>2
      <4>2. Ahead(g) \cap ToSet(store) = {} /\ e \notin ToSet(todo[g])
        BY <1>1, <3>2 DEF StreamInv, Lineage
      <4> QED
        BY <1>3, <1>4, <1>5, <3>2, <4>1, <4>2 DEF StreamInv, Lineage
    <3> QED
      BY <3>1, <3>2
  <2>3. \A g \in Handler : at'[g] = "idle" <=> todo[g] = <<>>
    BY <1>4 DEF StreamInv, Lineage
  <2> QED
    BY <2>1, <2>2, <2>3 DEF StreamInv, Lineage
<1>9. Delivery'
  <2>1. \A g \in Handler, c \in Conn : Owes(g, c)' => Owes(g, c) \/ g = h
    BY <1>4 DEF Owes
  <2>2. \A c \in Conn : e \notin ToSet(seen[c]) \cup ToSet(buffer[c])
    BY <1>6 DEF StreamInv, Delivery
  <2> QED
    BY <1>3, <2>1, <2>2 DEF StreamInv, Delivery
<1>10. Orderly'
  <2> SUFFICES ASSUME ~late PROVE Orderly'
    BY DEF Orderly
  <2>1. /\ sending = h /\ batch = <<>> /\ \A g \in Handler \ {h} : at[g] = "idle"
        /\ Ascending(store) /\ Before(ToSet(store), {e} \cup next)
    BY <1>1 DEF StreamInv, Orderly
  <2>2. Ascending(store')
    BY <1>1, <1>2, <2>1, StaysSo DEF Before
  <2>3. Before(ToSet(store'), next)
    BY <1>1, <1>3, <2>1 DEF Before
  <2>4. \A g \in Handler \ {h} : Ahead(g) = {}
    BY <2>1, NothingIn DEF StreamInv, Lineage, Ahead
  <2>5. ASSUME NEW g \in Handler
        PROVE  (at'[g] # "idle" => sending = g) /\ Before(ToSet(store'), Ahead(g)')
    BY <1>4, <1>5, <2>1, <2>3, <2>4 DEF Before
  <2>6. \A g \in Handler, c \in Conn : Owes(g, c)' => g = h
    BY <1>4, <2>1 DEF Owes
  <2>7. \A c \in Conn : Before(ToSet(seen[c]) \cup ToSet(buffer[c]), {e})
    BY <2>1 DEF StreamInv, Delivery, Before
  <2>8. Before(ToSet(store'), ToSet(batch))
    BY <2>1, NothingIn DEF Before
  <2> QED
    BY <2>1, <2>2, <2>5, <2>6, <2>7, <2>8 DEF StreamInv, Orderly
<1> QED
  BY <1>7, <1>8, <1>9, <1>10 DEF StreamInv

LEMMA AppendEntryKeeps ==
  ASSUME StreamInv, NEW h \in Handler, AppendEntry(h)
  PROVE  StreamInv'
<1>1. PICK took \in BOOLEAN, ok \in BOOLEAN :
        /\ ok => took
        /\ store' = IF took THEN Append(store, Head(todo[h])) ELSE store
        /\ \/ /\ Broadcasts(took, ok)
              /\ at' = [at EXCEPT ![h] = "lock"]
              /\ UNCHANGED <<todo, sending, orphan>>
           \/ /\ ~Broadcasts(took, ok)
              /\ GoOn(h, Tail(todo[h]))
  BY DEF AppendEntry
<1>2. /\ at[h] = "append"
      /\ UNCHANGED <<lines, batch, late, targets, conn, gone, hub, buffer, seen, dropped,
                     crashes>>
  BY DEF AppendEntry, connVars
<1>3. CASE GoOn(h, Tail(todo[h]))
  BY <1>1, <1>2, <1>3, GoOnKeeps
<1>4. CASE ok /\ at' = [at EXCEPT ![h] = "lock"] /\ UNCHANGED <<todo, sending, orphan>>
  <2>1. store' = Append(store, Head(todo[h]))
    BY <1>1, <1>4
  <2> QED
    BY <1>2, <1>4, <2>1, StoredKeeps
<1> QED
  BY <1>1, <1>3, <1>4 DEF Broadcasts

LEMMA StartBroadcastKeeps ==
  ASSUME StreamInv, NEW h \in Handler, StartBroadcast(h)
  PROVE  StreamInv'
<1>0. /\ at[h] = "lock" /\ at' = [at EXCEPT ![h] = "send"]
      /\ targets' = [targets EXCEPT ![h] = hub]
      /\ UNCHANGED <<lines, batch, sending, late, todo, orphan, store, conn, gone, hub, buffer,
                     seen, dropped, crashes>>
  BY DEF StartBroadcast, collectorVars, connVars
<1>1. /\ at'[h] = "send" /\ \A g \in Handler \ {h} : at'[g] = at[g] /\ targets'[g] = targets[g]
  BY <1>0 DEF StreamInv, TypeOK
<1>2. TypeOK'
  BY <1>0 DEF StreamInv, TypeOK
<1>3. \A g \in Handler : Ahead(g)' = Ahead(g) /\ (at'[g] = "idle" <=> at[g] = "idle")
                           /\ (at'[g] \in {"lock", "send"} <=> at[g] \in {"lock", "send"})
  BY <1>0, <1>1 DEF Ahead
<1>4. \A g \in Handler, c \in Conn : Owes(g, c)' => Owes(g, c)
  BY <1>0, <1>1 DEF Owes
<1>5. Lineage'
  BY <1>0, <1>3 DEF StreamInv, Lineage
<1>6. Delivery'
  BY <1>0, <1>4 DEF StreamInv, Delivery
<1>7. Orderly'
  BY <1>0, <1>3, <1>4 DEF StreamInv, Orderly
<1> QED
  BY <1>2, <1>5, <1>6, <1>7 DEF StreamInv

LEMMA OfferKeeps ==
  ASSUME StreamInv, NEW h \in Handler, NEW c \in Conn, Offer(h, c)
  PROVE  StreamInv'
<1> DEFINE e == Head(todo[h])
           Left(i, d) == at[i] = "lock" \/ (at[i] = "send" /\ d \in targets'[i])
<1>0. /\ at[h] = "send" /\ c \in targets[h]
      /\ targets' = [targets EXCEPT ![h] = targets[h] \ {c}]
      /\ \/ /\ Len(buffer[c]) < BufferSize
            /\ buffer' = [buffer EXCEPT ![c] = Append(buffer[c], e)]
            /\ dropped' = dropped
         \/ /\ dropped' = [dropped EXCEPT ![c] = dropped[c] \cup {e}]
            /\ buffer' = buffer
      /\ UNCHANGED <<lines, batch, sending, late, at, todo, orphan, store, conn, gone, hub, seen,
                     crashes>>
  BY DEF Offer, Room, LeftAfter, collectorVars
<1>1. /\ e \in Entry /\ e \in ToSet(store) /\ e \in ToSet(todo[h]) /\ Owes(h, c)
      /\ buffer[c] \in Seq(Entry) /\ Len(buffer[c]) \in Nat
  <2>1. e \in Entry /\ e \in ToSet(todo[h])
    BY <1>0, InWork
  <2>2. e \in ToSet(store) /\ Owes(h, c)
    BY <1>0 DEF StreamInv, Lineage, Owes
  <2>3. buffer[c] \in Seq(Entry)
    BY DEF StreamInv, TypeOK
  <2> QED
    BY <2>1, <2>2, <2>3, LenProperties
<1>2. /\ Append(buffer[c], e) \in Seq(Entry)
      /\ ToSet(Append(buffer[c], e)) = ToSet(buffer[c]) \cup {e}
      /\ Len(Append(buffer[c], e)) = Len(buffer[c]) + 1
  BY <1>1, InAppended
<1>3. /\ \A d \in Conn \ {c} : buffer'[d] = buffer[d]
      /\ buffer'[c] = buffer[c] \/ buffer'[c] = Append(buffer[c], e)
  BY <1>0 DEF StreamInv, TypeOK
<1>4. ASSUME NEW g \in Handler, NEW d \in Conn, Left(g, d)
      PROVE  /\ Owes(g, d)
             /\ d = c => e # Head(todo[g])
  <2>1. Owes(g, d) /\ (d = c => g # h)
    BY <1>0, <1>4 DEF StreamInv, TypeOK, Owes
  <2>2. Head(todo[g]) \in ToSet(todo[g])
    BY <2>1, InWork DEF Owes
  <2> QED
    BY <1>1, <2>1, <2>2 DEF StreamInv, Lineage
<1>5. TypeOK'
  <2>1. buffer' \in [Conn -> Seq(Entry)]
    BY <1>0, <1>2 DEF StreamInv, TypeOK
  <2>2. \A d \in Conn : Len(buffer'[d]) <= BufferSize
    <3>1. \A d \in Conn \ {c} : Len(buffer'[d]) <= BufferSize
      BY <1>3 DEF StreamInv, TypeOK
    <3>2. Len(buffer'[c]) <= BufferSize
      <4>1. CASE buffer' = buffer
        BY <4>1 DEF StreamInv, TypeOK
      <4>2. CASE /\ Len(buffer[c]) < BufferSize
                 /\ buffer' = [buffer EXCEPT ![c] = Append(buffer[c], e)]
        <5>1. buffer'[c] = Append(buffer[c], e)
          BY <4>2 DEF StreamInv, TypeOK
        <5> QED
          BY <1>1, <1>2, <4>2, <5>1, SizeAssumption
      <4> QED
        BY <1>0, <4>1, <4>2
    <3> QED
      BY <3>1, <3>2
  <2>3. dropped' \in [Conn -> SUBSET Entry] /\ targets' \in [Handler -> SUBSET Conn]
    <3>1. /\ dropped \in [Conn -> SUBSET Entry] /\ targets \in [Handler -> SUBSET Conn]
          /\ dropped[c] \cup {e} \in SUBSET Entry /\ targets[h] \ {c} \in SUBSET Conn
      BY <1>1 DEF StreamInv, TypeOK
    <3>2. dropped' \in [Conn -> SUBSET Entry]
      BY <1>0, <3>1
    <3> QED
      BY <1>0, <3>1, <3>2
  <2> QED
    BY <1>0, <2>1, <2>2, <2>3 DEF StreamInv, TypeOK
<1>6. Lineage'
  BY <1>0 DEF StreamInv, Lineage, Ahead
<1>7. /\ ToSet(buffer'[c]) \subseteq ToSet(buffer[c]) \cup {e}
      /\ e \notin ToSet(seen[c]) \cup ToSet(buffer[c])
  BY <1>1, <1>2, <1>3 DEF StreamInv, Delivery
<1>8. Distinct(buffer'[c])
  BY <1>1, <1>3, <1>7, StaysSo DEF StreamInv, Delivery
<1>9. Delivery'
  <2>1. ASSUME NEW d \in Conn
        PROVE  /\ Distinct(seen[d]) /\ Distinct(buffer'[d])
               /\ ToSet(seen[d]) \cap ToSet(buffer'[d]) = {}
               /\ ToSet(seen[d]) \cup ToSet(buffer'[d]) \subseteq ToSet(store)
    <3>1. CASE d = c
      BY <1>1, <1>7, <1>8, <3>1 DEF StreamInv, Delivery
    <3>2. CASE d # c
      BY <1>3, <3>2 DEF StreamInv, Delivery
    <3> QED
      BY <3>1, <3>2
  <2>2. ASSUME NEW d \in Conn, NEW g \in Handler, Left(g, d)
        PROVE  Head(todo[g]) \notin ToSet(seen[d]) \cup ToSet(buffer'[d])
    <3>1. Owes(g, d) /\ Head(todo[g]) \notin ToSet(seen[d]) \cup ToSet(buffer[d])
      BY <1>4, <2>2 DEF StreamInv, Delivery
    <3>2. CASE d = c
      BY <1>4, <1>7, <2>2, <3>1, <3>2
    <3>3. CASE d # c
      BY <1>3, <3>1, <3>3
    <3> QED
      BY <3>2, <3>3
  <2> QED
    BY <1>0, <2>1, <2>2 DEF Delivery, Owes
<1>10. Orderly'
  <2> SUFFICES ASSUME ~late PROVE Orderly'
    BY <1>0 DEF Orderly
  <2>1. /\ Ascending(buffer[c]) /\ Before(ToSet(seen[c]), ToSet(buffer[c]))
        /\ Before(ToSet(seen[c]) \cup ToSet(buffer[c]), {e})
        /\ \A g \in Handler \ {h} : at[g] = "idle"
    BY <1>0, <1>1 DEF StreamInv, Orderly
  <2>2. Ascending(buffer'[c])
    BY <1>1, <1>3, <2>1, StaysSo DEF Before
  <2>3. Before(ToSet(seen[c]), ToSet(buffer'[c]))
    BY <1>7, <2>1 DEF Before
  <2>4. \A g \in Handler : ~Left(g, c)
    BY <1>0, <1>4, <2>1 DEF Owes
  <2>5. \A g \in Handler : Ahead(g)' = Ahead(g)
    BY <1>0 DEF Ahead
  <2>6. ASSUME NEW d \in Conn
        PROVE  /\ Ascending(seen[d]) /\ Ascending(buffer'[d])
               /\ Before(ToSet(seen[d]), ToSet(buffer'[d]))
               /\ \A g \in Handler :
                    Left(g, d) => Before(ToSet(seen[d]) \cup ToSet(buffer'[d]), {Head(todo[g])})
    <3>1. CASE d = c
      BY <2>2, <2>3, <2>4, <3>1 DEF StreamInv, Orderly
    <3>2. CASE d # c
      BY <1>3, <1>4, <3>2 DEF StreamInv, Orderly
    <3> QED
      BY <3>1, <3>2
  <2> QED
    BY <1>0, <2>5, <2>6 DEF StreamInv, Orderly, Owes
<1> QED
  BY <1>5, <1>6, <1>9, <1>10 DEF StreamInv
-----------------------------------------------------------------------------
(* The connections, and the end of the server.                              *)

LEMMA ConnectionKeeps ==
  ASSUME StreamInv, NEW c \in Conn, Accept(c) \/ Join(c) \/ ClientGoes(c)
  PROVE  StreamInv'
<1>0. /\ UNCHANGED <<lines, batch, sending, late, at, todo, targets, orphan, store, buffer, seen,
                     dropped, crashes>>
      /\ conn' \in {conn, [conn EXCEPT ![c] = "joining"], [conn EXCEPT ![c] = "open"]}
      /\ hub' \in {hub, hub \cup {c}} /\ gone' \in {gone, gone \cup {c}}
  BY DEF Accept, Join, ClientGoes, collectorVars, ingestVars
<1>1. TypeOK'
  BY <1>0 DEF StreamInv, TypeOK
<1>2. Lineage'
  BY <1>0 DEF StreamInv, Lineage, Ahead
<1>3. Delivery'
  BY <1>0 DEF StreamInv, Delivery, Owes
<1>4. Orderly'
  BY <1>0 DEF StreamInv, Orderly, Ahead, Owes
<1> QED
  BY <1>1, <1>2, <1>3, <1>4 DEF StreamInv

\* An entry leaves the buffer for the client, or for nowhere.
LEMMA DeliverKeeps ==
  ASSUME StreamInv, NEW c \in Conn, Deliver(c)
  PROVE  StreamInv'
<1> DEFINE e == Head(buffer[c])
           next == ToSet(Tail(buffer[c]))
<1>0. /\ buffer[c] # <<>> /\ buffer' = [buffer EXCEPT ![c] = Tail(buffer[c])]
      /\ seen' \in {seen, [seen EXCEPT ![c] = Append(seen[c], e)]}
      /\ conn' \in {conn, [conn EXCEPT ![c] = "leaving"]}
      /\ UNCHANGED <<lines, batch, sending, late, at, todo, targets, orphan, store, gone, hub,
                     dropped, crashes>>
  BY DEF Deliver, collectorVars, ingestVars
<1>1. buffer[c] \in Seq(Entry) /\ seen[c] \in Seq(Entry)
  BY DEF StreamInv, TypeOK
<1>2. /\ e \in Entry /\ Tail(buffer[c]) \in Seq(Entry)
      /\ ToSet(buffer[c]) = {e} \cup next /\ Len(Tail(buffer[c])) = Len(buffer[c]) - 1
  BY <1>0, <1>1, InParts
<1>3. Distinct(Tail(buffer[c])) /\ e \notin next
  BY <1>0, <1>1, TailStaysSo DEF StreamInv, Delivery
<1>4. Append(seen[c], e) \in Seq(Entry) /\ ToSet(Append(seen[c], e)) = ToSet(seen[c]) \cup {e}
  BY <1>1, <1>2, InAppended
<1>5. /\ buffer'[c] = Tail(buffer[c])
      /\ seen'[c] = seen[c] \/ seen'[c] = Append(seen[c], e)
      /\ \A d \in Conn \ {c} : buffer'[d] = buffer[d] /\ seen'[d] = seen[d]
  BY <1>0 DEF StreamInv, TypeOK
<1>6. ToSet(seen'[c]) \subseteq ToSet(seen[c]) \cup {e}
  BY <1>4, <1>5
<1>7. TypeOK'
  <2>1. buffer' \in [Conn -> Seq(Entry)] /\ seen' \in [Conn -> Seq(Entry)]
    BY <1>0, <1>2, <1>4 DEF StreamInv, TypeOK
  <2>2. \A d \in Conn : Len(buffer'[d]) <= BufferSize
    <3>1. Len(buffer[c]) <= BufferSize /\ Len(buffer[c]) \in Nat
      BY <1>1, LenProperties DEF StreamInv, TypeOK
    <3>2. Len(buffer'[c]) <= BufferSize
      BY <1>2, <1>5, <3>1, SizeAssumption
    <3> QED
      BY <1>5, <3>2 DEF StreamInv, TypeOK
  <2>3. conn' \in [Conn -> {"new", "joining", "open", "leaving", "left"}]
    BY <1>0 DEF StreamInv, TypeOK
  <2> QED
    BY <1>0, <2>1, <2>2, <2>3 DEF StreamInv, TypeOK
<1>8. Lineage'
  BY <1>0 DEF StreamInv, Lineage, Ahead
<1>9. Delivery'
  <2>1. Distinct(seen'[c])
    <3>1. Distinct(seen[c]) /\ e \notin ToSet(seen[c])
      BY <1>2 DEF StreamInv, Delivery
    <3>2. Distinct(Append(seen[c], e))
      BY <1>1, <1>2, <3>1, StaysSo
    <3> QED
      BY <1>5, <3>1, <3>2
  <2>2. /\ ToSet(seen'[c]) \cap next = {}
        /\ ToSet(seen'[c]) \cup next \subseteq ToSet(seen[c]) \cup ToSet(buffer[c])
    BY <1>2, <1>3, <1>6 DEF StreamInv, Delivery
  <2>3. ASSUME NEW d \in Conn
        PROVE  /\ Distinct(seen'[d]) /\ Distinct(buffer'[d])
               /\ ToSet(seen'[d]) \cap ToSet(buffer'[d]) = {}
               /\ ToSet(seen'[d]) \cup ToSet(buffer'[d])
                    \subseteq ToSet(seen[d]) \cup ToSet(buffer[d])
    <3>1. CASE d = c
      BY <1>3, <1>5, <2>1, <2>2, <3>1
    <3>2. CASE d # c
      BY <1>5, <3>2 DEF StreamInv, Delivery
    <3> QED
      BY <3>1, <3>2
  <2> QED
    BY <1>0, <2>3 DEF StreamInv, Delivery, Owes
<1>10. Orderly'
  <2> SUFFICES ASSUME ~late PROVE Orderly'
    BY <1>0 DEF Orderly
  <2>1. /\ Ascending(seen[c]) /\ Ascending(buffer[c])
        /\ Before(ToSet(seen[c]), {e} \cup next)
    BY <1>2 DEF StreamInv, Orderly
  <2>2. Ascending(Tail(buffer[c])) /\ Before({e}, next)
    BY <1>0, <1>1, <2>1, TailStaysSo
  <2>3. Ascending(seen'[c])
    <3>1. Ascending(Append(seen[c], e))
      BY <1>1, <1>2, <2>1, StaysSo DEF Before
    <3> QED
      BY <1>5, <2>1, <3>1
  <2>4. Before(ToSet(seen'[c]), next)
    BY <1>6, <2>1, <2>2 DEF Before
  <2>5. ToSet(seen'[c]) \cup next \subseteq ToSet(seen[c]) \cup ToSet(buffer[c])
    BY <1>2, <1>6
  <2>6. ASSUME NEW d \in Conn
        PROVE  /\ Ascending(seen'[d]) /\ Ascending(buffer'[d])
               /\ Before(ToSet(seen'[d]), ToSet(buffer'[d]))
               /\ ToSet(seen'[d]) \cup ToSet(buffer'[d])
                    \subseteq ToSet(seen[d]) \cup ToSet(buffer[d])
    <3>1. CASE d = c
      BY <1>5, <2>2, <2>3, <2>4, <2>5, <3>1
    <3>2. CASE d # c
      BY <1>5, <3>2 DEF StreamInv, Orderly
    <3> QED
      BY <3>1, <3>2
  <2>7. ASSUME NEW d \in Conn, NEW h \in Handler, Owes(h, d)
        PROVE  Before(ToSet(seen'[d]) \cup ToSet(buffer'[d]), {Head(todo[h])})
    BY <2>6, <2>7 DEF StreamInv, Orderly, Before
  <2>8. \A h \in Handler : Ahead(h)' = Ahead(h)
    BY <1>0 DEF Ahead
  <2> QED
    BY <1>0, <2>6, <2>7, <2>8 DEF StreamInv, Orderly, Owes
<1> QED
  BY <1>7, <1>8, <1>9, <1>10 DEF StreamInv

LEMMA LeaveKeeps ==
  ASSUME StreamInv, NEW c \in Conn, Leave(c)
  PROVE  StreamInv'
<1>0. /\ buffer' = [buffer EXCEPT ![c] = <<>>] /\ conn' = [conn EXCEPT ![c] = "left"]
      /\ hub' = hub \ {c}
      /\ UNCHANGED <<lines, batch, sending, late, at, todo, targets, orphan, store, gone, seen,
                     dropped, crashes>>
  BY DEF Leave, collectorVars, ingestVars
<1>1. buffer'[c] = <<>> /\ \A d \in Conn \ {c} : buffer'[d] = buffer[d]
  BY <1>0 DEF StreamInv, TypeOK
<1>2. TypeOK'
  <2>1. buffer' \in [Conn -> Seq(Entry)]
    BY <1>0 DEF StreamInv, TypeOK
  <2>2. \A d \in Conn : Len(buffer'[d]) <= BufferSize
    <3>1. Len(buffer'[c]) <= BufferSize
      BY <1>1, SizeAssumption
    <3> QED
      BY <1>1, <3>1 DEF StreamInv, TypeOK
  <2> QED
    BY <1>0, <2>1, <2>2 DEF StreamInv, TypeOK
<1>3. Lineage'
  BY <1>0 DEF StreamInv, Lineage, Ahead
<1>4. \A d \in Conn :
        buffer'[d] = buffer[d] \/ (buffer'[d] = <<>> /\ ToSet(buffer'[d]) = {})
  BY <1>1, NothingIn
<1>5. Delivery'
  BY <1>0, <1>4, NothingIn DEF StreamInv, Delivery, Owes
<1>6. Orderly'
  BY <1>0, <1>4, NothingIn DEF StreamInv, Orderly, Owes, Ahead, Before
<1> QED
  BY <1>2, <1>3, <1>5, <1>6 DEF StreamInv

LEMMA CrashKeeps == StreamInv /\ Crash => StreamInv'
<1> SUFFICES ASSUME StreamInv, Crash PROVE StreamInv'
  OBVIOUS
<1>0. /\ crashes < MaxCrashes /\ crashes' = crashes + 1
      /\ sending' = Nobody /\ at' = [h \in Handler |-> "idle"]
      /\ todo' = [h \in Handler |-> <<>>] /\ targets' = [h \in Handler |-> {}]
      /\ orphan' = {} /\ hub' = {} /\ buffer' = [c \in Conn |-> <<>>]
      /\ conn' = [c \in Conn |-> IF conn[c] = "new" THEN "new" ELSE "left"]
      /\ UNCHANGED <<lines, batch, late, store, gone, seen, dropped>>
  BY DEF Crash
<1>1. TypeOK'
  <2>1. crashes' \in 0..MaxCrashes
    BY <1>0, BoundAssumption DEF StreamInv, TypeOK
  <2>2. buffer' \in [Conn -> Seq(Entry)] /\ todo' \in [Handler -> Seq(Entry)]
    BY <1>0
  <2>3. \A c \in Conn : Len(buffer'[c]) <= BufferSize
    BY <1>0, SizeAssumption
  <2> QED
    BY <1>0, <2>1, <2>2, <2>3 DEF StreamInv, TypeOK
<1>2. \A h \in Handler : at'[h] = "idle" /\ todo'[h] = <<>> /\ Ahead(h)' = {}
  BY <1>0, NothingIn DEF Ahead
<1>3. \A c \in Conn : buffer'[c] = <<>> /\ ToSet(buffer'[c]) = {}
  BY <1>0, NothingIn
<1>4. Lineage'
  BY <1>0, <1>2, NothingIn DEF StreamInv, Lineage
<1>5. Delivery'
  BY <1>0, <1>2, <1>3, NothingIn DEF StreamInv, Delivery, Owes
<1>6. Orderly'
  BY <1>0, <1>2, <1>3, NothingIn DEF StreamInv, Orderly, Owes, Before
<1> QED
  BY <1>1, <1>4, <1>5, <1>6 DEF StreamInv

LEMMA NextKeepsStream == StreamInv /\ [Next]_vars => StreamInv'
<1> SUFFICES ASSUME StreamInv, [Next]_vars PROVE StreamInv'
  OBVIOUS
<1>1. CASE UNCHANGED vars
  BY <1>1 DEF StreamInv, TypeOK, Lineage, Delivery, Orderly, Ahead, Owes, vars, collectorVars,
              ingestVars, connVars
<1>2. CASE Next
  BY <1>2, ReadLineKeeps, SendFailsKeeps, GiveUpKeeps, SendBatchKeeps, ContextEndsKeeps,
     AppendEntryKeeps, StartBroadcastKeeps, EndBroadcastKeeps, OfferKeeps, ConnectionKeeps,
     DeliverKeeps, LeaveKeeps, CrashKeeps
     DEF Next, IngestStep
<1> QED
  BY <1>1, <1>2

LEMMA StreamInvariant == Spec => []StreamInv
  BY InitStream, NextKeepsStream, PTL DEF Spec

\* Every variable keeps its type: no batch and no buffer grows beyond its size, and
\* no handler looks for an entry it does not have.
THEOREM StreamTypeCorrect == Spec => []TypeOK
<1>1. StreamInv => TypeOK
  BY DEF StreamInv
<1> QED
  BY <1>1, StreamInvariant, PTL

\* As long as the collector gives up on no handler, lines are stored and reach
\* every client in the order it read them.
THEOREM OrderIsRead == Spec => []LinesInOrder
<1>1. StreamInv => LinesInOrder
  BY DEF StreamInv, Orderly, LinesInOrder
<1> QED
  BY <1>1, StreamInvariant, PTL
-----------------------------------------------------------------------------
(* The store and the clients keep a log book.                               *)

LEMMA WritesDown ==
  ASSUME StreamInv, NEW h \in Handler, AppendEntry(h)
  PROVE  [Book!BookNext]_<<store, seen>>
<1>1. /\ at[h] = "append" /\ seen' = seen
      /\ store' = store \/ store' = Append(store, Head(todo[h]))
  BY DEF AppendEntry, connVars
<1>2. Head(todo[h]) \in Entry /\ Head(todo[h]) \notin ToSet(store)
  <2>1. Head(todo[h]) \in Entry /\ Head(todo[h]) \in Ahead(h)
    BY <1>1, InWork
  <2> QED
    BY <2>1 DEF StreamInv, Lineage
<1>3. CASE store' = Append(store, Head(todo[h]))
  BY <1>1, <1>2, <1>3 DEF Book!BookNext, Book!WriteDown, Book!ToSet, ToSet
<1> QED
  BY <1>1, <1>3

LEMMA Shows ==
  ASSUME StreamInv, NEW c \in Conn, Deliver(c)
  PROVE  [Book!BookNext]_<<store, seen>>
<1> DEFINE e == Head(buffer[c])
<1>1. /\ buffer[c] # <<>> /\ store' = store
      /\ seen' = seen \/ seen' = [seen EXCEPT ![c] = Append(seen[c], e)]
  BY DEF Deliver
<1>2. e \in Entry /\ e \in ToSet(buffer[c])
  <2>1. buffer[c] \in Seq(Entry)
    BY DEF StreamInv, TypeOK
  <2> QED
    BY <1>1, <2>1, InParts
<1>3. e \in ToSet(store) \ ToSet(seen[c])
  <2>1. /\ ToSet(seen[c]) \cap ToSet(buffer[c]) = {}
        /\ ToSet(buffer[c]) \subseteq ToSet(store)
    BY DEF StreamInv, Delivery
  <2> QED
    BY <1>2, <2>1
<1>4. CASE seen' = [seen EXCEPT ![c] = Append(seen[c], e)]
  BY <1>1, <1>2, <1>3, <1>4 DEF Book!BookNext, Book!Show, Book!ToSet, ToSet
<1> QED
  BY <1>1, <1>4

LEMMA StepBook == StreamInv /\ [Next]_vars => [Book!BookNext]_(Book!bookVars)
<1> SUFFICES ASSUME StreamInv, [Next]_vars PROVE [Book!BookNext]_<<store, seen>>
  BY DEF Book!bookVars
<1>1. CASE UNCHANGED vars
  BY <1>1 DEF vars, connVars
<1>2. CASE Next
  <2>1. CASE \E h \in Handler : AppendEntry(h)
    BY <2>1, WritesDown
  <2>2. CASE \E c \in Conn : Deliver(c)
    BY <2>2, Shows
  <2>3. CASE \/ ReadLine \/ SendFails \/ GiveUp \/ Crash
             \/ \E h \in Handler :
                  \/ SendBatch(h) \/ ContextEnds(h) \/ StartBroadcast(h) \/ EndBroadcast(h)
                  \/ \E c \in Conn : Offer(h, c)
             \/ \E c \in Conn : Accept(c) \/ Join(c) \/ ClientGoes(c) \/ Leave(c)
    BY <2>3 DEF ReadLine, SendFails, GiveUp, Crash, SendBatch, ContextEnds, StartBroadcast,
                EndBroadcast, Offer, Accept, Join, ClientGoes, Leave, connVars
  <2> QED
    BY <1>2, <2>1, <2>2, <2>3 DEF Next, IngestStep
<1> QED
  BY <1>1, <1>2

\* What is stored and what clients receive is a log book, whatever fails,
\* overtakes or restarts: stored before shown, and nothing twice.
THEOREM StreamIsLogBook == Spec => ImplementsLogBook
<1>1. Init => Book!BookInit
  BY DEF Init, Book!BookInit
<1> QED
  BY <1>1, StepBook, StreamInvariant, PTL DEF Spec, ImplementsLogBook, Book!BookSpec
-----------------------------------------------------------------------------
(* Nothing that was acknowledged is mislaid.                                *)

\* The steps of the collector and of a handler that do not offer anything: they
\* move one handler at most, and that one owes nobody an entry.
LEMMA MovesOne ==
  ASSUME StreamInv,
         \/ ReadLine \/ SendFails \/ GiveUp
         \/ \E h \in Handler :
              SendBatch(h) \/ ContextEnds(h) \/ AppendEntry(h) \/ EndBroadcast(h)
  PROVE  /\ UNCHANGED <<targets, connVars>>
         /\ \A h \in Handler :
              \/ at'[h] = at[h] /\ todo'[h] = todo[h]
              \/ at'[h] # "send" /\ \A c \in Conn : ~Owes(h, c)
<1>1. CASE ReadLine \/ SendFails \/ GiveUp
  BY <1>1 DEF ReadLine, SendFails, GiveUp, ingestVars, connVars
<1>2. ASSUME NEW h \in Handler,
             SendBatch(h) \/ ContextEnds(h) \/ AppendEntry(h) \/ EndBroadcast(h)
      PROVE  /\ UNCHANGED <<targets, connVars>>
             /\ \A c \in Conn : ~Owes(h, c)
             /\ \E stage \in {"idle", "append", "lock"} : at' = [at EXCEPT ![h] = stage]
             /\ todo' = todo \/ \E rest : todo' = [todo EXCEPT ![h] = rest]
  <2>1. CASE SendBatch(h)
    BY <2>1 DEF SendBatch, Owes, connVars
  <2>2. CASE ContextEnds(h)
    BY <2>2 DEF ContextEnds, GoOn, Owes, connVars
  <2>3. CASE AppendEntry(h)
    BY <2>3 DEF AppendEntry, GoOn, Owes, connVars
  <2>4. CASE EndBroadcast(h)
    BY <2>4 DEF EndBroadcast, GoOn, Owes, connVars
  <2> QED
    BY <1>2, <2>1, <2>2, <2>3, <2>4
<1>3. ASSUME NEW h \in Handler,
             SendBatch(h) \/ ContextEnds(h) \/ AppendEntry(h) \/ EndBroadcast(h)
      PROVE  \A g \in Handler :
               \/ at'[g] = at[g] /\ todo'[g] = todo[g]
               \/ at'[g] # "send" /\ \A c \in Conn : ~Owes(g, c)
  <2>1. PICK stage \in {"idle", "append", "lock"} : at' = [at EXCEPT ![h] = stage]
    BY <1>2, <1>3
  <2>2. todo' = todo \/ \E rest : todo' = [todo EXCEPT ![h] = rest]
    BY <1>2, <1>3
  <2>3. at'[h] # "send" /\ \A g \in Handler \ {h} : at'[g] = at[g] /\ todo'[g] = todo[g]
    BY <2>1, <2>2 DEF StreamInv, TypeOK
  <2>4. \A c \in Conn : ~Owes(h, c)
    BY <1>2, <1>3
  <2> QED
    BY <2>3, <2>4
<1> QED
  BY <1>1, <1>2, <1>3

\* What an offer does, and what a broadcast begins with.
LEMMA OffersOne ==
  ASSUME StreamInv, NEW h \in Handler, NEW c \in Conn, Offer(h, c)
  PROVE  /\ UNCHANGED <<at, todo, conn, gone, hub, seen>>
         /\ at[h] = "send" /\ c \in targets[h]
         /\ targets' = [targets EXCEPT ![h] = targets[h] \ {c}]
         /\ \A d \in Conn :
              /\ d # c => buffer'[d] = buffer[d]
              /\ ToSet(buffer[d]) \subseteq ToSet(buffer'[d]) /\ dropped[d] \subseteq dropped'[d]
         /\ Head(todo[h]) \in ToSet(buffer'[c]) \cup dropped'[c]
<1> DEFINE e == Head(todo[h])
<1>1. /\ at[h] = "send" /\ c \in targets[h]
      /\ targets' = [targets EXCEPT ![h] = targets[h] \ {c}]
      /\ UNCHANGED <<at, todo, conn, gone, hub, seen>>
      /\ \/ buffer' = [buffer EXCEPT ![c] = Append(buffer[c], e)] /\ dropped' = dropped
         \/ buffer' = buffer /\ dropped' = [dropped EXCEPT ![c] = dropped[c] \cup {e}]
  BY DEF Offer, LeftAfter
<1>2. e \in Entry /\ buffer[c] \in Seq(Entry)
  BY <1>1, InWork DEF StreamInv, TypeOK
<1> HIDE DEF e
<1>3. ToSet(Append(buffer[c], e)) = ToSet(buffer[c]) \cup {e}
  BY <1>2, InAppended
<1> DEFINE Offered(d) ==
             /\ d # c => buffer'[d] = buffer[d]
             /\ ToSet(buffer[d]) \subseteq ToSet(buffer'[d]) /\ dropped[d] \subseteq dropped'[d]
             /\ d = c => e \in ToSet(buffer'[d]) \cup dropped'[d]
<1>4. ASSUME NEW d \in Conn PROVE Offered(d)
  <2>1. CASE buffer' = [buffer EXCEPT ![c] = Append(buffer[c], e)] /\ dropped' = dropped
    <3>1. buffer'[d] = IF d = c THEN Append(buffer[c], e) ELSE buffer[d]
      BY <2>1 DEF StreamInv, TypeOK
    <3>2. ToSet(buffer'[d]) = IF d = c THEN ToSet(buffer[c]) \cup {e} ELSE ToSet(buffer[d])
      BY <1>3, <3>1
    <3> QED
      BY <2>1, <3>1, <3>2
  <2>2. CASE buffer' = buffer /\ dropped' = [dropped EXCEPT ![c] = dropped[c] \cup {e}]
    BY <2>2 DEF StreamInv, TypeOK
  <2> QED
    BY <1>1, <2>1, <2>2
<1> QED
  BY <1>1, <1>4 DEF e

LEMMA BeginsOne ==
  ASSUME StreamInv, NEW h \in Handler, StartBroadcast(h)
  PROVE  /\ at[h] = "lock" /\ at'[h] = "send" /\ targets'[h] = hub
         /\ \A g \in Handler \ {h} : at'[g] = at[g] /\ targets'[g] = targets[g]
         /\ UNCHANGED <<todo, connVars>>
  BY DEF StartBroadcast, StreamInv, TypeOK

LEMMA InitHub == Init => HubKnows
  BY DEF Init, HubKnows

LEMMA NextKeepsHub == StreamInv /\ HubKnows /\ [Next]_vars => HubKnows'
<1> SUFFICES ASSUME StreamInv, HubKnows, [Next]_vars PROVE HubKnows'
  OBVIOUS
<1>1. CASE UNCHANGED vars
  BY <1>1 DEF HubKnows, vars, ingestVars, connVars
<1>2. CASE \/ ReadLine \/ SendFails \/ GiveUp
           \/ \E h \in Handler :
                SendBatch(h) \/ ContextEnds(h) \/ AppendEntry(h) \/ EndBroadcast(h)
  <2>1. UNCHANGED <<targets, connVars>> /\ \A h \in Handler : at'[h] = "send" => at[h] = "send"
    BY <1>2, MovesOne
  <2> QED
    BY <2>1 DEF HubKnows, connVars
<1>3. ASSUME NEW h \in Handler, StartBroadcast(h) PROVE HubKnows'
  BY <1>3, BeginsOne DEF HubKnows, connVars
<1>4. ASSUME NEW h \in Handler, NEW c \in Conn, Offer(h, c) PROVE HubKnows'
  <2>1. /\ UNCHANGED <<at, conn, hub>> /\ at[h] = "send" /\ c \in targets[h]
        /\ targets' = [targets EXCEPT ![h] = targets[h] \ {c}]
        /\ \A d \in Conn : d # c => buffer'[d] = buffer[d]
    BY <1>4, OffersOne
  <2>2. c \in hub
    BY <2>1 DEF HubKnows
  <2>3. \A g \in Handler : targets'[g] \subseteq targets[g]
    BY <2>1 DEF StreamInv, TypeOK
  <2> QED
    BY <2>1, <2>2, <2>3 DEF HubKnows
<1>5. ASSUME NEW c \in Conn, Accept(c) \/ Join(c) \/ ClientGoes(c) PROVE HubKnows'
  <2>1. /\ UNCHANGED <<at, targets, buffer>> /\ hub \subseteq hub'
        /\ \A d \in Conn : d \in hub' => conn'[d] \in {"open", "leaving"}
    BY <1>5 DEF Accept, Join, ClientGoes, ingestVars, HubKnows, StreamInv, TypeOK
  <2> QED
    BY <2>1 DEF HubKnows
<1>6. ASSUME NEW c \in Conn, Deliver(c) PROVE HubKnows'
  <2>1. /\ UNCHANGED <<at, targets, hub>> /\ buffer[c] # <<>>
        /\ \A d \in Conn \ {c} : buffer'[d] = buffer[d] /\ conn'[d] = conn[d]
        /\ conn[c] = "open" /\ conn'[c] \in {"open", "leaving"}
    BY <1>6 DEF Deliver, ingestVars, StreamInv, TypeOK
  <2> QED
    BY <2>1 DEF HubKnows
<1>7. ASSUME NEW c \in Conn, Leave(c) PROVE HubKnows'
  <2>1. /\ UNCHANGED <<at, targets>> /\ hub' = hub \ {c}
        /\ buffer'[c] = <<>>
        /\ \A d \in Conn \ {c} : buffer'[d] = buffer[d] /\ conn'[d] = conn[d]
        /\ \A h \in Handler : at[h] # "send"
    BY <1>7 DEF Leave, Unlocked, ingestVars, StreamInv, TypeOK
  <2> QED
    BY <2>1 DEF HubKnows
<1>8. CASE Crash
  BY <1>8 DEF Crash, HubKnows
<1> QED
  BY <1>1, <1>2, <1>3, <1>4, <1>5, <1>6, <1>7, <1>8 DEF Next, IngestStep

\* What is on its way to a connection comes into its buffer, is dropped at it, or
\* stays on its way.
LEMMA HandlersKeep ==
  ASSUME StreamInv, HubKnows, NEW c \in Conn, NEW e \in Entry, Kept(c, e),
         \/ ReadLine \/ SendFails \/ GiveUp
         \/ \E h \in Handler : SendBatch(h) \/ ContextEnds(h) \/ IngestStep(h)
  PROVE  Kept(c, e)'
<1>1. CASE \/ ReadLine \/ SendFails \/ GiveUp
           \/ \E h \in Handler :
                SendBatch(h) \/ ContextEnds(h) \/ AppendEntry(h) \/ EndBroadcast(h)
  <2>1. /\ UNCHANGED <<targets, connVars>>
        /\ \A h \in Handler : Owes(h, c) => at'[h] = at[h] /\ todo'[h] = todo[h]
    BY <1>1, MovesOne
  <2>2. OnItsWay(c, e) => OnItsWay(c, e)'
    BY <2>1 DEF OnItsWay, Owes, connVars
  <2> QED
    BY <2>1, <2>2 DEF Kept, Through, connVars
<1>2. ASSUME NEW h \in Handler, StartBroadcast(h) PROVE Kept(c, e)'
  <2>1. OnItsWay(c, e) => OnItsWay(c, e)'
    BY <1>2, BeginsOne DEF OnItsWay, connVars
  <2>2. UNCHANGED connVars
    BY <1>2, BeginsOne
  <2> QED
    BY <2>1, <2>2 DEF Kept, Through, connVars
<1>3. ASSUME NEW h \in Handler, NEW d \in Conn, Offer(h, d) PROVE Kept(c, e)'
  <2>1. /\ UNCHANGED <<at, todo, conn, gone, hub, seen>>
        /\ targets' = [targets EXCEPT ![h] = targets[h] \ {d}]
        /\ ToSet(buffer[c]) \subseteq ToSet(buffer'[c]) /\ dropped[c] \subseteq dropped'[c]
        /\ Head(todo[h]) \in ToSet(buffer'[d]) \cup dropped'[d]
    BY <1>3, OffersOne
  <2>2. CASE OnItsWay(c, e)
    <3>1. PICK g \in Handler : Owes(g, c) /\ Head(todo[g]) = e
      BY <2>2 DEF OnItsWay, Owes
    <3>2. CASE g = h /\ c = d
      BY <2>1, <3>1, <3>2 DEF Kept, Through
    <3>3. CASE ~(g = h /\ c = d)
      <4>1. Owes(g, c)'
        BY <2>1, <3>1, <3>3 DEF Owes, StreamInv, TypeOK
      <4>2. c \in hub'
        BY <2>1, <2>2 DEF OnItsWay
      <4> QED
        BY <2>1, <3>1, <4>1, <4>2 DEF Kept, OnItsWay, Owes
    <3> QED
      BY <3>2, <3>3
  <2>3. CASE e \in ToSet(buffer[c]) \/ Through(c, e)
    BY <2>1, <2>3 DEF Kept, Through
  <2> QED
    BY <2>2, <2>3 DEF Kept
<1> QED
  BY <1>1, <1>2, <1>3 DEF IngestStep

\* What is in a buffer reaches the client, unless the connection ends.
LEMMA ConnectionsKeep ==
  ASSUME StreamInv, HubKnows, NEW c \in Conn, NEW e \in Entry, Kept(c, e),
         \/ \E d \in Conn : Accept(d) \/ Join(d) \/ ClientGoes(d) \/ Deliver(d) \/ Leave(d)
         \/ Crash
  PROVE  Kept(c, e)'
<1>1. ASSUME NEW d \in Conn, Accept(d) \/ Join(d) \/ ClientGoes(d) PROVE Kept(c, e)'
  <2>1. /\ UNCHANGED <<ingestVars, buffer, seen, dropped>> /\ hub \subseteq hub'
        /\ gone \subseteq gone'
        /\ conn[c] \in {"leaving", "left"} => conn'[c] = conn[c]
    BY <1>1 DEF Accept, Join, ClientGoes, StreamInv, TypeOK
  <2>2. OnItsWay(c, e) => OnItsWay(c, e)'
    BY <2>1 DEF OnItsWay, ingestVars
  <2> QED
    BY <2>1, <2>2 DEF Kept, Through
<1>2. ASSUME NEW d \in Conn, Deliver(d) PROVE Kept(c, e)'
  <2> DEFINE x == Head(buffer[d])
  <2>0. /\ UNCHANGED <<ingestVars, hub, gone, dropped>>
        /\ conn[d] = "open" /\ buffer[d] # <<>>
        /\ buffer' = [buffer EXCEPT ![d] = Tail(buffer[d])]
        /\ \/ seen' = [seen EXCEPT ![d] = Append(seen[d], x)] /\ conn' = conn
           \/ d \in gone /\ seen' = seen /\ conn' \in {conn, [conn EXCEPT ![d] = "leaving"]}
    BY <1>2 DEF Deliver
  <2>1. /\ buffer[d] \in Seq(Entry) /\ seen[d] \in Seq(Entry)
        /\ x \in Entry /\ ToSet(buffer[d]) = {x} \cup ToSet(Tail(buffer[d]))
    BY <2>0, InParts DEF StreamInv, TypeOK
  <2>2. ToSet(Append(seen[d], x)) = ToSet(seen[d]) \cup {x}
    BY <2>1, InAppended
  <2>3. OnItsWay(c, e) => OnItsWay(c, e)'
    BY <2>0 DEF OnItsWay, ingestVars
  <2>4. ToSet(seen[c]) \subseteq ToSet(seen'[c])
    BY <2>0, <2>2 DEF StreamInv, TypeOK
  <2>5. e \in ToSet(buffer[c]) =>
          e \in ToSet(buffer'[c]) \cup ToSet(seen'[c]) \/ c \in gone
    BY <2>0, <2>1, <2>2 DEF StreamInv, TypeOK
  <2>6. conn[c] \in {"leaving", "left"} => conn'[c] \in {"leaving", "left"}
    BY <2>0 DEF StreamInv, TypeOK
  <2> QED
    BY <2>0, <2>3, <2>4, <2>5, <2>6 DEF Kept, Through
<1>3. ASSUME NEW d \in Conn, Leave(d) PROVE Kept(c, e)'
  <2>1. /\ UNCHANGED <<ingestVars, gone, seen, dropped>> /\ hub' = hub \ {d}
        /\ buffer' = [buffer EXCEPT ![d] = <<>>] /\ conn' = [conn EXCEPT ![d] = "left"]
    BY <1>3 DEF Leave
  <2>2. CASE c = d
    BY <2>1, <2>2 DEF Kept, Through, StreamInv, TypeOK
  <2>3. CASE c # d
    <3>1. OnItsWay(c, e) => OnItsWay(c, e)'
      BY <2>1, <2>3 DEF OnItsWay, ingestVars
    <3>2. buffer'[c] = buffer[c] /\ conn'[c] = conn[c]
      BY <2>1, <2>3 DEF StreamInv, TypeOK
    <3> QED
      BY <2>1, <3>1, <3>2 DEF Kept, Through
  <2> QED
    BY <2>2, <2>3
<1>4. ASSUME Crash PROVE Kept(c, e)'
  <2>1. /\ UNCHANGED <<gone, seen, dropped>>
        /\ conn'[c] = IF conn[c] = "new" THEN "new" ELSE "left"
    BY <1>4 DEF Crash
  <2>2. ToSet(<<>>) = {}
    BY NothingIn
  <2>3. OnItsWay(c, e) \/ e \in ToSet(buffer[c]) => conn[c] # "new"
    BY <2>2 DEF OnItsWay, HubKnows
  <2> QED
    BY <2>1, <2>3 DEF Kept, Through
<1> QED
  BY <1>1, <1>2, <1>3, <1>4

\* An entry that Mongo acknowledged while a connection was in the hub is on its way
\* there, in its buffer or shown, until it finds that buffer full or the connection
\* ends: whatever other connections, handlers and the collector do.
THEOREM NothingMislaid ==
  ASSUME NEW c \in Conn, NEW e \in Entry
  PROVE  Spec => [](OnItsWay(c, e) => []Kept(c, e))
<1>1. Spec => [](StreamInv /\ HubKnows)
  BY StreamInvariant, InitHub, NextKeepsHub, PTL DEF Spec
<1>2. OnItsWay(c, e) => Kept(c, e)
  BY DEF Kept
<1>3. StreamInv /\ HubKnows /\ Kept(c, e) /\ [Next]_vars => Kept(c, e)'
  <2> SUFFICES ASSUME StreamInv, HubKnows, Kept(c, e), [Next]_vars PROVE Kept(c, e)'
    OBVIOUS
  <2>1. CASE UNCHANGED vars
    BY <2>1 DEF Kept, OnItsWay, Through, vars, ingestVars, connVars
  <2>2. CASE Next
    BY <2>2, HandlersKeep, ConnectionsKeep DEF Next
  <2> QED
    BY <2>1, <2>2
<1> QED
  BY <1>1, <1>2, <1>3, PTL DEF Spec

\* The hub knows the connections that are open, and no others are offered entries.
THEOREM HubKnowsOpen == Spec => []HubKnows
  BY StreamInvariant, InitHub, NextKeepsHub, PTL DEF Spec
=============================================================================
