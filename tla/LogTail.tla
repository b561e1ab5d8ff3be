------------------------------- MODULE LogTail -------------------------------
(***************************************************************************)
(* The poll of pod logs: every five seconds the server reads the last      *)
(* lines of the first pod of a service, compares them with those of the    *)
(* poll before, and appends what it takes for new to the log store.        *)
(*                                                                         *)
(* The code compares texts. The model knows every line by its pod and its  *)
(* place in that pod's output as well, so that it can say which line the   *)
(* store holds.                                                            *)
(***************************************************************************)
EXTENDS Naturals, Sequences, FiniteSetsExt, SequencesExt

CONSTANTS
  Pod,          \* pods of the service; a restarted container counts as a new pod
  NoPod,        \* the API server lists no pod
  Line, Blank,  \* texts of lines; a blank one is dropped
  TailLines,    \* how many lines a poll asks for: 50 in the code
  MaxOutput,    \* bound on the lines that all pods print
  MaxRestarts,  \* bound on the restarts of the server
  ComesBack     \* may a pod be listed first again after another one was

ASSUME TailAssumption == TailLines \in Nat \ {0}
ASSUME BoundAssumption == MaxOutput \in Nat /\ MaxRestarts \in Nat
ASSUME NameAssumption == NoPod \notin Pod /\ Blank \notin Line /\ ComesBack \in BOOLEAN

VARIABLES
  output,    \* output[p]: the lines pod p has printed
  first,     \* the pod the API server lists first
  former,    \* pods that were listed first before it
  snapshot,  \* lastSnapshot of the service; empty before the first poll
  pending,   \* the new lines that the poll has still to append
  stored,    \* the lines the store took, in their order
  restarts   \* restarts so far

vars == <<output, first, former, snapshot, pending, stored, restarts>>

Place == Pod \X (Nat \ {0})

Text(place) == output[place[1]][place[2]]
Texts(places) == [i \in DOMAIN places |-> Text(places[i])]

TypeOK ==
  /\ output \in [Pod -> Seq(Line \cup {Blank})]
  /\ first \in Pod \cup {NoPod}
  /\ former \subseteq Pod
  /\ snapshot \in Seq(Place) /\ Len(snapshot) <= TailLines
  /\ pending \in Seq(Place) /\ Len(pending) < TailLines
  /\ stored \in Seq(Place)
  /\ restarts \in 0..MaxRestarts

Init ==
  /\ output = [p \in Pod |-> <<>>]
  /\ first = NoPod
  /\ former = {}
  /\ snapshot = <<>>
  /\ pending = <<>>
  /\ stored = <<>>
  /\ restarts = 0
-----------------------------------------------------------------------------
(* The cluster.                                                             *)

Emit(p) ==
  /\ MapThenSumSet(LAMBDA q : Len(output[q]), Pod) < MaxOutput
  /\ \E line \in Line \cup {Blank} : output' = [output EXCEPT ![p] = Append(@, line)]
  /\ UNCHANGED <<first, former, snapshot, pending, stored, restarts>>

\* A pod is created, replaced or deleted; pods are listed by name, whatever
\* their age.
PodsChange(p) ==
  /\ p # first
  /\ p \in former => ComesBack
  /\ first' = p
  /\ former' = IF first = NoPod THEN former ELSE former \cup {first}
  /\ UNCHANGED <<output, snapshot, pending, stored, restarts>>
-----------------------------------------------------------------------------
(* The poll.                                                                *)

\* GetPodLogs: the last lines of a pod.
WholeLog(p) == DOMAIN output[p]
PodLogs(p) == {i \in DOMAIN output[p] : i + TailLines > Len(output[p])}

\* Some lines of a pod in the order it printed them.
Nth(set, n) == CHOOSE i \in set : Cardinality({j \in set : j <= i}) = n
InOrder(p, set) == [n \in 1..Cardinality(set) |-> <<p, Nth(set, n)>>]

\* normalizeLines: blank ones are dropped.
Visible(p) == InOrder(p, {i \in PodLogs(p) : Text(<<p, i>>) # Blank})

\* The overlaps diffNewTail tries: a suffix of prev that reads like a prefix
\* of curr. It takes the longest.
ReadsLike(prev, curr, k) ==
  SubSeq(Texts(prev), Len(prev) - k + 1, Len(prev)) = SubSeq(Texts(curr), 1, k)

Overlaps(prev, curr) ==
  {k \in 1..Min({Len(prev), Len(curr)}) : ReadsLike(prev, curr, k)}

ShortestOverlap(prev, curr) == Min(Overlaps(prev, curr) \cup {Len(prev) + Len(curr)})
ProperOverlap(prev, curr) == Max((Overlaps(prev, curr) \ {Len(prev)}) \cup {0})
Overlap(prev, curr) == Max(Overlaps(prev, curr) \cup {0})

\* Without an overlap the tail is taken for another pod's and nothing is new.
DiffNewTail(prev, curr) ==
  LET k == Overlap(prev, curr)
  IN  IF k = 0 THEN <<>> ELSE SubSeq(curr, k + 1, Len(curr))

\* One goroutine polls, so a poll starts when the last one has appended its
\* lines. The first poll of a process only takes the snapshot. A poll that fails
\* or reads nothing but blank lines changes nothing.
PollServiceLogs ==
  /\ pending = <<>>
  /\ first # NoPod
  /\ Visible(first) # <<>>
  /\ snapshot' = Visible(first)
  /\ pending' = DiffNewTail(snapshot, Visible(first))
  /\ UNCHANGED <<output, first, former, stored, restarts>>

\* A line whose Append fails is passed over: its snapshot is already taken.
AppendLine ==
  /\ pending # <<>>
  /\ \E took \in BOOLEAN : stored' = IF took THEN Append(stored, Head(pending)) ELSE stored
  /\ pending' = Tail(pending)
  /\ UNCHANGED <<output, first, former, snapshot, restarts>>

Restart ==
  /\ restarts < MaxRestarts
  /\ restarts' = restarts + 1
  /\ snapshot' = <<>>
  /\ pending' = <<>>
  /\ UNCHANGED <<output, first, former, stored>>
-----------------------------------------------------------------------------
Next ==
  \/ \E p \in Pod : Emit(p)
  \/ \E p \in Pod \cup {NoPod} : PodsChange(p)
  \/ PollServiceLogs
  \/ AppendLine
  \/ Restart

Spec == Init /\ [][Next]_vars
-----------------------------------------------------------------------------
(* Properties.                                                              *)

\* A pod's lines are stored in the order it printed them, none of them twice,
\* and never again once lines of its successor are: however often texts repeat,
\* the longest overlap may take new lines for old but never old ones for new.
\* It rests on no pod coming back.
StoredInOrder ==
  \A i, j \in DOMAIN stored : i < j =>
    \/ stored[i][1] = stored[j][1] /\ stored[i][2] < stored[j][2]
    \/ /\ stored[i][1] # stored[j][1]
       /\ \A k \in j..Len(stored) : stored[k][1] # stored[i][1]

\* Between two polls of one pod whose tails share a line, and in whose tails no
\* text repeats, exactly the lines printed in between are taken for new.
ExactTail ==
  [][LET shared == ToSet(snapshot) \cap ToSet(snapshot')
         tails == ToSet(snapshot) \cup ToSet(snapshot')
         distinct == \A x, y \in tails : Text(x)' = Text(y)' => x = y
     IN  snapshot' # snapshot /\ shared # {} /\ distinct =>
           /\ IsSuffix(pending', snapshot')
           /\ ToSet(pending') = ToSet(snapshot') \ ToSet(snapshot)]_vars

\* handler.go:425-427: when the tail is another pod's it is better to send
\* nothing than to send the whole tail once more: no line is stored twice.
NoTailTwice == \A i, j \in DOMAIN stored : stored[i] = stored[j] => i = j
=============================================================================
